---------------------------- MODULE RemoteWorkers ----------------------------
(***************************************************************************)
(* The models that the API calls over the network: the OCR worker and the  *)
(* embedding worker with their queue for the one accelerator, and the      *)
(* language model behind its provider; the three clients with their        *)
(* timeouts, retries and the escalation to a larger model; and the         *)
(* registry that probes the workers and shows the state of all three.      *)
(*                                                                         *)
(* An answer may be late, lost or of a worker that was replaced meanwhile. *)
(* A request whose client has given up stays in the worker's queue.  What  *)
(* an image, a text or a vector says is left out, and what the clients     *)
(* check of their own input before the first request.                      *)
(***************************************************************************)
EXTENDS Naturals, FiniteSets

CONSTANTS
    Calls,          \* each is made once
    Workers,        \* "ocr" and "embedding"
    MaxRetries,     \* kind of model -> retries of a call
    None

Kinds == Workers \cup {"deepseek"}

VARIABLES
    calls,          \* what each caller waits for
    requests,       \* requests that a server or the network still has
    serving,        \* worker -> the revision of the model it runs; None when it is down
    status,         \* the registry: kind -> state
    fresh,          \* workers whose state is at most five seconds old
    probe,          \* worker -> what its probe in flight has brought
    closed          \* whether the registry is closed

vars == <<calls, requests, serving, status, fresh, probe, closed>>

Idle == [op |-> "none"]
Done(result) == [op |-> "done", result |-> result]

Init ==
    /\ calls = [c \in Calls |-> Idle]
    /\ requests = {}
    /\ serving = [w \in Workers |-> "pinned"]
    /\ status \in [Kinds -> {"configured"}]
    /\ fresh = {}
    /\ probe = [w \in Workers |-> None]
    /\ closed = FALSE

-----------------------------------------------------------------------------
(* The clients.                                                            *)

\* number counts the requests of a call: an answer belongs to one of them.
Request(c, kind, number) == [call |-> c, kind |-> kind, number |-> number, at |-> "sent", answer |-> None]
Awaited(q) == calls[q.call].op = "asking" /\ calls[q.call].sent = q.number

\* A response that is not of the pinned model, or whose content is not what was asked
\* for, helps nobody; only the language model may do better the next time.
ContentFailure(kind) == IF kind = "deepseek" THEN "validation" ELSE "fatal"

\* What an attempt came to: a value, or a failure that a retry may help, of the
\* transport or of the content, or one that it cannot.
Classified(kind, answer) ==
    CASE answer = "pinned" -> "value"
      [] answer \in {"failed", "lost"} -> "transport"
      [] answer = "limited" -> IF kind = "ocr" THEN "fatal" ELSE "transport"
      [] answer \in {"garbled", "other"} -> ContentFailure(kind)
      [] OTHER -> "fatal"

Call(c, kind) ==
    /\ calls[c] = Idle
    /\ calls' = [calls EXCEPT ![c] =
           [op |-> "asking", kind |-> kind, sent |-> 1, model |-> "default", invalid |-> TRUE]]
    /\ requests' = requests \cup {Request(c, kind, 1)}
    /\ UNCHANGED <<serving, status, fresh, probe, closed>>

\* setDeepSeekState, by the provider that observes every call.
Observed(kind, state) ==
    status' = IF kind = "deepseek" /\ ~ closed THEN [status EXCEPT !["deepseek"] = state] ELSE status

Attempt(call) == IF call.model = "default" THEN call.sent ELSE call.sent - MaxRetries[call.kind] - 1

\* An attempt has come to something: a pause before the next one, the larger model
\* when every attempt was answered with an invalid content, or the end.
Escalates(call) == call.model = "default" /\ call.invalid
Ends(c, outcome, left) ==
    LET call == [calls[c] EXCEPT !.invalid = @ /\ outcome = "validation"]
        last == Attempt(call) > MaxRetries[call.kind]
    IN  IF outcome \in {"transport", "validation"} /\ ~ last
        THEN /\ calls' = [calls EXCEPT ![c] = [call EXCEPT !.op = "pausing"]]
             /\ requests' = left /\ UNCHANGED status
        ELSE IF outcome # "value" /\ last /\ Escalates(call)
        THEN /\ calls' = [calls EXCEPT ![c] = [call EXCEPT !.sent = @ + 1, !.model = "escalation"]]
             /\ requests' = left \cup {Request(c, call.kind, call.sent + 1)} /\ UNCHANGED status
        ELSE /\ calls' = [calls EXCEPT ![c] = [op |-> "done", kind |-> call.kind, sent |-> call.sent,
                                               value |-> outcome = "value"]]
             /\ requests' = left
             /\ Observed(call.kind, IF outcome = "value" THEN "ready" ELSE "unavailable")

Receive(q) ==
    /\ Awaited(q) /\ q.at = "answered"
    /\ Ends(q.call, Classified(q.kind, q.answer), requests \ {q})
    /\ UNCHANGED <<serving, fresh, probe, closed>>

\* The controller aborts the request: an answer will not be read any more, but the
\* worker does not notice.
TimeOut(q) ==
    /\ Awaited(q)
    /\ Ends(q.call, "transport", IF q.at = "answered" THEN requests \ {q} ELSE requests)
    /\ UNCHANGED <<serving, fresh, probe, closed>>

Retry(c) ==
    /\ calls[c].op = "pausing"
    /\ calls' = [calls EXCEPT ![c].op = "asking", ![c].sent = @ + 1]
    /\ requests' = requests \cup {Request(c, calls[c].kind, calls[c].sent + 1)}
    /\ UNCHANGED <<serving, status, fresh, probe, closed>>

-----------------------------------------------------------------------------
(* The servers.                                                            *)

Become(q, at, answer) ==
    requests' = (requests \ {q})
                \cup (IF at = "answered" /\ ~ Awaited(q) THEN {} ELSE {[q EXCEPT !.at = at, !.answer = answer]})

\* The language model may answer anything, and anything may get lost.
Answer(q) ==
    /\ q.kind = "deepseek" /\ q.at = "sent"
    /\ \E answer \in {"pinned", "garbled", "denied", "rejected", "limited", "failed", "lost"} :
           Become(q, "answered", answer)
    /\ UNCHANGED <<calls, serving, status, fresh, probe, closed>>

\* The middleware and the handler up to the lock: the token, the size and the form of
\* the body, the readiness of the backend.
Refusals == {"denied", "rejected", "failed", "lost"}
Admit(q) ==
    /\ q.kind \in Workers /\ q.at = "sent"
    /\ IF serving[q.kind] = None THEN Become(q, "answered", "lost")
       ELSE \/ Become(q, "waiting", None)
            \/ \E answer \in Refusals : Become(q, "answered", answer)
    /\ UNCHANGED <<calls, serving, status, fresh, probe, closed>>

\* The accelerator computes for one request at a time: inference_lock.
Locked_Awaited(w) == \E q \in requests : q.kind = w /\ q.at = "running" /\ Awaited(q)
Locked(w) == \E q \in requests : q.kind = w /\ q.at = "running"
Infer(q) ==
    /\ q.at = "waiting" /\ ~ Locked(q.kind)
    /\ Become(q, "running", None)
    /\ UNCHANGED <<calls, serving, status, fresh, probe, closed>>

\* The result is checked and answered with the revision that the worker runs.
Results(w) == {serving[w], "failed", "lost"}
Respond(q) ==
    /\ q.at = "running"
    /\ \E answer \in Results(q.kind) : Become(q, "answered", answer)
    /\ UNCHANGED <<calls, serving, status, fresh, probe, closed>>

\* A worker goes with everything it has; it comes back as the deployed release says.
Stop(w) ==
    /\ serving[w] # None
    /\ serving' = [serving EXCEPT ![w] = None]
    /\ requests' = {q \in requests : q.kind # w \/ q.at \in {"sent", "answered"}}
                   \cup {[q EXCEPT !.at = "answered", !.answer = "lost"] :
                         q \in {r \in requests : r.kind = w /\ r.at \in {"waiting", "running"} /\ Awaited(r)}}
    /\ UNCHANGED <<calls, status, fresh, probe, closed>>
Serve(w) ==
    /\ serving[w] = None
    /\ \E revision \in {"pinned", "other"} : serving' = [serving EXCEPT ![w] = revision]
    /\ UNCHANGED <<calls, requests, status, fresh, probe, closed>>

-----------------------------------------------------------------------------
(* The registry.                                                           *)

\* ensureFresh.  Who asks while a probe is in flight waits for the same one.
EnsureFresh(w) ==
    /\ ~ closed /\ w \notin fresh /\ probe[w] = None
    /\ status' = [status EXCEPT ![w] = "checking"]
    /\ probe' = [probe EXCEPT ![w] = "sent"]
    /\ UNCHANGED <<calls, requests, serving, fresh, closed>>
Expire(w) ==
    /\ w \in fresh /\ fresh' = fresh \ {w}
    /\ UNCHANGED <<calls, requests, serving, status, probe, closed>>

\* probeWorker: what /readyz says, or that nothing came within two seconds.
Found(w) == CASE serving[w] = "pinned" -> "ready" [] serving[w] = "other" -> "invalid" [] OTHER -> "unavailable"
Probed(w) ==
    /\ probe[w] = "sent"
    /\ \E found \in {Found(w), "unavailable"} : probe' = [probe EXCEPT ![w] = found]
    /\ UNCHANGED <<calls, requests, serving, status, fresh, closed>>

\* A probe of before the registry was closed changes nothing.
Counts == ~ closed
Settle(w) ==
    /\ probe[w] \notin {None, "sent"}
    /\ probe' = [probe EXCEPT ![w] = None]
    /\ status' = IF Counts THEN [status EXCEPT ![w] = probe[w]] ELSE status
    /\ fresh' = IF Counts THEN fresh \cup {w} ELSE fresh
    /\ UNCHANGED <<calls, requests, serving, closed>>

Close ==
    /\ ~ closed /\ closed' = TRUE
    /\ status' = [k \in Kinds |-> "unavailable"] /\ fresh' = {}
    /\ probe' = [w \in Workers |-> IF probe[w] = "sent" THEN "unavailable" ELSE probe[w]]
    /\ UNCHANGED <<calls, requests, serving>>

Next ==
    \/ \E c \in Calls : Retry(c) \/ \E kind \in Kinds : Call(c, kind)
    \/ \E q \in requests : Receive(q) \/ TimeOut(q) \/ Answer(q) \/ Admit(q) \/ Infer(q) \/ Respond(q)
    \/ \E w \in Workers : Stop(w) \/ Serve(w) \/ EnsureFresh(w) \/ Expire(w) \/ Probed(w) \/ Settle(w)
    \/ Close

Spec == Init /\ [][Next]_vars

-----------------------------------------------------------------------------
\* Properties.

\* A worker computes for one request at a time, also when clients have given up
\* others; nobody waits for a request that is gone, and the requests of a call stay
\* bounded.  The registry shows a check that is in flight, and nothing but that the
\* services are unavailable once it is closed.
RemoteConsistent ==
    /\ \A w \in Workers : Cardinality({q \in requests : q.kind = w /\ q.at = "running"}) <= 1
    /\ \A q \in requests : q.at \in {"waiting", "running"} => serving[q.kind] # None
    /\ \A c \in Calls : calls[c].op = "asking" => \E q \in requests : q.call = c /\ Awaited(q)
    /\ \A c \in Calls : calls[c].op # "none" =>
           calls[c].sent <= (MaxRetries[calls[c].kind] + 1) * (IF calls[c].kind = "deepseek" THEN 2 ELSE 1)
    /\ \A w \in Workers : status[w] = "checking" <=> probe[w] # None /\ ~ closed
    /\ closed => \A k \in Kinds : status[k] = "unavailable"
=============================================================================
