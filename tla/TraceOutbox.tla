----------------------------- MODULE TraceOutbox -----------------------------
(***************************************************************************)
(* The trace of a run and its way to LangSmith: events are stored together *)
(* with an outbox row each, flushers claim rows, send them one after       *)
(* another and store what came of it, and the user has unsent rows or      *)
(* remote runs deleted meanwhile.  A reply may be lost, a flusher may die, *)
(* and several flushers may be at work.                                    *)
(*                                                                         *)
(* The remote service keeps one run per trace id, which is sent as the     *)
(* idempotency key.  Of an event only its number is kept; times are, for a *)
(* row, whether its next attempt is due.                                   *)
(***************************************************************************)
EXTENDS Naturals, Sequences, FiniteSets, SequencesExt

CONSTANTS
    Runs,
    MaxEvents,      \* bound on the events of a run
    Flushers,
    BatchSize,
    MaxAttempts,
    None

VARIABLES
    events,         \* agent_trace_events: run -> the last sequence number
    outbox,         \* langsmith_trace_outbox: trace -> row
    flushers,       \* the rows that a flusher still has to send, the first of them now
    remote,         \* trace -> what became of its remote run
    withdrawn       \* traces whose row was deleted while unsent

vars == <<events, outbox, flushers, remote, withdrawn>>

Traces == Runs \X (1..MaxEvents)
Recorded == {t \in Traces : t[2] <= events[t[1]]}
Pending == [status |-> "pending", attempts |-> 0, due |-> TRUE]

Init ==
    /\ events = [r \in Runs |-> 0]
    /\ outbox = [t \in Traces |-> None]
    /\ flushers = [f \in Flushers |-> <<>>]
    /\ remote = [t \in Traces |-> "none"]
    /\ withdrawn = {}

Is(t, statuses) == outbox[t] # None /\ outbox[t].status \in statuses

\* record, one transaction; events that look like personal data are rejected whole.
Record(r) ==
    /\ events[r] < MaxEvents
    /\ LET t == <<r, events[r] + 1>>
       IN  /\ events' = [events EXCEPT ![r] = t[2]]
           /\ outbox' = [outbox EXCEPT ![t] = IF @ = None THEN Pending ELSE @]
    /\ UNCHANGED <<flushers, remote, withdrawn>>

Enqueue(t) ==
    /\ t \in Recorded /\ outbox[t] = None
    /\ outbox' = [outbox EXCEPT ![t] = Pending]
    /\ UNCHANGED <<events, flushers, remote, withdrawn>>

\* claim, one transaction.
Ready == {t \in Traces : Is(t, {"pending"}) /\ outbox[t].due}
Claim(f) ==
    /\ flushers[f] = <<>> /\ Ready # {}
    /\ \E batch \in {b \in SetToAllKPermutations(Ready) : Len(b) = IF Cardinality(Ready) < BatchSize THEN Cardinality(Ready) ELSE BatchSize} :
           /\ flushers' = [flushers EXCEPT ![f] = batch]
           /\ outbox' = [t \in Traces |-> IF t \in ToSet(batch)
                                          THEN [outbox[t] EXCEPT !.status = "processing"] ELSE outbox[t]]
    /\ UNCHANGED <<events, remote, withdrawn>>

\* createRun gets there; the reply comes later or is lost.
Accept(t) ==
    /\ remote[t] = "none" /\ \E f \in Flushers : flushers[f] # <<>> /\ Head(flushers[f]) = t
    /\ remote' = [remote EXCEPT ![t] = "accepted"]
    /\ UNCHANGED <<events, outbox, flushers, withdrawn>>

\* Only a row that is being sent is settled.
Settles_Any(t) == outbox[t] # None
Settles(t) == Is(t, {"processing"})
Settle(t, row) == outbox' = IF Settles(t) THEN [outbox EXCEPT ![t] = row] ELSE outbox

Sent(f) ==
    /\ flushers[f] # <<>>
    /\ LET t == Head(flushers[f])
       IN  /\ remote[t] # "none"
           /\ Settle(t, [status |-> "sent", attempts |-> outbox[t].attempts, due |-> outbox[t].due])
    /\ flushers' = [flushers EXCEPT ![f] = Tail(@)]
    /\ UNCHANGED <<events, remote, withdrawn>>

\* An error, whether or not the run got there.  The row of the item may be gone: this
\* ends the flush, and the rows after it are left as they are.
Failed(f) ==
    /\ flushers[f] # <<>>
    /\ LET t == Head(flushers[f])
           attempts == outbox[t].attempts + 1
       IN  IF outbox[t] = None
           THEN flushers' = [flushers EXCEPT ![f] = <<>>] /\ UNCHANGED outbox
           ELSE /\ Settle(t, [status |-> IF attempts >= MaxAttempts THEN "dead_letter" ELSE "pending",
                              attempts |-> attempts, due |-> attempts >= MaxAttempts])
                /\ flushers' = [flushers EXCEPT ![f] = Tail(@)]
    /\ UNCHANGED <<events, remote, withdrawn>>

FallDue(t) ==
    /\ Is(t, {"pending"}) /\ ~ outbox[t].due
    /\ outbox' = [outbox EXCEPT ![t].due = TRUE]
    /\ UNCHANGED <<events, flushers, remote, withdrawn>>

DeleteUnsent(T) ==
    LET gone == {t \in T : Is(t, {"pending", "processing"})}
    IN  /\ gone # {}
        /\ outbox' = [t \in Traces |-> IF t \in gone THEN None ELSE outbox[t]]
        /\ withdrawn' = withdrawn \cup gone
        /\ UNCHANGED <<events, flushers, remote>>

\* deleteRemoteRuns, for the runs whose id a row holds.
DeleteRemote(t) ==
    /\ Is(t, {"sent"}) /\ remote[t] = "accepted"
    /\ remote' = [remote EXCEPT ![t] = "deleted"]
    /\ UNCHANGED <<events, outbox, flushers, withdrawn>>

Die(f) ==
    /\ flushers[f] # <<>> /\ flushers' = [flushers EXCEPT ![f] = <<>>]
    /\ UNCHANGED <<events, outbox, remote, withdrawn>>

Next ==
    \/ \E r \in Runs : Record(r)
    \/ \E f \in Flushers : Claim(f) \/ Sent(f) \/ Failed(f) \/ Die(f)
    \/ \E t \in Traces : Enqueue(t) \/ Accept(t) \/ FallDue(t) \/ DeleteRemote(t)
    \/ DeleteUnsent(Traces) \/ \E t \in Traces : DeleteUnsent({t})

Spec == Init /\ [][Next]_vars

-----------------------------------------------------------------------------
\* Properties.

\* A row is of a recorded event, is sent only when the remote service has it, and is
\* given up exactly after its attempts; unless its row was deleted meanwhile, an event
\* is with one flusher at a time, and what a flusher is to send is not offered again.
OutboxConsistent ==
    /\ \A t \in Traces : outbox[t] # None =>
           /\ t \in Recorded
           /\ outbox[t].status = "sent" => remote[t] # "none"
           /\ outbox[t].attempts <= MaxAttempts
           /\ outbox[t].status = "dead_letter" <=> outbox[t].attempts = MaxAttempts
    /\ \A f \in Flushers, t \in Traces \ withdrawn : t \in ToSet(flushers[f]) =>
           /\ Is(t, {"processing"})
           /\ \A g \in Flushers \ {f} : t \notin ToSet(flushers[g])

\* What was sent or given up stays so, whatever a flusher finds out that lost the row
\* to a deletion and another one.
KeepsSettled ==
    \A t \in Traces : Is(t, {"sent", "dead_letter"}) => outbox'[t] = outbox[t]
SettledStays == [][KeepsSettled]_vars
=============================================================================
