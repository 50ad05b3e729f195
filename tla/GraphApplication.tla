-------------------------- MODULE GraphApplication ---------------------------
(***************************************************************************)
(* The application service over a graph                                    *)
(* (apps/api/src/applications/graph-application-service.ts): the states it *)
(* caches, the runs it joins, the browser lease it takes and gives back,   *)
(* and the reviews of written content.  The graph is what its service does *)
(* with a checkpoint (agent/graph-service.ts); what the subgraph makes of  *)
(* a page is left open.                                                    *)
(*                                                                         *)
(* Each request is a few steps with an await between them: the cached      *)
(* state, or the one read from the checkpoint; the graph's own check; the  *)
(* work of the graph; the state read back; its publication.                *)
(***************************************************************************)
EXTENDS Naturals, FiniteSets, TLC

CONSTANTS
    Calls,          \* requests that can be in progress at once
    Tasks,
    Kinds,          \* kinds of interrupts a run may end in
    MaxInterrupts,  \* bound on the interrupts
    Match,          \* the job session that shares the browser
    None

VARIABLES
    lease,          \* the owner of the browser
    exists,         \* the tasks the repository has
    cached,         \* graphStates: task -> published state
    fallback,       \* fallbackValues: task -> what is shown without one
    active,         \* activeRuns: task -> the call whose run the others join
    saved,          \* task -> the last checkpoint of its thread
    reviews,        \* agent_application_reviews, by the interrupt they belong to
    orphans,        \* reviews whose approval a dying process left behind
    calls           \* the requests in progress

vars == <<lease, exists, cached, fallback, active, saved, reviews, orphans, calls>>
memory == <<lease, cached, fallback, active>>

Interrupts == 1..MaxInterrupts
Idle == [op |-> "none"]
Startable(state) == IF state = None THEN TRUE ELSE state.status = "running"
State(status, pending) == [status |-> status, pending |-> pending]
Waiting(state) == IF state = None THEN FALSE ELSE state.status = "interrupted"
Pending(id, kind) == [id |-> id, kind |-> kind]
Terminal(state) ==
    \/ state.status \in {"completed", "failed", "cancelled"}
    \/ state.status = "interrupted" /\ state.pending.kind = "final_review"

Init ==
    /\ lease = None /\ exists = Tasks
    /\ cached = [t \in Tasks |-> None] /\ fallback = [t \in Tasks |-> None]
    /\ active = [t \in Tasks |-> None] /\ saved = [t \in Tasks |-> None]
    /\ reviews = [i \in Interrupts |-> None] /\ orphans = {}
    /\ calls = [c \in Calls |-> Idle]

Begin(c, call) == calls[c] = Idle /\ calls' = [calls EXCEPT ![c] = call]
Continue(c, call) == calls' = [calls EXCEPT ![c] = call]
End(c) == Continue(c, Idle)
Call(op, t, step) == [op |-> op, task |-> t, step |-> step]
At(c, step) == calls[c] # Idle /\ calls[c].step = step

-----------------------------------------------------------------------------
(* The lease of the browser.                                               *)

Acquirable(owner) == lease \in {None, owner}
Released_Any(owner) == None
Released(owner) == IF lease = owner THEN None ELSE lease

MatchAcquires == Acquirable(Match) /\ lease' = Match
MatchReleases == lease = Match /\ lease' = None
MatchMoves ==
    /\ MatchAcquires \/ MatchReleases
    /\ UNCHANGED <<exists, cached, fallback, active, saved, reviews, orphans, calls>>

\* publish: a terminal state gives the browser back.
Publish(t, state) ==
    /\ cached' = [cached EXCEPT ![t] = state]
    /\ fallback' = [fallback EXCEPT ![t] = None]
    /\ lease' = IF Terminal(state) THEN Released(t) ELSE lease

-----------------------------------------------------------------------------
(* Requests begin.                                                         *)

\* start, before the page is open.
StartTask(t) ==
    /\ t \in exists /\ cached[t] = None /\ fallback[t] = None
    /\ fallback' = [fallback EXCEPT ![t] = "observing"]
    /\ UNCHANGED <<lease, exists, cached, active, saved, reviews, orphans, calls>>

\* openBrowser takes the lease before the page.
Open(c, t) ==
    /\ t \in exists /\ Acquirable(t)
    /\ Begin(c, [op |-> "open", task |-> t, step |-> "opening", newly |-> lease # t])
    /\ lease' = t
    /\ UNCHANGED <<exists, cached, fallback, active, saved, reviews, orphans>>

\* The page does not open: the lease goes back when this call took it.
Opened(c) ==
    /\ At(c, "opening")
    /\ \/ Continue(c, Call("open", calls[c].task, "fetch")) /\ UNCHANGED lease
       \/ /\ lease' = IF calls[c].newly THEN Released(calls[c].task) ELSE lease
          /\ End(c)
    /\ UNCHANGED <<exists, cached, fallback, active, saved, reviews, orphans>>

\* resume, resumeAfterChallenge and cancel look at the state first, approveReview and
\* rejectReview at the review of the interrupt i too; resumeWithProfile does what one
\* of the two resumes does.
Request(c, op, t, i) ==
    /\ op \in {"cancel", "approve", "reject"} => t \in exists
    /\ Begin(c, [op |-> op, task |-> t, step |-> "fetch", review |-> i])
    /\ UNCHANGED <<memory, exists, saved, reviews, orphans>>

\* runUntilPause, also after an activity that says the page is stable: a run in progress
\* is joined, and one without the lease fails.
MayRun(t) == active[t] = None
Run(c, t) ==
    /\ MayRun(t) /\ t \in exists /\ lease = t
    /\ Begin(c, Call("run", t, "fetch"))
    /\ active' = [active EXCEPT ![t] = c]
    /\ UNCHANGED <<lease, exists, cached, fallback, saved, reviews, orphans>>

\* A call ends, and its run with it.
Finished(c) ==
    LET t == calls[c].task
    IN  active' = IF calls[c].op = "run" /\ active[t] = c THEN [active EXCEPT ![t] = None] ELSE active

-----------------------------------------------------------------------------
(* The state of the task.                                                  *)

\* What a call does with the state it has found.
Then(c, state) ==
    LET call == calls[c]
        to(step) == [call EXCEPT !.step = step]
        answer(action, handler) ==
            [op |-> "answer", task |-> call.task, step |-> "refetch", review |-> call.review,
             action |-> action, undo |-> handler]
        waits == state # None /\ state.pending # None
    IN  \/ /\ call.op = "open" \/ (call.op = "run" /\ state # None /\ state.status # "running")
              \/ (call.op \in {"resume", "challenge"} /\ ~ waits)
              \/ (call.op = "resume" /\ waits /\ state.pending.kind = "challenge")
              \/ (call.op = "challenge" /\ waits /\ state.pending.kind # "challenge")
           /\ End(c) /\ Finished(c) /\ UNCHANGED reviews
        \/ /\ call.op = "run" /\ Startable(state)
           /\ Continue(c, to(IF state = None THEN "work" ELSE "check"))
           /\ UNCHANGED <<active, reviews>>
        \/ /\ \/ call.op = "profile" /\ waits
              \/ call.op = "resume" /\ waits /\ state.pending.kind # "challenge"
              \/ call.op = "challenge" /\ waits /\ state.pending.kind = "challenge"
           /\ Continue(c, answer("confirm", FALSE)) /\ UNCHANGED <<active, reviews>>

\* requireContentReview: the review is that of the pending interrupt.
Reviewable(c, state) ==
    /\ state # None /\ state.status = "interrupted" /\ state.pending = Pending(calls[c].review, "content")
    /\ reviews[calls[c].review] = "needs_review"

Approved(i) == [reviews EXCEPT ![i] = "approved"]
ThenReview(c, state) ==
    LET call == calls[c]
        pending == state.pending
    IN  /\ call.op \in {"approve", "reject"} /\ UNCHANGED active
        /\ \/ ~ Reviewable(c, state) /\ End(c) /\ UNCHANGED reviews
           \/ /\ Reviewable(c, state) /\ call.op = "approve"
              /\ reviews' = Approved(call.review)
              /\ Continue(c, [op |-> "answer", task |-> call.task, step |-> "refetch",
                              review |-> call.review, action |-> "approve", undo |-> TRUE])
           \/ /\ Reviewable(c, state) /\ call.op = "reject"
              /\ Continue(c, [op |-> "answer", task |-> call.task, step |-> "check", review |-> call.review,
                              action |-> "reject", undo |-> FALSE, interrupt |-> pending.id])
              /\ UNCHANGED reviews

\* A task without a thread is cancelled in memory alone.
ThenCancel(c, state) ==
    LET t == calls[c].task
    IN  /\ calls[c].op = "cancel" /\ UNCHANGED <<active, reviews>>
        /\ \/ /\ state # None
              /\ Continue(c, [calls[c] EXCEPT !.step = "cancel"])
              /\ UNCHANGED <<fallback, lease>>
           \/ /\ state = None
              /\ fallback' = [fallback EXCEPT ![t] = "cancelled"]
              /\ lease' = Released(t)
              /\ End(c)

\* fetchState: the cached state at once ...
FetchCached(c) ==
    /\ At(c, "fetch") /\ cached[calls[c].task] # None
    /\ \/ (Then(c, cached[calls[c].task]) \/ ThenReview(c, cached[calls[c].task])) /\ UNCHANGED <<fallback, lease>>
       \/ ThenCancel(c, cached[calls[c].task])
    /\ UNCHANGED <<exists, cached, saved, orphans>>

\* ... or the one the checkpoint has, which is published when it arrives.
FetchSaved(c) ==
    /\ At(c, "fetch") /\ cached[calls[c].task] = None
    /\ calls' = [calls EXCEPT ![c] = [step |-> "fetched", found |-> saved[@.task]] @@ @]
    /\ UNCHANGED <<memory, exists, saved, reviews, orphans>>

Fetched(c) ==
    /\ At(c, "fetched")
    /\ LET t == calls[c].task
           state == calls[c].found
       IN  IF state # None
           THEN /\ Publish(t, state)
                /\ calls' = [calls EXCEPT ![c].step = "fetch"]
                /\ UNCHANGED <<active, reviews>>
           ELSE /\ \/ (Then(c, state) \/ ThenReview(c, state)) /\ UNCHANGED <<fallback, lease>>
                   \/ ThenCancel(c, state)
                /\ UNCHANGED cached
    /\ UNCHANGED <<exists, saved, orphans>>

-----------------------------------------------------------------------------
(* The graph.                                                              *)

\* An answer is given to the interrupt of the state as it is cached by now.
Refetch(c) ==
    /\ At(c, "refetch")
    /\ LET state == cached[calls[c].task]
       IN  calls' = [calls EXCEPT ![c] =
               IF state = None \/ state.pending = None THEN [@ EXCEPT !.step = "error"]
               ELSE [interrupt |-> state.pending.id, step |-> "check"] @@ @]
    /\ UNCHANGED <<memory, exists, saved, reviews, orphans>>

\* The graph service reads the checkpoint, and refuses what it does not allow: an answer
\* to another interrupt, or to none, and a thread that is gone.
Check(c) ==
    /\ At(c, "check")
    /\ LET state == saved[calls[c].task]
           fits == IF calls[c].op = "run" THEN state # None
                   ELSE /\ state # None /\ state.status = "interrupted"
                        /\ state.pending.id = calls[c].interrupt
       IN  calls' = [calls EXCEPT ![c].step =
               IF ~ fits THEN "error"
               ELSE IF calls[c].op = "run" /\ state.status # "running" THEN "readback" ELSE "work"]
    /\ UNCHANGED <<memory, exists, saved, reviews, orphans>>

\* The graph works on the thread until it ends or waits for the user; a run that has
\* written content stores its review.  Without anything to resume nothing happens.
Fresh == {i \in Interrupts : reviews[i] = None /\ \A t \in Tasks : \A k \in Kinds :
              saved[t] # State("interrupted", Pending(i, k)) /\ cached[t] # State("interrupted", Pending(i, k))}
Outcomes ==
    {State(status, None) : status \in {"running", "completed", "failed"}}
    \cup {State("interrupted", Pending(i, k)) : i \in Fresh, k \in Kinds}

Work(c) ==
    /\ At(c, "work")
    /\ \/ /\ calls[c].op = "answer" /\ ~ Waiting(saved[calls[c].task])
          /\ UNCHANGED <<saved, reviews>>
       \/ /\ calls[c].op = "run" \/ Waiting(saved[calls[c].task])
          /\ \E state \in Outcomes :
                /\ saved' = [saved EXCEPT ![calls[c].task] = state]
                /\ reviews' = IF state.pending # None /\ state.pending.kind = "content"
                              THEN [reviews EXCEPT ![state.pending.id] = "needs_review"] ELSE reviews
    /\ calls' = [calls EXCEPT ![c].step = "readback"]
    /\ UNCHANGED <<memory, exists, orphans>>

\* ... or fails before it has saved anything.
WorkFails(c) ==
    /\ At(c, "work")
    /\ calls' = [calls EXCEPT ![c].step = "error"]
    /\ UNCHANGED <<memory, exists, saved, reviews, orphans>>

\* cancel writes over the checkpoint, whatever is at work on it.
CancelThread(c) ==
    /\ At(c, "cancel")
    /\ LET t == calls[c].task
       IN  \/ /\ saved[t] # None
              /\ saved' = [saved EXCEPT ![t] = State("cancelled", None)]
              /\ calls' = [calls EXCEPT ![c].step = "readback"]
           \/ saved[t] = None /\ End(c) /\ UNCHANGED saved
    /\ UNCHANGED <<memory, exists, reviews, orphans>>

\* The state is read back.
ReadBack(c) ==
    /\ At(c, "readback")
    /\ calls' = [calls EXCEPT ![c] =
           IF saved[@.task] = None THEN [@ EXCEPT !.step = "error"]
           ELSE [found |-> saved[@.task], step |-> "publish"] @@ @]
    /\ UNCHANGED <<memory, exists, saved, reviews, orphans>>

\* It is published.  A rejected review is removed, if the run failed as it should.
PublishResult(c) ==
    /\ At(c, "publish")
    /\ Publish(calls[c].task, calls[c].found)
    /\ reviews' = IF calls[c].op = "answer" /\ calls[c].action = "reject" /\ calls[c].found.status = "failed"
                  THEN [reviews EXCEPT ![calls[c].review] = None] ELSE reviews
    /\ End(c) /\ Finished(c)
    /\ UNCHANGED <<exists, saved, orphans>>

\* The call throws; an approval that was not answered is taken back.
TakenBack(c) ==
    IF calls[c].op = "answer" /\ calls[c].undo
    THEN [reviews EXCEPT ![calls[c].review] = "needs_review"] ELSE reviews

Throw(c) ==
    /\ At(c, "error")
    /\ reviews' = TakenBack(c)
    /\ End(c) /\ Finished(c)
    /\ UNCHANGED <<lease, exists, cached, fallback, saved, orphans>>

\* dispose, and the task is deleted.  What is in flight goes on.
ThreadDeleted(t) == [saved EXCEPT ![t] = None]
Dispose(t) ==
    /\ t \in exists /\ exists' = exists \ {t}
    /\ cached' = [cached EXCEPT ![t] = None] /\ fallback' = [fallback EXCEPT ![t] = None]
    /\ active' = [active EXCEPT ![t] = None] /\ saved' = ThreadDeleted(t)
    /\ lease' = Released(t)
    /\ UNCHANGED <<reviews, orphans, calls>>

\* The process dies: tasks, checkpoints and reviews stay.
Die ==
    /\ lease' = None
    /\ cached' = [t \in Tasks |-> None] /\ fallback' = [t \in Tasks |-> None]
    /\ active' = [t \in Tasks |-> None] /\ calls' = [c \in Calls |-> Idle]
    /\ orphans' = orphans \cup {calls[c].review : c \in {c \in Calls : calls[c].op = "answer" /\ calls[c].undo}}
    /\ UNCHANGED <<exists, saved, reviews>>

Next ==
    \/ MatchMoves \/ Die
    \/ \E t \in Tasks : StartTask(t) \/ Dispose(t)
    \/ \E c \in Calls, t \in Tasks : Open(c, t) \/ Run(c, t)
    \/ \E c \in Calls, op \in {"resume", "challenge", "cancel"}, t \in Tasks : Request(c, op, t, None)
    \/ \E c \in Calls, op \in {"approve", "reject"}, t \in Tasks, i \in Interrupts :
           reviews[i] # None /\ Request(c, op, t, i)
    \/ \E c \in Calls : \/ Opened(c) \/ FetchCached(c) \/ FetchSaved(c) \/ Fetched(c) \/ Refetch(c) \/ Check(c)
                        \/ Work(c) \/ WorkFails(c) \/ CancelThread(c) \/ ReadBack(c) \/ PublishResult(c) \/ Throw(c)

Spec == Init /\ [][Next]_vars

-----------------------------------------------------------------------------
\* Properties.

TypeOK ==
    /\ lease \in Tasks \cup {Match, None} /\ exists \subseteq Tasks
    /\ \A t \in Tasks : fallback[t] \in {None, "observing", "cancelled"} /\ active[t] \in Calls \cup {None}
    /\ \A i \in Interrupts : reviews[i] \in {None, "needs_review", "approved"}

\* An approved text is one the graph has been answered with: its interrupt is not
\* pending any more, unless the approval is still on its way or died with the
\* process.
ApprovalsAreAnswered ==
    \A i \in Interrupts, t \in Tasks :
        reviews[i] = "approved" /\ saved[t] = State("interrupted", Pending(i, "content")) =>
            \/ i \in orphans
            \/ \E c \in Calls : calls[c].op = "answer" /\ calls[c].action = "approve" /\ calls[c].review = i

\* However activities and requests overlap, a task has one run, so its graph is not
\* started twice.
RunsAreJoined ==
    \A t \in exists : Cardinality({c \in Calls : calls[c].op = "run" /\ calls[c].task = t}) <= 1

GraphServiceConsistent == TypeOK /\ ApprovalsAreAnswered /\ RunsAreJoined

\* Only a call about the owner, or the owner itself, takes the browser from it: late
\* results of another task never do, nor one task from the other.
TakesOwnBrowser ==
    /\ lease = Match /\ lease' # lease => lease' = None /\ (calls' = calls \/ calls' = [c \in Calls |-> Idle])
    /\ \A t \in Tasks : lease = t /\ lease' # t =>
           /\ lease' = None
           /\ \/ exists' # exists /\ t \notin exists'
              \/ calls' = [c \in Calls |-> Idle]
              \/ \E c \in Calls : calls[c] # Idle /\ calls[c].task = t /\ calls'[c] # calls[c]
NeverTakesAnothersBrowser == [][TakesOwnBrowser]_vars
=============================================================================
