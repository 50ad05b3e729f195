------------------------- MODULE RuntimeApplication -------------------------
(***************************************************************************)
(* Application tasks as the API keeps them: the Runtime-backed application *)
(* service, the HTTP routes that call it, the state store it shares with   *)
(* the application executor, and the browser lease.  The Agent Runtime     *)
(* appears through its interface: a run is running, interrupted by a       *)
(* question, or ended (AgentRuntime models how it gets there).             *)
(*                                                                         *)
(* A request is an HTTP command or a browser activity.  Its step is the    *)
(* code between two awaits that leave the process: browser.open, observe,  *)
(* releaseTask, the adapter review and the Runtime's start, resume and     *)
(* recover.  Awaits that only read or write SQLite end within the same     *)
(* turn and are part of the step.  A request refused at its start changes  *)
(* nothing and is not a step.                                              *)
(***************************************************************************)
EXTENDS Naturals, Sequences, FiniteSets

CONSTANTS
  Tasks,      \* application task ids, derived from the form's address and
              \* from who asked for the task
  Posted,     \* those of POST; conversations and job matches create the others
  Jobs,       \* a job-match session, the other kind of lease owner
  Requests,
  None,
  MaxRuns,    \* bound on Runtime runs
  MaxAsks,    \* bound on the questions of one run
  MaxCrashes  \* bound on restarts of the API

ASSUME ConstantsAssumption ==
  /\ MaxRuns \in Nat /\ MaxAsks \in Nat /\ MaxCrashes \in Nat
  /\ Posted \subseteq Tasks
  /\ Jobs \notin Tasks
  /\ None \notin Tasks \cup Requests \cup {Jobs}

VARIABLES
  tasks,    \* application_tasks rows, with the last state event of each
  lease,    \* BrowserOwnershipLease: its owner
  memory,   \* per task: snapshots, fallbackValues, runIds, activeRuns
  cached,   \* runtimeInterrupts, per run
  runs,     \* the Runtime's runs
  stored,   \* the application state store, per run
  saved,    \* its rows' runs, in the order of their updatedAt
  req,      \* the requests in flight
  queue,    \* those that await the browser worker, which answers in order
  crashes

vars == <<tasks, lease, memory, cached, runs, stored, saved, req, queue, crashes>>

RunIds == 1..MaxRuns

\* The reasons a run stops for, as applicationValueForInterrupt tells them
\* apart: a question to the user, the final review, anything else.
Reasons == {"question", "final_submit", "other"}

Asks == [n : 1..MaxAsks, reason : Reasons]

ASSUME NoneAssumption == None \notin Asks

Ended == {"completed", "failed", "cancelled"}

Terminal == {"review_locked", "cancelled", "failed"}

Values == {"created", "observing", "awaiting_human", "awaiting_adapter_review"}
            \cup Terminal

Forgotten == [snapshot |-> "none", fallback |-> "none", run |-> 0,
              active |-> None]

Idle == [op |-> "none", t |-> None, pc |-> "idle", run |-> 0, leader |-> None,
         reserved |-> FALSE, again |-> FALSE]

NoRun == [task |-> None, status |-> "none", ask |-> None, saved |-> None,
          asks |-> 0, live |-> FALSE]

NotStored == [task |-> None, ask |-> None, locked |-> FALSE]

Init ==
  /\ tasks = [t \in Tasks |-> "absent"]
  /\ lease = None
  /\ memory = [t \in Tasks |-> Forgotten]
  /\ cached = [i \in RunIds |-> None]
  /\ runs = [i \in RunIds |-> NoRun]
  /\ stored = [i \in RunIds |-> NotStored]
  /\ saved = <<>>
  /\ req = [r \in Requests |-> Idle]
  /\ queue = <<>>
  /\ crashes = 0

-----------------------------------------------------------------------------
(* What the service knows of a task.                                       *)

Exists(t) == tasks[t] # "absent"

StoredRuns(t) == {i \in RunIds : stored[i].task = t}

\* storedForTask picks the row saved last.
StoredRun(t) ==
  LET mine == {k \in DOMAIN saved : stored[saved[k]].task = t} IN
  IF mine = {} THEN 0
  ELSE saved[CHOOSE k \in mine : \A j \in mine : j <= k]

\* saved without run i, which has one row.
Others(i) ==
  LET before == {k \in DOMAIN saved : saved[k] = i} IN
  IF before = {} THEN saved
  ELSE LET k == CHOOSE k \in before : TRUE IN
       SubSeq(saved, 1, k - 1) \o SubSeq(saved, k + 1, Len(saved))

\* Run i's row becomes row; save sets its updatedAt.
Saves(i, row) ==
  /\ stored' = [stored EXCEPT ![i] = row]
  /\ saved' = Append(Others(i), i)

\* runIdFor: the run in memory, otherwise the stored one, otherwise 0.
RunOf(t) == IF memory[t].run # 0 THEN memory[t].run ELSE StoredRun(t)

ValueOf(ask) ==
  CASE ask.reason = "question" -> "awaiting_human"
    [] ask.reason = "final_submit" -> "review_locked"
    [] ask.reason = "other" -> "failed"

\* snapshotFromStored.  An interrupt of another kind comes back from the store
\* as an ambiguous fact.
ValueStored(i) ==
  IF stored[i].locked THEN "review_locked"
  ELSE IF stored[i].ask = None THEN "observing"
  ELSE IF stored[i].ask.reason = "final_submit" THEN "review_locked"
  ELSE "awaiting_human"

\* state(), in memory m.
Value(m, t) ==
  IF m[t].snapshot # "none" THEN m[t].snapshot
  ELSE IF StoredRuns(t) # {} THEN ValueStored(StoredRun(t))
  ELSE IF m[t].fallback # "none" THEN m[t].fallback ELSE "created"

\* Every command calls state() first, which keeps what it found in the store.
Recalled(t) == memory[t].snapshot # "none" \/ StoredRuns(t) = {}

\* projectedState: a terminal event in the history outlives the memory.
Shown(t) ==
  IF Value(memory, t) \notin Terminal /\ tasks[t] \in Terminal THEN tasks[t]
  ELSE Value(memory, t)

\* releaseIfOwned.
Returned(t) == IF lease = t THEN None ELSE lease

\* publish: snapshot and event; a terminal value returns the browser.
Publish(m, t, value) ==
  /\ memory' = [m EXCEPT ![t].snapshot = value, ![t].fallback = "none"]
  /\ tasks' = [tasks EXCEPT ![t] = IF Exists(t) THEN value ELSE @]
  /\ lease' = IF value \in Terminal THEN Returned(t) ELSE lease

ResultValue(run) ==
  CASE run.status = "interrupted" -> ValueOf(run.ask)
    [] run.status = "completed" -> "review_locked"
    [] run.status = "cancelled" -> "cancelled"
    [] run.status = "failed" -> "failed"

\* Mutant: a new interrupt does not replace the one in runtimeInterrupts.
RememberResult_KeepsCached(m, rs, t, i) ==
  LET ask == IF rs[i].status = "interrupted" THEN rs[i].ask ELSE None IN
  /\ cached' = [cached EXCEPT ![i] = IF @ = None THEN ask ELSE @]
  /\ Saves(i, [task |-> t, ask |-> ask,
               locked |-> \/ stored[i].locked
                          \/ rs[i].status = "completed"
                          \/ ask # None /\ ask.reason = "final_submit"])
  /\ Publish([m EXCEPT ![t].run = i], t, ResultValue(rs[i]))

\* rememberResult of run i, in the state rs of the runs.
RememberResult(m, rs, t, i) ==
  LET ask == IF rs[i].status = "interrupted" THEN rs[i].ask ELSE None IN
  /\ cached' = [cached EXCEPT ![i] = ask]
  /\ Saves(i, [task |-> t, ask |-> ask,
               locked |-> \/ stored[i].locked
                          \/ rs[i].status = "completed"
                          \/ ask # None /\ ask.reason = "final_submit"])
  /\ Publish([m EXCEPT ![t].run = i], t, ResultValue(rs[i]))

Starts(r, op, t, pc) == [Idle EXCEPT !.op = op, !.t = t, !.pc = pc]

\* What a request becomes when the operation it awaits ends.  A failed POST
\* undoes what it created.
After(q, ok) ==
  IF ok THEN Idle
  ELSE IF req[q].op = "create"
  THEN [req[q] EXCEPT !.pc = "undo", !.leader = None, !.reserved = FALSE]
  ELSE Idle

\* The callers of the runUntilPause of r: r and those who joined it.
Callers(r) == {r} \cup {q \in Requests : req[q].pc = "join" /\ req[q].leader = r}

\* The end of runUntilPause.
RunOver(r, ok) ==
  req' = [q \in Requests |-> IF q \in Callers(r) THEN After(q, ok) ELSE req[q]]

\* Mutant: activeRuns keeps the operation that ended.
Left_Keeps(r) == memory

\* activeRuns.delete, unless dispose removed the entry.
Left(r) == [memory EXCEPT ![req[r].t].active = IF @ = r THEN None ELSE @]

\* A request whose next step needs nothing from outside the process takes it
\* before anything else happens.
Quiet == \A r \in Requests : req[r].pc \notin {"enter", "undo", "seeded"}

\* A command arrives, when all is quiet.
Free(r) == req[r].pc = "idle"

\* Its command is the one the worker answers: replies and timeouts come in the
\* order of the commands, which share one queue and one timeout.
Answered(r, pc) == req[r].pc = pc /\ Head(queue) = r /\ Quiet

\* emitState in the routes, when commands on t succeed.
Emits(rs, t) ==
  tasks' = [tasks EXCEPT ![t] =
              IF Exists(t) /\ \E r \in rs : req[r].op # "activity"
              THEN Value(memory', t) ELSE @]

-----------------------------------------------------------------------------
(* runUntilPause                                                           *)

\* Joins a run in progress, or asserts the lease and observes the page.
EnterRun(r, rec, q) ==
  LET t == rec.t IN
  IF memory[t].active # None
  THEN /\ req' = [req EXCEPT ![r] = [rec EXCEPT !.pc = "join",
                                               !.leader = memory[t].active]]
       /\ queue' = q
       /\ UNCHANGED memory
  ELSE /\ Exists(t) /\ lease = t
       /\ req' = [req EXCEPT ![r] = [rec EXCEPT !.pc = "observe"]]
       /\ queue' = Append(q, r)
       /\ memory' = [memory EXCEPT ![t].active = r]

CannotEnter(t) == memory[t].active = None /\ (~Exists(t) \/ lease # t)

\* An activity of the worker: the page is stable and the task observes.
PageStable(r, t) ==
  /\ Free(r)
  /\ Exists(t)
  /\ Recalled(t)
  /\ Value(memory, t) = "observing"
  /\ EnterRun(r, Starts(r, "activity", t, "enter"), queue)
  /\ UNCHANGED <<tasks, lease, cached, runs, stored, saved, crashes>>

\* The call of answer_questions, made whatever the answer led to.
EnterAgain(r) ==
  /\ req[r].pc = "enter"
  /\ IF CannotEnter(req[r].t)
     THEN req' = [req EXCEPT ![r] = After(r, FALSE)] /\ UNCHANGED <<memory, queue>>
     ELSE EnterRun(r, req[r], queue)
  /\ UNCHANGED <<tasks, lease, cached, runs, stored, saved, crashes>>

\* The page is an application form whose certified hint pack has drifted.
Drifts(r) ==
  /\ Answered(r, "observe")
  /\ queue' = Tail(queue)
  /\ req' = [req EXCEPT ![r].pc = "prepare"]
  /\ UNCHANGED <<tasks, lease, memory, cached, runs, stored, saved, crashes>>

ReviewPrepared(r) ==
  /\ req[r].pc = "prepare"
  /\ Quiet
  /\ Publish(Left(r), req[r].t, "awaiting_adapter_review")
  /\ RunOver(r, TRUE)
  /\ UNCHANGED <<cached, runs, stored, saved, queue, crashes>>

PrepareFails(r) ==
  /\ req[r].pc = "prepare"
  /\ Quiet
  /\ memory' = Left(r)
  /\ RunOver(r, FALSE)
  /\ UNCHANGED <<tasks, lease, cached, runs, stored, saved, queue, crashes>>

\* A task without a known run gets one.
FirstRun(r) ==
  LET t == req[r].t IN
  /\ RunOf(t) = 0
  /\ \E i \in RunIds :
       /\ runs[i].status = "none"
       /\ \A j \in 1..(i - 1) : runs[j].status # "none"
       /\ runs' = [runs EXCEPT ![i] = [NoRun EXCEPT !.task = t,
                                          !.status = "running", !.live = TRUE]]
       /\ req' = [req EXCEPT ![r].pc = "runtime", ![r].run = i]
  /\ UNCHANGED <<tasks, lease, memory, cached, stored, saved>>

\* A running run is recovered, or joined if it is being executed.
Recovers(r, i) ==
  /\ runs[i].status = "running"
  /\ runs' = [runs EXCEPT ![i].live = TRUE]
  /\ memory' = [memory EXCEPT ![req[r].t].run = i]
  /\ req' = [req EXCEPT ![r].pc = "runtime", ![r].run = i]
  /\ UNCHANGED <<tasks, lease, cached, stored, saved>>

\* The run waits for the user: its question is cached, nothing is published.
StillAsks(r, i) ==
  /\ runs[i].status = "interrupted"
  /\ cached' = [cached EXCEPT ![i] = runs[i].ask]
  /\ memory' = [Left(r) EXCEPT ![req[r].t].run = i]
  /\ Emits(Callers(r), req[r].t)
  /\ RunOver(r, TRUE)
  /\ UNCHANGED <<lease, runs, stored, saved>>

HasEnded(r, i) ==
  /\ runs[i].status \in Ended
  /\ Exists(req[r].t)
  /\ RememberResult(Left(r), runs, req[r].t, i)
  /\ RunOver(r, TRUE)
  /\ UNCHANGED runs

Proceeds(r) ==
  \/ FirstRun(r)
  \/ LET i == RunOf(req[r].t) IN
     i # 0 /\ (Recovers(r, i) \/ StillAsks(r, i) \/ HasEnded(r, i))

\* The observation is usable, or failed and is left to the Runtime.
Observed(r) ==
  /\ Answered(r, "observe")
  /\ queue' = Tail(queue)
  /\ Proceeds(r)
  /\ UNCHANGED crashes

\* start, resume or recover returned.  rememberResult throws when the task was
\* deleted meanwhile, after it has set what is in memory.
Returns(r) ==
  LET t == req[r].t
      i == req[r].run IN
  /\ req[r].pc = "runtime"
  /\ ~runs[i].live
  /\ runs[i].status # "running"
  /\ Quiet
  /\ IF Exists(t)
     THEN /\ RememberResult(Left(r), runs, t, i)
          /\ IF req[r].op = "answer" /\ ~req[r].again
             THEN req' = [req EXCEPT ![r].pc = "enter", ![r].again = TRUE, ![r].run = 0]
             ELSE RunOver(r, TRUE)
     ELSE /\ memory' = [Left(r) EXCEPT ![t].run = i]
          /\ cached' = [cached EXCEPT ![i] = IF runs[i].status = "interrupted"
                                             THEN runs[i].ask ELSE None]
          /\ RunOver(r, FALSE)
          /\ UNCHANGED <<tasks, lease, stored, saved>>
  /\ UNCHANGED <<runs, queue, crashes>>

-----------------------------------------------------------------------------
(* POST, open_browser, resume, cancel, DELETE                              *)

\* POST /api/applications: the browser is free of other application tasks.  If
\* a job match holds it, the task is created and undone.
CreateStart(r, t) ==
  /\ Free(r)
  /\ t \in Posted
  /\ ~Exists(t)
  /\ lease \notin Tasks
  /\ RunOf(t) = 0
  /\ memory[t].snapshot = "none"
  /\ tasks' = [tasks EXCEPT ![t] = "observing"]
  /\ memory' = [memory EXCEPT ![t].fallback = "observing"]
  /\ lease' = IF lease = None THEN t ELSE lease
  /\ req' = [req EXCEPT ![r] =
       IF lease = None
       THEN [Starts(r, "create", t, "open") EXCEPT !.reserved = TRUE]
       ELSE Starts(r, "create", t, "undo")]
  /\ queue' = IF lease = None THEN Append(queue, r) ELSE queue
  /\ UNCHANGED <<cached, runs, stored, saved, crashes>>

OpenStart(r, t) ==
  /\ Free(r)
  /\ Exists(t)
  /\ Recalled(t)
  /\ Shown(t) \notin Terminal
  /\ lease \in {None, t}
  /\ lease' = t
  /\ req' = [req EXCEPT ![r] = [Starts(r, "open", t, "open") EXCEPT
                                  !.reserved = lease = None]]
  /\ queue' = Append(queue, r)
  /\ UNCHANGED <<tasks, memory, cached, runs, stored, saved, crashes>>

\* The page is open: a new task, or one that observes, runs.
Opened(r) ==
  LET t == req[r].t IN
  /\ Answered(r, "open")
  /\ IF req[r].op = "open" /\ (~Exists(t) \/ Value(memory, t) # "observing")
     THEN /\ req' = [req EXCEPT ![r] = After(r, Exists(t))]
          /\ queue' = Tail(queue)
          /\ UNCHANGED memory
          /\ Emits({r}, t)
     ELSE /\ IF CannotEnter(t)
             THEN /\ req' = [req EXCEPT ![r] = After(r, FALSE)]
                  /\ queue' = Tail(queue)
                  /\ UNCHANGED memory
             ELSE EnterRun(r, [req[r] EXCEPT !.reserved = FALSE], Tail(queue))
          /\ UNCHANGED tasks
  /\ UNCHANGED <<lease, cached, runs, stored, saved, crashes>>

\* open returns the browser only if it had reserved it.
OpenFails(r) ==
  /\ Answered(r, "open")
  /\ queue' = Tail(queue)
  /\ lease' = IF req[r].reserved THEN Returned(req[r].t) ELSE lease
  /\ req' = [req EXCEPT ![r] = After(r, FALSE)]
  /\ UNCHANGED <<tasks, memory, cached, runs, stored, saved, crashes>>

\* Mutant: the Runtime takes any resolution for the approval of the review.
Approves_Any(ask) == TRUE

\* The resolutions the service sends approve any interrupt but the final review.
Approves(ask) == ask.reason # "final_submit"

\* The interrupt id in memory, if any, is the pending one.
SameAsk(known, ask) == known = None \/ known.n = ask.n

\* resume, resume_after_challenge, resume_with_profile, approve and reject
\* ("resume"), and answer_questions ("answer"): the question in memory, or else
\* the Runtime's, is answered.  No lease is asked for.  When the run has reached
\* its final review meanwhile, which none of these can approve, the Runtime fails
\* the run.
ResumeStart(r, t, op) ==
  /\ Free(r)
  /\ Exists(t)
  /\ Recalled(t)
  /\ Shown(t) = "awaiting_human"
  /\ LET i == RunOf(t) IN
       /\ i # 0
       /\ runs[i].status = "interrupted"
       /\ SameAsk(cached[i], runs[i].ask)
       /\ runs' = [runs EXCEPT ![i].ask = None,
                               ![i].live = Approves(runs[i].ask),
                               ![i].status = IF Approves(runs[i].ask)
                                             THEN "running" ELSE "failed"]
       /\ cached' = [cached EXCEPT ![i] = runs[i].ask]
       /\ memory' = [memory EXCEPT ![t].run = i]
       /\ req' = [req EXCEPT ![r] = [Starts(r, op, t, "runtime") EXCEPT
                                       !.run = i]]
  /\ UNCHANGED <<tasks, lease, stored, saved, queue, crashes>>

\* cancel(): without a known run only the fallback value says so.
CancelsTask(t) ==
  \/ /\ RunOf(t) = 0
     /\ memory' = [memory EXCEPT ![t].fallback = "cancelled"]
     /\ lease' = Returned(t)
     /\ UNCHANGED <<tasks, cached, runs, stored, saved>>
  \/ LET i == RunOf(t)
         rs == [runs EXCEPT ![i] =
                  IF @.status \in Ended THEN @
                  ELSE [@ EXCEPT !.status = "cancelled", !.ask = None]] IN
     /\ i # 0
     /\ runs' = rs
     /\ RememberResult(memory, rs, t, i)

CancelStart(r, t) ==
  /\ Free(r)
  /\ Exists(t)
  /\ Recalled(t)
  /\ Shown(t) \notin Terminal
  /\ CancelsTask(t)
  /\ req' = [req EXCEPT ![r] = Starts(r, "cancel", t, "release")]
  /\ queue' = Append(queue, r)
  /\ UNCHANGED crashes

Undo(r) ==
  /\ req[r].pc = "undo"
  /\ IF Exists(req[r].t) THEN CancelsTask(req[r].t)
     ELSE UNCHANGED <<tasks, lease, memory, cached, runs, stored, saved>>
  /\ req' = [req EXCEPT ![r].pc = "release"]
  /\ queue' = Append(queue, r)
  /\ UNCHANGED crashes

\* dispose: the known run's row and everything in memory go.
Disposes(t) ==
  /\ LET i == RunOf(t) IN
     IF i = 0 THEN UNCHANGED <<cached, stored, saved>>
     ELSE /\ stored' = [stored EXCEPT ![i] = NotStored]
          /\ saved' = Others(i)
          /\ cached' = [cached EXCEPT ![i] = None]
  /\ memory' = [memory EXCEPT ![t] = Forgotten]
  /\ lease' = Returned(t)

\* The browser page of t is closed.
Released(r) ==
  LET t == req[r].t IN
  /\ Answered(r, "release")
  /\ IF req[r].op = "create" /\ Exists(t)
     THEN /\ Disposes(t)
          /\ queue' = Append(Tail(queue), r)
          /\ req' = [req EXCEPT ![r].pc = "delete"]
          /\ UNCHANGED tasks
     ELSE /\ req' = [req EXCEPT ![r] = Idle]
          /\ queue' = Tail(queue)
          /\ UNCHANGED <<lease, memory, cached, stored, saved>>
          /\ Emits({r}, t)
  /\ UNCHANGED <<runs, crashes>>

DeleteStart(r, t) ==
  /\ Free(r)
  /\ Exists(t)
  /\ Recalled(t)
  /\ Shown(t) \in Terminal
  /\ Disposes(t)
  /\ req' = [req EXCEPT ![r] = Starts(r, "delete", t, "delete")]
  /\ queue' = Append(queue, r)
  /\ UNCHANGED <<tasks, runs, crashes>>

\* The row goes, and with it the task's events.
Deleted(r) ==
  /\ Answered(r, "delete")
  /\ queue' = Tail(queue)
  /\ tasks' = [tasks EXCEPT ![req[r].t] = "absent"]
  /\ req' = [req EXCEPT ![r] = Idle]
  /\ UNCHANGED <<lease, memory, cached, runs, stored, saved, crashes>>

-----------------------------------------------------------------------------
(* Adapter certification                                                   *)

CertifyStart(r, t) ==
  /\ Free(r)
  /\ Exists(t)
  /\ Shown(t) = "awaiting_adapter_review"
  /\ memory[t].snapshot = "awaiting_adapter_review"
  /\ req' = [req EXCEPT ![r] = Starts(r, "certify", t, "certify")]
  /\ queue' = Append(queue, r)
  /\ UNCHANGED <<tasks, lease, memory, cached, runs, stored, saved, crashes>>

\* The observation, or the new review of a page that still drifts, failed.
CertifyFails(r) ==
  /\ Answered(r, "certify")
  /\ queue' = Tail(queue)
  /\ req' = [req EXCEPT ![r] = Idle]
  /\ UNCHANGED <<tasks, lease, memory, cached, runs, stored, saved, crashes>>

DriftsAgain(r) ==
  /\ Answered(r, "certify")
  /\ queue' = Tail(queue)
  /\ req' = [req EXCEPT ![r].pc = "reviewing"]
  /\ UNCHANGED <<tasks, lease, memory, cached, runs, stored, saved, crashes>>

\* The page still drifts: the review is published again and the command fails.
StillDrifts(r) ==
  /\ req[r].pc = "reviewing"
  /\ Quiet
  /\ Publish(memory, req[r].t, "awaiting_adapter_review")
  /\ req' = [req EXCEPT ![r] = Idle]
  /\ UNCHANGED <<cached, runs, stored, saved, queue, crashes>>

\* The page matches a certified pack: the task runs with what was observed,
\* and takes the browser if nobody has it.
Certified(r) ==
  LET t == req[r].t
      m == [memory EXCEPT ![t].snapshot = "none", ![t].fallback = "observing"] IN
  /\ Answered(r, "certify")
  /\ queue' = Tail(queue)
  /\ IF m[t].active # None
     THEN /\ req' = [req EXCEPT ![r].pc = "join", ![r].leader = m[t].active]
          /\ memory' = m
          /\ UNCHANGED lease
     ELSE IF Exists(t) /\ lease \in {None, t}
     THEN /\ lease' = t
          /\ memory' = [m EXCEPT ![t].active = r]
          /\ req' = [req EXCEPT ![r].pc = "seeded"]
     ELSE /\ memory' = m
          /\ req' = [req EXCEPT ![r] = Idle]
          /\ UNCHANGED lease
  /\ UNCHANGED <<tasks, cached, runs, stored, saved, crashes>>

Seeded(r) ==
  /\ req[r].pc = "seeded"
  /\ Proceeds(r)
  /\ UNCHANGED <<queue, crashes>>

-----------------------------------------------------------------------------
(* The Runtime and the application executor.                               *)

NextAsk(i, reason) == [n |-> runs[i].asks + 1, reason |-> reason]

\* The executor has saved the question it is about to return.
AskSaved(i) == runs[i].saved # None

\* It saves its state, without the question answered last: before its first
\* action and after every transaction, even if the run was cancelled meanwhile.
ExecutorSaves(i) ==
  /\ runs[i].live
  /\ ~AskSaved(i)
  /\ stored[i].task = None \/ stored[i].ask # None
  /\ Quiet
  /\ Saves(i, [stored[i] EXCEPT !.task = runs[i].task, !.ask = None])
  /\ UNCHANGED <<tasks, lease, memory, cached, runs, req, queue, crashes>>

\* It saves the question before it returns it; the final review locks the
\* application.
ExecutorAsks(i) ==
  /\ runs[i].live
  /\ runs[i].status = "running"
  /\ runs[i].asks < MaxAsks
  /\ stored[i].task # None
  /\ stored[i].ask = None
  /\ ~AskSaved(i)
  /\ Quiet
  /\ \E reason \in {"question", "final_submit"} :
       /\ runs' = [runs EXCEPT ![i].saved = NextAsk(i, reason)]
       /\ Saves(i, [stored[i] EXCEPT !.ask = NextAsk(i, reason),
                                     !.locked = @ \/ reason = "final_submit"])
  /\ UNCHANGED <<tasks, lease, memory, cached, req, queue, crashes>>

\* The run waits for the user: with the executor's question, or with one of the
\* Runtime's own (a clarification, the approval of an irreversible step).
RunPauses(i) ==
  /\ runs[i].live
  /\ runs[i].status = "running"
  /\ runs[i].asks < MaxAsks
  /\ Quiet
  /\ \E reason \in Reasons :
       /\ AskSaved(i) => runs[i].saved = NextAsk(i, reason)
       /\ runs' = [runs EXCEPT ![i] =
            [runs[i] EXCEPT !.status = "interrupted", !.live = FALSE, !.saved = None,
                            !.ask = NextAsk(i, reason), !.asks = runs[i].asks + 1]]
  /\ UNCHANGED <<tasks, lease, memory, cached, stored, saved, req, queue, crashes>>

RunEnds(i) ==
  /\ runs[i].live
  /\ runs[i].status = "running"
  /\ ~AskSaved(i)
  /\ Quiet
  /\ \E status \in {"completed", "failed"} :
       runs' = [runs EXCEPT ![i].status = status, ![i].live = FALSE]
  /\ UNCHANGED <<tasks, lease, memory, cached, stored, saved, req, queue, crashes>>

\* The executor of a cancelled run notices the signal.
RunStops(i) ==
  /\ runs[i].live
  /\ runs[i].status = "cancelled"
  /\ Quiet
  /\ runs' = [runs EXCEPT ![i].live = FALSE, ![i].saved = None]
  /\ UNCHANGED <<tasks, lease, memory, cached, stored, saved, req, queue, crashes>>

-----------------------------------------------------------------------------
(* The rest of the world.                                                  *)

\* GET: state() keeps what it finds in the store.
Recall(t) ==
  LET i == StoredRun(t) IN
  /\ Exists(t)
  /\ memory[t].snapshot = "none"
  /\ i # 0
  /\ Quiet
  /\ memory' = [memory EXCEPT ![t].snapshot = ValueStored(i), ![t].run = i]
  /\ cached' = IF stored[i].ask = None THEN cached
               ELSE [cached EXCEPT ![i] = stored[i].ask]
  /\ UNCHANGED <<tasks, lease, runs, stored, saved, req, queue, crashes>>

\* A job match is converted to a task, or a conversation creates one: the row is
\* kept even if start() refuses because the service knows the id.
Converted(t) ==
  /\ t \notin Posted
  /\ ~Exists(t)
  /\ Quiet
  /\ tasks' = [tasks EXCEPT ![t] = "created"]
  /\ memory' = IF RunOf(t) = 0 /\ memory[t].snapshot = "none"
               THEN [memory EXCEPT ![t].fallback = "observing"] ELSE memory
  /\ UNCHANGED <<lease, cached, runs, stored, saved, req, queue, crashes>>

JobsAcquire ==
  /\ lease = None
  /\ Quiet
  /\ lease' = Jobs
  /\ UNCHANGED <<tasks, memory, cached, runs, stored, saved, req, queue, crashes>>

JobsRelease ==
  /\ lease = Jobs
  /\ Quiet
  /\ lease' = None
  /\ UNCHANGED <<tasks, memory, cached, runs, stored, saved, req, queue, crashes>>

\* What a restart makes of a run: one that was in a step is blocked, one that
\* was between two steps can be recovered.
Restarted(i) ==
  LET stopped == [runs[i] EXCEPT !.live = FALSE, !.saved = None] IN
  IF ~runs[i].live \/ runs[i].status # "running" THEN {stopped}
  ELSE {[stopped EXCEPT !.status = "failed"]}
         \cup (IF AskSaved(i) THEN {} ELSE {stopped})

\* The API restarts.
Crash ==
  /\ crashes < MaxCrashes
  /\ lease' = None
  /\ memory' = [t \in Tasks |-> Forgotten]
  /\ cached' = [i \in RunIds |-> None]
  /\ \E rs \in [RunIds -> UNION {Restarted(i) : i \in RunIds}] :
       /\ \A i \in RunIds : rs[i] \in Restarted(i)
       /\ runs' = rs
  /\ req' = [r \in Requests |-> Idle]
  /\ queue' = <<>>
  /\ crashes' = crashes + 1
  /\ UNCHANGED <<tasks, stored, saved>>

-----------------------------------------------------------------------------
Start ==
  \E r \in {q \in Requests : Free(q) /\ Quiet}, t \in Tasks :
    \/ CreateStart(r, t)
    \/ PageStable(r, t)
    \/ OpenStart(r, t)
    \/ \E op \in {"resume", "answer"} : ResumeStart(r, t, op)
    \/ CancelStart(r, t)
    \/ DeleteStart(r, t)
    \/ CertifyStart(r, t)

Continue(r) ==
  \/ EnterAgain(r) \/ Drifts(r) \/ ReviewPrepared(r) \/ PrepareFails(r)
  \/ Observed(r) \/ Returns(r) \/ Opened(r) \/ OpenFails(r)
  \/ Undo(r) \/ Released(r) \/ Deleted(r)
  \/ CertifyFails(r) \/ DriftsAgain(r) \/ StillDrifts(r) \/ Certified(r) \/ Seeded(r)

Execute(i) ==
  \/ ExecutorSaves(i) \/ ExecutorAsks(i) \/ RunPauses(i) \/ RunEnds(i)
  \/ RunStops(i)

Next ==
  \/ Start
  \/ \E r \in {q \in Requests : req[q].pc # "idle"} : Continue(r)
  \/ \E i \in RunIds : Execute(i)
  \/ \E t \in Tasks : Recall(t) \/ Converted(t)
  \/ JobsAcquire
  \/ JobsRelease
  \/ Crash

Spec == Init /\ [][Next]_vars

-----------------------------------------------------------------------------
(* Properties.                                                             *)

TypeOK ==
  /\ tasks \in [Tasks -> {"absent"} \cup Values]
  /\ lease \in Tasks \cup {Jobs, None}
  /\ memory \in [Tasks -> [snapshot : {"none"} \cup Values,
                           fallback : {"none"} \cup Values,
                           run : {0} \cup RunIds, active : Requests \cup {None}]]
  /\ cached \in [RunIds -> Asks \cup {None}]
  /\ runs \in [RunIds -> [task : Tasks \cup {None},
                          status : {"none", "running", "interrupted"} \cup Ended,
                          ask : Asks \cup {None}, saved : Asks \cup {None},
                          asks : 0..MaxAsks,
                          live : BOOLEAN]]
  /\ stored \in [RunIds -> [task : Tasks \cup {None}, ask : Asks \cup {None},
                            locked : BOOLEAN]]
  /\ req \in [Requests ->
       [op : {"none", "create", "activity", "open", "resume", "answer",
              "cancel", "delete", "certify"},
        t : Tasks \cup {None},
        pc : {"idle", "enter", "join", "observe", "prepare", "runtime", "open",
              "undo", "release", "delete", "certify", "reviewing", "seeded"},
        run : {0} \cup RunIds, leader : Requests \cup {None},
        reserved : BOOLEAN, again : BOOLEAN]]
  /\ saved \in Seq(RunIds)
  /\ queue \in Seq(Requests)
  /\ crashes \in 0..MaxCrashes

\* No request works on t.
Untouched(t) == \A r \in Requests : req[r].t # t

\* What a request does while it leads runUntilPause.
Leads == {"observe", "prepare", "runtime", "seeded"}

AwaitsWorker == {"open", "observe", "release", "delete", "certify"}

\* Whoever waits will be answered: the worker's queue holds each request that
\* awaits it, once; a task's active run, and the run a request joined, are led
\* by a request at work (activeRuns is cleared on every way out of
\* runUntilPause, and dispose clears it under a run).
WaitersAreServed ==
  /\ Len(queue) = Cardinality({r \in Requests : req[r].pc \in AwaitsWorker})
  /\ \A r \in Requests :
       /\ req[r].pc \in AwaitsWorker => \E k \in DOMAIN queue : queue[k] = r
       /\ req[r].pc = "join" => req[req[r].leader].pc \in Leads
  /\ \A t \in Tasks : memory[t].active # None =>
       LET leader == req[memory[t].active] IN
       leader.t = t /\ leader.pc \in Leads

\* A run whose final review is locked in the store is never resumed nor
\* recovered, whatever was remembered, forgotten or restarted in between: its
\* application is submitted by the user or not at all.
LockedRunStays ==
  [][\A i \in RunIds : stored[i].locked /\ ~runs[i].live => ~runs'[i].live]_vars

\* Between requests, the question that a task shows is the one its run waits
\* for: answering it is accepted.
ShownIsAsked(t) ==
  Exists(t) /\ Untouched(t) /\ Recalled(t) /\ Shown(t) = "awaiting_human" =>
    LET i == RunOf(t) IN
    /\ i # 0
    /\ runs[i].status = "interrupted"
    /\ cached[i] = None \/ cached[i].n = runs[i].ask.n

\* Between requests, a run that waits for the user is shown: the task does not
\* claim to be observing the page.
AskedIsShown(t) ==
  Exists(t) /\ Untouched(t) /\ Recalled(t) =>
    LET i == RunOf(t) IN
    i # 0 /\ runs[i].status = "interrupted" => Shown(t) # "observing"

\* The task and its run agree on the pending question: rememberResult keeps the
\* state store, runtimeInterrupts and the snapshot in step with the Runtime
\* through every interleaving of commands.  Until a restart, that is: see
\* InterruptionsAreShown.
QuestionsAgree == crashes = 0 => \A t \in Posted : ShownIsAsked(t) /\ AskedIsShown(t)

-----------------------------------------------------------------------------
(* What the documents promise and the code does not keep: README.md says   *)
(* by which behaviours.  They become properties to check once the code is  *)
(* changed.                                                                *)

\* Every interruption can be resumed by the user, after a restart too.
InterruptionsAreShown == \A t \in Tasks : AskedIsShown(t)

\* Cancelling a task stops its execution: once it is shown as cancelled, no run
\* of its goes on that was not cancelled.
CancelStops ==
  \A t \in Tasks : tasks[t] = "cancelled" =>
    \A i \in RunIds :
      runs[i].task = t /\ runs[i].live => runs[i].status = "cancelled"

\* A task that was deleted, or undone, does not hold the browser once nothing
\* works on it.
GoneReturnsBrowser ==
  \A t \in Tasks : ~Exists(t) /\ Untouched(t) => lease # t

\* A cancel command that succeeds, alone on its task, leaves it in a terminal
\* state.
CancelIsShown ==
  [][\A r \in Requests :
       LET t == req[r].t IN
       /\ req[r].op = "cancel" /\ Released(r)
       /\ Exists(t)
       /\ \A q \in Requests \ {r} : req[q].t # t
       => tasks'[t] \in Terminal]_vars

\* A run is not resumed while somebody else owns the browser.
ResumesOwnTheBrowser ==
  [][\A i \in RunIds :
       runs[i].status = "interrupted" /\ runs'[i].status = "running"
       => lease \in {runs[i].task, None}]_vars

\* A task in a terminal state that nothing works on does not hold the browser.
TerminalReturnsBrowser ==
  \A t \in Tasks : Shown(t) \in Terminal /\ Untouched(t) => lease # t

\* Deleting a task disposes of what the service knew of it.
DeletedIsForgotten ==
  \A t \in Tasks : ~Exists(t) /\ Untouched(t) => RunOf(t) = 0

\* Types, and the agreement of tasks and runs on the pending question.
Consistent == TypeOK /\ QuestionsAgree
=============================================================================
