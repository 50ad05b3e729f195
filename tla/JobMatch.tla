------------------------------ MODULE JobMatch ------------------------------
(***************************************************************************)
(* Job-match sessions: apps/api/src/job-matching/job-match-service.ts, the *)
(* extraction coordinator it awaits, the versioned SQLite repository, the  *)
(* in-memory browser lease it shares with application tasks, and the part  *)
(* of the browser worker that decides whether a job command may touch the  *)
(* page.                                                                   *)
(*                                                                         *)
(* An HTTP request is a process of Requests.  The code is single threaded, *)
(* so a step of a request is the code between two awaits; what a request   *)
(* captured before an await (version, epoch) is in its record.  Commands   *)
(* to the worker wait in the worker's own queue (ipc-server.ts), except    *)
(* invalidate_execution, which jumps it.  A request whose version or state *)
(* guard fails at its start changes nothing and is not a step.             *)
(***************************************************************************)
EXTENDS Naturals, Sequences, FiniteSets

CONSTANTS
  Sessions,    \* ids that create() can draw
  Apps,        \* application tasks, the other owners of the lease
  Requests,    \* HTTP requests that can be in flight at once
  Keys,        \* idempotency keys of conversions
  None,
  MaxPages,    \* budget.maxPages of one extraction
  MaxVersion,  \* bound: no request starts on a session beyond this version
  MaxEpoch,    \* bound on the lease's epoch counter
  MaxFaults    \* bound on crashes, worker exits and request timeouts

ASSUME ConstantsAssumption ==
  /\ MaxPages \in Nat \ {0}
  /\ MaxVersion \in Nat
  /\ MaxEpoch \in Nat
  /\ MaxFaults \in Nat
  /\ None \notin Sessions \cup Apps \cup Requests \cup Keys
  /\ Sessions \cap Apps = {}

VARIABLES
  sessions,   \* the job_match_sessions rows
  ids,        \* session ids not drawn yet
  lease,      \* BrowserOwnershipLease
  worker,     \* the browser worker: alive, execution epochs, command queue
  req,        \* the requests in flight
  tasks,      \* application tasks created by conversions: <<session, key>>
  faults      \* faults so far

vars == <<sessions, ids, lease, worker, req, tasks, faults>>

Terminal == {"converted_to_application", "cancelled"}

Live == {"awaiting_filter_confirmation", "opening_job_page", "extracting_jobs",
         "paused", "matching_jobs", "awaiting_job_selection", "selected"}

States == {"absent"} \cup Live \cup Terminal

Owners == Sessions \cup Apps

Mutating == {"filters", "advance"}

Commands == [from : Requests \cup {None},
             kind : {"open", "observe", "release"} \cup Mutating,
             s : Sessions, epoch : Nat]

Idle == [op |-> "none", s |-> None, pc |-> "idle", reply |-> "none",
         version |-> 0, epoch |-> 0, pages |-> 0, cursor |-> FALSE,
         retried |-> FALSE, key |-> None]

FreshWorker == [alive |-> TRUE, epochs |-> [s \in Sessions |-> 0],
                queue |-> <<>>]

Init ==
  /\ sessions = [s \in Sessions |-> [state |-> "absent", version |-> 0,
                   epoch |-> 0, cursor |-> FALSE, fresh |-> FALSE]]
  /\ ids = Sessions
  /\ lease = [owner |-> None, epoch |-> 0, next |-> 1]
  /\ worker = FreshWorker
  /\ req = [r \in Requests |-> Idle]
  /\ tasks = {}
  /\ faults = 0

-----------------------------------------------------------------------------
(* The lease, the repository and the worker as the service uses them.      *)

\* acquire succeeds for a free lease and, idempotently, for its owner.
CanAcquire(o) ==
  \/ lease.owner = o
  \/ lease.owner = None /\ lease.next <= MaxEpoch

Acquired(o) ==
  IF lease.owner = o THEN lease
  ELSE [owner |-> o, epoch |-> lease.next, next |-> lease.next + 1]

\* releaseOwner: only when this session holds the lease.
Freed == [lease EXCEPT !.owner = None, !.epoch = 0]

Released(s) == IF lease.owner = s THEN Freed ELSE lease

Current_Unchecked(r) == TRUE

\* mutate's optimistic check: the captured version is still the stored one.
Current(r) == req[r].version = sessions[req[r].s].version

\* mutate: whoever writes a state makes the row's version one newer.
Mutated(row, state) == [row EXCEPT !.state = state, !.version = @ + 1]

Sent(w, r, kind, s, epoch) ==
  IF w.alive
  THEN [w EXCEPT !.queue = Append(@, [from |-> r, kind |-> kind, s |-> s,
                                      epoch |-> epoch])]
  ELSE w

Waiting(r, pc) == req[r].pc = pc /\ req[r].reply = "none"

Answered(r, pc, reply) == req[r].pc = pc /\ req[r].reply = reply

\* The request ends here, with a response or an error.
Ends(r) == req' = [req EXCEPT ![r] = Idle]

Starts(r, op, s, pc) ==
  [Idle EXCEPT !.op = op, !.s = s, !.pc = pc, !.version = sessions[s].version]

\* The request now awaits the answer of another command.
Awaits(r, pc) == [req[r] EXCEPT !.pc = pc, !.reply = "none", !.retried = FALSE]

MayStart(r, s) ==
  /\ req[r].pc = "idle"
  /\ sessions[s].state # "absent"
  /\ sessions[s].version <= MaxVersion

\* A command's epoch is compared with the last one the worker accepted or was
\* told to revoke; a worker that forgot the session accepts any epoch.
Accepts(c) == c.kind \in Mutating => c.epoch >= worker.epochs[c.s]

-----------------------------------------------------------------------------
(* create                                                                  *)

CreateStart(r, s) ==
  /\ req[r].pc = "idle"
  /\ s \in ids
  /\ lease.owner = None
  /\ CanAcquire(s)
  /\ ids' = ids \ {s}
  /\ lease' = Acquired(s)
  /\ req' = [req EXCEPT ![r] = [Starts(r, "create", s, "open") EXCEPT
                                  !.epoch = lease.next]]
  /\ worker' = Sent(worker, r, "open", s, 0)
  /\ UNCHANGED <<sessions, tasks, faults>>

\* openPublicBrowser: a first open that fails recycles the worker and retries.
CreateReopen(r) ==
  /\ Answered(r, "open", "err")
  /\ ~req[r].retried
  /\ worker' = Sent(FreshWorker, r, "open", req[r].s, 0)
  /\ req' = [req EXCEPT ![r].reply = "none", ![r].retried = TRUE]
  /\ UNCHANGED <<sessions, ids, lease, tasks, faults>>

CreateObserve(r) ==
  /\ Answered(r, "open", "ok")
  /\ worker' = Sent(worker, r, "observe", req[r].s, 0)
  /\ req' = [req EXCEPT ![r] = Awaits(r, "identify")]
  /\ UNCHANGED <<sessions, ids, lease, tasks, faults>>

\* The page is a job list or a job detail: the session is stored.
CreateStored(r) ==
  /\ Answered(r, "identify", "ok")
  /\ \E entry \in {"awaiting_filter_confirmation", "opening_job_page"} :
       sessions' = [sessions EXCEPT ![req[r].s] =
         [@ EXCEPT !.state = entry, !.version = 1, !.epoch = req[r].epoch]]
  /\ Ends(r)
  /\ UNCHANGED <<ids, lease, worker, tasks, faults>>

\* The page is an application form (a redirect), or the entry failed.
CreateAbandoned(r) ==
  /\ \/ req[r].pc = "identify" /\ req[r].reply # "none"
     \/ Answered(r, "open", "err") /\ req[r].retried
  /\ lease' = Released(req[r].s)
  /\ worker' = Sent(worker, r, "release", req[r].s, 0)
  /\ req' = [req EXCEPT ![r] = Awaits(r, "release")]
  /\ UNCHANGED <<sessions, ids, tasks, faults>>

\* releaseBrowserTask: best effort; a failed release recycles the worker.
ReleaseDone(r) ==
  /\ req[r].pc = "release"
  /\ req[r].reply # "none"
  /\ worker' = IF req[r].reply = "err" THEN FreshWorker ELSE worker
  /\ Ends(r)
  /\ UNCHANGED <<sessions, ids, lease, tasks, faults>>

-----------------------------------------------------------------------------
(* confirmFilters, runExtraction and finalizeMatching                      *)

\* confirmFilters drives the browser with the stored epoch; it asks for no
\* lease.
ConfirmStart(r, s) ==
  /\ MayStart(r, s)
  /\ sessions[s].state = "awaiting_filter_confirmation"
  /\ worker' = Sent(worker, r, "filters", s, sessions[s].epoch)
  /\ req' = [req EXCEPT ![r] = Starts(r, "confirm", s, "filters")]
  /\ UNCHANGED <<sessions, ids, lease, tasks, faults>>

\* runExtraction's start, on the row just written: capture version, epoch and
\* whether a cursor is stored, and send the first read.
ReadKind(cursor) == IF cursor THEN "advance" ELSE "observe"

StartReading(r, row) ==
  /\ sessions' = [sessions EXCEPT ![req[r].s] = row]
  /\ req' = [req EXCEPT ![r] =
       [Awaits(r, "read") EXCEPT !.version = row.version, !.epoch = row.epoch,
                                 !.cursor = row.cursor]]
  /\ worker' = Sent(worker, r, ReadKind(row.cursor), req[r].s, row.epoch)

\* The filters read back as planned: confirmExpectation, then the extraction.
ConfirmApplied(r) ==
  LET row == sessions[req[r].s] IN
  /\ Answered(r, "filters", "ok")
  /\ Current(r)
  /\ row.state = "awaiting_filter_confirmation"
  /\ StartReading(r, Mutated(row, "extracting_jobs"))
  /\ UNCHANGED <<ids, lease, tasks, faults>>

\* The read-back differs, the command failed, or the session moved on.
ConfirmFails(r) ==
  /\ req[r].pc = "filters"
  /\ req[r].reply # "none"
  /\ Ends(r)
  /\ UNCHANGED <<sessions, ids, lease, worker, tasks, faults>>

\* The page budget of one extraction, counting the page just read.
PagesLeft(r) == req[r].pages + 1 < MaxPages

\* A page that is not the last: saveExtractionPage, with no version check, and
\* the next read.  The loop looks at neither state nor version.
PageSaved(r) ==
  /\ Answered(r, "read", "ok")
  /\ PagesLeft(r)
  /\ sessions' = [sessions EXCEPT ![req[r].s].cursor = TRUE]
  /\ req' = [req EXCEPT ![r] = [Awaits(r, "read") EXCEPT !.pages = @ + 1,
                                                         !.cursor = TRUE]]
  /\ worker' = Sent(worker, r, "advance", req[r].s, req[r].epoch)
  /\ UNCHANGED <<ids, lease, tasks, faults>>

\* The last page: the outcome is stored if the captured version still holds,
\* otherwise the request ends with a conflict and only the page is saved.
ExtractionStops(r) ==
  LET s == req[r].s IN
  /\ Answered(r, "read", "ok")
  /\ \E next \in {"paused", "matching_jobs"} :
       IF Current(r)
       THEN /\ sessions' = [sessions EXCEPT ![s] =
                 [Mutated(sessions[s], next) EXCEPT !.cursor = TRUE]]
            /\ req' = [req EXCEPT ![r] = IF next = "paused" THEN Idle
                                         ELSE Awaits(r, "match")]
       ELSE /\ sessions' = [sessions EXCEPT ![s].cursor = TRUE]
            /\ Ends(r)
  /\ UNCHANGED <<ids, lease, worker, tasks, faults>>

MayRetry_Always(r) == TRUE

MayRetry(r) == ~req[r].retried

\* readWithRetry: a failed read is tried once more, then the extraction throws
\* and leaves the session as it is.
ReadFails(r) ==
  /\ req[r].pc = "read"
  /\ req[r].reply # "none"
  /\ IF MayRetry(r)
     THEN /\ req' = [req EXCEPT ![r].reply = "none", ![r].retried = TRUE]
          /\ worker' = Sent(worker, r, ReadKind(req[r].cursor), req[r].s,
                            req[r].epoch)
     ELSE Ends(r) /\ UNCHANGED worker
  /\ UNCHANGED <<sessions, ids, lease, tasks, faults>>

\* finalizeMatching, second half: it re-reads the row after the match and
\* mutates that version, whatever its state has become.
FinalizeMatching(r) ==
  LET s == req[r].s IN
  /\ req[r].pc = "match"
  /\ req[r].op # "rematch"
  /\ sessions' = [sessions EXCEPT ![s] =
       [Mutated(sessions[s], "awaiting_job_selection") EXCEPT !.fresh = TRUE]]
  /\ lease' = Released(s)
  /\ worker' = Sent(worker, r, "release", s, 0)
  /\ req' = [req EXCEPT ![r] = Awaits(r, "release")]
  /\ UNCHANGED <<ids, tasks, faults>>

MatchFails(r) ==
  /\ req[r].pc = "match"
  /\ Ends(r)
  /\ UNCHANGED <<sessions, ids, lease, worker, tasks, faults>>

-----------------------------------------------------------------------------
(* pause, cancel, resume, continueExtraction                               *)

Revocable == [pause |-> {"extracting_jobs"}, cancel |-> Live \cup Terminal]

\* pause and cancel first have the worker revoke the session's epoch.
RevokeStart(r, s, op) ==
  /\ MayStart(r, s)
  /\ sessions[s].state \in Revocable[op]
  /\ req' = [req EXCEPT ![r] = [Starts(r, op, s, "revoke") EXCEPT
                                  !.epoch = sessions[s].epoch + 1]]
  /\ UNCHANGED <<sessions, ids, lease, worker, tasks, faults>>

Stopped_SameVersion(r, state) ==
  sessions' = [sessions EXCEPT ![req[r].s] =
    [@ EXCEPT !.state = state, !.epoch = req[r].epoch]]

Stopped(r, state) ==
  sessions' = [sessions EXCEPT ![req[r].s] =
    [Mutated(sessions[req[r].s], state) EXCEPT !.epoch = req[r].epoch]]

PauseDone(r) ==
  /\ Answered(r, "revoke", "ok")
  /\ req[r].op = "pause"
  /\ Current(r)
  /\ Stopped(r, "paused")
  /\ lease' = Released(req[r].s)
  /\ Ends(r)
  /\ UNCHANGED <<ids, worker, tasks, faults>>

CancelDone(r) ==
  /\ Answered(r, "revoke", "ok")
  /\ req[r].op = "cancel"
  /\ Current(r)
  /\ Stopped(r, "cancelled")
  /\ lease' = Released(req[r].s)
  /\ worker' = Sent(worker, r, "release", req[r].s, 0)
  /\ req' = [req EXCEPT ![r] = Awaits(r, "release")]
  /\ UNCHANGED <<ids, tasks, faults>>

\* The version moved on, or the worker could not be reached.
RevokeFails(r) ==
  /\ req[r].pc = "revoke"
  /\ req[r].reply # "none"
  /\ req[r].reply = "ok" => ~Current(r)
  /\ Ends(r)
  /\ UNCHANGED <<sessions, ids, lease, worker, tasks, faults>>

\* resume, alone or inside continueExtraction: a new lease, a new look.
ResumeStart(r, s, op) ==
  /\ MayStart(r, s)
  /\ sessions[s].state = "paused"
  /\ CanAcquire(s)
  /\ lease' = Acquired(s)
  /\ worker' = Sent(worker, r, "observe", s, 0)
  /\ req' = [req EXCEPT ![r] = [Starts(r, op, s, "reobserve") EXCEPT
                                  !.epoch = Acquired(s).epoch]]
  /\ UNCHANGED <<sessions, ids, tasks, faults>>

\* continueExtraction goes on, in the same run of the event loop, to
\* extracting_jobs and to the extraction; resume stops at opening_job_page.
Resumed(r) ==
  LET row == [sessions[req[r].s] EXCEPT !.epoch = req[r].epoch] IN
  /\ Answered(r, "reobserve", "ok")
  /\ Current(r)
  /\ \/ /\ req[r].op = "resume"
        /\ sessions' = [sessions EXCEPT ![req[r].s] =
             Mutated(row, "opening_job_page")]
        /\ Ends(r)
        /\ UNCHANGED worker
     \/ /\ req[r].op = "continue"
        /\ StartReading(r, Mutated(Mutated(row, "opening_job_page"),
                                   "extracting_jobs"))
  /\ UNCHANGED <<ids, lease, tasks, faults>>

\* The page is unsupported or unreachable, or the version moved on: the catch
\* block releases the lease.
ResumeFails(r) ==
  /\ req[r].pc = "reobserve"
  /\ req[r].reply # "none"
  /\ lease' = Released(req[r].s)
  /\ Ends(r)
  /\ UNCHANGED <<sessions, ids, worker, tasks, faults>>

-----------------------------------------------------------------------------
(* get, rematch, select, convert                                           *)

\* get() after the profile or the expectations changed.
MarkStale(s) ==
  /\ sessions[s].fresh
  /\ sessions' = [sessions EXCEPT ![s].fresh = FALSE]
  /\ UNCHANGED <<ids, lease, worker, req, tasks, faults>>

RematchStart(r, s) ==
  /\ MayStart(r, s)
  /\ sessions[s].state \in {"awaiting_job_selection", "matching_jobs"}
  /\ sessions' = [sessions EXCEPT ![s].fresh = FALSE]
  /\ req' = [req EXCEPT ![r] = Starts(r, "rematch", s, "match")]
  /\ UNCHANGED <<ids, lease, worker, tasks, faults>>

\* The results are saved; the state is, if the version still holds.
RematchDone(r) ==
  LET s == req[r].s IN
  /\ req[r].pc = "match"
  /\ req[r].op = "rematch"
  /\ sessions' = [sessions EXCEPT ![s] =
       IF Current(r)
       THEN [Mutated(sessions[s], "awaiting_job_selection") EXCEPT !.fresh = TRUE]
       ELSE [sessions[s] EXCEPT !.fresh = TRUE]]
  /\ Ends(r)
  /\ UNCHANGED <<ids, lease, worker, tasks, faults>>

Select(s) ==
  /\ sessions[s].state = "awaiting_job_selection"
  /\ sessions[s].fresh
  /\ sessions[s].version <= MaxVersion
  /\ sessions' = [sessions EXCEPT ![s] = Mutated(sessions[s], "selected")]
  /\ UNCHANGED <<ids, lease, worker, req, tasks, faults>>

ConvertStart(r, s, k) ==
  /\ MayStart(r, s)
  /\ sessions[s].state = "selected"
  /\ req' = [req EXCEPT ![r] = [Starts(r, "convert", s, "target") EXCEPT
                                  !.key = k]]
  /\ UNCHANGED <<sessions, ids, lease, worker, tasks, faults>>

\* createFromJob is idempotent in the key; the task exists before the session
\* is mutated, and stays when that conflicts.
ConvertDone(r) ==
  LET s == req[r].s IN
  /\ req[r].pc = "target"
  /\ tasks' = tasks \cup {<<s, req[r].key>>}
  /\ IF Current(r)
     THEN /\ sessions' = [sessions EXCEPT ![s] =
               Mutated(sessions[s], "converted_to_application")]
          /\ lease' = Released(s)
     ELSE UNCHANGED <<sessions, lease>>
  /\ Ends(r)
  /\ UNCHANGED <<ids, worker, faults>>

ConvertFails(r) ==
  /\ req[r].pc = "target"
  /\ Ends(r)
  /\ UNCHANGED <<sessions, ids, lease, worker, tasks, faults>>

-----------------------------------------------------------------------------
(* The worker.                                                             *)

\* What a handled command leaves in executionEpochs.
EpochsAfter(c) ==
  IF c.kind = "release" THEN [worker.epochs EXCEPT ![c.s] = 0]
  ELSE IF c.kind \in Mutating /\ Accepts(c)
       THEN [worker.epochs EXCEPT ![c.s] = c.epoch]
       ELSE worker.epochs

\* The next queued command.  The reply is lost if the request gave up.
WorkerHandles ==
  /\ worker.alive
  /\ worker.queue # <<>>
  /\ LET c == Head(worker.queue) IN
     /\ worker' = [worker EXCEPT !.queue = Tail(@), !.epochs = EpochsAfter(c)]
     /\ \E reply \in {"ok", "err"} :
          /\ ~Accepts(c) => reply = "err"
          /\ req' = IF c.from = None THEN req
                    ELSE [req EXCEPT ![c.from].reply = reply]
  /\ UNCHANGED <<sessions, ids, lease, tasks, faults>>

\* invalidate_execution does not wait in the queue.
WorkerRevokes(r) ==
  LET s == req[r].s IN
  /\ Waiting(r, "revoke")
  /\ worker.alive
  /\ worker' = IF req[r].epoch > worker.epochs[s]
               THEN [worker EXCEPT !.epochs[s] = req[r].epoch] ELSE worker
  /\ req' = [req EXCEPT ![r].reply = "ok"]
  /\ UNCHANGED <<sessions, ids, lease, tasks, faults>>

OnWorker == {"open", "identify", "filters", "read", "reobserve", "release",
             "revoke"}

\* The worker is gone, or was replaced while the command was in its queue.
CommandLost(r) ==
  /\ req[r].pc \in OnWorker
  /\ req[r].reply = "none"
  /\ \/ ~worker.alive
     \/ /\ req[r].pc # "revoke"
        /\ \A i \in 1..Len(worker.queue) : worker.queue[i].from # r
  /\ req' = [req EXCEPT ![r].reply = "err"]
  /\ UNCHANGED <<sessions, ids, lease, worker, tasks, faults>>

\* The client's timer fires; the command stays in the worker's queue.
TimesOut(r) ==
  /\ faults < MaxFaults
  /\ req[r].pc \in OnWorker \ {"revoke"}
  /\ \E i \in 1..Len(worker.queue) :
       /\ worker.queue[i].from = r
       /\ worker' = [worker EXCEPT !.queue[i].from = None]
  /\ req' = [req EXCEPT ![r].reply = "err"]
  /\ faults' = faults + 1
  /\ UNCHANGED <<sessions, ids, lease, tasks>>

WorkerExits ==
  /\ faults < MaxFaults
  /\ worker.alive
  /\ worker' = [FreshWorker EXCEPT !.alive = FALSE]
  /\ faults' = faults + 1
  /\ UNCHANGED <<sessions, ids, lease, req, tasks>>

\* The API restarts: lease, requests and worker are new, the rows remain.
Crash ==
  /\ faults < MaxFaults
  /\ lease' = [owner |-> None, epoch |-> 0, next |-> 1]
  /\ worker' = FreshWorker
  /\ req' = [r \in Requests |-> Idle]
  /\ faults' = faults + 1
  /\ UNCHANGED <<sessions, ids, tasks>>

-----------------------------------------------------------------------------
(* Application tasks, as the lease sees them.                              *)

AppAcquires(a) ==
  /\ lease.owner = None
  /\ CanAcquire(a)
  /\ lease' = Acquired(a)
  /\ UNCHANGED <<sessions, ids, worker, req, tasks, faults>>

AppReleases(a) ==
  /\ lease.owner = a
  /\ lease' = Freed
  /\ UNCHANGED <<sessions, ids, worker, req, tasks, faults>>

\* Opening or releasing an application task replaces a worker that is gone.
AppRecycles ==
  /\ ~worker.alive
  /\ worker' = FreshWorker
  /\ UNCHANGED <<sessions, ids, lease, req, tasks, faults>>

-----------------------------------------------------------------------------
\* What the user or another task starts.
Start ==
  \/ \E r \in Requests, s \in Sessions :
       \/ CreateStart(r, s)
       \/ ConfirmStart(r, s)
       \/ \E op \in {"pause", "cancel"} : RevokeStart(r, s, op)
       \/ \E op \in {"resume", "continue"} : ResumeStart(r, s, op)
       \/ RematchStart(r, s)
       \/ \E k \in Keys : ConvertStart(r, s, k)
  \/ \E s \in Sessions : MarkStale(s) \/ Select(s)
  \/ \E a \in Apps : AppAcquires(a) \/ AppReleases(a)
  \/ AppRecycles

\* What a request does once its answer is there.
Continue(r) ==
  \/ CreateReopen(r) \/ CreateObserve(r) \/ CreateStored(r)
  \/ CreateAbandoned(r) \/ ReleaseDone(r)
  \/ ConfirmApplied(r) \/ ConfirmFails(r)
  \/ PageSaved(r) \/ ExtractionStops(r) \/ ReadFails(r)
  \/ FinalizeMatching(r) \/ MatchFails(r)
  \/ PauseDone(r) \/ CancelDone(r) \/ RevokeFails(r)
  \/ Resumed(r) \/ ResumeFails(r)
  \/ RematchDone(r) \/ ConvertDone(r) \/ ConvertFails(r)
  \/ WorkerRevokes(r) \/ CommandLost(r)

Fault == WorkerExits \/ Crash \/ \E r \in Requests : TimesOut(r)

Next ==
  \/ Start
  \/ \E r \in Requests : Continue(r)
  \/ WorkerHandles
  \/ Fault

Spec == Init /\ [][Next]_vars

\* Continuations run when the event loop gets to them, and the worker handles
\* its queue; users and faults owe nothing.
FairSpec ==
  /\ Spec
  /\ WF_vars(WorkerHandles)
  /\ \A r \in Requests : WF_vars(Continue(r))

-----------------------------------------------------------------------------
(* Properties.                                                             *)

\* Sessions, lease, worker queue and requests keep their shapes.
TypeOK ==
  /\ sessions \in [Sessions -> [state : States, version : Nat, epoch : Nat,
                                cursor : BOOLEAN, fresh : BOOLEAN]]
  /\ ids \subseteq Sessions
  /\ lease \in [owner : Owners \cup {None}, epoch : Nat, next : Nat]
  /\ worker \in [alive : BOOLEAN, epochs : [Sessions -> Nat],
                 queue : Seq(Commands)]
  /\ req \in [Requests ->
       [op : {"none", "create", "confirm", "pause", "cancel", "resume",
              "continue", "rematch", "convert"},
        s : Sessions \cup {None},
        pc : {"idle", "match", "target"} \cup OnWorker,
        reply : {"none", "ok", "err"}, version : Nat, epoch : Nat,
        pages : 0..(MaxPages - 1), cursor : BOOLEAN, retried : BOOLEAN,
        key : Keys \cup {None}]]
  /\ tasks \subseteq Sessions \X Keys
  /\ faults \in 0..MaxFaults

Creating(s) == \E r \in Requests : req[r].s = s /\ req[r].pc \in {"open", "identify"}

Reading(r, s) == req[r].s = s /\ req[r].pc = "read"

\* The lease never stays with a session nobody can release: the session holding
\* it is being created, or is stored in a state that is not terminal
\* (releaseOwner beside every terminal mutate, and in both catch blocks).
LeaseHasLiveOwner ==
  \A s \in Sessions : lease.owner = s =>
    Creating(s) \/ sessions[s].state \in Live

\* Of all extractions of a session, superseded ones included, at most one holds
\* the stored version; while it does, the session is extracting_jobs with the
\* epoch it drives with.  So only it can store an outcome (runExtraction's
\* mutate on session.version).
OneLiveExtraction ==
  \A s \in Sessions : \A r, q \in Requests :
    Reading(r, s) /\ Current(r) =>
      /\ sessions[s].state = "extracting_jobs"
      /\ sessions[s].epoch = req[r].epoch
      /\ Reading(q, s) /\ Current(q) => q = r

\* The moves of a session that the states of packages/job-matching/src/machine.ts
\* allow, with the states the service never stores contracted.
Moves ==
  {<<"absent", "awaiting_filter_confirmation">>, <<"absent", "opening_job_page">>,
   <<"awaiting_filter_confirmation", "extracting_jobs">>,
   <<"extracting_jobs", "paused">>, <<"extracting_jobs", "matching_jobs">>,
   <<"paused", "opening_job_page">>, <<"paused", "extracting_jobs">>,
   <<"matching_jobs", "awaiting_job_selection">>,
   <<"awaiting_job_selection", "selected">>,
   <<"selected", "converted_to_application">>}

\* However requests interleave, a session moves as the machine allows, or is
\* cancelled; the one exception is the result of a match that outlived its
\* session's state (finalizeMatching's re-read).
FollowsMachine ==
  [][\A s \in Sessions :
       \/ sessions'[s].state = sessions[s].state
       \/ <<sessions[s].state, sessions'[s].state>> \in Moves
       \/ sessions'[s].state = "cancelled"
       \/ /\ sessions'[s].state = "awaiting_job_selection"
          /\ \E r \in Requests : /\ req[r].s = s /\ req[r].pc = "match"
                                /\ req'[r].pc = "release"]_vars

\* Every request ends: the extraction loop stops at its page budget, and lost
\* or rejected commands are answered with an error.
RequestsEnd ==
  \A r \in Requests : req[r].pc # "idle" ~> req[r].pc = "idle"

-----------------------------------------------------------------------------
(* What the documents promise and the code does not keep: README.md says   *)
(* by which behaviours.  They become properties to check once the code is  *)
(* changed.                                                                *)

\* The worker lets the head of its queue touch the page of s.
Drives(s) ==
  /\ worker.queue # <<>>
  /\ Head(worker.queue).s = s
  /\ Head(worker.queue).kind \in Mutating
  /\ Accepts(Head(worker.queue))
  /\ worker'.queue = Tail(worker.queue)
  /\ worker'.epochs[s] = Head(worker.queue).epoch

\* "cancelled: { type: final }" and "converted_to_application: { type: final }"
\* (packages/job-matching/src/machine.ts 188-190): a terminal session stays so.
TerminalIsFinal ==
  [][\A s \in Sessions : sessions[s].state \in Terminal =>
       sessions'[s].state = sessions[s].state]_vars

\* At any moment only the lease's owner drives the browser (job-matching design
\* of 2026-08-16, line 225): the worker lets no command of a session through
\* while the lease is free or somebody else's.
OnlyOwnerDrives ==
  [][\A s \in Sessions : Drives(s) => lease.owner = s]_vars

\* A session that reached awaiting_job_selection, and that no request is still
\* working on, has returned the browser (browser-lease design of 2026-09-06,
\* lines 47-49).
SelectionHoldsNoLease ==
  \A s \in Sessions :
    /\ sessions[s].state = "awaiting_job_selection"
    /\ \A r \in Requests : req[r].s # s
    => lease.owner # s

\* "paused keeps the cursor ...; continuing starts a new budget from it" (same
\* design, line 111): unless another request is at work on the session, the
\* worker accepts the epoch of a continued extraction.
LiveExtractionIsHeard ==
  \A s \in Sessions, r \in Requests :
    /\ Reading(r, s)
    /\ Current(r)
    /\ req[r].op = "continue"
    /\ \A q \in Requests \ {r} : req[q].s # s
    => req[r].epoch >= worker.epochs[s]

\* Types; the lease is held for a live request or a paused session, and one
\* extraction at a time reads for a session.
Consistent == TypeOK /\ OneLiveExtraction /\ LeaseHasLiveOwner
=============================================================================
