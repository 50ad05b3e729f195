------------------------ MODULE ApplicationExecution ------------------------
(***************************************************************************)
(* One application task while the Agent Runtime fills its pages: the       *)
(* application specialist (a dispatch per step of the plan), the subgraph  *)
(* it runs, the application tools that bind a command to an observation    *)
(* and an epoch, the client's request with its timeout, and the browser    *)
(* worker that prepares, guards and lands a write on a page that the site  *)
(* and the user change meanwhile.  The Runtime around it (its budgets,     *)
(* approvals and checkpoints) is AgentRuntime; here it starts dispatches,  *)
(* and is told of interruptions, failures and completions.                 *)
(*                                                                         *)
(* An observation is identified by the version of the page it saw: ids of  *)
(* snapshots, documents and nodes are abstracted by it.  The lists of      *)
(* planned and completed command ids are reduced to what is asked of them: *)
(* whether a command completed before (app.done).                          *)
(***************************************************************************)
EXTENDS Integers, Sequences, FiniteSets

CONSTANTS
    Fields,         \* the fields of the form
    Named,          \* those with a semantic hint, which the element's name gives
    FieldsOf,       \* the fields of each of its pages, in order
    Steps,          \* the plan's application steps, before the irreversible one
    AuditEvery,     \* PERIODIC_AUDIT_INTERVAL
    MaxIterations,  \* transactions one dispatch may try
    MaxTouches,     \* bound: changes of the page by the site or the user
    MaxFaults,      \* bound: requests that time out or fail, and crashes
    MaxReviews,     \* bound: adapter reviews asked of this page
    MaxResumes      \* bound: answers of the user

ASSUME FieldsAssumption ==
    /\ FieldsOf \in Seq(SUBSET Fields) /\ FieldsOf # <<>>
    /\ Named \subseteq Fields
    /\ "next" \notin Fields
ASSUME BoundsAssumption ==
    /\ {Steps, AuditEvery, MaxIterations} \subseteq Nat \ {0}
    /\ {MaxTouches, MaxFaults, MaxReviews, MaxResumes} \subseteq Nat

VARIABLES
    page,    \* the page in the browser
    worker,  \* the browser worker's record of the task
    cmd,     \* the command at the worker, if any
    api,     \* what the API process remembers of the task: tools and service
    d,       \* the dispatch in progress
    saved,   \* the persisted application state
    run,     \* the Runtime's run
    left     \* what remains of the bounds

vars == <<page, worker, cmd, api, d, saved, run, left>>

-----------------------------------------------------------------------------
(* Pages *)

Next == "next"  \* the target of an intermediate click
Value == {"empty", "ours", "other"}
Stage == {"application_form", "login", "review", "unknown"}
Page == [ver : Nat, form : 1..Len(FieldsOf), stage : Stage, challenge : BOOLEAN,
         next : BOOLEAN, val : [Fields -> Value]]
Opened(v) == [ver |-> v, form |-> 1, stage |-> "application_form",
              challenge |-> FALSE, next |-> TRUE, val |-> [f \in Fields |-> "empty"]]
NoPage == Opened(0)
Shown(p, f) == f \in FieldsOf[p.form]
Empty(p) == {f \in FieldsOf[p.form] : p.val[f] = "empty"}

\* Whatever changes a page makes a version of it.
Changed(p) == [p EXCEPT !.ver = @ + 1]

\* What the site or the user may do to the page between two steps.
Touched(p) ==
    LET q == Changed(p) IN
    {[q EXCEPT !.challenge = ~@], [q EXCEPT !.next = ~@]}
    \cup {[q EXCEPT !.stage = s] : s \in Stage \ {p.stage}}
    \cup {[q EXCEPT !.val[f] = v] : f \in FieldsOf[p.form], v \in {"empty", "other"}}

-----------------------------------------------------------------------------
(* The worker's record, the command it holds, the dispatch *)

NoWorker == [epoch |-> 0, seen |-> 0, releasing |-> FALSE]
NoCmd == [pc |-> "none", epoch |-> 0, on |-> 0, target |-> Next, ahead |-> FALSE,
          heard |-> FALSE]
NewApp(e) == [epoch |-> e, retry |-> FALSE, locked |-> FALSE, done |-> FALSE]
NoMemory == [latest |-> 0, snap |-> NoPage, seed |-> NoPage, ledger |-> {},
             since |-> 0, reviews |-> 0, deaf |-> FALSE]
NoDispatch == [at |-> "idle", then |-> "none", target |-> Next,
               sent |-> FALSE, retried |-> FALSE, iter |-> 0, app |-> NewApp(0)]
Pending == {"none", "question", "content_review", "login", "challenge", "final_review"}

Init ==
    /\ page = Opened(1)
    /\ worker = NoWorker
    /\ cmd = NoCmd
    /\ api = NoMemory
    /\ d = NoDispatch
    /\ saved = [exists |-> FALSE, app |-> NewApp(0), pend |-> "none"]
    /\ run = [status |-> "new", step |-> 1, epoch |-> 0, resumed |-> FALSE]
    /\ left = [touches |-> MaxTouches, faults |-> MaxFaults, resumes |-> MaxResumes]

Highest(a, b) == IF a >= b THEN a ELSE b
Failing == left.faults > 0 /\ left' = [left EXCEPT !.faults = @ - 1]

\* The worker serves requests one at a time: a request waits for the command
\* and the release before it.  Invalidations do not wait.
WorkerFree == cmd.pc = "none" /\ ~worker.releasing

\* The worker gives up the observation and, from then on, refuses what an
\* older epoch authorised.
Invalidated(e) == [worker EXCEPT !.epoch = Highest(@, e), !.seen = 0]

-----------------------------------------------------------------------------
(* The service and the Runtime around the dispatches *)

\* The service observes the page before the first dispatch and hands the
\* observation to it; a page whose hint pack has drifted is reviewed first.
Seed ==
    /\ run' = [run EXCEPT !.status = "running"]
    /\ api' = [api EXCEPT !.seed = page]
    /\ worker' = [worker EXCEPT !.seen = page.ver]
    /\ UNCHANGED left

AskReview ==
    /\ page.stage = "application_form" /\ api.reviews < MaxReviews
    /\ run' = [run EXCEPT !.status = "reviewing"]
    /\ api' = [api EXCEPT !.reviews = @ + 1]
    /\ worker' = Invalidated(api.reviews + 1)
    /\ UNCHANGED left

StartUnseen ==
    /\ run.status = "new" /\ Failing
    /\ run' = [run EXCEPT !.status = "running"]
    /\ UNCHANGED <<api, worker>>

Start ==
    /\ run.status \in {"new", "reviewing"} /\ d.at = "idle" /\ WorkerFree
    /\ Seed \/ AskReview \/ StartUnseen
    /\ UNCHANGED <<page, cmd, d, saved>>

\* The user answers.  An answer to a question about a field carries no field
\* the Runtime can bind it to: it fails the run before any dispatch.
Resume ==
    /\ run.status = "interrupted" /\ d.at = "idle" /\ left.resumes > 0
    /\ left' = [left EXCEPT !.resumes = @ - 1]
    /\ run' = IF saved.pend = "question"
              THEN [run EXCEPT !.status = "failed"]
              ELSE [run EXCEPT !.status = "running", !.epoch = @ + 1, !.resumed = TRUE]
    /\ UNCHANGED <<page, worker, cmd, api, d, saved>>

\* The Runtime is told at once; the worker's release waits its turn.
Cancel ==
    /\ run.status \in {"running", "interrupted"}
    /\ run' = [run EXCEPT !.status = "cancelled"]
    /\ worker' = [worker EXCEPT !.releasing = TRUE]
    /\ UNCHANGED <<page, cmd, api, d, saved, left>>

\* The API process dies, and its worker with it; the page is opened anew.  A
\* run with a dispatch in flight is blocked when it is recovered.  (A crash after
\* the run has ended only takes the worker away.)
Crash ==
    /\ run.status \in {"reviewing", "running", "interrupted"} /\ Failing
    /\ page' = Opened(page.ver + 1)
    /\ worker' = NoWorker /\ cmd' = NoCmd /\ api' = NoMemory /\ d' = NoDispatch
    /\ run' = IF d.at # "idle" THEN [run EXCEPT !.status = "failed"] ELSE run
    /\ UNCHANGED saved

Touch ==
    /\ run.status \in {"new", "reviewing", "running", "interrupted"} /\ left.touches > 0
    /\ left' = [left EXCEPT !.touches = @ - 1]
    /\ page' \in Touched(page)
    /\ UNCHANGED <<worker, cmd, api, d, saved, run>>

-----------------------------------------------------------------------------
(* A dispatch: how it begins and how it ends *)

\* What the dispatch starts from: the saved state, raised to the run's epoch.
FromSaved ==
    IF saved.exists
    THEN [saved.app EXCEPT !.epoch = Highest(@, run.epoch)]
    ELSE NewApp(run.epoch)

\* The irreversible step, and the step that stopped at the final review, are
\* acknowledged without touching the browser.
Acknowledge ==
    /\ run.step > Steps \/ saved.pend = "final_review"
    /\ saved' = [exists |-> TRUE, app |-> [FromSaved EXCEPT !.locked = TRUE], pend |-> "none"]
    /\ run' = [run EXCEPT !.step = @ + 1, !.resumed = FALSE,
                          !.status = IF run.step > Steps THEN "completed" ELSE @]
    /\ UNCHANGED d

BeginStep ==
    /\ run.step <= Steps /\ saved.pend # "final_review"
    /\ saved.pend # "none" => run.resumed
    /\ d' = [NoDispatch EXCEPT !.at = "observe", !.app = FromSaved]
    /\ saved' = IF saved.exists THEN saved ELSE [saved EXCEPT !.exists = TRUE, !.app = FromSaved]
    /\ run' = [run EXCEPT !.resumed = FALSE]

Begin ==
    /\ run.status = "running" /\ d.at = "idle"
    /\ Acknowledge \/ BeginStep
    /\ UNCHANGED <<page, worker, cmd, api, left>>

\* The state is saved whatever the result; a cancelled run ignores the result.
Report(app, pend, status) ==
    /\ saved' = [exists |-> TRUE, app |-> app, pend |-> pend]
    /\ run' = IF run.status = "running" THEN [run EXCEPT !.status = status] ELSE run
    /\ d' = NoDispatch
Interrupted(app, pend) == Report(app, pend, "interrupted")
Failed(app) == Report(app, "none", "failed")

MayIterate == d.iter + 1 < MaxIterations

\* The page transaction ended as "running".  The step is complete when a
\* command was sent, now or ever; otherwise the page is looked at again, unless
\* the run was cancelled or the transactions are used up (a failure that the
\* Runtime may retry).
Running(app) ==
    LET sent == d.sent \/ app.done IN
    \/ /\ sent
       /\ saved' = [exists |-> TRUE, app |-> app, pend |-> "none"]
       /\ run' = IF run.status = "running" THEN [run EXCEPT !.step = @ + 1] ELSE run
       /\ d' = NoDispatch
    \/ /\ ~sent /\ MayIterate /\ run.status = "running"
       /\ saved' = [exists |-> TRUE, app |-> app, pend |-> "none"]
       /\ d' = [d EXCEPT !.at = "observe", !.iter = @ + 1, !.app = app]
       /\ UNCHANGED run
    \/ /\ ~sent /\ (~MayIterate \/ run.status # "running")
       /\ \E s \in {"running", "failed"} : Report(app, "none", s)

\* Before it stops for a challenge, a review or a failure, the subgraph
\* invalidates what it has authorised.
Stopping(then, app) == d' = [d EXCEPT !.at = "invalidate", !.then = then, !.app = app]
                       /\ UNCHANGED <<saved, run>>

Invalidate ==
    /\ d.at = "invalidate"
    /\ \/ /\ worker' = Invalidated(api.latest + 1)
          /\ api' = [api EXCEPT !.latest = @ + 1]
          /\ LET app == [d.app EXCEPT !.epoch = api.latest + 1,
                                      !.locked = @ \/ d.then = "final_review"] IN
             IF d.then = "failed" THEN Failed(app) ELSE Interrupted(app, d.then)
          /\ UNCHANGED left
       \/ /\ Failing
          /\ api' = [api EXCEPT !.latest = @ + 1, !.deaf = TRUE]
          /\ Failed(d.app)
          /\ UNCHANGED worker
    /\ UNCHANGED <<page, cmd>>

-----------------------------------------------------------------------------
(* Observing and planning *)

\* The page the subgraph reads: what the service saw, once, or the worker's.
Observes(p) ==
    IF api.seed # NoPage
    THEN p = api.seed /\ UNCHANGED worker
    ELSE WorkerFree /\ p = page /\ worker' = [worker EXCEPT !.seen = page.ver]

\* Where the page's kind leads; a form leads on to `otherwise'.
Classify(p, app, otherwise) ==
    \/ p.challenge /\ Stopping("challenge", app)
    \/ ~p.challenge /\ p.stage = "login" /\ Interrupted(app, "login")
    \/ ~p.challenge /\ p.stage = "review" /\ Stopping("final_review", app)
    \/ ~p.challenge /\ p.stage = "unknown" /\ Failed(app)
    \/ ~p.challenge /\ p.stage = "application_form" /\ otherwise

Observe ==
    /\ d.at = "observe"
    /\ \/ \E p \in {page, api.seed} :
            /\ Observes(p)
            /\ api' = [api EXCEPT !.snap = p, !.seed = NoPage]
            /\ Classify(p, d.app, d' = [d EXCEPT !.at = "plan"] /\ UNCHANGED <<saved, run>>)
            /\ UNCHANGED left
       \/ /\ Failing /\ Failed(d.app) /\ UNCHANGED <<api, worker>>
    /\ UNCHANGED <<page, cmd>>

\* What the fields resolve to may be a question, a review, or a failure.
Unresolved ==
    /\ Empty(api.snap) # {}
    /\ \/ Interrupted(d.app, "question") \/ Interrupted(d.app, "content_review") \/ Failed(d.app)
    /\ UNCHANGED <<cmd, api>>

\* A plan takes the epoch after the application's, which must be above every
\* epoch handed out so far: the plan fails otherwise.
CommandEpoch == d.app.epoch + 1
Reserved == CommandEpoch > api.latest
Take(planned) ==
    IF Reserved THEN planned ELSE Failed(d.app) /\ UNCHANGED <<cmd, api>>

\* The command is bound to the observation and the epoch.
Send(target) ==
    /\ api' = [api EXCEPT !.latest = CommandEpoch, !.since = IF target = Next THEN 0 ELSE @]
    /\ cmd' = [pc |-> "queued", epoch |-> CommandEpoch, on |-> api.snap.ver,
               target |-> target, ahead |-> ~worker.releasing, heard |-> TRUE]
    /\ d' = [d EXCEPT !.at = "executing", !.target = target, !.sent = TRUE,
                      !.retried = FALSE, !.app.epoch = CommandEpoch]
    /\ UNCHANGED <<saved, run>>

\* The epoch is taken, and no command sent.
TakenInVain == api' = [api EXCEPT !.latest = CommandEpoch] /\ UNCHANGED cmd

\* A file field may have no file to upload.
PlanField ==
    \E f \in Empty(api.snap) : Take(Send(f) \/ (TakenInVain /\ Failed(d.app)))

\* What the ledger and a page disagree on: every field in it must be on the
\* page, with the value that was applied.  (A hint is taken to name one field.)
Mismatches(p, ledger) == {f \in ledger : ~Shown(p, f) \/ p.val[f] # "ours"}

\* At a phase boundary the whole page is audited before it is left.
AuditBeforeLeaving_Periodic ==
    api.since < AuditEvery \/ Mismatches(api.snap, api.ledger) = {}
AuditBeforeLeaving == Mismatches(api.snap, api.ledger) = {}
PlanNavigation ==
    /\ api.snap.next
    /\ Take(IF AuditBeforeLeaving THEN Send(Next)
            ELSE TakenInVain /\ Stopping("failed", d.app))

\* Fields that need no answer may stay empty.
NothingToFill ==
    \/ PlanNavigation
    \/ /\ ~api.snap.next /\ UNCHANGED <<cmd, api>>
       /\ Stopping("final_review", d.app) \/ Running(d.app)

Plan ==
    /\ d.at = "plan" /\ cmd.pc = "none"
    /\ Unresolved \/ PlanField \/ NothingToFill
    /\ UNCHANGED <<page, worker, left>>

-----------------------------------------------------------------------------
(* The worker executes a command *)

\* A client that gave the request up does not hear the answer.
Dropped == cmd' = NoCmd /\ ~cmd.heard /\ UNCHANGED <<api, d, saved, run>>

\* A refusal comes with the last observation, or as an error when there is none.
Refusal ==
    /\ cmd' = NoCmd /\ cmd.heard /\ UNCHANGED api
    /\ Stopping("failed", [d.app EXCEPT !.done = @ \/ worker.seen # 0])

\* Any other answer comes with a new observation.
Answer(applied) ==
    /\ cmd' = NoCmd /\ cmd.heard
    /\ api' = [api EXCEPT !.snap = page]
    /\ LET app == [d.app EXCEPT !.done = TRUE] IN
       \/ page.challenge /\ Stopping("challenge", app)
       \/ ~page.challenge /\ ~applied /\ Stopping("failed", app)
       \/ /\ ~page.challenge /\ applied
          /\ d' = [d EXCEPT !.at = "readback1", !.app = app]
          /\ UNCHANGED <<saved, run>>

\* The command is refused when its epoch is old; its epoch becomes the task's
\* otherwise.  Then the worker's observation must be the command's, and the
\* page the one observed: the same document, nothing mutated since.
Admitted_Later == cmd.epoch > worker.epoch
Admitted == cmd.epoch >= worker.epoch
Unmutated == page.ver = cmd.on
Served_WhenKept == ~worker.releasing
Served == worker.releasing => cmd.ahead
Prepare ==
    /\ cmd.pc = "queued" /\ Served
    /\ LET epoch == Highest(worker.epoch, cmd.epoch) IN
       \/ /\ ~Admitted \/ worker.seen # cmd.on
          /\ worker' = [worker EXCEPT !.epoch = epoch]
          /\ Dropped \/ Refusal
       \/ /\ Admitted /\ worker.seen = cmd.on /\ ~Unmutated
          /\ worker' = [worker EXCEPT !.epoch = epoch, !.seen = page.ver]
          /\ Dropped \/ Answer(FALSE)
       \/ /\ Admitted /\ worker.seen = cmd.on /\ Unmutated
          /\ worker' = [worker EXCEPT !.epoch = epoch]
          /\ cmd' = [cmd EXCEPT !.pc = "prepared"]
          /\ UNCHANGED <<api, d, saved, run>>
    /\ UNCHANGED <<page, left>>

\* The last look before the page is touched: only a command that nobody waits
\* for any more has lost its epoch.
IsCurrent == worker.epoch = cmd.epoch
Guard ==
    /\ cmd.pc = "prepared"
    /\ \/ /\ IsCurrent
          /\ cmd' = [cmd EXCEPT !.pc = "writing"]
          /\ UNCHANGED <<worker, api, d, saved, run>>
       \/ /\ ~IsCurrent
          /\ worker' = [worker EXCEPT !.seen = page.ver]
          /\ Dropped
    /\ UNCHANGED <<page, left>>

\* What the write does: the field takes the value, or the site makes it
\* another; a click leads to the next page or the review, or nowhere.
Landed(p) ==
    LET q == Changed(p) IN
    IF cmd.target = Next
    THEN {q} \cup {IF p.form < Len(FieldsOf) THEN [q EXCEPT !.form = @ + 1]
                   ELSE [q EXCEPT !.stage = "review"]}
    ELSE {[q EXCEPT !.val[cmd.target] = v] : v \in Value}
Land ==
    /\ cmd.pc = "writing"
    /\ page' \in Landed(page)
    /\ cmd' = [cmd EXCEPT !.pc = "landed"]
    /\ UNCHANGED <<worker, api, d, saved, run, left>>

\* The value is read back at the worker, or the page has moved on from the one
\* the click was planned on; the page is observed again.
Progressed == [page EXCEPT !.ver = api.snap.ver] # api.snap
Applied ==
    IF cmd.target = Next THEN Progressed ELSE IsCurrent /\ page.val[cmd.target] = "ours"
Finish ==
    /\ cmd.pc = "landed"
    /\ worker' = [worker EXCEPT !.seen = page.ver]
    /\ Dropped \/ Answer(Applied)
    /\ UNCHANGED <<page, left>>

\* A release waits for the command ahead of it, then forgets the task.
Release ==
    /\ worker.releasing
    /\ cmd.pc = "none" \/ (cmd.pc = "queued" /\ ~cmd.ahead)
    /\ worker' = NoWorker
    /\ UNCHANGED <<page, cmd, api, d, saved, run, left>>

\* The client stops waiting; the worker knows nothing of it.
Timeout ==
    /\ d.at = "executing" /\ Failing
    /\ cmd' = [cmd EXCEPT !.heard = FALSE]
    /\ Stopping("failed", d.app)
    /\ UNCHANGED <<page, worker, api>>

-----------------------------------------------------------------------------
(* Reading back, auditing, and going on *)

ReadbackOK(p) == d.target = Next \/ p.val[d.target] = "ours"

\* One retry of the readback in the life of the application.
MayRetry == ~d.retried /\ ~d.app.retry
Mismatch ==
    LET app == [d.app EXCEPT !.retry = TRUE] IN
    IF MayRetry
    THEN d' = [d EXCEPT !.at = "readback1", !.retried = TRUE, !.app = app] /\ UNCHANGED <<saved, run>>
    ELSE Stopping("failed", app)

\* What an observation made for a readback leads to.
Readback(at, confirmed) ==
    /\ d.at = at
    /\ \/ /\ WorkerFree
          /\ worker' = [worker EXCEPT !.seen = page.ver]
          /\ api' = [api EXCEPT !.snap = page]
          /\ \/ page.challenge /\ Stopping("challenge", d.app)
             \/ ~page.challenge /\ ~confirmed /\ Mismatch
             \/ /\ ~page.challenge /\ confirmed
                /\ d' = [d EXCEPT !.at = IF at = "readback1" THEN "readback2" ELSE "audit"]
                /\ UNCHANGED <<saved, run>>
          /\ UNCHANGED left
       \/ Failing /\ Stopping("failed", d.app) /\ UNCHANGED <<api, worker>>
    /\ UNCHANGED <<page, cmd>>

\* The second observation must be of the very page of the first.
Readback1 == Readback("readback1", ReadbackOK(page))
Readback2 == Readback("readback2", ReadbackOK(page) /\ page.ver = api.snap.ver)

\* auditableOperationKey: a field without a semantic hint has no key to be
\* compared under.
Auditable(f) == f \in Named

\* A confirmed field enters the ledger if it is auditable; the others are never
\* compared again.  Every AuditEvery of them, the page is audited.  Then the
\* page's kind is looked at again.
AuditDue(since) == since >= AuditEvery
Audit ==
    /\ d.at = "audit"
    /\ LET recorded == Auditable(d.target)
           ledger == IF recorded THEN api.ledger \cup {d.target} ELSE api.ledger
           since == IF recorded THEN api.since + 1 ELSE api.since
           due == d.target # Next /\ AuditDue(since)
           passed == Mismatches(api.snap, ledger) = {} IN
       /\ api' = [api EXCEPT !.ledger = ledger, !.since = IF due /\ passed THEN 0 ELSE since]
       /\ IF due /\ ~passed
          THEN Stopping("failed", d.app)
          ELSE Classify(api.snap, d.app, Running(d.app))
    /\ UNCHANGED <<page, worker, cmd, left>>

-----------------------------------------------------------------------------
Dispatch == Begin \/ Observe \/ Plan \/ Readback1 \/ Readback2 \/ Audit \/ Invalidate
Worker == Prepare \/ Guard \/ Land \/ Finish \/ Release
Step == Dispatch \/ Worker \/ Start \/ Resume \/ Cancel \/ Crash \/ Touch \/ Timeout

Spec == Init /\ [][Step]_vars

\* The API and the worker go on with what they have; nobody else has to act.
FairSpec == Spec /\ WF_vars(Dispatch) /\ WF_vars(Worker)

-----------------------------------------------------------------------------
(* Properties *)

App == [epoch : Nat, retry : BOOLEAN, locked : BOOLEAN, done : BOOLEAN]
\* Types of the state.
TypeOK ==
    /\ page \in Page
    /\ worker \in [epoch : Nat, seen : Nat, releasing : BOOLEAN]
    /\ cmd \in [pc : {"none", "queued", "prepared", "writing", "landed"}, epoch : Nat,
                on : Nat, target : Fields \cup {Next}, ahead : BOOLEAN, heard : BOOLEAN]
    /\ api.snap \in Page /\ api.seed \in Page /\ api.ledger \subseteq Fields
    /\ api.latest \in Nat /\ api.since \in 0..AuditEvery /\ api.reviews \in 0..MaxReviews
    /\ d.at \in {"idle", "observe", "plan", "executing", "readback1", "readback2",
                 "audit", "invalidate"}
    /\ d.then \in {"none", "failed", "challenge", "final_review"}
    /\ d.target \in Fields \cup {Next} /\ d.iter \in 0..(MaxIterations - 1) /\ d.app \in App
    /\ saved \in [exists : BOOLEAN, app : App, pend : Pending]
    /\ run.status \in {"new", "reviewing", "running", "interrupted", "completed",
                       "failed", "cancelled"}
    /\ run.step \in 1..(Steps + 2) /\ run.epoch \in Nat

\* Three counters of epochs (the Runtime's, the tools' and the service's for
\* adapter reviews) meet at the worker.  A command its dispatch still waits for
\* is only ever refused for its epoch when the reviews' counter has overtaken
\* it: never after a restart, a resume or an earlier invalidation.
EpochsAgree ==
    cmd.pc = "queued" /\ cmd.heard /\ ~Admitted => api.reviews > cmd.epoch

\* Once a dispatch has reported that its request failed, nothing of it starts
\* on the page any more, however late the worker comes to it (unless the worker
\* could not be told).
StartsWriting == cmd.pc = "prepared" /\ cmd'.pc = "writing"
NothingStartsAfterFailure ==
    [][StartsWriting => d.at \in {"executing", "invalidate"} \/ api.deaf]_vars

\* A page is left only when it holds, at the moment the click is prepared,
\* every value that was applied to a field with a semantic hint and confirmed,
\* whatever the site or the user changed after the audit.
NavigationLeavesVerified ==
    [][cmd.pc = "queued" /\ cmd'.pc = "prepared" /\ cmd.target = Next
         => \A f \in api.ledger : page.val[f] = "ours"]_vars

\* A write is prepared only for a field that is still empty: what the user
\* typed, or another write, is never overwritten.
KeepsUserInput ==
    [][cmd.pc = "queued" /\ cmd'.pc = "prepared" /\ cmd.target # Next
         => page.val[cmd.target] = "empty"]_vars

\* A step that wrote a field completes only when the page last seen by the API
\* holds the value, and the ledger will watch the field if it has a hint.
CompletedIsReadBack ==
    [][run'.step > run.step /\ d.sent /\ d.target # Next
         => /\ api.snap.val[d.target] = "ours"
            /\ d.target \in Named => d.target \in api'.ledger]_vars

\* A dispatch always ends: it waits for no one but the worker.
DispatchEnds == d.at # "idle" ~> d.at = "idle"

-----------------------------------------------------------------------------
(* What the documents promise and the code does not keep *)

\* docs/architecture/agent-runtime.md: a cancellation "prevents new side-effect
\* actions from starting".
CancelStopsCommands ==
    [][cmd.pc = "none" /\ cmd'.pc = "queued" => run.status # "cancelled"]_vars

\* docs/superpowers/plans/2026-08-15-runtime-node-identity-and-readback.md:20:
\* the audit runs "after each eight successful fields"; only those whose element
\* has a name are counted and compared.
AuditWatchesEveryField ==
    [][run'.step > run.step /\ d.sent /\ d.target # Next
         => d.target \in api'.ledger]_vars

\* The audit stops a task for a value that was rolled back, not for a field
\* that the page it goes over never had.
AuditFindsRollbacks ==
    [][d.at \in {"plan", "audit"} /\ d'.at = "invalidate" /\ d'.then = "failed"
         => \E f \in api'.ledger : Shown(api.snap, f) /\ api.snap.val[f] # "ours"]_vars

\* A task locked at its final review is written to no more.
LockedIsQuiet == [][StartsWriting => ~saved.app.locked]_vars

\* The epoch of a task's commands only grows.
EpochGrows == [][saved'.app.epoch >= saved.app.epoch]_vars

\* Types, and the three counters of epochs.
Consistent == TypeOK /\ EpochsAgree

\* What the specialist does to the page, the page justifies: nothing is written after
\* a reported failure, nor over what somebody typed; a page is left only when it holds
\* what was applied to its named fields; and a step completes only when its value was
\* read back.
PageIsRespected ==
    NothingStartsAfterFailure /\ KeepsUserInput /\ NavigationLeavesVerified /\ CompletedIsReadBack
=============================================================================
