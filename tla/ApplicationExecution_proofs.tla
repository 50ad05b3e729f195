-------------------- MODULE ApplicationExecution_proofs --------------------
(***************************************************************************)
(* Proofs about one application task at its pages: the counters of epochs  *)
(* agree, and what is done to a page, the page justifies.                  *)
(*                                                                         *)
(* Two ideas carry the argument.  An observation is a version of the page: *)
(* one whose version is still the page's is the page, so that what a plan  *)
(* was made on holds where the worker finds nothing mutated.  And the      *)
(* worker serves one command at a time: either the dispatch waits for it,  *)
(* with the epoch handed out last, or it was given up, its dispatch failed *)
(* and no other one will begin.                                            *)
(***************************************************************************)
EXTENDS ApplicationExecution, SequenceTheorems, TLAPS

-----------------------------------------------------------------------------
(* The inductive invariant                                                 *)

States == {"new", "reviewing", "running", "interrupted", "completed", "failed", "cancelled"}
Ended == {"completed", "failed", "cancelled"}
Places == {"idle", "observe", "plan", "executing", "readback1", "readback2", "audit",
           "invalidate"}
Reasons == {"none", "failed", "challenge", "final_review"}
Targets == Fields \cup {Next}

Record == [epoch : Nat, seen : Nat, releasing : BOOLEAN]
Command == [pc : {"none", "queued", "prepared", "writing", "landed"}, epoch : Nat,
            on : Nat, target : Targets, ahead : BOOLEAN, heard : BOOLEAN]
Memory == [latest : Nat, snap : Page, seed : Page, ledger : SUBSET Fields, since : 0..AuditEvery,
           reviews : 0..MaxReviews, deaf : BOOLEAN]
AtWork == [at : Places, then : Reasons, target : Targets, sent : BOOLEAN, retried : BOOLEAN,
           iter : 0..(MaxIterations - 1), app : App]
SavedState == [exists : BOOLEAN, app : App, pend : Pending]
RunState == [status : States, step : 1..(Steps + 2), epoch : Nat, resumed : BOOLEAN]
Bounds == [touches : Nat, faults : Nat, resumes : Nat]

TypeInv ==
  /\ page \in Page /\ page.ver > 0
  /\ worker \in Record /\ cmd \in Command
  /\ api \in Memory
  /\ d \in AtWork
  /\ saved \in SavedState
  /\ run \in RunState
  /\ left \in Bounds

\* The dispatch of a command that was given up fails, and no other one begins.
Lost == (d.at = "invalidate" /\ d.then = "failed") \/ (d.at = "idle" /\ run.status \in Ended)

\* Where a dispatch is, and where its run is; the audit that found a value rolled
\* back was the last one.
Placed ==
  /\ d.at = "idle" => d = NoDispatch
  /\ d.at # "idle" => run.status \in {"running", "cancelled"} /\ run.step <= Steps
  /\ run.status # "completed" => run.step <= Steps + 1
  /\ d.at \in {"observe", "plan"} => ~d.sent
PlaceInv == Placed /\ (api.since = AuditEvery => Lost)

\* What is known of a page is of a version of it, and of the page itself while the
\* version is still the page's.
Reflects(p) == p.ver <= page.ver /\ (p.ver = page.ver => p = page)
SeenInv ==
  /\ Reflects(api.snap) /\ Reflects(api.seed)
  /\ api.seed = NoPage \/ api.seed.ver > 0
  /\ d.at = "plan" => api.snap.ver > 0
  /\ d.at = "audit" /\ d.target # Next => api.snap.val[d.target] = "ours"

\* Epochs come from the tools' counter or from the reviews'.
EpochInv ==
  /\ worker.epoch <= api.latest \/ worker.epoch <= api.reviews
  /\ cmd.epoch <= api.latest

\* What justifies the write of c on page p, by the values that ledger L watches.
Justified(c, p, L) ==
  IF c.target = Next THEN \A f \in L : p.val[f] = "ours" ELSE p.val[c.target] = "empty"

\* A command that lost its dispatch is not written: its epoch is old, or the page
\* it was planned on is not the one the worker knows; unless the worker could not
\* be told.
Harmless ==
  api.deaf \/ cmd.epoch < worker.epoch \/ (cmd.pc = "queued" /\ worker.seen = 0)

CommandInv ==
  cmd.pc # "none" =>
    /\ cmd.on \in 1..page.ver
    /\ IF cmd.heard THEN d.at = "executing" /\ cmd.epoch = api.latest ELSE Lost
    /\ cmd.pc = "queued" /\ Unmutated => Justified(cmd, page, api.ledger)
    /\ d.at = "idle" => Harmless

PageInv == TypeInv /\ PlaceInv /\ SeenInv /\ EpochInv /\ CommandInv

-----------------------------------------------------------------------------
(* Constants and pages                                                     *)

\* The form has a page, and the fields of each page are fields.
LEMMA FormPages ==
  /\ 1 \in 1..Len(FieldsOf) /\ Len(FieldsOf) \in Nat
  /\ \A i \in 1..Len(FieldsOf) : FieldsOf[i] \subseteq Fields
  BY EmptySeq, LenProperties, ElementOfSeq, FieldsAssumption

\* A page that is opened is a page.
LEMMA OpenedType == ASSUME NEW v \in Nat PROVE Opened(v) \in Page /\ Opened(v).ver = v
  BY FormPages DEF Opened, Page, Stage, Value

\* The plan and the audit interval are not empty, the bounds are numbers.
LEMMA Numbers ==
  /\ Steps \in Nat \ {0} /\ AuditEvery \in Nat \ {0} /\ MaxIterations \in Nat \ {0}
  /\ MaxTouches \in Nat /\ MaxFaults \in Nat /\ MaxReviews \in Nat /\ MaxResumes \in Nat
  BY BoundsAssumption

\* What nobody saw yet is a page of no version.
LEMMA NothingSeen == NoPage \in Page /\ NoPage.ver = 0
  BY OpenedType DEF NoPage

\* What everything starts from, and returns to, has its type.
LEMMA FreshType ==
  /\ NoWorker \in Record /\ NoCmd \in Command /\ NoMemory \in Memory
  /\ NoDispatch \in AtWork
  /\ \A e \in Nat : NewApp(e) \in App
  BY NothingSeen, BoundsAssumption, FieldsAssumption
     DEF NoWorker, Record, NoCmd, Command, Targets, NoMemory, Memory, NoDispatch, AtWork,
         Places, Reasons, NewApp, App

\* The invariant holds at first.
LEMMA InitInv == Init => PageInv
<1> SUFFICES ASSUME Init PROVE PageInv
  OBVIOUS
<1>1. TypeInv
  BY OpenedType, FreshType, BoundsAssumption
     DEF Init, TypeInv, SavedState, RunState, Bounds, Pending, States
<1> QED
  BY <1>1, NothingSeen, OpenedType, BoundsAssumption
     DEF Init, PageInv, PlaceInv, Placed, SeenInv, EpochInv, CommandInv, Reflects, Lost,
         NoCmd, NoWorker, NoMemory, NoDispatch

-----------------------------------------------------------------------------
(* Types                                                                   *)

\* A dispatch that stops to invalidate keeps the types.
LEMMA StoppingType ==
  ASSUME TypeInv, NEW then \in Reasons, NEW app \in App, Stopping(then, app)
  PROVE  d' \in AtWork /\ saved' \in SavedState /\ run' \in RunState
  BY DEF TypeInv, AtWork, Stopping, Places, Reasons

\* A dispatch that reports keeps the types.
LEMMA ReportType ==
  ASSUME TypeInv, NEW app \in App, NEW pend \in Pending,
         NEW s \in {"interrupted", "failed", "running"}, Report(app, pend, s)
  PROVE  d' \in AtWork /\ saved' \in SavedState /\ run' \in RunState
  BY FreshType DEF TypeInv, Report, SavedState, RunState, States

\* How a page transaction that is still running ends: the step is complete, the
\* page is looked at again, or the dispatch gives up.
Completes(app) ==
  /\ saved' = [exists |-> TRUE, app |-> app, pend |-> "none"]
  /\ d' = NoDispatch
  /\ run' = IF run.status = "running" THEN [run EXCEPT !.step = @ + 1] ELSE run
LooksAgain(app) ==
  /\ ~d.sent /\ MayIterate
  /\ saved' = [exists |-> TRUE, app |-> app, pend |-> "none"]
  /\ d' = [d EXCEPT !.at = "observe", !.iter = @ + 1, !.app = app] /\ run' = run

\* A running transaction ends in one of these ways.
LEMMA RunningCases ==
  ASSUME NEW app, Running(app)
  PROVE  \/ Completes(app) \/ LooksAgain(app)
         \/ \E s \in {"running", "failed"} : Report(app, "none", s)
  BY DEF Running, Completes, LooksAgain

\* And each of them keeps the types.
LEMMA RunningType ==
  ASSUME TypeInv, PlaceInv, d.at # "idle", NEW app \in App, Running(app)
  PROVE  d' \in AtWork /\ saved' \in SavedState /\ run' \in RunState
<1>1. ASSUME NEW s \in {"running", "failed"}, Report(app, "none", s)
      PROVE  d' \in AtWork /\ saved' \in SavedState /\ run' \in RunState
  BY <1>1, ReportType DEF Pending
<1>2. [exists |-> TRUE, app |-> app, pend |-> "none"] \in SavedState
  BY DEF SavedState, Pending
<1>3. CASE Completes(app)
  BY <1>3, <1>2, FreshType, BoundsAssumption DEF Completes, TypeInv, PlaceInv, Placed, RunState
<1>4. CASE LooksAgain(app)
  <2>1. d.iter + 1 \in 0..(MaxIterations - 1)
    BY <1>4, Numbers DEF LooksAgain, MayIterate, TypeInv, AtWork
  <2> QED
    BY <1>4, <1>2, <2>1 DEF LooksAgain, TypeInv, AtWork, Places
<1> QED
  BY <1>1, <1>2, <1>3, <1>4, RunningCases

\* A changed page is a page, of a version of its own.
LEMMA PageChanges ==
  ASSUME NEW p \in Page, NEW q, q \in Touched(p) \/ (cmd \in Command /\ q \in Landed(p))
  PROVE  q \in Page /\ q.ver = p.ver + 1
<1> DEFINE r == Changed(p)
<1>1. r \in Page /\ r.ver = p.ver + 1
  BY DEF Page, Changed
<1> HIDE DEF r
<1>2. FieldsOf[p.form] \subseteq Fields /\ p.form \in 1..Len(FieldsOf)
  BY FormPages DEF Page
<1>3. ASSUME NEW f \in Fields, NEW v \in Value
      PROVE  [r EXCEPT !.val[f] = v] \in Page /\ [r EXCEPT !.val[f] = v].ver = r.ver
  BY <1>1 DEF Page
<1>4. CASE q \in Touched(p)
  <2>1. CASE q \in {[r EXCEPT !.challenge = ~@], [r EXCEPT !.next = ~@]}
    BY <2>1, <1>1 DEF Page
  <2>2. CASE q \in {[r EXCEPT !.stage = s] : s \in Stage \ {p.stage}}
    BY <2>2, <1>1 DEF Page
  <2>3. CASE q \in {[r EXCEPT !.val[f] = v] : f \in FieldsOf[p.form], v \in {"empty", "other"}}
    <3>1. PICK f \in FieldsOf[p.form], v \in {"empty", "other"} : q = [r EXCEPT !.val[f] = v]
      BY <2>3, SMT
    <3> QED
      BY <3>1, <1>1, <1>2, <1>3 DEF Value
  <2> QED
    <3>1. Touched(p) = {[r EXCEPT !.challenge = ~@], [r EXCEPT !.next = ~@]}
                       \cup {[r EXCEPT !.stage = s] : s \in Stage \ {p.stage}}
                       \cup {[r EXCEPT !.val[f] = v] :
                               f \in FieldsOf[p.form], v \in {"empty", "other"}}
      BY DEF Touched, r
    <3> QED
      BY <1>4, <2>1, <2>2, <2>3, <3>1
<1>5. CASE cmd \in Command /\ q \in Landed(p)
  <2>1. CASE cmd.target = Next
    <3>1. q = r \/ (p.form < Len(FieldsOf) /\ q = [r EXCEPT !.form = @ + 1])
          \/ q = [r EXCEPT !.stage = "review"]
      BY <1>5, <2>1 DEF Landed, r
    <3>2. r.form + 1 \in 1..Len(FieldsOf) \/ ~(p.form < Len(FieldsOf))
      BY <1>2, FormPages DEF r, Page, Changed
    <3> QED
      BY <3>1, <3>2, <1>1 DEF Page, Stage
  <2>2. CASE cmd.target # Next
    <3>1. cmd.target \in Fields
      BY <1>5, <2>2 DEF Command, Targets
    <3>2. PICK v \in Value : q = [r EXCEPT !.val[cmd.target] = v]
      BY <1>5, <2>2 DEF Landed, r
    <3> QED
      BY <3>1, <3>2, <1>1, <1>3
  <2> QED
    BY <2>1, <2>2
<1> QED
  BY <1>4, <1>5

\* The higher of two epochs.
LEMMA HighestType ==
  ASSUME NEW a \in Nat, NEW b \in Nat
  PROVE  Highest(a, b) \in Nat /\ Highest(a, b) >= a /\ Highest(a, b) >= b
  BY DEF Highest

\* What an invalidation leaves of the worker's record.
LEMMA InvalidatedType ==
  ASSUME TypeInv, NEW e \in Nat
  PROVE  Invalidated(e) \in Record /\ Invalidated(e).epoch = Highest(worker.epoch, e)
         /\ Invalidated(e).seen = 0 /\ Invalidated(e).releasing = worker.releasing
  BY HighestType DEF TypeInv, Invalidated, Record

\* A fault is taken from the bound.
LEMMA FailingType == ASSUME TypeInv, Failing PROVE left' \in Bounds
  BY DEF TypeInv, Failing, Bounds

\* How a step may leave the dispatch, with its state and its run.
Stops(then) == \E app \in App : Stopping(then, app)
Reports(s) == \E app \in App, pend \in Pending : Report(app, pend, s)
RunsOn == \E app \in App : Running(app)

\* However a step leaves the dispatch, the types are kept.
LEMMA WaysType ==
  ASSUME TypeInv, PlaceInv,
         \/ \E then \in Reasons : Stops(then)
         \/ \E s \in {"interrupted", "failed", "running"} : Reports(s)
         \/ d.at # "idle" /\ RunsOn
  PROVE  d' \in AtWork /\ saved' \in SavedState /\ run' \in RunState
  BY StoppingType, ReportType, RunningType DEF Stops, Reports, RunsOn

\* The application states that steps make of that of the dispatch.
LEMMA AppTypes ==
  ASSUME TypeInv
  PROVE  /\ d.app \in App /\ FromSaved \in App
         /\ \A b \in BOOLEAN, e \in Nat :
              /\ [d.app EXCEPT !.done = b] \in App /\ [d.app EXCEPT !.retry = b] \in App
              /\ [d.app EXCEPT !.epoch = e] \in App
              /\ [d.app EXCEPT !.epoch = e, !.locked = b] \in App
<1>1. d.app \in App /\ saved.app \in App /\ run.epoch \in Nat
  BY DEF TypeInv, AtWork, SavedState, RunState
<1>2. Highest(saved.app.epoch, run.epoch) \in Nat
  BY <1>1, HighestType DEF App
<1> QED
  BY <1>1, <1>2, FreshType DEF FromSaved, App

\* Where the kind of a page leads.
LEMMA ClassifyCases ==
  ASSUME TypeInv, NEW p, NEW P, Classify(p, d.app, P)
  PROVE  \/ Stops("challenge") \/ Stops("final_review")
         \/ Reports("interrupted") \/ Reports("failed")
         \/ P
<1>1. d.app \in App
  BY AppTypes
<1> QED
  BY <1>1 DEF Classify, Stops, Interrupted, Failed, Reports, Pending

\* What the worker answers, and where it takes the dispatch.
LEMMA AnswerCases ==
  ASSUME TypeInv, NEW applied, Answer(applied)
  PROVE  /\ cmd.heard /\ api' = [api EXCEPT !.snap = page]
         /\ \/ Stops("challenge") \/ Stops("failed")
            \/ \E app \in App : d' = [d EXCEPT !.at = "readback1", !.app = app]
                                /\ UNCHANGED <<saved, run>>
<1>1. [d.app EXCEPT !.done = TRUE] \in App
  BY AppTypes
<1> QED
  BY <1>1 DEF Answer, Stops

\* A refusal fails the dispatch that waits for it.
LEMMA RefusalCases ==
  ASSUME TypeInv, Refusal
  PROVE  cmd.heard /\ UNCHANGED api /\ Stops("failed")
<1>1. [d.app EXCEPT !.done = @ \/ worker.seen # 0] \in App
  BY DEF TypeInv, AtWork, App
<1> QED
  BY <1>1 DEF Refusal, Stops

\* Types, when the service starts the run.
LEMMA TypeStart == ASSUME PageInv, Start PROVE TypeInv'
<1>1. 1 \in Nat /\ api.reviews + 1 \in Nat /\ Invalidated(api.reviews + 1) \in Record
  BY InvalidatedType DEF PageInv, TypeInv, Memory
<1>2. run' \in RunState
  BY DEF PageInv, TypeInv, Start, Seed, AskReview, StartUnseen, RunState, States
<1>3. CASE Seed
  BY <1>2, <1>3 DEF PageInv, TypeInv, Start, Seed, Memory, Record, Page
<1>4. CASE AskReview
  BY <1>1, <1>2, <1>4, Numbers DEF PageInv, TypeInv, Start, AskReview, Memory
<1>5. CASE StartUnseen
  BY <1>2, <1>5, FailingType DEF PageInv, TypeInv, Start, StartUnseen
<1> QED
  BY <1>3, <1>4, <1>5 DEF Start

\* Types, when the user, the site, a crash, a release or a write changes something.
LEMMA TypeOutside ==
  ASSUME PageInv, Resume \/ Cancel \/ Crash \/ Touch \/ Release \/ Land
  PROVE  TypeInv'
<1> USE DEF PageInv, TypeInv
<1>1. CASE Resume
  <2>1. left' \in Bounds
    BY <1>1 DEF Resume, Bounds
  <2>2. run.epoch + 1 \in Nat
    BY DEF RunState
  <2>3. run' \in RunState
    BY <1>1, <2>2 DEF Resume, RunState, States
  <2> QED
    BY <1>1, <2>1, <2>3 DEF Resume
<1>2. CASE Cancel
  BY <1>2 DEF Cancel, RunState, States, Record
<1>3. CASE Crash
  <2>1. page.ver + 1 \in Nat /\ page.ver + 1 > 0
    BY DEF Page
  <2> QED
    BY <1>3, <2>1, OpenedType, FreshType, FailingType DEF Crash, RunState, States
<1>4. CASE Touch
  BY <1>4, PageChanges DEF Touch, Bounds, Page
<1>5. CASE Release
  BY <1>5, FreshType DEF Release
<1>6. CASE Land
  BY <1>6, PageChanges DEF Land, Command, Page
<1> QED
  BY <1>1, <1>2, <1>3, <1>4, <1>5, <1>6

\* Types, when a dispatch begins or a step is acknowledged.
LEMMA TypeBegin == ASSUME PageInv, Begin PROVE TypeInv'
<1> USE DEF PageInv, TypeInv
<1>1. FromSaved \in App /\ [FromSaved EXCEPT !.locked = TRUE] \in App
  BY AppTypes DEF App
<1>2. CASE Acknowledge
  <2>1. run.step + 1 \in 1..(Steps + 2)
    BY <1>2, Numbers DEF Begin, PlaceInv, Placed, RunState
  <2> QED
    BY <1>2, <1>1, <2>1 DEF Begin, Acknowledge, SavedState, Pending, RunState, States
<1>3. CASE BeginStep
  <2>1. d' \in AtWork
    BY <1>3, <1>1, FreshType DEF BeginStep, AtWork, Places
  <2> QED
    BY <1>3, <1>1, <2>1 DEF Begin, BeginStep, SavedState, RunState, States
<1> QED
  BY <1>2, <1>3 DEF Begin

\* What an invalidation was asked for decides how the dispatch ends.
LEMMA InvalidateReports ==
  ASSUME PageInv, Invalidate
  PROVE  /\ d.at # "idle"
         /\ \E s \in {"interrupted", "failed"} : Reports(s) /\ (d.then = "failed" => s = "failed")
<1> USE DEF PageInv, TypeInv
<1>1. api.latest + 1 \in Nat
  BY DEF Memory
<1>3. \/ \E app \in App : Failed(app)
      \/ /\ d.then # "failed"
         /\ \E app \in App, pend \in {"none", "challenge", "final_review"} : Interrupted(app, pend)
  <2>1. \A b \in BOOLEAN : [d.app EXCEPT !.epoch = api.latest + 1, !.locked = b] \in App
    BY AppTypes, <1>1
  <2>2. d.app \in App /\ d.app.locked \in BOOLEAN /\ d.then \in Reasons
    BY DEF AtWork, App
  <2> QED
    BY <2>1, <2>2 DEF Invalidate, Reasons
<1> QED
  BY <1>3 DEF Invalidate, Failed, Interrupted, Reports, Pending

\* Types, when the dispatch invalidates.
LEMMA TypeInvalidate == ASSUME PageInv, Invalidate PROVE TypeInv'
<1> USE DEF PageInv, TypeInv
<1>1. api.latest + 1 \in Nat /\ Invalidated(api.latest + 1) \in Record
  BY InvalidatedType DEF Memory
<1>2. api' \in Memory /\ worker' \in Record /\ left' \in Bounds
  BY <1>1, FailingType DEF Invalidate, Memory
<1> QED
  BY <1>2, InvalidateReports, WaysType DEF Invalidate

\* What the subgraph knows after it looked, and where it goes.
LEMMA ObserveCases ==
  ASSUME TypeInv, Observe
  PROVE  /\ d.at = "observe" /\ UNCHANGED <<page, cmd>>
         /\ \/ Reports("failed") /\ Failing /\ UNCHANGED <<api, worker>>
            \/ /\ \/ api.seed # NoPage /\ api'.snap = api.seed /\ UNCHANGED worker
                  \/ /\ api.seed = NoPage /\ WorkerFree /\ api'.snap = page
                     /\ worker' = [worker EXCEPT !.seen = page.ver]
               /\ api' = [api EXCEPT !.snap = api'.snap, !.seed = NoPage]
               /\ UNCHANGED left
               /\ \/ Stops("challenge") \/ Stops("final_review")
                  \/ Reports("interrupted") \/ Reports("failed")
                  \/ d' = [d EXCEPT !.at = "plan"] /\ UNCHANGED <<saved, run>>
<1>1. CASE Failing /\ Failed(d.app) /\ UNCHANGED <<api, worker>>
  BY <1>1, AppTypes DEF Observe, Failed, Reports, Pending
<1>2. ASSUME NEW q, Observes(q), api' = [api EXCEPT !.snap = q, !.seed = NoPage], UNCHANGED left,
             Classify(q, d.app, d' = [d EXCEPT !.at = "plan"] /\ UNCHANGED <<saved, run>>)
      PROVE  /\ \/ api.seed # NoPage /\ api'.snap = api.seed /\ UNCHANGED worker
                \/ /\ api.seed = NoPage /\ WorkerFree /\ api'.snap = page
                   /\ worker' = [worker EXCEPT !.seen = page.ver]
             /\ api' = [api EXCEPT !.snap = api'.snap, !.seed = NoPage]
             /\ \/ Stops("challenge") \/ Stops("final_review")
                \/ Reports("interrupted") \/ Reports("failed")
                \/ d' = [d EXCEPT !.at = "plan"] /\ UNCHANGED <<saved, run>>
  <2>1. api'.snap = q
    BY <1>2 DEF TypeInv, Memory
  <2> QED
    BY <1>2, <2>1, ClassifyCases DEF Observes
<1> QED
  BY <1>1, <1>2 DEF Observe

\* Types, when the page is observed.
LEMMA TypeObserve == ASSUME PageInv, Observe PROVE TypeInv'
<1> USE DEF PageInv, TypeInv
<1>1. worker' \in Record /\ api' \in Memory /\ left' \in Bounds
  BY ObserveCases, FailingType, NothingSeen DEF Memory, Record, Page
<1>2. CASE d' = [d EXCEPT !.at = "plan"] /\ UNCHANGED <<saved, run>>
  BY <1>1, <1>2, ObserveCases DEF AtWork, Places
<1> QED
  BY <1>1, <1>2, ObserveCases, WaysType DEF Reasons

\* A command, and the ways of a plan that sends none.
LEMMA SendType ==
  ASSUME PageInv, NEW target \in Targets, Send(target)
  PROVE  cmd' \in Command /\ api' \in Memory /\ d' \in AtWork
<1>1. CommandEpoch \in Nat
  BY DEF CommandEpoch, PageInv, TypeInv, AtWork, App
<1>2. d' \in AtWork
  BY <1>1 DEF Send, PageInv, TypeInv, AtWork, App, Places
<1>3. cmd' \in Command
  <2>1. api.snap.ver \in Nat /\ (~worker.releasing) \in BOOLEAN
    BY DEF PageInv, TypeInv, Memory, Page
  <2> QED
    BY <1>1, <2>1 DEF Send, Command
<1>4. api' \in Memory
  <2>1. 0 \in 0..AuditEvery
    BY Numbers
  <2> QED
    BY <1>1, <2>1 DEF Send, PageInv, TypeInv, Memory
<1> QED
  BY <1>2, <1>3, <1>4

\* A plan reports, stops, completes the step or sends a command with an epoch of its own.
LEMMA PlanCases ==
  ASSUME PageInv, Plan
  PROVE  /\ d.at = "plan" /\ cmd.pc = "none" /\ UNCHANGED <<page, worker, left>>
         /\ \/ /\ UNCHANGED cmd
               /\ api' = api \/ (api' = [api EXCEPT !.latest = CommandEpoch] /\ Reserved)
               /\ \/ Reports("interrupted") \/ Reports("failed")
                  \/ Stops("failed") \/ Stops("final_review") \/ RunsOn
            \/ /\ Reserved
               /\ \/ \E f \in Empty(api.snap) : Send(f)
                  \/ Send(Next) /\ Mismatches(api.snap, api.ledger) = {}
<1>1. d.app \in App
  BY AppTypes DEF PageInv
<1>2. CASE Unresolved
  BY <1>1, <1>2 DEF Plan, Unresolved, Interrupted, Failed, Reports, Pending
<1>3. CASE PlanField
  BY <1>1, <1>3 DEF Plan, PlanField, Take, TakenInVain, Failed, Reports, Pending
<1>4. CASE NothingToFill
  <2>1. CASE PlanNavigation
    BY <1>1, <2>1 DEF Plan, PlanNavigation, AuditBeforeLeaving, Take, TakenInVain, Failed, Reports,
                      Pending, Stops
  <2>2. CASE UNCHANGED <<cmd, api>> /\ (Stopping("final_review", d.app) \/ Running(d.app))
    BY <1>1, <2>2 DEF Plan, Stops, RunsOn
  <2> QED
    BY <1>4, <2>1, <2>2 DEF NothingToFill
<1> QED
  BY <1>2, <1>3, <1>4 DEF Plan

\* Types, when a command is planned.
LEMMA TypePlan == ASSUME PageInv, Plan PROVE TypeInv'
<1> USE DEF PageInv, TypeInv
<1>1. Empty(api.snap) \subseteq Targets /\ Next \in Targets
  BY FormPages DEF Empty, Targets, Memory, Page
<1>2. CASE \E target \in Targets : Send(target)
  BY <1>2, SendType, PlanCases DEF Send
<1>3. CASE UNCHANGED cmd
  <2>1. CommandEpoch \in Nat
    BY DEF CommandEpoch, AtWork, App
  <2>2. api' \in Memory \/ \E target \in Targets : Send(target)
    BY <1>1, <2>1, PlanCases DEF Memory
  <2> QED
    BY <1>1, <1>2, <1>3, <2>2, PlanCases, WaysType DEF Reasons
<1> QED
  BY <1>1, <1>2, <1>3, PlanCases

\* What becomes of a command at the worker that is over.
Over(applied) == cmd' = NoCmd /\ (Dropped \/ Refusal \/ Answer(applied))

\* A command that is over is not waited for, or moves the dispatch.
LEMMA OverCases ==
  ASSUME TypeInv, NEW applied, Over(applied)
  PROVE  /\ cmd' = NoCmd
         /\ \/ ~cmd.heard /\ UNCHANGED <<api, d, saved, run>>
            \/ /\ cmd.heard
               /\ api' = api \/ api' = [api EXCEPT !.snap = page]
               /\ \/ Stops("challenge") \/ Stops("failed")
                  \/ \E app \in App : d' = [d EXCEPT !.at = "readback1", !.app = app]
                                      /\ api' = [api EXCEPT !.snap = page]
                                      /\ UNCHANGED <<saved, run>>
  BY AnswerCases, RefusalCases DEF Over, Dropped

\* Types, when a command is over.
LEMMA OverType ==
  ASSUME PageInv, NEW applied, Over(applied)
  PROVE  /\ cmd' \in Command /\ api' \in Memory /\ d' \in AtWork
         /\ saved' \in SavedState /\ run' \in RunState
<1> USE DEF PageInv, TypeInv
<1>1. cmd' \in Command /\ api' \in Memory
  BY OverCases, FreshType DEF Memory
<1>2. ASSUME NEW app \in App, d' = [d EXCEPT !.at = "readback1", !.app = app]
      PROVE  d' \in AtWork
  BY <1>2 DEF AtWork, Places
<1> QED
  BY <1>1, <1>2, OverCases, WaysType DEF Reasons

\* What the worker does with a queued command.
LEMMA PrepareCases ==
  ASSUME TypeInv, Prepare
  PROVE  /\ cmd.pc = "queued" /\ UNCHANGED <<page, left>>
         /\ worker'.epoch = Highest(worker.epoch, cmd.epoch)
         /\ worker' \in Record
         /\ \/ /\ cmd' = NoCmd /\ \E applied \in BOOLEAN : Over(applied)
               /\ worker'.seen \in {worker.seen, page.ver}
            \/ /\ Admitted /\ worker.seen = cmd.on /\ Unmutated
               /\ worker'.seen = worker.seen
               /\ cmd' = [cmd EXCEPT !.pc = "prepared"]
               /\ UNCHANGED <<api, d, saved, run>>
<1>1. Highest(worker.epoch, cmd.epoch) \in Nat /\ page.ver \in Nat
  BY HighestType DEF TypeInv, Record, Command, Page
<1> QED
  BY <1>1 DEF TypeInv, Record, Prepare, Over, Dropped, Refusal, Answer

\* Types, when a command is prepared.
LEMMA TypePrepare == ASSUME PageInv, Prepare PROVE TypeInv'
<1>1. CASE \E applied \in BOOLEAN : Over(applied)
  BY <1>1, OverType, PrepareCases DEF PageInv, TypeInv
<1>2. CASE cmd' = [cmd EXCEPT !.pc = "prepared"] /\ UNCHANGED <<api, d, saved, run>>
  BY <1>2, PrepareCases DEF PageInv, TypeInv, Command
<1> QED
  BY <1>1, <1>2, PrepareCases DEF PageInv

\* The page is looked at once more, or observed after the write.
LEMMA GuardCases ==
  ASSUME TypeInv, Guard
  PROVE  /\ cmd.pc = "prepared" /\ UNCHANGED <<page, left>>
         /\ \/ /\ IsCurrent /\ cmd' = [cmd EXCEPT !.pc = "writing"]
               /\ UNCHANGED <<worker, api, d, saved, run>>
            \/ /\ cmd' = NoCmd /\ Over(FALSE) /\ ~cmd.heard
               /\ worker' = [worker EXCEPT !.seen = page.ver]
  BY DEF Guard, Over, Dropped

\* Types, when the guard looks.
LEMMA TypeGuard == ASSUME PageInv, Guard PROVE TypeInv'
<1> USE DEF PageInv, TypeInv
<1>1. [worker EXCEPT !.seen = page.ver] \in Record
  BY DEF Record, Page
<1>2. CASE Over(FALSE) /\ worker' = [worker EXCEPT !.seen = page.ver]
  BY <1>1, <1>2, OverType, GuardCases
<1>3. CASE cmd' = [cmd EXCEPT !.pc = "writing"] /\ UNCHANGED <<worker, api, d, saved, run>>
  BY <1>3, GuardCases DEF Command
<1> QED
  BY <1>2, <1>3, GuardCases

\* A write that landed is over when the page is observed again.
LEMMA FinishCases ==
  ASSUME TypeInv, Finish
  PROVE  /\ cmd.pc = "landed" /\ UNCHANGED <<page, left>>
         /\ cmd' = NoCmd /\ Over(Applied) /\ worker' = [worker EXCEPT !.seen = page.ver]
  BY DEF Finish, Over, Dropped, Answer, Refusal

\* Types, when a write is finished.
LEMMA TypeFinish == ASSUME PageInv, Finish PROVE TypeInv'
<1> USE DEF PageInv, TypeInv
<1>1. [worker EXCEPT !.seen = page.ver] \in Record
  BY DEF Record, Page
<1> QED
  BY <1>1, FinishCases, OverType

\* Types, when the client stops waiting.
LEMMA TypeTimeout == ASSUME PageInv, Timeout PROVE TypeInv'
<1>1. Stops("failed")
  BY AppTypes DEF Timeout, Stops, PageInv
<1> QED
  BY <1>1, WaysType, FailingType DEF Timeout, PageInv, TypeInv, Command, Reasons

\* An observation made to read a value back.
LEMMA ReadbackCases ==
  ASSUME TypeInv, NEW at \in {"readback1", "readback2"}, NEW confirmed \in BOOLEAN,
         Readback(at, confirmed)
  PROVE  /\ d.at = at /\ UNCHANGED <<page, cmd>>
         /\ \/ Failing /\ Stops("failed") /\ UNCHANGED <<api, worker>>
            \/ /\ WorkerFree /\ UNCHANGED left
               /\ worker' = [worker EXCEPT !.seen = page.ver]
               /\ api' = [api EXCEPT !.snap = page]
               /\ \/ Stops("challenge") \/ Stops("failed")
                  \/ /\ \E app \in App :
                          d' = [d EXCEPT !.at = "readback1", !.retried = TRUE, !.app = app]
                     /\ UNCHANGED <<saved, run>>
                  \/ /\ confirmed
                     /\ d' = [d EXCEPT !.at = IF at = "readback1" THEN "readback2" ELSE "audit"]
                     /\ UNCHANGED <<saved, run>>
<1>1. d.app \in App /\ [d.app EXCEPT !.retry = TRUE] \in App
  BY AppTypes
<1>2. Mismatch => \/ Stops("failed")
                  \/ /\ \E app \in App :
                          d' = [d EXCEPT !.at = "readback1", !.retried = TRUE, !.app = app]
                     /\ UNCHANGED <<saved, run>>
  BY <1>1 DEF Mismatch, Stops
<1>3. CASE Failing /\ Stopping("failed", d.app) /\ UNCHANGED <<api, worker>>
  BY <1>1, <1>3 DEF Readback, Stops
<1>4. CASE page.challenge /\ Stopping("challenge", d.app)
  BY <1>1, <1>3, <1>4 DEF Readback, Stops
<1>5. CASE ~page.challenge /\ ~confirmed /\ Mismatch
  BY <1>2, <1>3, <1>5 DEF Readback
<1>6. CASE /\ confirmed
           /\ d' = [d EXCEPT !.at = IF at = "readback1" THEN "readback2" ELSE "audit"]
           /\ UNCHANGED <<saved, run>>
  BY <1>3, <1>6 DEF Readback
<1> QED
  BY <1>3, <1>4, <1>5, <1>6 DEF Readback

\* The two readbacks, by what confirms them.
LEMMA Readbacks ==
  /\ Readback1 => \E ok \in BOOLEAN : Readback("readback1", ok)
  /\ Readback2 => \E ok \in BOOLEAN : Readback("readback2", ok) /\ (ok => ReadbackOK(page))
<1>1. ReadbackOK(page) \in BOOLEAN /\ (ReadbackOK(page) /\ page.ver = api.snap.ver) \in BOOLEAN
  BY DEF ReadbackOK
<1> QED
  BY <1>1 DEF Readback1, Readback2

\* Types, when a value is read back.
LEMMA TypeReadback ==
  ASSUME PageInv, NEW at \in {"readback1", "readback2"}, NEW confirmed \in BOOLEAN,
         Readback(at, confirmed)
  PROVE  TypeInv'
<1> USE DEF PageInv, TypeInv
<1>1. worker' \in Record /\ api' \in Memory /\ left' \in Bounds
  BY ReadbackCases, FailingType DEF Memory, Record, Page
<1>2. \/ Stops("challenge") \/ Stops("failed")
      \/ d' \in AtWork /\ UNCHANGED <<saved, run>>
  BY ReadbackCases DEF AtWork, Places
<1> QED
  BY <1>1, <1>2, ReadbackCases, WaysType DEF Reasons

\* A confirmed field is watched from now on, if it has a hint.
Watched == IF Auditable(d.target) THEN api.ledger \cup {d.target} ELSE api.ledger

\* An audit that is due passes or stops the dispatch; the page's kind decides otherwise.
LEMMA AuditCases ==
  ASSUME PageInv, Audit
  PROVE  /\ d.at = "audit" /\ UNCHANGED <<page, worker, cmd, left>>
         /\ \E n \in 0..AuditEvery :
              /\ api' = [api EXCEPT !.ledger = Watched, !.since = n]
              /\ \/ Stops("failed")
                 \/ /\ n < AuditEvery
                    /\ \/ Stops("challenge") \/ Stops("final_review")
                       \/ Reports("interrupted") \/ Reports("failed")
                       \/ RunsOn
<1> DEFINE recorded == Auditable(d.target)
           ledger == IF recorded THEN api.ledger \cup {d.target} ELSE api.ledger
           since == IF recorded THEN api.since + 1 ELSE api.since
           due == d.target # Next /\ AuditDue(since)
           passed == Mismatches(api.snap, ledger) = {}
           n == IF due /\ passed THEN 0 ELSE since
<1>1. /\ d.at = "audit" /\ UNCHANGED <<page, worker, cmd, left>>
      /\ api' = [api EXCEPT !.ledger = ledger, !.since = n]
      /\ IF due /\ ~passed THEN Stopping("failed", d.app)
         ELSE Classify(api.snap, d.app, Running(d.app))
  BY DEF Audit
<1>2. ledger = Watched
  BY DEF Watched, Auditable
<1>3. api.since \in Nat /\ api.since < AuditEvery
  BY <1>1, Numbers DEF PageInv, TypeInv, Memory, PlaceInv, Lost
<1>4. since \in 0..AuditEvery /\ n \in 0..AuditEvery /\ (n < AuditEvery \/ (due /\ ~passed))
  <2>0. recorded => d.target # Next
    BY FieldsAssumption DEF Next, Auditable
  <2>1. since \in 0..AuditEvery /\ (since < AuditEvery \/ due)
    BY <2>0, <1>3, Numbers DEF AuditDue
  <2> HIDE DEF since, due, passed
  <2> QED
    BY <2>1, Numbers
<1>5. IF due /\ ~passed THEN Stops("failed")
      ELSE \/ Stops("challenge") \/ Stops("final_review")
           \/ Reports("interrupted") \/ Reports("failed")
           \/ RunsOn
  <2>1. TypeInv /\ d.app \in App
    BY AppTypes DEF PageInv
  <2>2. (due /\ ~passed) => Stops("failed")
    BY <1>1, <2>1 DEF Stops
  <2>3. ~(due /\ ~passed) => Classify(api.snap, d.app, Running(d.app))
    BY <1>1
  <2>4. Running(d.app) => RunsOn
    BY <2>1 DEF RunsOn
  <2> QED
    BY <2>1, <2>2, <2>3, <2>4, ClassifyCases
<1> HIDE DEF ledger, n, due, passed
<1> QED
  BY <1>1, <1>2, <1>4, <1>5

\* Types, when the page is audited.
LEMMA TypeAudit == ASSUME PageInv, Audit PROVE TypeInv'
<1> USE DEF PageInv, TypeInv
<1>1. api' \in Memory
  <2>1. Watched \subseteq Fields
    BY FieldsAssumption DEF Watched, Auditable, Memory
  <2> QED
    BY <2>1, AuditCases DEF Memory
<1> QED
  BY <1>1, AuditCases, WaysType DEF Reasons

\* Types are kept.
LEMMA TypeStep == ASSUME PageInv, Step PROVE TypeInv'
  BY TypeStart, TypeOutside, TypeBegin, TypeInvalidate, TypeObserve, TypePlan, TypePrepare,
     TypeGuard, TypeFinish, TypeTimeout, TypeReadback, TypeAudit, Readbacks
     DEF Step, Dispatch, Worker

-----------------------------------------------------------------------------
(* Where the dispatch is                                                   *)

\* A dispatch that stops, field by field.
LEMMA StopsFacts ==
  ASSUME TypeInv, NEW then \in Reasons, Stops(then)
  PROVE  /\ d'.at = "invalidate" /\ d'.then = then /\ d'.sent = d.sent /\ d'.target = d.target
         /\ run' = run /\ saved' = saved
  BY DEF TypeInv, Stops, Stopping, AtWork

\* A dispatch that reports, field by field.
LEMMA ReportsFacts ==
  ASSUME TypeInv, NEW s \in {"interrupted", "failed", "running"}, Reports(s)
  PROVE  /\ d' = NoDispatch /\ d'.at = "idle" /\ run'.step = run.step
         /\ run'.status = IF run.status = "running" THEN s ELSE run.status
  BY DEF TypeInv, Reports, Report, NoDispatch, RunState

\* A step completes, or the dispatch goes on, or it ends.
LEMMA RunsOnFacts ==
  ASSUME TypeInv, RunsOn
  PROVE  \/ /\ d' = NoDispatch /\ d'.at = "idle" /\ run'.status = run.status
            /\ run'.step \in {run.step, run.step + 1}
         \/ /\ d'.at = "observe" /\ ~d'.sent /\ ~d.sent /\ run' = run
         \/ \E s \in {"running", "failed"} : Reports(s)
<1>1. PICK app \in App : Running(app)
  BY DEF RunsOn
<1>2. CASE Completes(app)
  BY <1>2 DEF TypeInv, Completes, NoDispatch, RunState
<1>3. CASE LooksAgain(app)
  BY <1>3 DEF TypeInv, LooksAgain, AtWork
<1> QED
  BY <1>1, <1>2, <1>3, RunningCases DEF Reports, Pending

\* However a step leaves the dispatch, it is placed.
LEMMA WaysPlaced ==
  ASSUME PageInv, d.at # "idle",
         \/ \E then \in Reasons : Stops(then)
         \/ \E s \in {"interrupted", "failed", "running"} : Reports(s)
         \/ RunsOn
  PROVE  Placed'
<1>1. /\ TypeInv /\ run.status \in {"running", "cancelled"} /\ run.step <= Steps
      /\ run.step \in Nat /\ Steps \in Nat
  BY Numbers DEF PageInv, PlaceInv, Placed, TypeInv, RunState
<1>2. ASSUME NEW then \in Reasons, Stops(then) PROVE Placed'
  BY <1>1, <1>2, StopsFacts DEF Placed
<1>3. ASSUME NEW s \in {"interrupted", "failed", "running"}, Reports(s) PROVE Placed'
  BY <1>1, <1>3, ReportsFacts DEF Placed, NoDispatch
<1>4. CASE RunsOn
  BY <1>1, <1>3, <1>4, RunsOnFacts DEF Placed, NoDispatch
<1> QED
  BY <1>2, <1>3, <1>4

\* A dispatch that is lost stays lost, whatever the worker still answers.
LEMMA LostStays ==
  ASSUME PageInv, Step, ~Crash, Lost
  PROVE  Lost' /\ api'.since = api.since
<1> USE DEF PageInv
<1>1. TypeInv
  OBVIOUS
<1>2. CASE Start \/ Resume \/ Begin \/ Observe \/ Plan \/ Readback1 \/ Readback2 \/ Audit \/ Timeout
  BY <1>2 DEF Start, Resume, Begin, Observe, Plan, Readback1, Readback2, Readback, Audit,
              Timeout, Lost, Ended
<1>3. CASE Cancel
  BY <1>3 DEF Cancel, Lost, Ended, TypeInv, RunState
<1>4. CASE Touch \/ Land \/ Release
  BY <1>4 DEF Touch, Land, Release, Lost
<1>5. CASE Invalidate
  <2>1. Reports("failed") /\ d.at # "idle"
    BY <1>5, InvalidateReports DEF Invalidate, Lost
  <2>2. run.status \in {"running", "cancelled"}
    BY <2>1 DEF PlaceInv, Placed
  <2> QED
    BY <1>5, <2>1, <2>2, ReportsFacts DEF Invalidate, Lost, Ended, TypeInv, Memory
<1>6. CASE Prepare \/ Guard \/ Finish
  <2>1. ~cmd.heard
    BY <1>6 DEF Prepare, Guard, Finish, CommandInv, Lost
  <2>2. UNCHANGED <<api, d, run>>
    BY <1>6, <2>1 DEF Prepare, Guard, Finish, Dropped, Refusal, Answer
  <2> QED
    BY <2>2 DEF Lost
<1> QED
  BY <1>2, <1>3, <1>4, <1>5, <1>6 DEF Step, Dispatch, Worker

\* A dispatch stays placed, and an audit that failed was the last one.
LEMMA PlaceStep == ASSUME PageInv, Step PROVE PlaceInv'
<1> USE DEF PageInv
<1>1. /\ TypeInv /\ run.step \in Nat /\ Steps \in Nat /\ AuditEvery \in Nat \ {0}
      /\ api.since \in 0..AuditEvery
  BY Numbers DEF TypeInv, RunState, Memory
<1>2. Placed'
  <2>1. CASE Start \/ Resume \/ Cancel \/ Crash \/ Touch \/ Release \/ Land
    <3>1. CASE Start
      BY <3>1, <1>1 DEF Start, Seed, AskReview, StartUnseen, PlaceInv, Placed, TypeInv, RunState
    <3>2. CASE Resume
      BY <3>2, <1>1 DEF Resume, PlaceInv, Placed, TypeInv, RunState
    <3>3. CASE Cancel
      BY <3>3, <1>1 DEF Cancel, PlaceInv, Placed, TypeInv, RunState
    <3>4. CASE Crash
      <4>1. /\ run'.step = run.step /\ d' = NoDispatch
            /\ run'.status = "completed" => run.status = "completed"
        BY <3>4 DEF Crash, TypeInv, RunState
      <4> QED
        BY <4>1, <3>4, <1>1 DEF Crash, PlaceInv, Placed, NoDispatch
    <3>5. CASE Touch \/ Release \/ Land
      BY <3>5 DEF Touch, Release, Land, PlaceInv, Placed
    <3> QED
      BY <2>1, <3>1, <3>2, <3>3, <3>4, <3>5
  <2>2. CASE Begin
    <3>1. CASE Acknowledge
      BY <2>2, <3>1, <1>1 DEF Begin, Acknowledge, PlaceInv, Placed, TypeInv, RunState
    <3>2. CASE BeginStep
      BY <2>2, <3>2, <1>1 DEF Begin, BeginStep, PlaceInv, Placed, TypeInv, RunState, NoDispatch
    <3> QED
      BY <2>2, <3>1, <3>2 DEF Begin
  <2>3. CASE Observe
    <3>1. CASE d' = [d EXCEPT !.at = "plan"] /\ UNCHANGED <<saved, run>>
      BY <2>3, <3>1, <1>1, ObserveCases DEF PlaceInv, Placed, TypeInv, AtWork
    <3> QED
      BY <2>3, <3>1, <1>1, ObserveCases, WaysPlaced DEF Reasons
  <2>4. CASE Plan
    <3>1. CASE \E target \in Targets : Send(target)
      BY <2>4, <3>1, <1>1, PlanCases DEF Send, PlaceInv, Placed, TypeInv, AtWork, App
    <3>2. Empty(api.snap) \subseteq Targets /\ Next \in Targets
      BY FormPages DEF Empty, Targets, TypeInv, Memory, Page
    <3> QED
      BY <2>4, <3>1, <3>2, <1>1, PlanCases, WaysPlaced DEF Reasons
  <2>5. CASE Invalidate
    BY <2>5, InvalidateReports, WaysPlaced DEF Invalidate
  <2>6. CASE Timeout
    BY <2>6, <1>1, AppTypes, WaysPlaced DEF Timeout, Stops, Reasons
  <2>7. CASE \E applied : Over(applied) /\ (Prepare \/ Guard \/ Finish)
    <3>1. cmd.heard => d.at = "executing"
      BY <2>7 DEF CommandInv, Prepare, Guard, Finish
    <3>2. ASSUME NEW app \in App, d' = [d EXCEPT !.at = "readback1", !.app = app],
                 UNCHANGED <<saved, run>>, d.at = "executing"
          PROVE  Placed'
      BY <3>2, <1>1 DEF PlaceInv, Placed, TypeInv, AtWork
    <3>3. UNCHANGED <<d, run>> => Placed'
      BY DEF PlaceInv, Placed
    <3> QED
      BY <2>7, <3>1, <3>2, <3>3, <1>1, OverCases, WaysPlaced DEF Reasons
  <2>8. CASE UNCHANGED <<d, run>>
    BY <2>8 DEF PlaceInv, Placed
  <2>9. CASE Prepare \/ Guard \/ Finish
    BY <2>7, <2>8, <2>9, <1>1, PrepareCases, GuardCases, FinishCases
  <2>10. ASSUME NEW at \in {"readback1", "readback2"}, NEW confirmed \in BOOLEAN,
                Readback(at, confirmed)
         PROVE  Placed'
    <3>1. \/ Stops("challenge") \/ Stops("failed")
          \/ d'.at \in {"readback1", "readback2", "audit"} /\ UNCHANGED run
      BY <2>10, <1>1, ReadbackCases DEF TypeInv, AtWork
    <3>2. d.at \in {"readback1", "readback2"}
      BY <2>10, <1>1, ReadbackCases
    <3> QED
      BY <3>1, <3>2, <1>1, WaysPlaced DEF Reasons, PlaceInv, Placed
  <2>11. CASE Audit
    BY <2>11, <1>1, AuditCases, WaysPlaced DEF Reasons
  <2> QED
    BY <2>1, <2>2, <2>3, <2>4, <2>5, <2>6, <2>9, <2>10, <2>11, Readbacks
       DEF Step, Dispatch, Worker
<1>3. api'.since = AuditEvery => Lost'
  <2>1. CASE Lost
    BY <2>1, LostStays, <1>1 DEF PlaceInv, Crash, NoMemory
  <2>2. CASE Audit
    <3>1. PICK n \in 0..AuditEvery :
            /\ api' = [api EXCEPT !.ledger = Watched, !.since = n]
            /\ Stops("failed") \/ n < AuditEvery
      BY <2>2, AuditCases
    <3> QED
      BY <3>1, <1>1, StopsFacts DEF Lost, Reasons, TypeInv, Memory
  <2>3. CASE ~Audit
    <3>1. api'.since \in {api.since, 0}
      <4>1. CASE Start \/ Resume \/ Cancel \/ Crash \/ Touch \/ Release \/ Land \/ Begin
        BY <4>1 DEF Start, Seed, AskReview, StartUnseen, Resume, Cancel, Crash, Touch, Release,
                    Land, Begin, TypeInv, Memory, NoMemory
      <4>2. CASE Observe \/ Plan
        BY <4>2, <1>1, ObserveCases, PlanCases DEF Send, TypeInv, Memory
      <4>3. CASE Invalidate \/ Timeout \/ Readback1 \/ Readback2
        BY <4>3, <1>1, Readbacks, ReadbackCases DEF Invalidate, Timeout, TypeInv, Memory
      <4>4. CASE Prepare \/ Guard \/ Finish
        BY <4>4, <1>1 DEF Prepare, Guard, Finish, Dropped, Refusal, Answer, TypeInv, Memory
      <4> QED
        BY <2>3, <4>1, <4>2, <4>3, <4>4 DEF Step, Dispatch, Worker
    <3> QED
      BY <3>1, <2>1, <1>1 DEF PlaceInv
  <2> QED
    BY <2>2, <2>3
<1> QED
  BY <1>2, <1>3 DEF PlaceInv

-----------------------------------------------------------------------------
(* What is known of the page                                               *)

\* Where the dispatch may get to in a step.
LEMMA PlacesReached ==
  ASSUME PageInv, Step, d' # d, d'.at \in {"plan", "audit", "executing"}
  PROVE  \/ Observe /\ d'.at = "plan"
         \/ Plan /\ d'.at = "executing" /\ \E target \in Targets : Send(target)
         \/ Readback2 /\ d'.at = "audit" /\ api'.snap = page /\ ReadbackOK(page)
            /\ d'.target = d.target
<1> USE DEF PageInv
<1>1. TypeInv
  OBVIOUS
<1>2. ASSUME NEW then \in Reasons, Stops(then) PROVE FALSE
  BY <1>1, <1>2, StopsFacts
<1>3. ASSUME NEW s \in {"interrupted", "failed", "running"}, Reports(s) PROVE FALSE
  BY <1>1, <1>3, ReportsFacts
<1>4. CASE RunsOn
  BY <1>1, <1>3, <1>4, RunsOnFacts
<1>5. CASE Start \/ Resume \/ Cancel \/ Touch \/ Land \/ Release
  BY <1>5 DEF Start, Resume, Cancel, Touch, Land, Release
<1>6. CASE Crash
  BY <1>6 DEF Crash, NoDispatch
<1>7. CASE Begin
  BY <1>7 DEF Begin, Acknowledge, BeginStep, NoDispatch
<1>8. CASE Observe
  BY <1>1, <1>2, <1>3, <1>8, ObserveCases DEF Reasons, TypeInv, AtWork
<1>9. CASE Plan
  <2>1. Empty(api.snap) \subseteq Targets /\ Next \in Targets
    BY FormPages DEF Empty, Targets, TypeInv, Memory, Page
  <2>2. \/ \E target \in Targets : Send(target)
        \/ \E then \in Reasons : Stops(then)
        \/ \E s \in {"interrupted", "failed", "running"} : Reports(s)
        \/ RunsOn
    BY <2>1, <1>9, PlanCases DEF Reasons
  <2> QED
    BY <2>2, <1>1, <1>2, <1>3, <1>4, <1>9 DEF Send, TypeInv, AtWork
<1>10. CASE Invalidate
  BY <1>3, <1>10, InvalidateReports
<1>11. CASE Timeout
  BY <1>1, <1>2, <1>11, AppTypes DEF Timeout, Stops, Reasons
<1>12. ASSUME NEW at \in {"readback1", "readback2"}, NEW confirmed \in BOOLEAN,
              Readback(at, confirmed)
       PROVE  /\ d'.at = "audit" /\ at = "readback2" /\ confirmed
              /\ api'.snap = page /\ d'.target = d.target
  <2>1. ~Stops("failed") /\ ~Stops("challenge")
    BY <1>2 DEF Reasons
  <2>2. ASSUME NEW app \in App, d' = [d EXCEPT !.at = "readback1", !.retried = TRUE, !.app = app]
        PROVE  FALSE
    BY <1>1, <2>2 DEF TypeInv, AtWork
  <2>3. /\ confirmed /\ api' = [api EXCEPT !.snap = page]
        /\ d' = [d EXCEPT !.at = IF at = "readback1" THEN "readback2" ELSE "audit"]
    BY <1>1, <1>12, <2>1, <2>2, ReadbackCases
  <2> QED
    BY <2>3, <1>1 DEF TypeInv, AtWork, Memory
<1>13. CASE Readback1 \/ Readback2
  BY <1>12, <1>13, Readbacks
<1>14. CASE Audit
  BY <1>2, <1>3, <1>4, <1>14, AuditCases DEF Reasons
<1>15. CASE Prepare \/ Guard \/ Finish
  <2>1. \E applied : Over(applied)
    BY <1>1, <1>15, PrepareCases, GuardCases, FinishCases
  <2>2. \/ Stops("challenge") \/ Stops("failed")
        \/ \E app \in App : d' = [d EXCEPT !.at = "readback1", !.app = app]
    BY <1>1, <2>1, OverCases
  <2> QED
    BY <2>2, <1>1, <1>2 DEF Reasons, TypeInv, AtWork
<1> QED
  BY <1>5, <1>6, <1>7, <1>8, <1>9, <1>10, <1>11, <1>13, <1>14, <1>15
     DEF Step, Dispatch, Worker

\* What a step does to the page and to what is known of it.
LEMMA KnownMoves ==
  ASSUME PageInv, Step
  PROVE  \/ Crash
         \/ page' \in Page /\ page'.ver = page.ver + 1 /\ UNCHANGED <<api, d>>
         \/ /\ page' = page
            /\ api'.snap \in {api.snap, page} \/ (api'.snap = api.seed /\ api.seed # NoPage)
            /\ api'.seed \in {api.seed, NoPage, page}
<1> USE DEF PageInv
<1>1. TypeInv
  OBVIOUS
<1>2. CASE Touch \/ Land
  BY <1>1, <1>2, PageChanges DEF Touch, Land, TypeInv
<1>3. CASE Start \/ Resume \/ Cancel \/ Release \/ Begin
  BY <1>3 DEF Start, Seed, AskReview, StartUnseen, Resume, Cancel, Release, Begin, TypeInv, Memory,
              Observe
<1>4. CASE Observe
  BY <1>1, <1>4, ObserveCases DEF TypeInv, Memory
<1>5. CASE Plan
  BY <1>1, <1>5, PlanCases DEF Send, TypeInv, Memory, Observe
<1>6. CASE Invalidate \/ Timeout
  BY <1>6 DEF Invalidate, Timeout, TypeInv, Memory, Observe
<1>7. ASSUME NEW at \in {"readback1", "readback2"}, NEW confirmed \in BOOLEAN,
             Readback(at, confirmed)
      PROVE  page' = page /\ api'.snap \in {api.snap, page} /\ api'.seed = api.seed /\ ~Observe
  BY <1>1, <1>7, ReadbackCases DEF TypeInv, Memory, Observe
<1>8. CASE Audit
  BY <1>8, AuditCases DEF TypeInv, Memory, Observe
<1>9. CASE Prepare \/ Guard \/ Finish
  <2>1. page' = page /\ (api' = api \/ api' = [api EXCEPT !.snap = page])
    BY <1>1, <1>9, PrepareCases, GuardCases, FinishCases, OverCases
  <2> QED
    BY <2>1 DEF TypeInv, Memory
<1> QED
  BY <1>2, <1>3, <1>4, <1>5, <1>6, <1>7, <1>8, <1>9, Readbacks
     DEF Step, Dispatch, Worker

\* Between two places of a dispatch nothing new is heard of the page.
LEMMA AnswersAreWaitedFor ==
  ASSUME PageInv, Step, ~Crash, d' = d, d.at \notin {"idle", "readback1"}
  PROVE  api'.snap = api.snap
<1> USE DEF PageInv
<1>1. TypeInv
  OBVIOUS
<1>2. ASSUME NEW then \in Reasons, Stops(then), d.at # "invalidate" PROVE FALSE
  BY <1>1, <1>2, StopsFacts
<1>3. ASSUME NEW s \in {"interrupted", "failed", "running"}, Reports(s) PROVE FALSE
  BY <1>1, <1>3, ReportsFacts
<1>4. CASE Start \/ Resume \/ Cancel \/ Release \/ Begin \/ Touch \/ Land
  BY <1>4 DEF Start, Resume, Cancel, Release, Begin, Touch, Land
<1>5. CASE Observe
  BY <1>1, <1>2, <1>3, <1>5, ObserveCases DEF TypeInv, AtWork, Reasons
<1>6. CASE Plan
  BY <1>1, <1>6, PlanCases DEF Send, TypeInv, Memory
<1>7. CASE Invalidate \/ Timeout
  BY <1>7 DEF Invalidate, Timeout, TypeInv, Memory
<1>8. ASSUME NEW at \in {"readback1", "readback2"}, NEW confirmed \in BOOLEAN,
             Readback(at, confirmed)
      PROVE  FALSE
  <2>1. \/ Stops("challenge") \/ Stops("failed")
        \/ d'.at \in {"readback1", "audit"}
    BY <1>1, <1>8, ReadbackCases DEF TypeInv, AtWork
  <2> QED
    BY <2>1, <1>1, <1>2, <1>8, ReadbackCases DEF Reasons
<1>9. CASE Audit
  BY <1>9, AuditCases DEF TypeInv, Memory
<1>10. CASE Prepare \/ Guard \/ Finish
  <2>1. ~cmd.heard \/ d.at = "executing"
    BY <1>10 DEF Prepare, Guard, Finish, CommandInv
  <2>2. UNCHANGED api \/ \E applied : Over(applied)
    BY <1>1, <1>10, PrepareCases, GuardCases, FinishCases
  <2> QED
    BY <2>1, <2>2, <1>1, <1>2, OverCases DEF TypeInv, AtWork, Reasons
<1> QED
  BY <1>4, <1>5, <1>6, <1>7, <1>8, <1>9, <1>10, Readbacks DEF Step, Dispatch, Worker

\* What is known of the page stays true of the version it is known of.
LEMMA SeenStep == ASSUME PageInv, Step PROVE SeenInv'
<1> USE DEF PageInv
<1>1. CASE Crash
  BY <1>1, NothingSeen, OpenedType DEF Crash, SeenInv, Reflects, NoMemory, NoDispatch, TypeInv, Page
<1>2. /\ TypeInv /\ page.ver \in Nat /\ page.ver > 0
      /\ api.snap.ver \in Nat /\ api.seed.ver \in Nat
  BY DEF TypeInv, Page, Memory
<1>3. CASE page' \in Page /\ page'.ver = page.ver + 1 /\ UNCHANGED <<api, d>>
  BY <1>2, <1>3 DEF SeenInv, Reflects
<1>4. ASSUME /\ page' = page
             /\ api'.snap \in {api.snap, page} \/ (api'.snap = api.seed /\ api.seed # NoPage)
             /\ api'.seed \in {api.seed, NoPage, page}
             /\ ~Crash
      PROVE  SeenInv'
  <2>1. Reflects(api.snap)' /\ Reflects(api.seed)' /\ (api'.seed = NoPage \/ api'.seed.ver > 0)
    BY <1>2, <1>4, NothingSeen DEF SeenInv, Reflects
  <2>2. d'.at = "plan" => api'.snap.ver > 0
    <3>1. CASE d' = d
      BY <1>2, <1>4, <3>1 DEF SeenInv
    <3>2. CASE d' # d /\ d'.at = "plan"
      <4>1. Observe /\ ~Reports("failed")
        BY <3>2, <1>2, PlacesReached, ReportsFacts
      <4> QED
        BY <4>1, <1>2, ObserveCases DEF SeenInv
    <3> QED
      BY <3>1, <3>2
  <2>3. d'.at = "audit" /\ d'.target # Next => api'.snap.val[d'.target] = "ours"
    <3>1. CASE d' # d /\ d'.at = "audit"
      BY <3>1, PlacesReached DEF ReadbackOK
    <3>2. CASE d' = d /\ d.at = "audit"
      <4>1. api'.snap = api.snap
        BY <3>2, <1>2, <1>4, AnswersAreWaitedFor
      <4> QED
        BY <3>2, <4>1 DEF SeenInv
    <3> QED
      BY <3>1, <3>2
  <2> QED
    BY <2>1, <2>2, <2>3 DEF SeenInv
<1> QED
  BY <1>1, <1>3, <1>4, KnownMoves

-----------------------------------------------------------------------------
(* Epochs and the command at the worker                                    *)

\* Every epoch the worker knows was handed out by the tools or by the reviews.
LEMMA EpochStep == ASSUME PageInv, Step PROVE EpochInv'
<1> USE DEF PageInv
<1>1. /\ TypeInv /\ worker.epoch \in Nat /\ cmd.epoch \in Nat /\ api.latest \in Nat
      /\ api.reviews \in Nat
  BY Numbers DEF TypeInv, Record, Command, Memory
<1>2. CASE UNCHANGED <<worker, cmd, api>>
  BY <1>2 DEF EpochInv
<1>3. CASE Start
  <2>1. CASE AskReview
    <3>1. api'.reviews = api.reviews + 1 /\ api'.latest = api.latest /\ cmd' = cmd
          /\ worker'.epoch = Highest(worker.epoch, api.reviews + 1)
      BY <1>1, <1>3, <2>1, InvalidatedType DEF Start, AskReview, TypeInv, Memory
    <3> QED
      BY <3>1, <1>1 DEF EpochInv, Highest
  <2>2. CASE Seed \/ StartUnseen
    BY <1>1, <1>3, <2>2 DEF Start, Seed, StartUnseen, EpochInv, TypeInv, Memory, Record
  <2> QED
    BY <1>3, <2>1, <2>2 DEF Start
<1>4. CASE Crash
  BY <1>4 DEF Crash, EpochInv, NoWorker, NoCmd, NoMemory
<1>5. CASE Invalidate
  <2>1. /\ api'.latest = api.latest + 1 /\ api'.reviews = api.reviews /\ cmd' = cmd
        /\ worker'.epoch \in {worker.epoch, Highest(worker.epoch, api.latest + 1)}
    <3>1. Invalidated(api.latest + 1).epoch = Highest(worker.epoch, api.latest + 1)
      BY <1>1, InvalidatedType
    <3>2. api'.latest = api.latest + 1 /\ api'.reviews = api.reviews /\ cmd' = cmd
      BY <1>5 DEF Invalidate, TypeInv, Memory
    <3> QED
      BY <1>5, <3>1, <3>2 DEF Invalidate
  <2> QED
    BY <2>1, <1>1 DEF EpochInv, Highest
<1>6. CASE Plan
  <2>1. /\ api'.reviews = api.reviews /\ worker' = worker
        /\ \/ cmd' = cmd /\ api'.latest = api.latest
           \/ /\ api'.latest > api.latest /\ api'.latest \in Nat
              /\ cmd'.epoch \in {cmd.epoch, api'.latest}
    <3>1. CommandEpoch \in Nat
      BY DEF CommandEpoch, TypeInv, AtWork, App
    <3>2. ASSUME NEW target, Send(target)
          PROVE  /\ api'.reviews = api.reviews /\ api'.latest = CommandEpoch
                 /\ cmd'.epoch = CommandEpoch
      BY <3>2 DEF Send, TypeInv, Memory
    <3>3. ASSUME api' = [api EXCEPT !.latest = CommandEpoch]
          PROVE  api'.reviews = api.reviews /\ api'.latest = CommandEpoch
      BY <3>3 DEF TypeInv, Memory
    <3> QED
      BY <3>1, <3>2, <3>3, <1>1, <1>6, PlanCases DEF Reserved
  <2> QED
    BY <2>1, <1>1 DEF EpochInv
<1>7. CASE Prepare \/ Guard \/ Finish
  <2>1. /\ api'.latest = api.latest /\ api'.reviews = api.reviews
        /\ cmd'.epoch \in {0, cmd.epoch}
    <3>1. api' = api \/ api' = [api EXCEPT !.snap = page]
      BY <1>1, <1>7, PrepareCases, GuardCases, FinishCases, OverCases
    <3>2. cmd' = NoCmd \/ cmd'.epoch = cmd.epoch
      BY <1>1, <1>7, PrepareCases, GuardCases, FinishCases DEF Over, TypeInv, Command
    <3> QED
      BY <3>1, <3>2 DEF TypeInv, Memory, NoCmd
  <2>2. worker'.epoch \in {worker.epoch, Highest(worker.epoch, cmd.epoch)}
    BY <1>1, <1>7, PrepareCases, GuardCases, FinishCases DEF TypeInv, Record
  <2> QED
    BY <2>1, <2>2, <1>1 DEF EpochInv, Highest
<1>8. CASE Release
  BY <1>1, <1>8 DEF Release, EpochInv, NoWorker
<1>9. CASE Cancel \/ Land \/ Timeout
  BY <1>1, <1>9 DEF Cancel, Land, Timeout, EpochInv, TypeInv, Record, Command
<1>10. CASE Resume \/ Touch \/ Begin
  BY <1>2, <1>10 DEF Resume, Touch, Begin
<1>11. CASE Observe \/ Readback1 \/ Readback2 \/ Audit
  <2>1. /\ cmd' = cmd /\ worker'.epoch = worker.epoch
        /\ api'.latest = api.latest /\ api'.reviews = api.reviews
    BY <1>1, <1>11, ObserveCases, Readbacks, ReadbackCases, AuditCases DEF TypeInv, Record, Memory
  <2> QED
    BY <2>1 DEF EpochInv
<1> QED
  BY <1>3, <1>4, <1>5, <1>6, <1>7, <1>8, <1>9, <1>10, <1>11 DEF Step, Dispatch, Worker

\* A command is sent by a plan, and is justified by what the plan saw.
LEMMA SentIsJustified ==
  ASSUME PageInv, Step, cmd.pc = "none", cmd'.pc # "none"
  PROVE  CommandInv'
<1> USE DEF PageInv
<1>1. TypeInv
  OBVIOUS
<1>2. Plan /\ \E target \in Targets : Send(target)
  <2>1. CASE ~Plan
    <3>1. CASE Observe \/ Readback1 \/ Readback2 \/ Audit
      BY <3>1, <1>1, ObserveCases, Readbacks, ReadbackCases, AuditCases
    <3>2. CASE Start \/ Resume \/ Cancel \/ Touch \/ Begin \/ Invalidate \/ Release
      BY <3>2 DEF Release, Start, Resume, Cancel, Touch, Begin, Invalidate
    <3>3. CASE Crash \/ Timeout
      BY <3>3 DEF Crash, Timeout, NoCmd, TypeInv, Command
    <3>4. CASE Prepare \/ Guard \/ Finish \/ Land
      BY <3>4 DEF Prepare, Guard, Finish, Land
    <3> QED
      BY <2>1, <3>1, <3>2, <3>3, <3>4 DEF Step, Dispatch, Worker
  <2>2. Empty(api.snap) \subseteq Targets /\ Next \in Targets
    BY FormPages DEF Empty, Targets, TypeInv, Memory, Page
  <2> QED
    BY <2>1, <2>2, PlanCases
<1>3. PICK target \in Targets :
        /\ Send(target)
        /\ IF target = Next THEN Mismatches(api.snap, api.ledger) = {}
           ELSE target \in Empty(api.snap)
  <2>1. Next \notin Empty(api.snap)
    BY FormPages, FieldsAssumption DEF Empty, TypeInv, Memory, Page, Next
  <2>2. Empty(api.snap) \subseteq Targets /\ Next \in Targets
    BY FormPages DEF Empty, Targets, TypeInv, Memory, Page
  <2> QED
    BY <1>2, <2>1, <2>2, PlanCases
<1>4. /\ cmd'.pc = "queued" /\ cmd'.on = api.snap.ver /\ cmd'.heard /\ cmd'.target = target
      /\ cmd'.epoch = CommandEpoch
      /\ page' = page /\ api'.latest = CommandEpoch /\ api'.ledger = api.ledger
      /\ d'.at = "executing"
  BY <1>1, <1>2, <1>3 DEF Plan, Send, TypeInv, Memory, AtWork
<1>5. cmd'.on \in 1..page'.ver
  BY <1>1, <1>2, <1>4 DEF Plan, SeenInv, Reflects, TypeInv, Memory, Page
<1>6. ASSUME page.ver = api.snap.ver PROVE Justified(cmd, page, api.ledger)'
  <2>1. api.snap = page
    BY <1>6 DEF SeenInv, Reflects
  <2> QED
    BY <2>1, <1>3, <1>4 DEF Justified, Mismatches, Empty
<1> QED
  BY <1>4, <1>5, <1>6 DEF CommandInv, Unmutated

\* While a command is at the worker only these steps are left.
LEMMA BesideCommand ==
  ASSUME PageInv, Step, cmd.pc # "none"
  PROVE  Cancel \/ Crash \/ Touch \/ Timeout \/ Invalidate \/ Worker
<1> USE DEF PageInv
<1>1. d.at \in {"executing", "invalidate"} \/ (d.at = "idle" /\ run.status \in Ended)
  BY DEF CommandInv, Lost
<1> QED
  BY <1>1 DEF Step, Dispatch, Start, WorkerFree, Resume, Begin, Observe, Plan, Readback1, Readback2,
              Readback, Audit, Ended

\* A command keeps what it is until it is over.
LEMMA CommandKept ==
  ASSUME PageInv, Step, ~Crash, cmd.pc # "none", cmd'.pc # "none"
  PROVE  /\ cmd'.on = cmd.on /\ cmd'.target = cmd.target /\ cmd'.epoch = cmd.epoch
         /\ cmd'.pc = "queued" => cmd.pc = "queued"
         /\ \/ Timeout /\ ~cmd'.heard /\ api' = api /\ Stops("failed")
            \/ /\ Invalidate /\ cmd' = cmd /\ api'.ledger = api.ledger
            \/ cmd'.heard = cmd.heard /\ UNCHANGED <<api, d>>
<1> USE DEF PageInv
<1>1. TypeInv
  OBVIOUS
<1>2. CASE Timeout
  BY <1>1, <1>2, AppTypes DEF Timeout, Stops, TypeInv, Command
<1>3. CASE Invalidate
  BY <1>1, <1>3 DEF Invalidate, TypeInv, Memory
<1>4. CASE Cancel \/ Touch \/ Release \/ Land
  BY <1>1, <1>4 DEF Cancel, Touch, Release, Land, TypeInv, Command
<1>5. CASE Prepare \/ Guard \/ Finish
  <2>1. cmd' # NoCmd
    BY DEF NoCmd
  <2>2. /\ cmd' = [cmd EXCEPT !.pc = "prepared"] \/ cmd' = [cmd EXCEPT !.pc = "writing"]
        /\ cmd.pc = "queued" \/ cmd' = [cmd EXCEPT !.pc = "writing"]
        /\ UNCHANGED <<api, d>>
    BY <1>1, <1>5, <2>1, PrepareCases, GuardCases, FinishCases
  <2> QED
    BY <1>1, <2>2 DEF TypeInv, Command
<1> QED
  BY <1>2, <1>3, <1>4, <1>5, BesideCommand DEF Worker

\* The page of a command only gets newer.
LEMMA PageAges ==
  ASSUME PageInv, Step
  PROVE  page' = page \/ (page'.ver > page.ver /\ page'.ver \in Nat)
<1>1. CASE Crash
  BY <1>1, OpenedType DEF Crash, PageInv, TypeInv, Page
<1> QED
  BY <1>1, KnownMoves DEF PageInv, TypeInv, Page

\* An invalidation outdates the command, unless the worker could not be told.
LEMMA InvalidatedIsHarmless ==
  ASSUME PageInv, Invalidate
  PROVE  Harmless'
<1> USE DEF PageInv
<1>1. /\ worker.epoch \in Nat /\ cmd.epoch \in Nat /\ api.latest \in Nat /\ cmd.epoch <= api.latest
      /\ cmd' = cmd
  BY DEF Invalidate, TypeInv, Record, Command, Memory, EpochInv
<1>2. CASE worker' = Invalidated(api.latest + 1)
  <2>1. worker'.epoch = Highest(worker.epoch, api.latest + 1)
    BY <1>1, <1>2, InvalidatedType
  <2> QED
    BY <2>1, <1>1 DEF Harmless, Highest
<1>3. CASE api' = [api EXCEPT !.latest = @ + 1, !.deaf = TRUE]
  BY <1>3 DEF Harmless, TypeInv, Memory
<1> QED
  BY <1>2, <1>3 DEF Invalidate

\* What is harmless stays so at the worker, which outlives the dispatch.
LEMMA HarmlessStays ==
  ASSUME PageInv, Step, ~Crash, ~Invalidate, cmd.pc # "none", cmd'.pc # "none", d.at = "idle"
  PROVE  Harmless'
<1> USE DEF PageInv
<1>1. /\ TypeInv /\ Harmless /\ cmd.on > 0 /\ run.status \in Ended
      /\ worker.epoch \in Nat /\ cmd.epoch \in Nat
  BY DEF CommandInv, TypeInv, Record, Command, Lost
<1>2. UNCHANGED api /\ cmd'.epoch = cmd.epoch
  BY CommandKept DEF Timeout
<1>3. ~Cancel /\ ~Timeout
  BY <1>1 DEF Cancel, Timeout, Ended
<1>4. CASE Touch \/ Land
  BY <1>1, <1>2, <1>4 DEF Touch, Land, Harmless
<1>5. CASE Release
  BY <1>1, <1>2, <1>5 DEF Release, Harmless, NoWorker
<1>6. CASE Prepare
  <2>1. /\ Admitted /\ worker.seen = cmd.on /\ worker'.epoch = Highest(worker.epoch, cmd.epoch)
    BY <1>1, <1>6, PrepareCases DEF NoCmd
  <2>2. api.deaf
    BY <2>1, <1>1 DEF Harmless, Admitted
  <2> QED
    BY <2>2, <1>2 DEF Harmless
<1>7. CASE Guard
  <2>1. IsCurrent /\ cmd.pc = "prepared"
    BY <1>7 DEF Guard, Dropped, NoCmd
  <2>2. api.deaf
    BY <2>1, <1>1 DEF Harmless, IsCurrent
  <2> QED
    BY <2>2, <1>2 DEF Harmless
<1>8. CASE Finish
  BY <1>1, <1>8, FinishCases DEF NoCmd
<1> QED
  BY <1>3, <1>4, <1>5, <1>6, <1>7, <1>8, BesideCommand DEF Worker

\* The command at the worker stays what its dispatch, or the loss of it, made it.
LEMMA CommandStep == ASSUME PageInv, Step PROVE CommandInv'
<1> USE DEF PageInv
<1>1. CASE Crash
  BY <1>1 DEF Crash, CommandInv, NoCmd
<1>2. CASE cmd.pc = "none"
  BY <1>2, SentIsJustified DEF CommandInv
<1>3. CASE ~Crash /\ cmd.pc # "none" /\ cmd'.pc # "none"
  <2>1. TypeInv /\ page.ver \in Nat /\ cmd.on \in 1..page.ver
    BY <1>3 DEF TypeInv, Page, CommandInv
  <2>2. cmd'.on \in 1..page'.ver
    BY <1>3, <2>1, CommandKept, PageAges
  <2>3. ASSUME cmd'.heard
        PROVE  d'.at = "executing" /\ cmd'.epoch = api'.latest
    <3>1. cmd.heard /\ (UNCHANGED <<api, d>> \/ Invalidate)
      BY <1>3, <2>3, CommandKept
    <3>2. d.at = "executing" /\ cmd.epoch = api.latest
      BY <3>1, <1>3 DEF CommandInv
    <3> QED
      BY <3>1, <3>2, <2>3, <1>3, CommandKept DEF Invalidate
  <2>4. ASSUME ~cmd'.heard
        PROVE  Lost'
    <3>1. CASE cmd.heard
      <4>1. Timeout /\ Stops("failed")
        BY <3>1, <2>4, <1>3, CommandKept
      <4> QED
        BY <4>1, <2>1, StopsFacts DEF Lost, Reasons
    <3>2. CASE ~cmd.heard
      BY <3>2, <1>3, LostStays DEF CommandInv
    <3> QED
      BY <3>1, <3>2
  <2>5. ASSUME cmd'.pc = "queued", Unmutated'
        PROVE  Justified(cmd, page, api.ledger)'
    <3>1. page' = page /\ cmd.pc = "queued" /\ Unmutated
      BY <2>1, <2>5, <1>3, CommandKept, PageAges DEF Unmutated
    <3>2. Justified(cmd, page, api.ledger)
      BY <3>1, <1>3 DEF CommandInv
    <3>3. api'.ledger = api.ledger
      BY <1>3, CommandKept
    <3> QED
      BY <3>1, <3>2, <3>3, <1>3, CommandKept DEF Justified
  <2>6. d'.at = "idle" => Harmless'
    <3>1. CASE Invalidate
      BY <3>1, InvalidatedIsHarmless
    <3>2. CASE d.at = "idle" /\ ~Invalidate
      BY <3>2, <1>3, HarmlessStays
    <3>3. CASE d.at # "idle" /\ ~Invalidate
      BY <3>3, <2>1, <1>3, CommandKept, StopsFacts DEF Reasons
    <3> QED
      BY <3>1, <3>2, <3>3
  <2> QED
    BY <2>2, <2>3, <2>4, <2>5, <2>6 DEF CommandInv
<1> QED
  BY <1>1, <1>2, <1>3 DEF CommandInv

-----------------------------------------------------------------------------
(* What holds of every application task                                    *)

\* The invariant is inductive.
LEMMA PageInvStep == ASSUME PageInv, [Step]_vars PROVE PageInv'
<1>1. CASE Step
  BY <1>1, TypeStep, PlaceStep, SeenStep, EpochStep, CommandStep DEF PageInv
<1>2. CASE UNCHANGED vars
  BY <1>2 DEF vars, PageInv, TypeInv, PlaceInv, Placed, Lost, SeenInv, Reflects, EpochInv,
              CommandInv, Justified, Unmutated, Harmless
<1> QED
  BY <1>1, <1>2

\* The invariant holds of every reachable state.
LEMMA PageInvHolds == Spec => []PageInv
  BY InitInv, PageInvStep, PTL DEF Spec

\* Types are kept and the three counters of epochs agree: for every form, plan
\* and audit interval, and however often the run is resumed, restarted, reviewed
\* or told of failures, a command that its dispatch still waits for is refused
\* for its epoch only when the service's reviews have overtaken it.
THEOREM EpochsOfATask == Spec => []Consistent
<1>1. PageInv => Consistent
  <2> SUFFICES ASSUME PageInv PROVE Consistent
    OBVIOUS
  <2>1. TypeOK
    BY DEF PageInv, TypeInv, TypeOK, Record, Command, Targets, Memory, AtWork, Places, Reasons,
           SavedState, RunState, States
  <2>2. EpochsAgree
    <3>1. /\ worker.epoch \in Nat /\ cmd.epoch \in Nat /\ api.latest \in Nat
          /\ api.reviews \in Nat
      BY Numbers DEF PageInv, TypeInv, Record, Command, Memory
    <3> QED
      BY <3>1 DEF PageInv, EpochInv, CommandInv, EpochsAgree, Admitted
  <2> QED
    BY <2>1, <2>2 DEF Consistent
<1> QED
  BY <1>1, PageInvHolds, PTL

\* Only the worker's last look lets a write begin.
LEMMA WritesOnlyWhatIsCurrent ==
  ASSUME PageInv, [Step]_vars, StartsWriting
  PROVE  d.at \in {"executing", "invalidate"} \/ api.deaf
<1> USE DEF PageInv
<1>1. Step /\ cmd.pc # "none" /\ ~Crash
  BY DEF StartsWriting, vars, Crash, NoCmd
<1>2. ~(Cancel \/ Touch \/ Timeout \/ Invalidate \/ Release \/ Land \/ Prepare \/ Finish)
  BY DEF StartsWriting, TypeInv, Command, Cancel, Touch, Timeout, Invalidate, Release, Land,
         Prepare, Finish
<1>3. Guard
  BY <1>1, <1>2, BesideCommand DEF Worker
<1>4. worker.epoch = cmd.epoch /\ worker.epoch \in Nat
  BY <1>3 DEF StartsWriting, Guard, IsCurrent, Dropped, NoCmd, TypeInv, Record
<1>5. d.at \in {"executing", "invalidate", "idle"}
  BY <1>1 DEF CommandInv, Lost
<1> QED
  BY <1>1, <1>4, <1>5 DEF StartsWriting, CommandInv, Harmless

\* What is prepared was planned on the page as it is.
LEMMA PreparedIsJustified ==
  ASSUME PageInv, [Step]_vars, cmd.pc = "queued", cmd'.pc = "prepared"
  PROVE  Justified(cmd, page, api.ledger)
<1> USE DEF PageInv
<1>1. Step /\ cmd.pc # "none" /\ ~Crash
  BY DEF vars, Crash, NoCmd
<1>2. ~(Cancel \/ Touch \/ Timeout \/ Invalidate \/ Release \/ Land \/ Guard \/ Finish)
  BY DEF TypeInv, Command, Cancel, Touch, Timeout, Invalidate, Release, Land, Guard, Finish
<1>3. Prepare
  BY <1>1, <1>2, BesideCommand DEF Worker
<1>4. Unmutated
  BY <1>3, PrepareCases DEF NoCmd
<1> QED
  BY <1>1, <1>4 DEF CommandInv

\* A step that wrote completes at the audit, with the value read back twice.
LEMMA CompletedWasRead ==
  ASSUME PageInv, [Step]_vars, run'.step > run.step, d.sent, d.target # Next
  PROVE  /\ api.snap.val[d.target] = "ours"
         /\ d.target \in Named => d.target \in api'.ledger
<1> USE DEF PageInv
<1>1. TypeInv /\ run.step \in Nat /\ run' # run
  BY DEF TypeInv, RunState
<1>2. Step /\ d.at # "idle"
  BY <1>1 DEF vars, PlaceInv, Placed, NoDispatch
<1>3. ASSUME NEW then \in Reasons, Stops(then) PROVE FALSE
  BY <1>1, <1>3, StopsFacts
<1>4. ASSUME NEW s \in {"interrupted", "failed", "running"}, Reports(s) PROVE FALSE
  BY <1>1, <1>4, ReportsFacts
<1>5. d.at \notin {"observe", "plan"}
  BY DEF PlaceInv, Placed
<1>6. ~(Start \/ Resume \/ Touch \/ Land \/ Release \/ Begin \/ Observe \/ Plan)
  BY <1>1, <1>2, <1>5 DEF Start, Resume, Touch, Land, Release, Begin, Observe, Plan
<1>7. ~(Cancel \/ Crash)
  BY <1>1 DEF Cancel, Crash, TypeInv, RunState
<1>8. ~(Invalidate \/ Timeout)
  BY <1>1, <1>3, <1>4, InvalidateReports, AppTypes DEF Timeout, Stops, Reasons
<1>9. ~(Readback1 \/ Readback2)
  BY <1>1, <1>3, Readbacks, ReadbackCases DEF Reasons
<1>10. ~(Prepare \/ Guard \/ Finish)
  BY <1>1, <1>3, PrepareCases, GuardCases, FinishCases, OverCases DEF Reasons
<1>11. Audit
  BY <1>2, <1>6, <1>7, <1>8, <1>9, <1>10 DEF Step, Dispatch, Worker
<1>12. d.at = "audit" /\ api'.ledger = Watched
  BY <1>11, AuditCases DEF TypeInv, Memory
<1> QED
  BY <1>12 DEF SeenInv, Watched, Auditable

\* What the specialist does to a page, the page justifies, for every form and plan:
\* no write of a dispatch begins after it has failed, none is prepared over what is
\* not empty, a page is left only with all that was applied to its named fields, and
\* a step that wrote a field completes only when its value was read back, and is
\* watched from then on if the field is named; whatever the site and the user change
\* in between.
THEOREM PageRespected == Spec => PageIsRespected
<1>1. PageInv /\ [Step]_vars =>
        (StartsWriting => d.at \in {"executing", "invalidate"} \/ api.deaf)
  BY WritesOnlyWhatIsCurrent
<1>2. PageInv /\ [Step]_vars =>
        (cmd.pc = "queued" /\ cmd'.pc = "prepared" /\ cmd.target = Next
           => \A f \in api.ledger : page.val[f] = "ours")
  BY PreparedIsJustified DEF Justified
<1>3. PageInv /\ [Step]_vars =>
        (cmd.pc = "queued" /\ cmd'.pc = "prepared" /\ cmd.target # Next
           => page.val[cmd.target] = "empty")
  BY PreparedIsJustified DEF Justified
<1>4. PageInv /\ [Step]_vars =>
        (run'.step > run.step /\ d.sent /\ d.target # Next
           => /\ api.snap.val[d.target] = "ours"
              /\ d.target \in Named => d.target \in api'.ledger)
  BY CompletedWasRead
<1> QED
  BY <1>1, <1>2, <1>3, <1>4, PageInvHolds, PTL
     DEF Spec, PageIsRespected, NothingStartsAfterFailure, NavigationLeavesVerified,
         KeepsUserInput, CompletedIsReadBack
=============================================================================
