------------------------ MODULE AgentRuntime_proofs ------------------------
(***************************************************************************)
(* Theorems about AgentRuntime, for every plan, budget and number of       *)
(* crashes.                                                                *)
(***************************************************************************)
EXTENDS AgentRuntime, FiniteSetTheorems, WellFoundedInduction, TLAPS

-----------------------------------------------------------------------------
(* What the helpers make of a run state                                    *)

\* q keeps of r what is neither its status, phase, interrupt nor plan.
Keeps(r, q) == /\ q.epoch = r.epoch /\ q.cur = r.cur /\ q.gen = r.gen
               /\ q.decided = r.decided /\ q.used = r.used

\* Close keeps a run state well typed (toTerminal updates of the loop).
LEMMA ClosedRun ==
    ASSUME NEW r \in RunState, NEW s \in RunStatus, NEW p \in Phase
    PROVE  /\ Close(r, s, p) \in RunState /\ Keeps(r, Close(r, s, p))
           /\ Close(r, s, p).status = s /\ Close(r, s, p).phase = p
           /\ Close(r, s, p).pend = NoInterrupt
BY DEF Close, Keeps, RunState, Interrupt, NoInterrupt, Step, NoStep

\* fail() keeps a run state well typed.
LEMMA FailedRun ==
    ASSUME NEW r \in RunState
    PROVE  /\ Fail(r) \in RunState /\ Keeps(r, Fail(r))
           /\ Fail(r).status = "failed" /\ Fail(r).phase = "fail"
           /\ Fail(r).pend = NoInterrupt
BY ClosedRun DEF Fail, RunStatus, Terminal, Phase

\* persist() keeps a run state well typed when it drops the interrupt.
LEMMA SettledRun ==
    ASSUME NEW r \in RunState
    PROVE  /\ Settled(r) \in RunState /\ Keeps(r, Settled(r))
           /\ Settled(r).status = r.status /\ Settled(r).phase = r.phase
           /\ Settled(r).pend \in {r.pend, NoInterrupt}
BY DEF Settled, Keeps, RunState, Interrupt, NoInterrupt, Step, NoStep

\* Moving a running run to another phase keeps it well typed.
LEMMA PhasedRun ==
    ASSUME NEW r \in RunState, NEW p \in Phase
    PROVE  /\ InPhase(r, p) \in RunState /\ Keeps(r, InPhase(r, p))
           /\ InPhase(r, p).status = "running" /\ InPhase(r, p).phase = p
           /\ InPhase(r, p).pend = r.pend
BY DEF InPhase, Keeps, RunState, RunStatus

\* Raising an interrupt keeps a run state well typed.
LEMMA AskingRun ==
    ASSUME NEW r \in RunState, NEW i \in Interrupt
    PROVE  /\ Asking(r, i) \in RunState /\ Keeps(r, Asking(r, i))
           /\ Asking(r, i).status = "interrupted" /\ Asking(r, i).phase = "human_gate"
           /\ Asking(r, i).pend = i
BY DEF Asking, Keeps, RunState, RunStatus, Phase

\* Marking a step of the plan keeps a run state well typed.
LEMMA MarkedRun ==
    ASSUME NEW r \in RunState, NEW s \in Step,
           NEW st \in {"pending", "running", "completed", "blocked"}
    PROVE  /\ Mark(r, s, st) \in RunState /\ Keeps(r, Mark(r, s, st))
           /\ Mark(r, s, st).status = r.status /\ Mark(r, s, st).phase = r.phase
           /\ Mark(r, s, st).pend = r.pend
BY DEF Mark, Keeps, RunState, StepState

\* markStepPending, with its retry charged, keeps a run state well typed.
LEMMA RetriedRun ==
    ASSUME NEW r \in RunState, NEW s \in Step
    PROVE  /\ Retried(r, s) \in RunState /\ Keeps(r, Retried(r, s))
           /\ Retried(r, s).status = r.status /\ Retried(r, s).phase = r.phase
           /\ Retried(r, s).pend = r.pend
<1> DEFINE m == Mark(r, s, "pending")
<1>1. /\ m \in RunState /\ Keeps(r, m) /\ m.status = r.status
      /\ m.phase = r.phase /\ m.pend = r.pend
  BY MarkedRun
<1>2. Retried(r, s) = [m EXCEPT !.plan[s].attempt = @ + 1]
  BY DEF Retried
<1> HIDE DEF m
<1>3. m.plan \in [Step -> StepState] /\ m.plan[s] \in StepState
  BY <1>1 DEF RunState
<1>4. [m.plan[s] EXCEPT !.attempt = @ + 1] \in StepState
  BY <1>3 DEF StepState
<1>5. [m.plan EXCEPT ![s].attempt = @ + 1] \in [Step -> StepState]
  BY <1>3, <1>4
<1> QED
  BY <1>1, <1>2, <1>5 DEF RunState, Keeps

\* markStepCompleted keeps a run state well typed.
LEMMA DoneRun ==
    ASSUME NEW r \in RunState, NEW s \in Step
    PROVE  /\ Done(r, s) \in RunState /\ Keeps(r, Done(r, s))
           /\ Done(r, s).status = r.status /\ Done(r, s).phase = r.phase
           /\ Done(r, s).pend = r.pend
<1> DEFINE m == Mark(r, s, "completed")
<1>1. /\ m \in RunState /\ Keeps(r, m) /\ m.status = r.status
      /\ m.phase = r.phase /\ m.pend = r.pend
  BY MarkedRun
<1>2. Done(r, s) = [m EXCEPT !.plan[s].attempt = IF @ = 0 THEN 1 ELSE @]
  BY DEF Done
<1> HIDE DEF m
<1>3. m.plan \in [Step -> StepState] /\ m.plan[s] \in StepState
  BY <1>1 DEF RunState
<1>4. [m.plan[s] EXCEPT !.attempt = IF @ = 0 THEN 1 ELSE @] \in StepState
  BY <1>3 DEF StepState
<1>5. [m.plan EXCEPT ![s].attempt = IF @ = 0 THEN 1 ELSE @] \in [Step -> StepState]
  BY <1>3, <1>4
<1> QED
  BY <1>1, <1>2, <1>5 DEF RunState, Keeps

\* consumeStep stays within the step budget it has just checked.
LEMMA ChargedRun ==
    ASSUME NEW r \in RunState, HasSteps(r), NEW s \in Step
    PROVE  /\ [Charged(r) EXCEPT !.cur = s] \in RunState
           /\ [Charged(r) EXCEPT !.cur = s].status = r.status
           /\ [Charged(r) EXCEPT !.cur = s].phase = r.phase
           /\ [Charged(r) EXCEPT !.cur = s].pend = r.pend
           /\ [Charged(r) EXCEPT !.cur = s].cur = s
           /\ [Charged(r) EXCEPT !.cur = s].epoch = r.epoch
           /\ [Charged(r) EXCEPT !.cur = s].gen = r.gen
           /\ [Charged(r) EXCEPT !.cur = s].used.replans = r.used.replans
<1>1. r.used \in Budget /\ r.used.steps < MaxSteps
  BY DEF HasSteps, RunState
<1>2. /\ [r.used EXCEPT !.steps = @ + 1] \in Budget
      /\ [r.used EXCEPT !.steps = @ + 1].replans = r.used.replans
  BY <1>1, LimitsAssumption DEF Budget
<1> QED
  BY <1>2 DEF Charged, RunState

\* An accepted human answer keeps a run state well typed.
LEMMA NextEpochRun ==
    ASSUME NEW r \in RunState
    PROVE  /\ NextEpoch(r) \in RunState /\ NextEpoch(r).epoch = r.epoch + 1
           /\ NextEpoch(r).status = r.status /\ NextEpoch(r).phase = r.phase
           /\ NextEpoch(r).pend = NoInterrupt
           /\ NextEpoch(r).cur = r.cur /\ NextEpoch(r).gen = r.gen
           /\ NextEpoch(r).decided = r.decided /\ NextEpoch(r).used = r.used
<1>1. NoInterrupt \in Interrupt
  BY DEF Interrupt, NoInterrupt, NoStep
<1>2. r.epoch \in Nat /\ r.epoch + 1 \in Nat
  BY DEF RunState
<1>3. NextEpoch(r) = [r EXCEPT !.epoch = r.epoch + 1, !.pend = NoInterrupt]
  BY DEF NextEpoch, RunState
<1> QED
  BY <1>1, <1>2, <1>3 DEF RunState

\* toCheckpoint writes a well-typed checkpoint.
LEMMA CheckpointTyped ==
    ASSUME NEW r \in RunState
    PROVE  /\ CheckpointOf(r) \in Checkpoint /\ CheckpointOf(r).hashOk = TRUE
           /\ CheckpointOf(r).status = r.status /\ CheckpointOf(r).phase = r.phase
           /\ CheckpointOf(r).pend \in {r.pend, NoInterrupt}
           /\ CheckpointOf(r).cur = r.cur /\ CheckpointOf(r).gen = r.gen
           /\ CheckpointOf(r).used = r.used /\ CheckpointOf(r).epoch = r.epoch
BY DEF CheckpointOf, Checkpoint, RunState, Interrupt, NoInterrupt, Step, NoStep

-----------------------------------------------------------------------------
(* Type correctness                                                        *)

\* A running run is at a phase the graph can be entered at; its plan
\* generations are paid for by the replans; an interrupt of a step has a step.
Planned(r) ==
    /\ r.status = "running" => r.phase \in {"intent", "plan", "dispatch", "wait", "inspect"}
    /\ r.phase = "intent" => r.gen = 0
    /\ r.phase = "plan" => r.gen <= r.used.replans
    /\ r.gen <= r.used.replans + 1
    /\ r.pend.reason \in {"final_submit", "other"} => r.cur \in Step

Sound(r) == /\ r \in RunState /\ Planned(r)
            /\ r.decided = "dispatch" => r.cur \in Step

Located ==
    /\ pc \in {"intent", "intent_io"} => run.gen = 0
    /\ pc \in {"plan", "plan_io"} \/ (pc = "save" /\ next = "plan")
          => run.gen <= run.used.replans
    /\ pc = "save" => next # "intent"
    /\ pc \in {"dispatch_io", "wait_io"} => run.cur \in Step

TypeInv == TypeOK /\ Sound(run) /\ Planned(ck) /\ Located

\* createInitialRuntimeState is well typed and has nothing in flight.
LEMMA InitialRunTyped == InitialRun \in RunState /\ Sound(InitialRun)
<1>1. FreshPlan \in [Step -> StepState]
  BY DEF FreshPlan, StepState
<1>2. InitialRun.used \in Budget /\ InitialRun.used.replans = 0
  BY LimitsAssumption DEF InitialRun, Budget
<1> QED
  BY <1>1, <1>2 DEF Sound, Planned, InitialRun, RunState, RunStatus, Phase, NoStep,
     NoInterrupt, Interrupt

\* The initial state satisfies the inductive type invariant.
LEMMA TypeInvInit == Init => TypeInv
<1> SUFFICES ASSUME Init PROVE TypeInv
  OBVIOUS
<1>1. FreshPlan \in [Step -> StepState]
  BY DEF FreshPlan, StepState
<1>2. InitialRun.used \in Budget /\ InitialRun.used.replans = 0
  BY LimitsAssumption DEF InitialRun, Budget
<1>3. Sound(InitialRun) /\ NoCheckpoint \in Checkpoint /\ Planned(NoCheckpoint)
  BY <1>1, <1>2 DEF Sound, Planned, InitialRun, RunState, RunStatus, Phase, NoStep,
     NoInterrupt, Interrupt, NoCheckpoint, Checkpoint
<1>4. /\ issued \in [Approvals -> Binding] /\ answer \in Answer
      /\ cm \in [live : BOOLEAN, epoch : Nat, cancelled : BOOLEAN]
  BY DEF Init, NoAnswer, Answer, Unissued, Binding, NoStep, NoEntry
<1>5. /\ pc \in PC /\ next \in Node \cup {"end"} /\ err \in {"none", "budget", "other"}
      /\ crashes \in 0..MaxCrashes
  BY LimitsAssumption DEF Init, PC, Node, Awaiting
<1>6. plans \in [PlanId -> [Step -> StepState]]
  BY <1>1 DEF Init
<1>7. TypeOK
  BY <1>3, <1>4, <1>5, <1>6 DEF Init, TypeOK, Sound
<1> QED
  BY <1>3, <1>7 DEF Init, TypeInv, Located

\* persist() keeps the phase, step and interrupt of a run consistent.
LEMMA SettledSound ==
    ASSUME NEW r, Sound(r)
    PROVE  /\ Sound(Settled(r)) /\ Keeps(r, Settled(r))
           /\ Settled(r).status = r.status
<1>1. r \in RunState
  BY DEF Sound
<1> QED
  BY <1>1, SettledRun DEF Sound, Planned, Keeps, NoInterrupt

\* A failed run is consistent: it has no interrupt left.
LEMMA FailedSound ==
    ASSUME NEW r, Sound(r)
    PROVE  Sound(Fail(r)) /\ Keeps(r, Fail(r))
<1>1. r \in RunState
  BY DEF Sound
<1> QED
  BY <1>1, FailedRun DEF Sound, Planned, Keeps, NoInterrupt

\* A closed run is consistent: it has no interrupt left.
LEMMA ClosedSound ==
    ASSUME NEW r, Sound(r), NEW s \in Terminal, NEW p \in Phase \ {"intent", "plan"}
    PROVE  Sound(Close(r, s, p)) /\ Keeps(r, Close(r, s, p))
<1>1. r \in RunState /\ s \in RunStatus /\ s # "running"
  BY DEF Sound, RunStatus, Terminal
<1> QED
  BY <1>1, ClosedRun DEF Sound, Planned, Keeps, NoInterrupt

\* Entering human_gate keeps an interrupted run consistent.
LEMMA GatedSound ==
    ASSUME NEW r, Sound(r), r.status # "running"
    PROVE  /\ Sound([r EXCEPT !.phase = "human_gate"])
           /\ Keeps(r, [r EXCEPT !.phase = "human_gate"])
           /\ [r EXCEPT !.phase = "human_gate"].status = r.status
<1>1. r \in RunState
  BY DEF Sound
<1>2. /\ [r EXCEPT !.phase = "human_gate"] \in RunState
      /\ Keeps(r, [r EXCEPT !.phase = "human_gate"])
      /\ [r EXCEPT !.phase = "human_gate"].status = r.status
      /\ [r EXCEPT !.phase = "human_gate"].phase = "human_gate"
      /\ [r EXCEPT !.phase = "human_gate"].pend = r.pend
  BY <1>1 DEF RunState, Phase, Keeps
<1> QED
  BY <1>2 DEF Sound, Planned, Keeps

\* A checkpoint refers to a plan artifact that exists.
LEMMA CheckpointPlanned ==
    ASSUME NEW r, Sound(r)
    PROVE  CheckpointOf(r) \in Checkpoint /\ Planned(CheckpointOf(r))
<1>1. r \in RunState
  BY DEF Sound
<1> DEFINE c == CheckpointOf(r)
<1>2. /\ c \in Checkpoint /\ c.status = r.status /\ c.phase = r.phase
      /\ c.pend \in {r.pend, NoInterrupt}
      /\ c.cur = r.cur /\ c.gen = r.gen /\ c.used = r.used
  BY <1>1, CheckpointTyped
<1> HIDE DEF c
<1>3. c \in Checkpoint /\ Planned(c)
  BY <1>2 DEF Sound, Planned, NoInterrupt
<1> QED
  BY <1>3 DEF c

\* The attempts the history records are well typed.
LEMMA KeyTyped ==
    ASSUME NEW r, Sound(r), NEW s \in Step
    PROVE  Key(r, s) \in KeySet
<1>1. r.gen \in Nat /\ r.plan[s] \in StepState /\ r.used \in Budget
  BY DEF Sound, RunState
<1>2. r.used.replans \in 0..MaxReplans /\ r.plan[s].attempt \in Nat
  BY <1>1 DEF Budget, StepState
<1>3. r.gen \in 0..(MaxReplans + 1)
  BY <1>1, <1>2, LimitsAssumption DEF Sound, Planned
<1> QED
  BY <1>2, <1>3 DEF Key, KeySet

\* The interrupts a supervisor or executor raises are well typed.
LEMMA InterruptTyped ==
    ASSUME NEW r, Sound(r), NEW s \in Step, NEW i \in Interrupts(r, s)
    PROVE  i \in Interrupt
BY DEF Interrupts, Interrupt, Reason, NoStep, Sound, RunState

\* savePlan keeps every plan artifact well typed.
LEMMA PlanSaved ==
    ASSUME TypeOK, NEW r, Sound(r), SavePlan(r)
    PROVE  plans' \in [PlanId -> [Step -> StepState]]
BY DEF TypeOK, Sound, RunState, SavePlan

\* Every step of the run, the process and its environment preserves the
\* inductive type invariant.
LEMMA TypeInvStep == TypeInv /\ [Next]_vars => TypeInv'
<1> SUFFICES ASSUME TypeInv, [Next]_vars PROVE TypeInv'
  OBVIOUS
<1>a. TypeOK /\ Sound(run) /\ Planned(ck) /\ Located /\ run \in RunState
  BY DEF TypeInv, TypeOK
<1> USE DEF Node, Awaiting
<1>1. CASE TimedOut
  BY <1>1, <1>a DEF TimedOut, Throw, history, TypeInv, TypeOK, Located, PC
<1>2. CASE CallFails
  BY <1>2, <1>a DEF CallFails, Throw, history, TypeInv, TypeOK, Located, PC
<1>3. CASE Refused
  BY <1>3, <1>a DEF Refused, Throw, history, TypeInv, TypeOK, Located, PC
<1>4. CASE IntentCall
  BY <1>4, <1>a DEF IntentCall, Await, history, TypeInv, TypeOK, Located, PC
<1>5. CASE IntentResolved
  <2>1. run.gen = 0
    BY <1>5, <1>a DEF IntentResolved, Located
  <2>2. Sound(Fail(run))
    BY <1>a, FailedSound
  <2>3. [NoInterrupt EXCEPT !.reason = "ambiguous_fact"] \in Interrupt
    BY DEF NoInterrupt, Interrupt, Reason, NoStep
  <2>4. Sound(Asking(run, [NoInterrupt EXCEPT !.reason = "ambiguous_fact"]))
    BY <2>3, <1>a, AskingRun DEF Sound, Planned, Keeps, NoInterrupt
  <2>5. run.used.replans \in Nat
    BY <1>a, LimitsAssumption DEF RunState, Budget
  <2>6. Sound(InPhase(run, "plan")) /\ Keeps(run, InPhase(run, "plan"))
    BY <2>1, <2>5, <1>a, PhasedRun DEF Sound, Planned, Keeps, Phase
  <2>7. \E r, n : /\ Sound(r) /\ n \in {"end", "gate", "plan"} /\ Return(r, n)
                  /\ n = "plan" => Keeps(run, r)
    BY <1>5, <2>2, <2>4, <2>6 DEF IntentResolved
  <2>8. /\ Sound(run') /\ pc' = "save" /\ err' = err /\ next' \in {"end", "gate", "plan"}
        /\ next' = "plan" => Keeps(run, run')
    BY <2>7, SettledSound DEF Return, Keeps
  <2> QED
    BY <1>5, <1>a, <2>1, <2>5, <2>8 DEF IntentResolved, history, TypeInv, TypeOK, Located,
       PC, Sound, Keeps
<1>6. CASE PlanCall
  BY <1>6, <1>a DEF PlanCall, Await, history, TypeInv, TypeOK, Located, PC
<1>7. CASE PlanCreated
  <2>1. /\ run.used.replans \in 0..MaxReplans /\ run.gen \in Nat
        /\ run.gen <= run.used.replans
    BY <1>7, <1>a DEF PlanCreated, RunState, Budget, Located
  <2>2. Sound(Fail(run)) /\ Keeps(run, Fail(run))
    BY <1>a, FailedSound
  <2> DEFINE q == InPhase(run, "dispatch")
             r == [q EXCEPT !.gen = @ + 1, !.plan = FreshPlan]
  <2>3. /\ q \in RunState /\ Keeps(run, q) /\ q.status = "running"
        /\ q.phase = "dispatch" /\ q.pend = run.pend
    BY <1>a, PhasedRun DEF Phase
  <2>4. FreshPlan \in [Step -> StepState]
    BY DEF FreshPlan, StepState
  <2> HIDE DEF q
  <2>g. q.gen + 1 \in Nat
    BY <2>1, <2>3 DEF Keeps
  <2>5. /\ r \in RunState /\ r.status = q.status /\ r.phase = q.phase /\ r.pend = q.pend
        /\ r.cur = q.cur /\ r.used = q.used /\ r.decided = q.decided /\ r.gen = q.gen + 1
    BY <2>3, <2>4, <2>g DEF RunState
  <2>6. Sound(r)
    BY <2>5, <2>3, <2>1, <1>a DEF Sound, Planned, Keeps
  <2>7. \/ Return(Fail(run), "end") /\ UNCHANGED plans
        \/ Return(r, "dispatch") /\ SavePlan(r)
    BY <1>7 DEF PlanCreated, q
  <2>8. /\ Sound(run') /\ pc' = "save" /\ err' = err /\ next' \in {"end", "dispatch"}
    BY <2>7, <2>2, <2>6, SettledSound DEF Return
  <2>9. plans' \in [PlanId -> [Step -> StepState]]
    BY <2>7, <2>6, <1>a, PlanSaved DEF TypeOK
  <2> QED
    BY <1>7, <1>a, <2>8, <2>9 DEF PlanCreated, history, TypeInv, TypeOK, Located, PC, Sound
<1>8. CASE DispatchCall
  <2>1. /\ Sound(Close(run, "completed", "complete"))
    BY <1>a, ClosedSound DEF Terminal, Phase
  <2>2. CASE Return(Close(run, "completed", "complete"), "end")
    <3>1. Sound(run') /\ pc' = "save" /\ err' = err /\ next' = "end"
      BY <2>1, <2>2, SettledSound DEF Return
    <3> QED
      BY <1>8, <1>a, <3>1 DEF DispatchCall, history, TypeInv, TypeOK, Located, PC, Sound
  <2>3. CASE Throw("budget")
    BY <1>8, <1>a, <2>3 DEF DispatchCall, Throw, history, TypeInv, TypeOK, Located, PC
  <2>4. ASSUME HasSteps(run), NEW s \in First(Ready(run.plan)),
               run' = [Charged(run) EXCEPT !.cur = s], Await("dispatch_io")
        PROVE  TypeInv'
    <3>1. s \in Step
      BY DEF First, Ready
    <3>2. /\ run' \in RunState /\ run'.status = run.status /\ run'.phase = run.phase
          /\ run'.pend = run.pend /\ run'.cur = s /\ run'.gen = run.gen
          /\ run'.used.replans = run.used.replans
      BY <1>a, <2>4, <3>1, ChargedRun
    <3>3. Sound(run')
      BY <1>a, <3>1, <3>2 DEF Sound, Planned
    <3> QED
      BY <1>8, <1>a, <2>4, <3>1, <3>2, <3>3 DEF DispatchCall, Await, history, TypeInv, TypeOK,
         Located, PC
  <2> QED
    BY <1>8, <2>2, <2>3, <2>4 DEF DispatchCall
<1>9. CASE SupervisorDecides
  <2> DEFINE s == run.cur
             m == Mark(InPhase(run, "wait"), s, "running")
             r == [m EXCEPT !.decided = "dispatch"]
  <2>1. s \in Step
    BY <1>9, <1>a DEF SupervisorDecides, Located
  <2>2. Sound(Fail(run)) /\ Sound(Close(run, "blocked", "blocked"))
    BY <1>a, FailedSound, ClosedSound DEF Terminal, Phase
  <2>3. /\ m \in RunState /\ m.status = "running" /\ m.phase = "wait"
        /\ m.pend = run.pend /\ Keeps(run, m)
    <3>1. /\ InPhase(run, "wait") \in RunState /\ Keeps(run, InPhase(run, "wait"))
          /\ InPhase(run, "wait").status = "running" /\ InPhase(run, "wait").phase = "wait"
          /\ InPhase(run, "wait").pend = run.pend
      BY <1>a, PhasedRun DEF Phase
    <3> QED
      BY <2>1, <3>1, MarkedRun DEF Keeps
  <2> HIDE DEF m
  <2>4. Sound(r)
    <3>1. /\ r \in RunState /\ r.status = m.status /\ r.phase = m.phase /\ r.pend = m.pend
          /\ r.cur = m.cur /\ r.gen = m.gen /\ r.used = m.used
      BY <2>3 DEF RunState
    <3> QED
      BY <1>a, <2>1, <2>3, <3>1 DEF Sound, Planned, Keeps
  <2>5. ASSUME NEW i \in Interrupts(run, s)
        PROVE  Sound([Asking(run, i) EXCEPT !.decided = "none"])
    <3> DEFINE q == Asking(run, i)
    <3>1. i \in Interrupt
      BY <1>a, <2>1, InterruptTyped
    <3>2. /\ q \in RunState /\ Keeps(run, q) /\ q.status = "interrupted"
          /\ q.phase = "human_gate" /\ q.pend = i
      BY <1>a, <3>1, AskingRun
    <3> HIDE DEF q
    <3>3. /\ [q EXCEPT !.decided = "none"] \in RunState
          /\ [q EXCEPT !.decided = "none"].status = q.status
          /\ [q EXCEPT !.decided = "none"].phase = q.phase
          /\ [q EXCEPT !.decided = "none"].cur = q.cur
          /\ [q EXCEPT !.decided = "none"].gen = q.gen
          /\ [q EXCEPT !.decided = "none"].used = q.used
      BY <3>2 DEF RunState
    <3>4. Sound([q EXCEPT !.decided = "none"])
      BY <1>a, <2>1, <3>2, <3>3 DEF Sound, Planned, Keeps
    <3> QED
      BY <3>4 DEF q
  <2> DEFINE Goes(q, n) == Sound(q) /\ Return(q, n)
  <2>6. \/ \E q, n : Goes(q, n) /\ n \in {"end", "gate"} /\ UNCHANGED plans
        \/ Goes(r, "wait") /\ SavePlan(r)
    BY <1>9, <2>2, <2>4, <2>5 DEF SupervisorDecides, m
  <2> HIDE DEF r
  <2>7. Sound(run') /\ pc' = "save" /\ err' = err /\ next' \in {"end", "gate", "wait"}
    BY <2>6, SettledSound DEF Return
  <2>8. plans' \in [PlanId -> [Step -> StepState]]
    BY <2>6, <1>a, PlanSaved DEF TypeOK
  <2> QED
    BY <1>9, <1>a, <2>7, <2>8 DEF SupervisorDecides, history, TypeInv, TypeOK, Located, PC,
       Sound
<1>10. CASE WaitCall
  <2>1. CASE run.decided = "none" /\ Return(Fail(run), "inspect") /\ UNCHANGED <<ran, everRan>>
    <3>1. Sound(run') /\ pc' = "save" /\ err' = err /\ next' = "inspect"
      BY <1>a, <2>1, FailedSound, SettledSound DEF Return
    <3> QED
      BY <1>10, <1>a, <2>1, <3>1 DEF WaitCall, TypeInv, TypeOK, Located, PC, Sound
  <2>2. CASE /\ run.decided = "dispatch" /\ Await("wait_io") /\ UNCHANGED run
             /\ ran' = ran \cup {Key(run, run.cur)}
             /\ everRan' = everRan \cup {Key(run, run.cur)}
    <3>1. run.cur \in Step /\ Key(run, run.cur) \in KeySet
      BY <1>a, <2>2, KeyTyped DEF Sound
    <3> QED
      BY <1>10, <1>a, <2>2, <3>1 DEF WaitCall, Await, TypeInv, TypeOK, Located, PC
  <2> QED
    BY <1>10, <2>1, <2>2 DEF WaitCall
<1>11. CASE ExecutorReturns
  <2>1. run.cur \in Step
    BY <1>11, <1>a DEF ExecutorReturns, Located
  <2>2. PICK c \in 0..1 :
         IF run.used.toolCalls + c > MaxToolCalls
         THEN Throw("budget") /\ UNCHANGED plans
         ELSE LET r == [run EXCEPT !.used.toolCalls = @ + c]
                  s == run.cur
                  done == [Done(r, s) EXCEPT !.phase = "inspect"]
                  stuck == Close(Mark(r, s, "blocked"), "blocked", "blocked")
                  again == [Retried(r, s) EXCEPT !.phase = "dispatch", !.used.retries = @ + 1]
              IN  \/ Return(Fail(r), "inspect") /\ UNCHANGED plans
                  \/ \E i \in Interrupts(r, s) :
                       /\ i.reason = "final_submit" => Binds(i, r, s)
                       /\ Return(Asking(r, i), "inspect") /\ UNCHANGED plans
                  \/ Return(done, "inspect") /\ SavePlan(done)
                  \/ Return(stuck, "inspect") /\ SavePlan(stuck)
                  \/ /\ MayRetry(r, s) /\ r.used.retries < MaxRetries
                     /\ Return(again, "inspect") /\ SavePlan(again)
                  \/ /\ MayRetry(r, s) /\ r.used.retries = MaxRetries
                     /\ pc' = "throw" /\ err' = "budget" /\ run' = r
                     /\ UNCHANGED <<next, plans>>
    BY <1>11 DEF ExecutorReturns
  <2>3. CASE run.used.toolCalls + c > MaxToolCalls
    BY <1>11, <1>a, <2>2, <2>3 DEF ExecutorReturns, Throw, history, TypeInv, TypeOK, Located, PC
  <2>4. CASE ~(run.used.toolCalls + c > MaxToolCalls)
    <3> DEFINE r == [run EXCEPT !.used.toolCalls = @ + c]
               s == run.cur
               done == [Done(r, s) EXCEPT !.phase = "inspect"]
               stuck == Close(Mark(r, s, "blocked"), "blocked", "blocked")
               again == [Retried(r, s) EXCEPT !.phase = "dispatch", !.used.retries = @ + 1]
    <3>1. Sound(r) /\ r.cur = s
      <4>1. run.used \in Budget /\ run.used.toolCalls + c \in 0..MaxToolCalls
        BY <1>a, <2>4, LimitsAssumption DEF RunState, Budget
      <4>2. /\ [run.used EXCEPT !.toolCalls = @ + c] \in Budget
            /\ [run.used EXCEPT !.toolCalls = @ + c].replans = run.used.replans
        BY <4>1 DEF Budget
      <4>3. /\ r \in RunState /\ r.status = run.status /\ r.phase = run.phase
            /\ r.gen = run.gen /\ r.pend = run.pend /\ r.cur = run.cur
            /\ r.decided = run.decided /\ r.used.replans = run.used.replans
        BY <4>2, <1>a DEF RunState
      <4> QED
        BY <4>3, <1>a DEF Sound, Planned
    <3> HIDE DEF r
    <3>2. Sound(Fail(r))
      BY <3>1, FailedSound
    <3>3. ASSUME NEW i \in Interrupts(r, s)
          PROVE  Sound(Asking(r, i))
      <4>1. i \in Interrupt
        BY <2>1, <3>1, InterruptTyped
      <4>2. /\ Asking(r, i) \in RunState /\ Keeps(r, Asking(r, i))
            /\ Asking(r, i).status = "interrupted" /\ Asking(r, i).phase = "human_gate"
        BY <4>1, <3>1, AskingRun DEF Sound
      <4> QED
        BY <2>1, <3>1, <4>2 DEF Sound, Planned, Keeps
    <3>4. Sound(done)
      <4> DEFINE d == Done(r, s)
      <4>1. d \in RunState /\ Keeps(r, d) /\ d.status = r.status /\ d.pend = r.pend
        BY <2>1, <3>1, DoneRun DEF Sound
      <4> HIDE DEF d
      <4>2. /\ [d EXCEPT !.phase = "inspect"] \in RunState
            /\ Keeps(d, [d EXCEPT !.phase = "inspect"])
            /\ [d EXCEPT !.phase = "inspect"].phase = "inspect"
        BY <4>1 DEF RunState, Phase, Keeps
      <4>3. Sound([d EXCEPT !.phase = "inspect"])
        BY <2>1, <3>1, <4>1, <4>2 DEF Sound, Planned, Keeps
      <4> QED
        BY <4>3 DEF d
    <3>5. Sound(stuck)
      <4>1. /\ Mark(r, s, "blocked") \in RunState /\ Keeps(r, Mark(r, s, "blocked"))
            /\ Mark(r, s, "blocked").status = r.status
            /\ Mark(r, s, "blocked").phase = r.phase
            /\ Mark(r, s, "blocked").pend = r.pend
        BY <2>1, <3>1, MarkedRun DEF Sound
      <4>2. Sound(Mark(r, s, "blocked"))
        BY <3>1, <4>1 DEF Sound, Planned, Keeps
      <4> QED
        BY <4>2, ClosedSound DEF Terminal, Phase
    <3>6. ASSUME r.used.retries < MaxRetries
          PROVE  Sound(again)
      <4> DEFINE d == Retried(r, s)
      <4>1. d \in RunState /\ Keeps(r, d) /\ d.status = r.status /\ d.pend = r.pend
        BY <2>1, <3>1, RetriedRun DEF Sound
      <4> HIDE DEF d
      <4>2. d.used \in Budget /\ d.used.retries < MaxRetries
        BY <4>1, <3>6 DEF RunState, Keeps
      <4>3. /\ [d.used EXCEPT !.retries = @ + 1] \in Budget
            /\ [d.used EXCEPT !.retries = @ + 1].replans = d.used.replans
        BY <4>2, LimitsAssumption DEF Budget
      <4> DEFINE q == [d EXCEPT !.phase = "dispatch", !.used.retries = @ + 1]
      <4>4. /\ q \in RunState /\ q.status = d.status /\ q.phase = "dispatch"
            /\ q.pend = d.pend /\ q.cur = d.cur /\ q.gen = d.gen
            /\ q.used.replans = d.used.replans
        BY <4>1, <4>3 DEF RunState, Phase
      <4>5. Sound(q)
        BY <2>1, <3>1, <4>1, <4>4 DEF Sound, Planned, Keeps
      <4> QED
        BY <4>5 DEF d
    <3>7. \/ Return(Fail(r), "inspect") /\ UNCHANGED plans
          \/ \E i \in Interrupts(r, s) : Return(Asking(r, i), "inspect") /\ UNCHANGED plans
          \/ Return(done, "inspect") /\ SavePlan(done)
          \/ Return(stuck, "inspect") /\ SavePlan(stuck)
          \/ r.used.retries < MaxRetries /\ Return(again, "inspect") /\ SavePlan(again)
          \/ pc' = "throw" /\ err' = "budget" /\ run' = r /\ UNCHANGED <<next, plans>>
      BY <2>2, <2>4 DEF r
    <3> HIDE DEF done, stuck, again
    <3>8. CASE pc' = "throw" /\ err' = "budget" /\ run' = r /\ UNCHANGED <<next, plans>>
      BY <1>11, <1>a, <3>8, <3>1 DEF ExecutorReturns, history, TypeInv, TypeOK, Located, PC,
         Sound
    <3>9. ASSUME NEW q, Sound(q), Return(q, "inspect"), UNCHANGED plans \/ SavePlan(q)
          PROVE  TypeInv'
      <4>1. Sound(run') /\ pc' = "save" /\ err' = err /\ next' = "inspect"
        BY <3>9, SettledSound DEF Return
      <4>2. plans' \in [PlanId -> [Step -> StepState]]
        BY <3>9, <1>a, PlanSaved DEF TypeOK
      <4> QED
        BY <1>11, <1>a, <4>1, <4>2 DEF ExecutorReturns, history, TypeInv, TypeOK, Located, PC,
           Sound
    <3> QED
      BY <3>2, <3>3, <3>4, <3>5, <3>6, <3>7, <3>8, <3>9
  <2> QED
    BY <2>3, <2>4
<1>12. CASE Inspect
  <2>1. \E q, n : Sound(q) /\ Return(q, n) /\ n \in {"gate", "end", "dispatch"}
    <3>1. CASE /\ run.status = "interrupted"
               /\ Return([run EXCEPT !.phase = "human_gate"], "gate")
      BY <1>a, <3>1, GatedSound
    <3>2. CASE run.status \in Terminal /\ Return(run, "end")
      BY <1>a, <3>2
    <3>3. CASE Return([run EXCEPT !.phase = "dispatch"], "dispatch")
      <4>1. /\ [run EXCEPT !.phase = "dispatch"] \in RunState
            /\ [run EXCEPT !.phase = "dispatch"].phase = "dispatch"
            /\ [run EXCEPT !.phase = "dispatch"].status = run.status
            /\ [run EXCEPT !.phase = "dispatch"].pend = run.pend
            /\ Keeps(run, [run EXCEPT !.phase = "dispatch"])
        BY <1>a DEF RunState, Phase, Keeps
      <4>2. Sound([run EXCEPT !.phase = "dispatch"])
        BY <1>a, <4>1 DEF Sound, Planned, Keeps
      <4> QED
        BY <3>3, <4>2
    <3>4. CASE Return(Close(run, "completed", "complete"), "end")
      <4>1. Sound(Close(run, "completed", "complete"))
        BY <1>a, ClosedSound DEF Terminal, Phase
      <4> QED
        BY <3>4, <4>1
    <3> QED
      BY <1>12, <3>1, <3>2, <3>3, <3>4 DEF Inspect
  <2>2. Sound(run') /\ pc' = "save" /\ err' = err /\ next' \in {"gate", "end", "dispatch"}
    BY <2>1, SettledSound DEF Return
  <2> QED
    BY <1>12, <1>a, <2>2 DEF Inspect, history, TypeInv, TypeOK, Located, PC, Sound
<1>13. CASE Park
  <2> DEFINE r == [run EXCEPT !.phase = "human_gate"]
  <2>1. CASE run.status = "interrupted" /\ run' = r /\ Await("end")
    <3>1. Sound(run')
      BY <1>a, <2>1, GatedSound
    <3> QED
      BY <1>13, <1>a, <2>1, <3>1 DEF Park, Await, history, TypeInv, TypeOK, Located, PC, Sound
  <2>2. CASE run.status \in Terminal /\ Return(r, "end")
    <3>1. Sound(r)
      BY <1>a, <2>2, GatedSound DEF Terminal
    <3>2. Sound(run') /\ pc' = "save" /\ err' = err /\ next' = "end"
      BY <2>2, <3>1, SettledSound DEF Return
    <3> QED
      BY <1>13, <1>a, <3>2 DEF Park, history, TypeInv, TypeOK, Located, PC, Sound
  <2> QED
    BY <1>13, <2>1, <2>2 DEF Park
<1>14. CASE GateClosed
  <2>1. /\ Sound(Fail(run)) /\ Sound(Close(run, "cancelled", "cancelled"))
        /\ Sound(Close(run, "blocked", "blocked")) /\ Sound(Close(run, "expired", "fail"))
    BY <1>a, FailedSound, ClosedSound DEF Terminal, Phase
  <2>2. run.status \in Terminal => Sound([run EXCEPT !.phase = "human_gate"])
    BY <1>a, GatedSound DEF Terminal
  <2>3. \E q : Sound(q) /\ Return(q, "end")
    BY <1>14, <2>1, <2>2 DEF GateClosed
  <2>4. Sound(run') /\ pc' = "save" /\ err' = err /\ next' = "end"
    BY <2>3, SettledSound DEF Return
  <2> QED
    BY <1>14, <1>a, <2>4 DEF GateClosed, history, TypeInv, TypeOK, Located, PC, Sound
<1>15. CASE GateOpened
  <2> DEFINE s == run.cur
             n == NextEpoch(run)
             m == Mark(InPhase(n, "wait"), s, "running")
             r == [m EXCEPT !.decided = "dispatch"]
  <2>1. s \in Step /\ Key(run, s) \in KeySet
    BY <1>15, <1>a, KeyTyped DEF GateOpened, Sound, Planned
  <2>2. /\ n \in RunState /\ n.pend = NoInterrupt /\ n.cur = s /\ n.gen = run.gen
        /\ n.used = run.used
    BY <1>a, NextEpochRun
  <2> HIDE DEF n
  <2>3. /\ m \in RunState /\ m.status = "running" /\ m.phase = "wait"
        /\ m.pend = n.pend /\ Keeps(n, m)
    <3>1. /\ InPhase(n, "wait") \in RunState /\ Keeps(n, InPhase(n, "wait"))
          /\ InPhase(n, "wait").status = "running" /\ InPhase(n, "wait").phase = "wait"
          /\ InPhase(n, "wait").pend = n.pend
      BY <2>2, PhasedRun DEF Phase
    <3> QED
      BY <2>1, <3>1, MarkedRun DEF Keeps
  <2> HIDE DEF m
  <2>4. Sound(r)
    <3>1. /\ r \in RunState /\ r.status = m.status /\ r.phase = m.phase /\ r.pend = m.pend
          /\ r.cur = m.cur /\ r.gen = m.gen /\ r.used = m.used
      BY <2>3 DEF RunState
    <3> QED
      BY <1>a, <2>1, <2>2, <2>3, <3>1 DEF Sound, Planned, Keeps
  <2>5. Return(r, "wait") /\ SavePlan(r)
    BY <1>15 DEF GateOpened, m, n
  <2> HIDE DEF r
  <2>6. /\ Sound(run') /\ pc' = "save" /\ err' = err /\ next' = "wait"
        /\ plans' \in [PlanId -> [Step -> StepState]]
    BY <1>a, <2>4, <2>5, SettledSound, PlanSaved DEF Return, TypeOK
  <2>7. /\ ran' \subseteq KeySet /\ consumed' \subseteq Approvals /\ approved' \subseteq KeySet
    BY <1>15, <1>a, <2>1 DEF GateOpened, Approves, Verified, TypeOK
  <2> QED
    BY <1>15, <1>a, <2>6, <2>7 DEF GateOpened, TypeInv, TypeOK, Located, PC, Sound
<1>16. CASE Clarified
  <2> DEFINE r == NextEpoch(run)
             fits == [r EXCEPT !.used.replans = @ + 1]
  <2>1. /\ r \in RunState /\ r.pend = NoInterrupt /\ r.cur = run.cur /\ r.gen = run.gen
        /\ r.decided = run.decided /\ r.status = run.status /\ r.phase = run.phase
        /\ r.used = run.used
    BY <1>a, NextEpochRun
  <2>2. Sound(r)
    BY <1>a, <2>1 DEF Sound, Planned, NoInterrupt
  <2>3. run.used \in Budget /\ run.used.replans \in 0..MaxReplans /\ run.gen \in Nat
    BY <1>a DEF RunState, Budget
  <2> HIDE DEF r
  <2>4. ASSUME r.used.replans < MaxReplans
        PROVE  /\ Sound(fits) /\ fits.gen <= fits.used.replans
    <3>1. /\ [r.used EXCEPT !.replans = @ + 1] \in Budget
          /\ [r.used EXCEPT !.replans = @ + 1].replans = run.used.replans + 1
      BY <2>1, <2>3, <2>4, LimitsAssumption DEF Budget
    <3>2. /\ fits \in RunState /\ fits.pend = NoInterrupt /\ fits.cur = run.cur
          /\ fits.gen = run.gen /\ fits.decided = run.decided /\ fits.status = run.status
          /\ fits.phase = run.phase /\ fits.used.replans = run.used.replans + 1
      BY <2>1, <3>1 DEF RunState
    <3>3. run.gen <= run.used.replans + 1
      BY <1>a DEF Sound, Planned
    <3> QED
      BY <1>a, <2>3, <3>2, <3>3 DEF Sound, Planned, NoInterrupt
  <2> HIDE DEF fits
  <2>5. \/ Return(Fail(r), "end")
        \/ r.used.replans < MaxReplans /\ Return(Fail(fits), "end")
        \/ r.used.replans < MaxReplans /\ Return(InPhase(fits, "plan"), "plan")
        \/ pc' = "throw" /\ err' = "budget" /\ run' = r /\ UNCHANGED next
    BY <1>16 DEF Clarified, r, fits
  <2>6. CASE Return(Fail(r), "end") \/ (r.used.replans < MaxReplans /\ Return(Fail(fits), "end"))
    <3>1. \E q : Sound(q) /\ Return(q, "end")
      BY <2>2, <2>4, <2>6, FailedSound
    <3>2. Sound(run') /\ pc' = "save" /\ err' = err /\ next' = "end"
      BY <3>1, SettledSound DEF Return
    <3> QED
      BY <1>16, <1>a, <3>2 DEF Clarified, history, TypeInv, TypeOK, Located, PC, Sound
  <2>7. CASE r.used.replans < MaxReplans /\ Return(InPhase(fits, "plan"), "plan")
    <3> DEFINE q == InPhase(fits, "plan")
    <3>1. Sound(fits) /\ fits \in RunState /\ fits.gen <= fits.used.replans
      BY <2>4, <2>7 DEF Sound
    <3>2. /\ q \in RunState /\ Keeps(fits, q) /\ q.status = "running" /\ q.phase = "plan"
          /\ q.pend = fits.pend
      BY <3>1, PhasedRun DEF Phase
    <3> HIDE DEF q
    <3>3. fits.gen \in Nat /\ fits.used.replans \in Nat
      BY <3>1, LimitsAssumption DEF RunState, Budget
    <3>4. Sound(q) /\ q.gen <= q.used.replans
      BY <3>1, <3>2, <3>3 DEF Sound, Planned, Keeps
    <3>5. /\ Sound(run') /\ pc' = "save" /\ err' = err /\ next' = "plan"
          /\ run'.gen <= run'.used.replans
      BY <2>7, <3>4, SettledSound DEF Return, Keeps, q
    <3> QED
      BY <1>16, <1>a, <3>5 DEF Clarified, history, TypeInv, TypeOK, Located, PC, Sound
  <2>8. CASE pc' = "throw" /\ err' = "budget" /\ run' = r /\ UNCHANGED next
    BY <1>16, <1>a, <2>1, <2>2, <2>8 DEF Clarified, history, TypeInv, TypeOK, Located, PC, Sound
  <2> QED
    BY <2>5, <2>6, <2>7, <2>8
<1>17. CASE SaveState
  <2>1. ck' \in Checkpoint /\ Planned(ck')
    BY <1>17, <1>a, CheckpointPlanned DEF SaveState
  <2> QED
    BY <1>17, <1>a, <2>1 DEF SaveState, history, TypeInv, TypeOK, Located, PC
<1>18. CASE Catch
  <2>1. Sound(run')
    BY <1>18, <1>a, ClosedSound, FailedSound DEF Catch, Surfaced, Terminal, Phase
  <2>2. ck' \in Checkpoint /\ Planned(ck')
    BY <1>18, <2>1, CheckpointPlanned DEF Catch
  <2> QED
    BY <1>18, <1>a, <2>1, <2>2 DEF Catch, history, TypeInv, TypeOK, Located, PC, Sound
<1>b. Sound(InitialRun) /\ NoEntry \in [live : BOOLEAN, epoch : Nat, cancelled : BOOLEAN]
  BY InitialRunTyped DEF NoEntry
<1>c. NoAnswer \in Answer
  BY DEF NoAnswer, Answer
<1>19. CASE Finish
  <2>1. ck' \in Checkpoint /\ Planned(ck')
    BY <1>19, <1>a, CheckpointPlanned DEF Finish
  <2>2. /\ Sound(run') /\ cm' \in [live : BOOLEAN, epoch : Nat, cancelled : BOOLEAN]
        /\ loaded' \in BOOLEAN /\ answer' \in Answer
    BY <1>19, <1>a, <1>b, <1>c DEF Finish, Unload, TypeOK
  <2> QED
    BY <1>19, <1>a, <2>1, <2>2 DEF Finish, history, TypeInv, TypeOK, Located, PC, Sound
<1>20. CASE Start
  <2>1. run'.gen = 0 /\ Sound(run')
    BY <1>20, <1>b DEF Start, InitialRun
  <2> QED
    BY <1>20, <1>a, <2>1 DEF Start, Await, history, TypeInv, TypeOK, Located, PC, Sound
<1>21. CASE Resume
  <2>1. answer' \in Answer
    BY <1>21 DEF Resume, Answer
  <2>2. cm' \in [live : BOOLEAN, epoch : Nat, cancelled : BOOLEAN]
    BY <1>21, <1>a DEF Resume, RunState
  <2> QED
    BY <1>21, <1>a, <2>1, <2>2 DEF Resume, Await, history, TypeInv, TypeOK, Located, PC
<1>22. CASE Cancel
  <2> DEFINE r == Close(run, "cancelled", "cancelled")
  <2>1. Sound(r) /\ Keeps(run, r)
    BY <1>a, ClosedSound DEF Terminal, Phase
  <2> HIDE DEF r
  <2>2. ck' = CheckpointOf(r)
    BY <1>22 DEF Cancel, r
  <2>3. ck' \in Checkpoint /\ Planned(ck')
    BY <2>1, <2>2, CheckpointPlanned
  <2>4. /\ Sound(run') /\ cm' \in [live : BOOLEAN, epoch : Nat, cancelled : BOOLEAN]
        /\ loaded' \in BOOLEAN /\ (pc = "idle" \/ Keeps(run, run'))
    BY <1>22, <1>a, <1>b, <2>1 DEF Cancel, Unload, TypeOK, r
  <2> QED
    BY <1>22, <1>a, <2>3, <2>4 DEF Cancel, TypeInv, TypeOK, Located, PC, Sound, Keeps
<1>23. CASE Recover
  <2>1. /\ cm' \in [live : BOOLEAN, epoch : Nat, cancelled : BOOLEAN]
    BY <1>23, <1>a DEF Recover, RunState, TypeOK
  <2>2. /\ pc' \in {"intent", "plan", "dispatch", "wait", "inspect"} /\ pc' = run.phase
    BY <1>23, <1>a DEF Recover, Await, Sound, Planned
  <2> QED
    BY <1>23, <1>a, <2>1, <2>2 DEF Recover, Await, history, TypeInv, TypeOK, Located, PC,
       Sound, Planned
<1>24. CASE Crash
  <2>1. crashes' \in 0..MaxCrashes
    BY <1>24, <1>a, LimitsAssumption DEF Crash, TypeOK
  <2>2. issued' \in [Approvals -> Binding]
    BY <1>24 DEF Crash, Unissued, Binding, NoStep
  <2> QED
    BY <1>24, <1>a, <1>b, <1>c, <2>1, <2>2 DEF Crash, Unload, history, TypeInv, TypeOK,
       Located, PC, Sound
<1>25. CASE Restore
  <2>1. /\ ck \in Checkpoint /\ ck.gen \in PlanId
    <3>1. ck \in Checkpoint /\ ck.gen \in Nat /\ ck.used \in Budget
      BY <1>a DEF TypeOK, Checkpoint
    <3>2. ck.used.replans \in 0..MaxReplans
      BY <3>1 DEF Budget
    <3>3. ck.gen <= ck.used.replans + 1
      BY <1>a DEF Planned
    <3> QED
      BY <3>1, <3>2, <3>3, LimitsAssumption DEF PlanId
  <2>2. plans[ck.gen] \in [Step -> StepState]
    BY <1>a, <2>1 DEF TypeOK
  <2> DEFINE invalid == ~ck.hashOk
             blocked == invalid \/ Uncertain
  <2>3. ck.status \in RunStatus
    BY <1>25, <2>1 DEF Restore, Checkpoint
  <2>4. run' = [InitialRun EXCEPT
                  !.status = IF blocked THEN "blocked" ELSE ck.status,
                  !.phase = IF invalid THEN "blocked" ELSE ck.phase,
                  !.epoch = ck.epoch, !.cur = ck.cur, !.pend = ck.pend,
                  !.gen = ck.gen, !.plan = plans[ck.gen], !.used = ck.used]
    BY <1>25 DEF Restore
  <2>5. /\ ck' = [ck EXCEPT !.status = "blocked", !.phase = "blocked", !.pend = NoInterrupt,
                            !.hashOk = invalid \/ ck.phase = "blocked"]
           \/ ck' = ck
    BY <1>25 DEF Restore
  <2> HIDE DEF blocked, invalid
  <2>6. /\ ck.status \in RunStatus /\ ck.phase \in Phase /\ ck.epoch \in Nat
        /\ ck.cur \in Step \cup {NoStep} /\ ck.pend \in Interrupt /\ ck.gen \in Nat
        /\ ck.used \in Budget
    BY <2>1, <2>3 DEF Checkpoint
  <2>7. /\ "blocked" \in RunStatus /\ "blocked" \in Phase /\ InitialRun \in RunState
        /\ InitialRun.decided = "none"
    BY <1>b DEF RunStatus, Terminal, Phase, Sound, InitialRun
  <2>8. /\ run' \in RunState /\ run'.status = (IF blocked THEN "blocked" ELSE ck.status)
        /\ run'.phase = (IF invalid THEN "blocked" ELSE ck.phase)
        /\ run'.cur = ck.cur /\ run'.pend = ck.pend /\ run'.gen = ck.gen
        /\ run'.used = ck.used /\ run'.decided = "none"
    <3> DEFINE st == IF blocked THEN "blocked" ELSE ck.status
               ph == IF invalid THEN "blocked" ELSE ck.phase
    <3>1. st \in RunStatus /\ ph \in Phase
      BY <2>6, <2>7
    <3>2. run' = [InitialRun EXCEPT !.status = st, !.phase = ph,
                    !.epoch = ck.epoch, !.cur = ck.cur, !.pend = ck.pend,
                    !.gen = ck.gen, !.plan = plans[ck.gen], !.used = ck.used]
      BY <2>4
    <3> HIDE DEF st, ph
    <3>3. /\ run' \in RunState /\ run'.status = st /\ run'.phase = ph
          /\ run'.cur = ck.cur /\ run'.pend = ck.pend /\ run'.gen = ck.gen
          /\ run'.used = ck.used /\ run'.decided = "none"
      BY <2>2, <2>6, <2>7, <3>1, <3>2 DEF RunState
    <3> QED
      BY <3>3 DEF st, ph
  <2>9. invalid => blocked
    BY DEF blocked
  <2>10. Sound(run')
    BY <1>a, <2>8, <2>9 DEF Sound, Planned
  <2>11. ck' \in Checkpoint /\ Planned(ck')
    <3>1. CASE ck' = ck
      BY <1>a, <2>1, <3>1
    <3>2. CASE ck' = [ck EXCEPT !.status = "blocked", !.phase = "blocked",
                                !.pend = NoInterrupt,
                                !.hashOk = invalid \/ ck.phase = "blocked"]
      <4>1. /\ NoInterrupt \in Interrupt /\ NoInterrupt.reason = "none"
            /\ (invalid \/ ck.phase = "blocked") \in BOOLEAN
        BY DEF NoInterrupt, Interrupt, NoStep
      <4>2. /\ ck' \in Checkpoint /\ ck'.status = "blocked" /\ ck'.phase = "blocked"
            /\ ck'.pend = NoInterrupt /\ ck'.gen = ck.gen /\ ck'.used = ck.used
        BY <2>1, <2>7, <3>2, <4>1 DEF Checkpoint
      <4> QED
        BY <1>a, <4>1, <4>2 DEF Planned
    <3> QED
      BY <2>5, <3>1, <3>2
  <2> QED
    BY <1>25, <1>a, <2>10, <2>11 DEF Restore, history, TypeInv, TypeOK, Located, PC, Sound
<1>26. CASE IssueApproval
  <2>1. run.pend \in Interrupt
    BY <1>a DEF RunState
  <2>2. issued' \in [Approvals -> Binding]
    BY <1>26, <1>a, <2>1 DEF IssueApproval, TypeOK, Binding, Interrupt
  <2> QED
    BY <1>26, <1>a, <2>2 DEF IssueApproval, history, TypeInv, TypeOK, Located, PC
<1>27. CASE Tick
  BY <1>27, <1>a DEF Tick, memory, history, TypeInv, TypeOK, Located, PC
<1>28. CASE UNCHANGED vars
  BY <1>28, <1>a DEF vars, memory, history, TypeInv, TypeOK, Located, PC
<1> QED
  BY <1>1, <1>2, <1>3, <1>4, <1>5, <1>6, <1>7, <1>8, <1>9, <1>10, <1>11, <1>12,
     <1>13, <1>14, <1>15, <1>16, <1>17, <1>18, <1>19, <1>20, <1>21, <1>22, <1>23,
     <1>24, <1>25, <1>26, <1>27, <1>28 DEF Next, GraphStep

\* Every reachable state is well typed: in particular the budgets stay within
\* their limits, and a restored run finds the plan artifact its checkpoint names.
THEOREM TypeCorrect == Spec => []TypeOK
<1>1. TypeInv => TypeOK
  BY DEF TypeInv
<1> QED
  BY <1>1, TypeInvInit, TypeInvStep, PTL DEF Spec

-----------------------------------------------------------------------------
(* Cancellation                                                            *)

\* After cancel() the state in memory is cancelled too, and an invocation that
\* is still unwinding finds its cancellation entry cancelled; a checkpoint
\* whose hash a restart will refuse is a blocked one.
CancelInv ==
    /\ ~ck.hashOk => ck.status = "blocked"
    /\ stopped => /\ ck.status = "cancelled"
                  /\ loaded => run.status = "cancelled"
                  /\ pc # "idle" => loaded /\ cm.cancelled

\* The initial state satisfies the cancellation invariant.
LEMMA CancelInvInit == Init => CancelInv
BY DEF Init, CancelInv, NoCheckpoint

\* persist() never changes the status a callback returned.
LEMMA SavedStatus ==
    ASSUME NEW r \in RunState
    PROVE  CheckpointOf(r).status = r.status /\ CheckpointOf(r).hashOk
BY CheckpointTyped

\* Every step preserves: once cancel() has returned, the run is cancelled in
\* memory as far as the graph can still write, and in the checkpoint store.
LEMMA CancelInvStep == TypeInv /\ CancelInv /\ [Next]_vars => CancelInv'
<1> SUFFICES ASSUME TypeInv, CancelInv, [Next]_vars PROVE CancelInv'
  OBVIOUS
<1> USE DEF CancelInv
<1>a. run \in RunState /\ cm \in [live : BOOLEAN, epoch : Nat, cancelled : BOOLEAN]
  BY DEF TypeInv, TypeOK
<1>b. /\ Close(run, "cancelled", "cancelled") \in RunState
      /\ Close(run, "cancelled", "cancelled").status = "cancelled"
  BY <1>a, ClosedRun DEF RunStatus, Terminal, Phase
<1>c. /\ Settled(run) \in RunState /\ Settled(run).status = run.status
      /\ LET r == [run EXCEPT !.phase = "human_gate"]
         IN  r.status = run.status /\ Settled(r).status = run.status
  <2>1. /\ [run EXCEPT !.phase = "human_gate"] \in RunState
        /\ [run EXCEPT !.phase = "human_gate"].status = run.status
    BY <1>a DEF RunState, Phase
  <2> QED
    BY <1>a, <2>1, SettledRun
<1>1. CASE TimedOut
  BY <1>1 DEF TimedOut, Throw, Deadlined, Awaiting, Node, history
<1>2. CASE CallFails
  BY <1>2 DEF CallFails, Throw, Awaiting, history
<1>3. CASE Refused
  BY <1>3 DEF Refused, Throw, history
<1>4. CASE IntentCall
  BY <1>4 DEF IntentCall, Await, history
<1>5. CASE IntentResolved
  BY <1>5 DEF IntentResolved, Return, Current, Aborted, history
<1>6. CASE PlanCall
  BY <1>6 DEF PlanCall, Await, history
<1>7. CASE PlanCreated
  BY <1>7 DEF PlanCreated, Return, Current, Aborted, history
<1>8. CASE DispatchCall
  BY <1>8 DEF DispatchCall, Return, Await, Throw, Aborted, history
<1>9. CASE SupervisorDecides
  BY <1>9 DEF SupervisorDecides, Return, Current, Aborted, history
<1>10. CASE WaitCall
  BY <1>10 DEF WaitCall, Return, Await, Aborted
<1>11. CASE ExecutorReturns
  BY <1>11 DEF ExecutorReturns, Current, Aborted, history
<1>12. CASE Inspect
  BY <1>12, <1>c DEF Inspect, Return, Terminal, history
<1>13. CASE Park
  BY <1>13, <1>c DEF Park, Return, Await, Terminal, history
<1>14. CASE GateClosed
  BY <1>14, <1>c DEF GateClosed, StillAsking, Return, history
<1>15. CASE GateOpened
  BY <1>15 DEF GateOpened, Answered, StillAsking, Return
<1>16. CASE Clarified
  BY <1>16 DEF Clarified, Answered, StillAsking, Return, history
<1>17. CASE SaveState
  BY <1>17, <1>a, SavedStatus DEF SaveState, history
<1>18. CASE Catch
  <2>1. run' \in RunState
    BY <1>18, <1>a, <1>b, ClosedRun, FailedRun
       DEF Catch, Surfaced, RunStatus, Terminal, Phase
  <2> QED
    BY <1>18, <2>1, <1>b, SavedStatus DEF Catch, Surfaced, history
<1>19. CASE Finish
  BY <1>19, <1>a, SavedStatus DEF Finish, Unload, history
<1>20. CASE Start
  BY <1>20 DEF Start, Await, NoCheckpoint, history
<1>21. CASE Resume
  BY <1>21 DEF Resume, Await, history
<1>22. CASE Cancel
  BY <1>22, <1>a, <1>b, SavedStatus DEF Cancel, Unload
<1>23. CASE Recover
  BY <1>23 DEF Recover, Await, history
<1>24. CASE Crash
  BY <1>24 DEF Crash, Unload, history
<1>25. CASE Restore
  <2>1. /\ InitialRun \in RunState
        /\ ck \in Checkpoint
    BY InitialRunTyped DEF TypeInv, TypeOK
  <2>2. stopped => ck.hashOk /\ ck.status = "cancelled" /\ ~Uncertain
    BY DEF Uncertain
  <2>3. stopped => ck' = ck /\ run'.status = "cancelled"
    BY <1>25, <2>1, <2>2 DEF Restore, RunState
  <2>4. ~ck'.hashOk => ck'.status = "blocked"
    BY <1>25, <2>1 DEF Restore, Checkpoint
  <2> QED
    BY <1>25, <2>2, <2>3, <2>4 DEF Restore, history
<1>26. CASE IssueApproval
  BY <1>26 DEF IssueApproval, history
<1>27. CASE Tick
  BY <1>27 DEF Tick, memory, history
<1>28. CASE UNCHANGED vars
  BY <1>28 DEF vars, memory, history
<1> QED
  BY <1>1, <1>2, <1>3, <1>4, <1>5, <1>6, <1>7, <1>8, <1>9, <1>10, <1>11, <1>12,
     <1>13, <1>14, <1>15, <1>16, <1>17, <1>18, <1>19, <1>20, <1>21, <1>22, <1>23,
     <1>24, <1>25, <1>26, <1>27, <1>28 DEF Next, GraphStep

\* cancel() is final: no unwinding graph, restart or recovery ever writes
\* another status over the cancelled checkpoint.
THEOREM CancellationFinal == Spec => []CancelIsFinal
<1>1. CancelInv => CancelIsFinal
  BY DEF CancelInv, CancelIsFinal
<1> QED
  BY <1>1, TypeInvInit, TypeInvStep, CancelInvInit, CancelInvStep, PTL DEF Spec

\* A cancelled run never hands another step to the executor.
THEOREM CancellationStopsWork == Spec => NoStartAfterCancel
<1>1. TypeInv /\ CancelInv /\ [Next]_vars
        => [pc = "wait" /\ pc' = "wait_io" => ~stopped]_vars
  <2> SUFFICES ASSUME CancelInv, Next, pc = "wait", pc' = "wait_io", stopped
               PROVE  FALSE
    BY DEF vars, memory
  <2>1. Aborted
    BY DEF CancelInv, Aborted
  <2>2. WaitCall
    BY DEF Next, GraphStep, TimedOut, CallFails, Refused, IntentCall, IntentResolved, PlanCall,
       PlanCreated, DispatchCall, SupervisorDecides, ExecutorReturns, Inspect, Park,
       GateClosed, GateOpened, Clarified, Answered, SaveState, Catch, Finish, Start, Resume,
       Cancel, Recover, Crash, Restore, IssueApproval, Tick, Throw, Return, Await, memory,
       Awaiting
  <2> QED
    BY <2>1, <2>2 DEF WaitCall
<1> QED
  BY <1>1, TypeInvInit, TypeInvStep, CancelInvInit, CancelInvStep, PTL
     DEF Spec, NoStartAfterCancel

\* Cancellation holds: the two together.
THEOREM CancellationHolds == Spec => CancelHolds
<1>1. [pc = "wait" /\ pc' = "wait_io" => ~stopped]_vars /\ CancelIsFinal'
        => [CancelIsFinal' /\ (pc = "wait" /\ pc' = "wait_io" => ~stopped)]_vars
  OBVIOUS
<1> QED
  BY <1>1, CancellationFinal, CancellationStopsWork, PTL DEF CancelHolds, NoStartAfterCancel

-----------------------------------------------------------------------------
(* No attempt of an irreversible step reaches the executor without an      *)
(* approval consumed for it: the inductive invariant                       *)

\* Where the graph works, and where its next checkpoint takes it there.
Working == {"intent", "intent_io", "plan", "plan_io", "dispatch", "dispatch_io",
            "wait", "wait_io"}

Heading(S) == pc \in S \/ (pc = "save" /\ next \in S)

\* The attempt that a run's current step is at has been approved, if it needs to be.
Cleared(r) == r.cur \in Irreversible => Key(r, r.cur) \in approved

\* Only a run that asks has an interrupt.
AsksOnly(r) == r.status # "interrupted" => r.pend.reason = "none"

\* A graph at work neither asks nor has a checkpoint that does; it ends asking
\* or closed.
Placed ==
    /\ Heading(Working) => run.status # "interrupted"
    /\ pc \in Working => ck.status # "interrupted"
    /\ Heading({"end"}) => run.status # "running"

\* A run at rest is what its checkpoint says.
Rested ==
    /\ pc = "idle" /\ loaded =>
         ck.status = run.status /\ (run.status = "running" => run.decided = "none")
    /\ pc = "resuming" \/ (pc = "idle" /\ loaded) =>
         \/ ck.status # "interrupted"
         \/ ck.gen = run.gen /\ ck.cur = run.cur /\ ck.pend = run.pend

\* The plan artifact is the plan in memory.
Synced ==
    \/ Heading({"dispatch", "dispatch_io", "wait", "wait_io", "inspect"})
    \/ pc = "idle" /\ loaded /\ run.status = "running"
    \/ run.pend.reason \in {"other", "final_submit"}
    => run.plan = plans[run.gen]

\* Whatever leads to the executor leads there with an approval: a dispatched
\* step, a step whose executor asked, and the same in the checkpoint.
Guarded ==
    /\ Heading({"wait"}) /\ run.decided = "dispatch" => Cleared(run)
    /\ pc = "wait_io" => Cleared(run)
    /\ run.pend.reason = "other" => Cleared(run)
    /\ ck.pend.reason = "other" /\ ck.cur \in Irreversible =>
         <<ck.gen, ck.cur, plans[ck.gen][ck.cur].attempt>> \in approved

ApprovalInv ==
    /\ AsksOnly(run) /\ AsksOnly(ck) /\ Placed /\ Rested /\ Synced /\ Guarded
    /\ IrreversibleNeedsApproval

-----------------------------------------------------------------------------
(* What the helpers keep of a run state, its plan included                 *)

\* q is r with another status, phase, interrupt, epoch or budget.
Same(r, q) == /\ q.gen = r.gen /\ q.cur = r.cur /\ q.plan = r.plan
              /\ q.decided = r.decided

\* Closing and failing a run leaves its plan alone and drops its interrupt.
LEMMA ClosedSame ==
    ASSUME NEW r \in RunState, NEW s, NEW p
    PROVE  /\ Same(r, Close(r, s, p)) /\ Close(r, s, p).status = s
           /\ Close(r, s, p).pend.reason = "none"
           /\ Same(r, Fail(r)) /\ Fail(r).status = "failed" /\ Fail(r).pend.reason = "none"
BY DEF Close, Fail, Same, RunState, NoInterrupt

\* So does moving to a phase, and the interrupt too.
LEMMA PhasedSame ==
    ASSUME NEW r \in RunState, NEW p
    PROVE  /\ Same(r, InPhase(r, p)) /\ InPhase(r, p).status = "running"
           /\ InPhase(r, p).pend = r.pend
           /\ Same(r, [r EXCEPT !.phase = p]) /\ [r EXCEPT !.phase = p].status = r.status
           /\ [r EXCEPT !.phase = p].pend = r.pend
BY DEF InPhase, Same, RunState

\* persist() keeps the interrupt of a run that asks, and drops any other.
LEMMA SettledSame ==
    ASSUME NEW r \in RunState
    PROVE  /\ Same(r, Settled(r)) /\ Settled(r).status = r.status
           /\ r.status = "interrupted" => Settled(r).pend = r.pend
           /\ r.status # "interrupted" => Settled(r).pend.reason = "none"
BY DEF Settled, Same, RunState, NoInterrupt

\* toCheckpoint writes the interrupt of a run that asks, and no other.
LEMMA CheckpointSame ==
    ASSUME NEW r \in RunState
    PROVE  /\ CheckpointOf(r).gen = r.gen /\ CheckpointOf(r).cur = r.cur
           /\ CheckpointOf(r).status = r.status
           /\ r.status = "interrupted" => CheckpointOf(r).pend = r.pend
           /\ r.status # "interrupted" => CheckpointOf(r).pend.reason = "none"
BY DEF CheckpointOf, RunState, NoInterrupt

\* Marking a step does not count an attempt.
LEMMA MarkedSame ==
    ASSUME NEW r \in RunState, NEW s \in Step,
           NEW st \in {"pending", "running", "completed", "blocked"}
    PROVE  /\ Mark(r, s, st) \in RunState
           /\ Mark(r, s, st).gen = r.gen /\ Mark(r, s, st).cur = r.cur
           /\ Mark(r, s, st).decided = r.decided /\ Mark(r, s, st).status = r.status
           /\ Mark(r, s, st).pend = r.pend
           /\ \A t \in Step : Mark(r, s, st).plan[t].attempt = r.plan[t].attempt
<1>1. Mark(r, s, st) = [r EXCEPT !.plan[s].status = st]
  BY DEF Mark
<1>2. r.plan \in [Step -> StepState] /\ r.plan[s] \in StepState
  BY DEF RunState
<1>3. [r.plan[s] EXCEPT !.status = st] \in StepState
      /\ [r.plan[s] EXCEPT !.status = st].attempt = r.plan[s].attempt
  BY <1>2 DEF StepState
<1>4. /\ [r.plan EXCEPT ![s].status = st] \in [Step -> StepState]
      /\ \A t \in Step : [r.plan EXCEPT ![s].status = st][t].attempt = r.plan[t].attempt
  BY <1>2, <1>3
<1> QED
  BY <1>1, <1>4 DEF RunState

-----------------------------------------------------------------------------
(* Induction                                                               *)

\* The initial state satisfies the approval invariant.
LEMMA ApprovalInvInit == Init => ApprovalInv
BY DEF Init, ApprovalInv, AsksOnly, Placed, Rested, Synced, Guarded, Heading, Working,
   InitialRun, NoCheckpoint, NoInterrupt, IrreversibleNeedsApproval

\* Steps that leave the run, its plan and the checkpoint alone.
LEMMA ApprovalInvQuiet ==
    ASSUME TypeInv, CancelInv, ApprovalInv,
           TimedOut \/ CallFails \/ Refused \/ IntentCall \/ PlanCall \/ Resume \/ Recover
             \/ IssueApproval \/ Tick \/ UNCHANGED vars
    PROVE  ApprovalInv'
<1> USE DEF ApprovalInv, AsksOnly, Placed, Rested, Synced, Guarded, Cleared, Key, Heading,
        Working, IrreversibleNeedsApproval, history, Awaiting, Node
<1>1. CASE TimedOut
  BY <1>1 DEF TimedOut, Deadlined, Throw
<1>2. CASE CallFails
  BY <1>2 DEF CallFails, Throw
<1>3. CASE Refused
  BY <1>3 DEF Refused, Throw
<1>4. CASE IntentCall
  BY <1>4 DEF IntentCall, Await
<1>5. CASE PlanCall
  BY <1>5 DEF PlanCall, Await
<1>6. CASE Resume
  BY <1>6 DEF Resume, Await
<1>7. CASE Recover
  <2>1. run.phase \in {"intent", "plan", "dispatch", "wait", "inspect"}
    BY <1>7 DEF Recover, TypeInv, Sound, Planned
  <2> QED
    BY <1>7, <2>1 DEF Recover, Await
<1>8. CASE IssueApproval
  BY <1>8 DEF IssueApproval
<1>9. CASE Tick
  BY <1>9 DEF Tick, memory
<1>10. CASE UNCHANGED vars
  BY <1>10 DEF vars, memory
<1> QED
  BY <1>1, <1>2, <1>3, <1>4, <1>5, <1>6, <1>7, <1>8, <1>9, <1>10

\* A node that returns q and goes to n: what q must be for the invariant to
\* hold of the run again, and what the step must leave of the checkpoint's plan.
LEMMA ApprovalInvReturn ==
    ASSUME ApprovalInv, NEW q \in RunState, NEW n \in Node \cup {"end"}, Return(q, n),
           UNCHANGED <<ck, everRan>>, approved \subseteq approved',
           n \in Working => q.status # "interrupted",
           n = "end" => q.status # "running",
           \/ n \in {"dispatch", "wait", "inspect"}
           \/ q.status = "interrupted" /\ q.pend.reason \in {"other", "final_submit"}
           => q.plan = plans'[q.gen],
           \/ n = "wait" /\ q.decided = "dispatch"
           \/ q.status = "interrupted" /\ q.pend.reason = "other"
           => (q.cur \in Irreversible => Key(q, q.cur) \in approved'),
           ck.pend.reason = "other" /\ ck.cur \in Irreversible =>
             <<ck.gen, ck.cur, plans'[ck.gen][ck.cur].attempt>> \in approved'
    PROVE  ApprovalInv'
<1>1. /\ Same(q, run') /\ run'.status = q.status
      /\ q.status = "interrupted" => run'.pend = q.pend
      /\ q.status # "interrupted" => run'.pend.reason = "none"
      /\ pc' = "save" /\ next' = n
  BY SettledSame DEF Return
<1>2. ck' = ck /\ everRan' = everRan
  OBVIOUS
<1>3. AsksOnly(run)' /\ AsksOnly(ck)'
  BY <1>1, <1>2 DEF ApprovalInv, AsksOnly
<1>4. Placed'
  BY <1>1, <1>2 DEF Placed, Heading, Working
<1>5. Rested'
  BY <1>1 DEF Rested
<1>6. Synced'
  BY <1>1 DEF Synced, Heading, Same, Node
<1>7. Guarded'
  <2>1. pc' # "wait_io" /\ (Heading({"wait"})' => n = "wait")
    BY <1>1 DEF Heading
  <2>2. Key(run, run.cur)' = Key(q, q.cur) /\ run'.cur = q.cur /\ run'.decided = q.decided
    BY <1>1 DEF Key, Same
  <2>3. run'.pend.reason = "other" => q.status = "interrupted" /\ q.pend.reason = "other"
    BY <1>1
  <2> QED
    BY <1>2, <2>1, <2>2, <2>3 DEF Guarded, Cleared
<1>8. IrreversibleNeedsApproval'
  BY <1>2 DEF ApprovalInv, IrreversibleNeedsApproval
<1> QED
  BY <1>3, <1>4, <1>5, <1>6, <1>7, <1>8 DEF ApprovalInv

\* A run's plan identity is one that artifacts are kept for.
LEMMA RunGen == TypeInv => run.gen \in PlanId
<1> SUFFICES ASSUME TypeInv PROVE run.gen \in PlanId
  OBVIOUS
<1>1. run.gen \in Nat /\ run.used \in Budget /\ run.gen <= run.used.replans + 1
  BY DEF TypeInv, Sound, Planned, RunState
<1> QED
  BY <1>1, LimitsAssumption DEF Budget, PlanId

\* Nodes that change neither a plan artifact nor an approval and do not ask for
\* a step: what they return is the run as it was, closed, asking or gone on.
LEMMA ApprovalInvPlain ==
    ASSUME ApprovalInv, NEW q \in RunState, NEW n \in Node \cup {"end"}, Return(q, n),
           UNCHANGED <<ck, everRan, approved, plans>>, Same(run, q),
           n \in Working => q.status # "interrupted",
           n = "end" => q.status # "running",
           n \in {"dispatch", "wait", "inspect"} => run.plan = plans[run.gen],
           n # "wait",
           q.status = "interrupted" => q.pend = run.pend \/ q.pend.reason = "ambiguous_fact"
    PROVE  ApprovalInv'
<1>1. q.status = "interrupted" /\ q.pend.reason \in {"other", "final_submit"} => q.pend = run.pend
  OBVIOUS
<1>2. Key(q, q.cur) = Key(run, run.cur) /\ q.cur = run.cur /\ q.plan = run.plan /\ q.gen = run.gen
  BY DEF Key, Same
<1>3. run.pend.reason \in {"other", "final_submit"} => run.plan = plans[run.gen]
  BY DEF ApprovalInv, Synced
<1>4. run.pend.reason = "other" => Cleared(run)
  BY DEF ApprovalInv, Guarded
<1>5. ck.pend.reason = "other" /\ ck.cur \in Irreversible =>
             <<ck.gen, ck.cur, plans'[ck.gen][ck.cur].attempt>> \in approved'
  BY DEF ApprovalInv, Guarded
<1>6. \/ n \in {"dispatch", "wait", "inspect"}
      \/ q.status = "interrupted" /\ q.pend.reason \in {"other", "final_submit"}
      => q.plan = plans'[q.gen]
  BY <1>1, <1>2, <1>3
<1>7. \/ n = "wait" /\ q.decided = "dispatch"
      \/ q.status = "interrupted" /\ q.pend.reason = "other"
      => (q.cur \in Irreversible => Key(q, q.cur) \in approved')
  BY <1>1, <1>2, <1>4 DEF Cleared
<1> QED
  BY <1>5, <1>6, <1>7, ApprovalInvReturn

\* The intent node, the first entry of the human gate, and the gate closing.
LEMMA ApprovalInvGate ==
    ASSUME TypeInv, ApprovalInv, IntentResolved \/ Inspect \/ Park \/ GateClosed
    PROVE  ApprovalInv'
<1>a. run \in RunState
  BY DEF TypeInv, TypeOK
<1>b. /\ Fail(run) \in RunState /\ Same(run, Fail(run)) /\ Fail(run).status = "failed"
  BY <1>a, ClosedSame, FailedRun
<1>c. ASSUME NEW s \in Terminal, NEW p \in Phase
      PROVE  /\ Close(run, s, p) \in RunState /\ Close(run, s, p).status = s
             /\ Same(run, Close(run, s, p))
  <2>1. s \in RunStatus
    BY DEF RunStatus
  <2> QED
    BY <1>a, <2>1, ClosedSame, ClosedRun
<1>d. ASSUME NEW p \in Phase
      PROVE  /\ [run EXCEPT !.phase = p] \in RunState /\ Same(run, [run EXCEPT !.phase = p])
             /\ [run EXCEPT !.phase = p].status = run.status
             /\ [run EXCEPT !.phase = p].pend = run.pend
  BY <1>a, PhasedSame DEF RunState
<1>e. ASSUME NEW q \in RunState, Same(run, q), q.status # "running", q.status # "interrupted",
             Return(q, "end"), UNCHANGED <<ck, everRan, approved, plans>>
      PROVE  ApprovalInv'
  BY <1>e, ApprovalInvPlain DEF Working
<1>1. CASE IntentResolved
  <2>u. UNCHANGED <<ck, everRan, approved, plans>>
    BY <1>1 DEF IntentResolved, history
  <2>1. CASE Return(Fail(run), "end")
    BY <2>u, <2>1, <1>b, <1>e
  <2>2. CASE Return(Asking(run, [NoInterrupt EXCEPT !.reason = "ambiguous_fact"]), "gate")
    <3> DEFINE i == [NoInterrupt EXCEPT !.reason = "ambiguous_fact"]
               q == Asking(run, i)
    <3>1. i \in Interrupt /\ i.reason = "ambiguous_fact"
      BY DEF NoInterrupt, Interrupt, Reason, NoStep
    <3> HIDE DEF i
    <3>2. q \in RunState /\ q.pend = i
      BY <1>a, <3>1, AskingRun
    <3>3. Same(run, q)
      BY <1>a DEF Asking, Same, RunState
    <3>4. Return(q, "gate")
      BY <2>2 DEF i
    <3> HIDE DEF q
    <3> QED
      BY <2>u, <3>1, <3>2, <3>3, <3>4, ApprovalInvPlain DEF Working, Node
  <2>3. CASE Return(InPhase(run, "plan"), "plan")
    <3>1. /\ InPhase(run, "plan") \in RunState /\ Same(run, InPhase(run, "plan"))
          /\ InPhase(run, "plan").status = "running"
      BY <1>a, PhasedSame, PhasedRun DEF Phase
    <3> QED
      BY <2>u, <2>3, <3>1, ApprovalInvPlain DEF Node
  <2> QED
    BY <1>1, <2>1, <2>2, <2>3 DEF IntentResolved
<1>2. CASE Inspect
  <2>u. UNCHANGED <<ck, everRan, approved, plans>> /\ run.plan = plans[run.gen]
    BY <1>2 DEF Inspect, history, ApprovalInv, Synced, Heading
  <2>1. CASE run.status = "interrupted" /\ Return([run EXCEPT !.phase = "human_gate"], "gate")
    BY <2>u, <2>1, <1>d, ApprovalInvPlain DEF Phase, Node, Working
  <2>2. CASE run.status \in Terminal /\ Return(run, "end")
    BY <2>u, <2>2, <1>a, <1>e DEF Same, Terminal
  <2>3. CASE run.status = "running" /\ Return([run EXCEPT !.phase = "dispatch"], "dispatch")
    BY <2>u, <2>3, <1>d, ApprovalInvPlain DEF Phase, Node
  <2>4. CASE Return(Close(run, "completed", "complete"), "end")
    BY <2>u, <2>4, <1>c, <1>e DEF Phase, Terminal
  <2> QED
    BY <1>2, <2>1, <2>2, <2>3, <2>4 DEF Inspect
<1>3. CASE Park
  <2> DEFINE r == [run EXCEPT !.phase = "human_gate"]
  <2>u. UNCHANGED <<ck, everRan, approved, plans>>
    BY <1>3 DEF Park, history
  <2>1. r \in RunState /\ Same(run, r) /\ r.status = run.status /\ r.pend = run.pend
    BY <1>d DEF Phase
  <2> HIDE DEF r
  <2>2. CASE run.status = "interrupted" /\ run' = r /\ Await("end")
    BY <2>u, <2>1, <2>2 DEF Await, ApprovalInv, AsksOnly, Placed, Rested, Synced, Guarded,
       Cleared, Key, Heading, Working, IrreversibleNeedsApproval, Same
  <2>3. CASE run.status \in Terminal /\ Return(r, "end")
    BY <2>u, <2>1, <2>3, <1>e DEF Terminal
  <2> QED
    BY <1>3, <2>2, <2>3 DEF Park, r
<1>4. CASE GateClosed
  <2>u. UNCHANGED <<ck, everRan, approved, plans>>
    BY <1>4 DEF GateClosed, history
  <2>1. \/ run.status \in Terminal /\ Return([run EXCEPT !.phase = "human_gate"], "end")
        \/ Return(Close(run, "cancelled", "cancelled"), "end")
        \/ Return(Close(run, "blocked", "blocked"), "end")
        \/ Return(Close(run, "expired", "fail"), "end")
        \/ Return(Fail(run), "end")
    BY <1>4 DEF GateClosed
  <2> QED
    BY <2>u, <2>1, <1>b, <1>c, <1>d, <1>e DEF Phase, Terminal
<1> QED
  BY <1>1, <1>2, <1>3, <1>4

\* Planning, dispatch and the supervisor's decision: an irreversible step is not
\* dispatched.
LEMMA ApprovalInvDispatch ==
    ASSUME TypeInv, ApprovalInv,
           PlanCreated \/ DispatchCall \/ SupervisorDecides \/ WaitCall \/ Clarified
    PROVE  ApprovalInv'
<1>a. run \in RunState /\ run.plan \in [Step -> StepState]
  BY DEF TypeInv, TypeOK, RunState
<1>b. /\ Fail(run) \in RunState /\ Same(run, Fail(run)) /\ Fail(run).status = "failed"
  BY <1>a, ClosedSame, FailedRun
<1>e. ASSUME NEW q \in RunState, Same(run, q), q.status # "running", q.status # "interrupted",
             Return(q, "end"), UNCHANGED <<ck, everRan, approved, plans>>
      PROVE  ApprovalInv'
  BY <1>e, ApprovalInvPlain DEF Working
<1>c. /\ ck.pend.reason = "other" => ck.status = "interrupted"
      /\ pc \in Working => ck.pend.reason # "other"
  BY DEF ApprovalInv, AsksOnly, Placed
<1>1. CASE PlanCreated
  <2>u. UNCHANGED <<ck, everRan, approved>> /\ pc \in Working
    BY <1>1 DEF PlanCreated, history, Working
  <2>1. CASE Return(Fail(run), "end") /\ UNCHANGED plans
    BY <2>u, <2>1, <1>b, <1>e
  <2> DEFINE p == InPhase(run, "dispatch")
             r == [p EXCEPT !.gen = @ + 1, !.plan = FreshPlan]
  <2>2. CASE Return(r, "dispatch") /\ SavePlan(r)
    <3>1. p \in RunState /\ p.status = "running" /\ p.gen = run.gen
      BY <1>a, PhasedRun DEF Phase, Keeps
    <3> HIDE DEF p
    <3>2. /\ FreshPlan \in [Step -> StepState] /\ p.gen + 1 \in Nat
      BY <3>1 DEF FreshPlan, StepState, RunState
    <3>3. r \in RunState /\ r.status = "running" /\ r.gen = run.gen + 1
      BY <3>1, <3>2 DEF RunState
    <3>4. r.gen \in PlanId
      <4>1. run.used \in Budget /\ run.gen <= run.used.replans /\ run.gen \in Nat
        BY <1>1, <1>a DEF PlanCreated, TypeInv, Located, RunState
      <4> QED
        BY <3>3, <4>1, LimitsAssumption DEF Budget, PlanId
    <3> HIDE DEF r
    <3>5. r.plan = plans'[r.gen]
      BY <2>2, <3>4 DEF SavePlan, TypeInv, TypeOK
    <3> QED
      BY <2>u, <2>2, <3>3, <3>5, <1>c, ApprovalInvReturn DEF Node
  <2> QED
    BY <1>1, <2>1, <2>2 DEF PlanCreated
<1>2. CASE DispatchCall
  <2>u. UNCHANGED <<ck, everRan, approved, plans>> /\ run.plan = plans[run.gen]
    BY <1>2 DEF DispatchCall, history, ApprovalInv, Synced, Heading
  <2>1. CASE Return(Close(run, "completed", "complete"), "end")
    BY <2>u, <2>1, <1>a, <1>e, ClosedSame, ClosedRun DEF Phase, RunStatus, Terminal
  <2>2. CASE Throw("budget")
    BY <1>2, <2>u, <2>2 DEF DispatchCall, Throw, ApprovalInv, AsksOnly, Placed, Rested, Synced,
       Guarded, Cleared, Key, Heading, Working, IrreversibleNeedsApproval
  <2>3. ASSUME HasSteps(run), NEW s \in First(Ready(run.plan)),
               run' = [Charged(run) EXCEPT !.cur = s], Await("dispatch_io")
        PROVE  ApprovalInv'
    <3>1. s \in Step
      BY DEF First, Ready
    <3>2. /\ run'.status = run.status /\ run'.pend = run.pend /\ run'.gen = run.gen
      BY <1>a, <2>3, <3>1, ChargedRun
    <3>3. run'.plan = run.plan
      BY <1>a, <2>3 DEF Charged, RunState
    <3>4. run.status # "interrupted" /\ run.pend.reason = "none" /\ ck.status # "interrupted"
      BY <1>2 DEF DispatchCall, ApprovalInv, Placed, Heading, Working, AsksOnly
    <3> QED
      BY <2>u, <2>3, <3>2, <3>3, <3>4 DEF Await, ApprovalInv, AsksOnly, Placed, Rested, Synced,
         Guarded, Cleared, Key, Heading, Working, IrreversibleNeedsApproval
  <2> QED
    BY <1>2, <2>1, <2>2, <2>3 DEF DispatchCall
<1>3. CASE SupervisorDecides
  <2> DEFINE s == run.cur
             p == InPhase(run, "wait")
             m == Mark(p, s, "running")
             r == [m EXCEPT !.decided = "dispatch"]
  <2>u. /\ UNCHANGED <<ck, everRan, approved>> /\ pc \in Working /\ s \in Step
        /\ run.plan = plans[run.gen]
    BY <1>3 DEF SupervisorDecides, history, Working, TypeInv, Located, ApprovalInv, Synced,
       Heading
  <2>1. CASE \/ Return(Fail(run), "end") /\ UNCHANGED plans
             \/ Return(Close(run, "blocked", "blocked"), "end") /\ UNCHANGED plans
    BY <2>u, <2>1, <1>a, <1>b, <1>e, ClosedSame, ClosedRun DEF Phase, RunStatus, Terminal
  <2>2. ASSUME NEW i \in Interrupts(run, s), MayAsk(i, run, s), UNCHANGED plans,
               Return([Asking(run, i) EXCEPT !.decided = "none"], "gate")
        PROVE  ApprovalInv'
    <3> DEFINE a == Asking(run, i)
               q == [a EXCEPT !.decided = "none"]
    <3>1. i \in Interrupt
      BY <2>u, InterruptTyped DEF TypeInv
    <3>2. /\ a \in RunState /\ a.status = "interrupted" /\ a.pend = i
      BY <1>a, <3>1, AskingRun
    <3>3. a.gen = run.gen /\ a.cur = s /\ a.plan = run.plan
      BY <1>a DEF Asking, RunState
    <3> HIDE DEF a
    <3>4. /\ q \in RunState /\ q.status = "interrupted" /\ q.pend = i
          /\ q.gen = run.gen /\ q.cur = s /\ q.plan = run.plan
      BY <3>2, <3>3 DEF RunState
    <3>5. i.reason = "other" => s \notin Irreversible
      BY <2>2 DEF MayAsk, Binds
    <3>6. Return(q, "gate")
      BY <2>2 DEF a
    <3> HIDE DEF q
    <3> QED
      BY <2>u, <2>2, <3>4, <3>5, <3>6, <1>c, ApprovalInvReturn DEF Working, Node
  <2>3. CASE MayDispatch(s) /\ Return(r, "wait") /\ SavePlan(r)
    <3>1. p \in RunState /\ p.status = "running" /\ p.gen = run.gen /\ p.cur = s
      BY <1>a, PhasedRun DEF Phase, Keeps
    <3> HIDE DEF p
    <3>2. m \in RunState /\ m.status = "running" /\ m.gen = run.gen /\ m.cur = s
      BY <2>u, <3>1, MarkedSame
    <3> HIDE DEF m
    <3>3. r \in RunState /\ r.status = "running" /\ r.gen = run.gen /\ r.cur = s
      BY <3>2 DEF RunState
    <3>4. run.gen \in PlanId
      BY RunGen
    <3> HIDE DEF r
    <3>5. r.plan = plans'[r.gen]
      BY <2>3, <3>3, <3>4 DEF SavePlan, TypeInv, TypeOK
    <3> QED
      BY <2>u, <2>3, <3>3, <3>5, <1>c, ApprovalInvReturn DEF Node, MayDispatch
  <2> QED
    BY <1>3, <2>1, <2>2, <2>3 DEF SupervisorDecides
<1>4. CASE WaitCall
  <2>u. UNCHANGED <<ck, approved, plans>> /\ run.plan = plans[run.gen]
    BY <1>4 DEF WaitCall, ApprovalInv, Synced, Heading
  <2>1. CASE Return(Fail(run), "inspect") /\ UNCHANGED <<ran, everRan>>
    BY <2>u, <2>1, <1>b, ApprovalInvPlain DEF Node, Working
  <2>2. CASE /\ run.decided = "dispatch" /\ Await("wait_io") /\ UNCHANGED run
             /\ everRan' = everRan \cup {Key(run, run.cur)}
    <3>1. Cleared(run)
      BY <1>4, <2>2 DEF WaitCall, ApprovalInv, Guarded, Heading
    <3>2. IrreversibleNeedsApproval'
      BY <2>u, <2>2, <3>1 DEF ApprovalInv, IrreversibleNeedsApproval, Cleared, Key
    <3> QED
      BY <1>4, <2>u, <2>2, <3>1, <3>2 DEF WaitCall, Await, ApprovalInv, AsksOnly, Placed, Rested,
         Synced, Guarded, Cleared, Key, Heading, Working
  <2> QED
    BY <1>4, <2>1, <2>2 DEF WaitCall
<1>5. CASE Clarified
  <2> DEFINE r == NextEpoch(run)
             fits == [r EXCEPT !.used.replans = @ + 1]
  <2>u. UNCHANGED <<ck, everRan, approved, plans>> /\ pc = "resuming"
    BY <1>5 DEF Clarified, Answered, history
  <2>1. r \in RunState /\ r.pend.reason = "none"
    BY <1>a, NextEpochRun DEF NoInterrupt
  <2>2. Same(run, r)
    BY <1>a DEF NextEpoch, Same, RunState
  <2> HIDE DEF r
  <2>3. r.used.replans < MaxReplans => fits \in RunState
    <3>1. r.used \in Budget
      BY <2>1 DEF RunState
    <3>2. r.used.replans < MaxReplans => [r.used EXCEPT !.replans = @ + 1] \in Budget
      BY <3>1, LimitsAssumption DEF Budget
    <3> QED
      BY <2>1, <3>2 DEF RunState
  <2>4. Same(run, fits)
    BY <2>1, <2>2 DEF Same, RunState
  <2> HIDE DEF fits
  <2>5. CASE Return(Fail(r), "end")
    BY <2>u, <2>1, <2>2, <2>5, <1>e, ClosedSame, FailedRun DEF Same
  <2>6. CASE r.used.replans < MaxReplans /\ Return(Fail(fits), "end")
    BY <2>u, <2>3, <2>4, <2>6, <1>e, ClosedSame, FailedRun DEF Same
  <2>7. CASE r.used.replans < MaxReplans /\ Return(InPhase(fits, "plan"), "plan")
    <3>1. /\ InPhase(fits, "plan") \in RunState /\ Same(fits, InPhase(fits, "plan"))
          /\ InPhase(fits, "plan").status = "running"
      BY <2>3, <2>7, PhasedSame, PhasedRun DEF Phase
    <3>2. Same(run, InPhase(fits, "plan"))
      BY <3>1, <2>4 DEF Same
    <3> QED
      BY <2>u, <2>7, <3>1, <3>2, ApprovalInvPlain DEF Node
  <2>8. CASE pc' = "throw" /\ run' = r
    <3>1. AsksOnly(run)' /\ run'.pend.reason = "none"
      BY <2>1, <2>8 DEF AsksOnly
    <3> QED
      BY <2>u, <2>8, <3>1 DEF ApprovalInv, AsksOnly, Placed, Rested, Synced, Guarded, Cleared,
         Key, Heading, Working, IrreversibleNeedsApproval
  <2> QED
    BY <1>5, <2>5, <2>6, <2>7, <2>8 DEF Clarified, r, fits
<1> QED
  BY <1>1, <1>2, <1>3, <1>4, <1>5

\* The executor's answer: it may ask about an approved attempt, or retry it as
\* a new one.
LEMMA ApprovalInvExecutor == TypeInv /\ ApprovalInv /\ ExecutorReturns => ApprovalInv'
<1> SUFFICES ASSUME TypeInv, ApprovalInv, ExecutorReturns PROVE ApprovalInv'
  OBVIOUS
<1>1. /\ run \in RunState /\ run.gen \in PlanId /\ run.cur \in Step
      /\ UNCHANGED <<ck, everRan, approved>>
  BY RunGen DEF TypeInv, TypeOK, Located, ExecutorReturns, history
<1>2. /\ run.plan = plans[run.gen] /\ Cleared(run) /\ ck.pend.reason # "other"
  BY DEF ExecutorReturns, ApprovalInv, Synced, Heading, Guarded, Placed, AsksOnly, Working
<1>3. PICK c \in 0..1 :
         IF run.used.toolCalls + c > MaxToolCalls
         THEN Throw("budget") /\ UNCHANGED plans
         ELSE LET r == [run EXCEPT !.used.toolCalls = @ + c]
                  s == run.cur
                  done == [Done(r, s) EXCEPT !.phase = "inspect"]
                  stuck == Close(Mark(r, s, "blocked"), "blocked", "blocked")
                  again == [Retried(r, s) EXCEPT !.phase = "dispatch", !.used.retries = @ + 1]
              IN  \/ Return(Fail(r), "inspect") /\ UNCHANGED plans
                  \/ \E i \in Interrupts(r, s) :
                       /\ i.reason = "final_submit" => Binds(i, r, s)
                       /\ Return(Asking(r, i), "inspect") /\ UNCHANGED plans
                  \/ Return(done, "inspect") /\ SavePlan(done)
                  \/ Return(stuck, "inspect") /\ SavePlan(stuck)
                  \/ /\ MayRetry(r, s) /\ r.used.retries < MaxRetries
                     /\ Return(again, "inspect") /\ SavePlan(again)
                  \/ /\ MayRetry(r, s) /\ r.used.retries = MaxRetries
                     /\ pc' = "throw" /\ err' = "budget" /\ run' = r
                     /\ UNCHANGED <<next, plans>>
  BY DEF ExecutorReturns
<1>4. CASE run.used.toolCalls + c > MaxToolCalls
  BY <1>1, <1>2, <1>3, <1>4 DEF Throw, ApprovalInv, AsksOnly, Placed, Rested, Synced, Guarded,
     Cleared, Key, Heading, Working, IrreversibleNeedsApproval
<1>5. CASE ~(run.used.toolCalls + c > MaxToolCalls)
  <2> DEFINE r == [run EXCEPT !.used.toolCalls = @ + c]
             s == run.cur
             done == [Done(r, s) EXCEPT !.phase = "inspect"]
             stuck == Close(Mark(r, s, "blocked"), "blocked", "blocked")
             again == [Retried(r, s) EXCEPT !.phase = "dispatch", !.used.retries = @ + 1]
  <2>1. r \in RunState /\ Same(run, r) /\ r.status = run.status /\ r.pend = run.pend
    <3>1. run.used \in Budget /\ run.used.toolCalls + c \in 0..MaxToolCalls
      BY <1>1, <1>5, LimitsAssumption DEF RunState, Budget
    <3>2. [run.used EXCEPT !.toolCalls = @ + c] \in Budget
      BY <3>1 DEF Budget
    <3> QED
      BY <1>1, <3>2 DEF RunState, Same
  <2>2. r.cur = s /\ r.gen = run.gen /\ r.plan = run.plan
    BY <2>1 DEF Same
  <2>3. \/ Return(Fail(r), "inspect") /\ UNCHANGED plans
        \/ \E i \in Interrupts(r, s) : Return(Asking(r, i), "inspect") /\ UNCHANGED plans
        \/ Return(done, "inspect") /\ SavePlan(done)
        \/ Return(stuck, "inspect") /\ SavePlan(stuck)
        \/ r.used.retries < MaxRetries /\ Return(again, "inspect") /\ SavePlan(again)
        \/ pc' = "throw" /\ err' = "budget" /\ run' = r /\ UNCHANGED <<next, plans>>
    BY <1>3, <1>5
  <2> HIDE DEF r
  \* A run that neither asks nor loses its plan artifact.
  <2>4. ASSUME NEW q \in RunState, q.gen = run.gen, q.pend.reason = "none",
               Return(q, "inspect"), SavePlan(q) \/ (q.plan = run.plan /\ UNCHANGED plans)
        PROVE  ApprovalInv'
    <3>1. q.plan = plans'[q.gen]
      BY <1>1, <1>2, <2>4 DEF SavePlan, TypeInv, TypeOK
    <3> QED
      BY <1>1, <1>2, <2>4, <3>1, ApprovalInvReturn DEF Node, Working
  <2>5. run.pend.reason = "none"
    BY DEF ExecutorReturns, ApprovalInv, Placed, AsksOnly, Heading, Working
  <2>6. CASE Return(Fail(r), "inspect") /\ UNCHANGED plans
    BY <2>1, <2>2, <2>4, <2>6, ClosedSame, FailedRun DEF Same
  <2>7. ASSUME NEW i \in Interrupts(r, s), Return(Asking(r, i), "inspect"), UNCHANGED plans
        PROVE  ApprovalInv'
    <3> DEFINE a == Asking(r, i)
    <3>1. i \in Interrupt
      BY <1>1, <2>1 DEF Interrupts, Interrupt, Reason, NoStep, RunState
    <3>2. a \in RunState
      BY <2>1, <3>1, AskingRun
    <3>3. a.gen = run.gen /\ a.cur = s /\ a.plan = run.plan
      BY <2>1, <2>2 DEF Asking, RunState
    <3>4. Key(a, a.cur) = Key(run, s) /\ a.plan = plans'[a.gen]
      BY <1>2, <2>7, <3>3 DEF Key
    <3> HIDE DEF a
    <3>5. Return(a, "inspect")
      BY <2>7 DEF a
    <3> QED
      BY <1>1, <1>2, <3>2, <3>3, <3>4, <3>5, ApprovalInvReturn DEF Node, Working, Cleared
  <2>8. CASE Return(done, "inspect") /\ SavePlan(done)
    <3> DEFINE d == Done(r, s)
    <3>1. d \in RunState /\ d.gen = run.gen /\ d.pend.reason = "none"
      BY <1>1, <2>1, <2>2, <2>5, DoneRun DEF Keeps
    <3> HIDE DEF d
    <3>2. done \in RunState /\ done.gen = run.gen /\ done.pend.reason = "none"
      <4>1. LET q == [d EXCEPT !.phase = "inspect"]
            IN  q \in RunState /\ q.gen = run.gen /\ q.pend.reason = "none"
        BY <3>1 DEF RunState, Phase
      <4> QED
        BY <4>1 DEF d
    <3> HIDE DEF done
    <3> QED
      BY <2>4, <2>8, <3>2
  <2>9. CASE Return(stuck, "inspect") /\ SavePlan(stuck)
    <3>1. Mark(r, s, "blocked") \in RunState /\ Mark(r, s, "blocked").gen = run.gen
      BY <1>1, <2>1, <2>2, MarkedSame
    <3>2. stuck \in RunState /\ stuck.gen = run.gen /\ stuck.pend.reason = "none"
      BY <3>1, ClosedSame, ClosedRun DEF Same, RunStatus, Terminal, Phase
    <3> HIDE DEF stuck
    <3> QED
      BY <2>4, <2>9, <3>2
  <2>10. CASE r.used.retries < MaxRetries /\ Return(again, "inspect") /\ SavePlan(again)
    <3> DEFINE d == Retried(r, s)
    <3>1. d \in RunState /\ d.gen = run.gen /\ d.pend.reason = "none" /\ d.used = r.used
      BY <1>1, <2>1, <2>2, <2>5, RetriedRun DEF Keeps
    <3> HIDE DEF d
    <3>2. [d.used EXCEPT !.retries = @ + 1] \in Budget
      BY <2>10, <3>1, LimitsAssumption DEF RunState, Budget
    <3>3. LET q == [d EXCEPT !.phase = "dispatch", !.used.retries = @ + 1]
          IN  q \in RunState /\ q.gen = run.gen /\ q.pend.reason = "none"
      BY <3>1, <3>2 DEF RunState, Phase
    <3>4. again \in RunState /\ again.gen = run.gen /\ again.pend.reason = "none"
      BY <3>3 DEF d
    <3> HIDE DEF again
    <3> QED
      BY <2>4, <2>10, <3>4
  <2>11. CASE pc' = "throw" /\ err' = "budget" /\ run' = r /\ UNCHANGED <<next, plans>>
    BY <1>1, <1>2, <2>1, <2>2, <2>5, <2>11 DEF ApprovalInv, AsksOnly, Placed, Rested, Synced,
       Guarded, Cleared, Key, Heading, Working, IrreversibleNeedsApproval
  <2> HIDE DEF done, stuck, again
  <2> QED
    BY <2>3, <2>6, <2>7, <2>8, <2>9, <2>10, <2>11
<1> QED
  BY <1>4, <1>5

\* An answer opens the gate: to a step that needs it only with an approval.
LEMMA ApprovalInvOpened == TypeInv /\ ApprovalInv /\ GateOpened => ApprovalInv'
<1> SUFFICES ASSUME TypeInv, ApprovalInv, GateOpened PROVE ApprovalInv'
  OBVIOUS
<1> DEFINE s == run.cur
           n == NextEpoch(run)
           p == InPhase(n, "wait")
           m == Mark(p, s, "running")
           r == [m EXCEPT !.decided = "dispatch"]
<1>1. /\ run \in RunState /\ run.gen \in PlanId /\ s \in Step
      /\ UNCHANGED <<ck, everRan>> /\ pc = "resuming"
      /\ run.pend.reason \in {"final_submit", "other"}
      /\ Return(r, "wait") /\ SavePlan(r)
  BY RunGen DEF TypeInv, TypeOK, Sound, Planned, GateOpened, Answered
<1>2. Key(run, s) \in approved' \/ s \notin Irreversible
  BY DEF GateOpened, ApprovalInv, Guarded, Cleared
<1>3. approved \subseteq approved'
  BY DEF GateOpened
<1>4. n \in RunState /\ n.gen = run.gen /\ n.cur = s /\ n.plan = run.plan
  BY <1>1, NextEpochRun DEF NextEpoch, RunState
<1> HIDE DEF n
<1>5. /\ p \in RunState /\ p.gen = run.gen /\ p.cur = s /\ p.plan = run.plan
      /\ p.status = "running"
  BY <1>4, PhasedSame, PhasedRun DEF Same, Phase
<1> HIDE DEF p
<1>6. /\ m \in RunState /\ m.gen = run.gen /\ m.cur = s /\ m.status = "running"
      /\ m.plan[s].attempt = run.plan[s].attempt
  <2>1. \A t \in Step : /\ Mark(p, t, "running") \in RunState
                       /\ Mark(p, t, "running").gen = p.gen
                       /\ Mark(p, t, "running").cur = p.cur
                       /\ Mark(p, t, "running").status = p.status
                       /\ Mark(p, t, "running").plan[t].attempt = p.plan[t].attempt
    BY <1>5, MarkedSame
  <2>2. s \in Step
    BY <1>1
  <2> HIDE DEF s
  <2> QED
    BY <1>5, <2>1, <2>2
<1> HIDE DEF m
<1>7. /\ r \in RunState /\ r.gen = run.gen /\ r.cur = s /\ r.status = "running"
      /\ r.plan[s].attempt = run.plan[s].attempt
  BY <1>6 DEF RunState
<1> HIDE DEF r
<1>8. r.plan = plans'[r.gen] /\ Key(r, r.cur) = Key(run, s)
  BY <1>1, <1>7 DEF SavePlan, TypeInv, TypeOK, Key
<1>9. ASSUME ck.pend.reason = "other", ck.cur \in Irreversible
      PROVE  <<ck.gen, ck.cur, plans'[ck.gen][ck.cur].attempt>> \in approved'
  <2>1. ck.gen = run.gen /\ ck.cur = s
    BY <1>1, <1>9 DEF ApprovalInv, AsksOnly, Rested
  <2> QED
    BY <1>2, <1>7, <1>8, <1>9, <2>1 DEF Key
<1> QED
  BY <1>1, <1>2, <1>3, <1>7, <1>8, <1>9, ApprovalInvReturn DEF Node

\* A checkpoint of the run in memory keeps the invariant of checkpoints.
LEMMA CheckpointGuarded ==
    ASSUME ApprovalInv, NEW r \in RunState, Same(run, r),
           r.status = "interrupted" => r.pend = run.pend
    PROVE  /\ AsksOnly(CheckpointOf(r))
           /\ LET c == CheckpointOf(r)
              IN  c.pend.reason = "other" /\ c.cur \in Irreversible =>
                    <<c.gen, c.cur, plans[c.gen][c.cur].attempt>> \in approved
<1> DEFINE c == CheckpointOf(r)
<1>1. /\ c.gen = run.gen /\ c.cur = run.cur /\ c.status = r.status
      /\ r.status = "interrupted" => c.pend = run.pend
      /\ r.status # "interrupted" => c.pend.reason = "none"
  BY CheckpointSame DEF Same
<1> HIDE DEF c
<1>2. run.pend.reason = "other" => run.plan = plans[run.gen] /\ Cleared(run)
  BY DEF ApprovalInv, Synced, Guarded
<1>3. /\ AsksOnly(c)
      /\ c.pend.reason = "other" /\ c.cur \in Irreversible =>
           <<c.gen, c.cur, plans[c.gen][c.cur].attempt>> \in approved
  BY <1>1, <1>2 DEF AsksOnly, Cleared, Key
<1> QED
  BY <1>3 DEF c

\* Writing checkpoints, closing the run, restarting and restoring it.
LEMMA ApprovalInvDurable ==
    ASSUME TypeInv, CancelInv, ApprovalInv,
           SaveState \/ Catch \/ Finish \/ Start \/ Cancel \/ Crash \/ Restore
    PROVE  ApprovalInv'
<1>a. run \in RunState
  BY DEF TypeInv, TypeOK
<1>b. Same(run, run)
  BY DEF Same
<1>i. /\ InitialRun.status = "running" /\ InitialRun.pend.reason = "none"
      /\ InitialRun.decided = "none"
  BY DEF InitialRun, NoInterrupt
<1>1. CASE SaveState
  <2>1. /\ ck' = CheckpointOf(run) /\ pc = "save" /\ pc' = next
        /\ UNCHANGED <<next, loaded, run, plans, approved, everRan>>
    BY <1>1 DEF SaveState, history
  <2>2. ck'.status = run.status
    BY <1>a, <2>1, CheckpointSame
  <2>3. next \notin {"idle", "save", "resuming", "dispatch_io", "wait_io"}
    BY <1>1 DEF SaveState, TypeInv, TypeOK, Node
  <2> QED
    BY <1>a, <1>b, <2>1, <2>2, <2>3, CheckpointGuarded DEF ApprovalInv, AsksOnly, Placed, Rested,
       Synced, Guarded, Cleared, Key, Heading, Working, IrreversibleNeedsApproval
<1>2. CASE Catch
  <2>1. /\ Same(run, run') /\ run' \in RunState
        /\ run'.status \in {"cancelled", "blocked", "failed"} /\ run'.pend.reason = "none"
    BY <1>2, <1>a, ClosedSame, ClosedRun, FailedRun
       DEF Catch, Surfaced, RunStatus, Terminal, Phase
  <2>2. /\ ck' = CheckpointOf(run') /\ pc = "throw" /\ pc' = "end"
        /\ UNCHANGED <<next, loaded, plans, approved, everRan>>
    BY <1>2 DEF Catch, history
  <2> QED
    BY <2>1, <2>2, CheckpointGuarded DEF ApprovalInv, AsksOnly, Placed, Rested,
       Synced, Guarded, Cleared, Key, Heading, Working, IrreversibleNeedsApproval
<1>3. CASE Finish
  <2>1. /\ ck' = CheckpointOf(run) /\ pc = "end" /\ pc' = "idle" /\ next' = "end"
        /\ UNCHANGED <<plans, approved, everRan>>
        /\ Unload \/ UNCHANGED <<loaded, run>>
    BY <1>3 DEF Finish, history
  <2>2. /\ ck'.status = run.status /\ ck'.gen = run.gen /\ ck'.cur = run.cur
        /\ run.status = "interrupted" => ck'.pend = run.pend
        /\ run.status # "running"
    BY <1>a, <2>1, CheckpointSame DEF ApprovalInv, Placed, Heading
  <2> QED
    BY <1>a, <1>b, <1>i, <2>1, <2>2, CheckpointGuarded DEF Unload, ApprovalInv, AsksOnly,
       Placed, Rested, Synced, Guarded, Cleared, Key, Heading, Working,
       IrreversibleNeedsApproval
<1>4. CASE Start
  <2>1. /\ run' = InitialRun /\ ck.status = "none" /\ pc = "idle" /\ pc' = "intent"
        /\ UNCHANGED <<next, ck, plans, approved, everRan>>
    BY <1>4 DEF Start, Await, history
  <2> QED
    BY <1>i, <2>1 DEF ApprovalInv, AsksOnly, Placed, Rested, Synced, Guarded, Cleared, Key,
       Heading, Working, IrreversibleNeedsApproval
<1>5. CASE Cancel
  <2> DEFINE r == Close(run, "cancelled", "cancelled")
  <2>1. /\ Same(run, r) /\ r \in RunState /\ r.status = "cancelled" /\ r.pend.reason = "none"
    BY <1>a, ClosedSame, ClosedRun DEF RunStatus, Terminal, Phase
  <2>2. /\ ck' = CheckpointOf(r) /\ UNCHANGED <<pc, next, plans, approved, everRan>>
        /\ (pc = "idle" /\ Unload) \/ (pc # "idle" /\ run' = r)
    BY <1>5 DEF Cancel
  <2> HIDE DEF r
  <2>3. ck'.status = "cancelled"
    BY <2>1, <2>2, CheckpointSame
  <2>4. AsksOnly(ck)' /\ (ck'.pend.reason = "other" => FALSE)
    BY <2>1, <2>2, CheckpointSame DEF AsksOnly
  <2>5. CASE pc = "idle" /\ Unload
    BY <1>i, <2>2, <2>3, <2>4, <2>5 DEF Unload, ApprovalInv, AsksOnly, Placed, Rested, Synced,
       Guarded, Cleared, Key, Heading, Working, IrreversibleNeedsApproval
  <2>6. CASE pc # "idle" /\ run' = r
    BY <2>1, <2>2, <2>3, <2>4, <2>6 DEF Same, ApprovalInv, AsksOnly, Placed, Rested, Synced,
       Guarded, Cleared, Key, Heading, Working, IrreversibleNeedsApproval
  <2> QED
    BY <2>2, <2>5, <2>6
<1>6. CASE Crash
  <2>1. /\ pc' = "idle" /\ next' = "end" /\ Unload
        /\ UNCHANGED <<ck, plans, approved, everRan>>
    BY <1>6 DEF Crash, history
  <2> QED
    BY <1>i, <2>1 DEF Unload, ApprovalInv, AsksOnly, Placed, Rested, Synced, Guarded, Cleared,
       Key, Heading, Working, IrreversibleNeedsApproval
<1>7. CASE Restore
  <2> DEFINE blocked == ~ck.hashOk \/ Uncertain
  <2>1. /\ pc = "idle" /\ UNCHANGED <<pc, next, plans, approved, everRan>>
        /\ ck \in Checkpoint
    BY <1>7 DEF Restore, history, TypeInv, TypeOK
  <2>2. blocked => ck.status \in {"running", "blocked"} /\ ck.pend.reason = "none"
    BY DEF CancelInv, Uncertain, ApprovalInv, AsksOnly
  <2>3. /\ run'.status = (IF blocked THEN "blocked" ELSE ck.status)
        /\ run'.pend = ck.pend /\ run'.gen = ck.gen /\ run'.cur = ck.cur
        /\ run'.plan = plans[ck.gen] /\ run'.decided = "none"
    BY <1>7, <1>i DEF Restore, InitialRun
  <2>4. \/ /\ ~blocked /\ ck' = ck
        \/ /\ blocked /\ ck'.status = "blocked" /\ ck'.pend.reason = "none"
    <3>1. CASE blocked
      <4>1. ck' = [ck EXCEPT !.status = "blocked", !.phase = "blocked", !.pend = NoInterrupt,
                             !.hashOk = ~ck.hashOk \/ ck.phase = "blocked"]
        BY <1>7, <3>1 DEF Restore
      <4> QED
        BY <2>1, <3>1, <4>1 DEF Checkpoint, NoInterrupt
    <3>2. CASE ~blocked
      BY <1>7, <3>2 DEF Restore
    <3> QED
      BY <3>1, <3>2
  <2> HIDE DEF blocked
  <2> QED
    BY <2>1, <2>2, <2>3, <2>4 DEF ApprovalInv, AsksOnly, Placed, Rested, Synced, Guarded,
       Cleared, Key, Heading, Working, IrreversibleNeedsApproval
<1> QED
  BY <1>1, <1>2, <1>3, <1>4, <1>5, <1>6, <1>7

\* Every step of the run, the process and its environment preserves the
\* approval invariant.
LEMMA ApprovalInvStep == TypeInv /\ CancelInv /\ ApprovalInv /\ [Next]_vars => ApprovalInv'
<1> SUFFICES ASSUME TypeInv, CancelInv, ApprovalInv, [Next]_vars PROVE ApprovalInv'
  OBVIOUS
<1>1. \/ TimedOut \/ CallFails \/ Refused \/ IntentCall \/ PlanCall \/ Resume \/ Recover
         \/ IssueApproval \/ Tick \/ UNCHANGED vars
      \/ IntentResolved \/ Inspect \/ Park \/ GateClosed
      \/ PlanCreated \/ DispatchCall \/ SupervisorDecides \/ WaitCall \/ Clarified
      \/ ExecutorReturns
      \/ GateOpened
      \/ SaveState \/ Catch \/ Finish \/ Start \/ Cancel \/ Crash \/ Restore
  BY DEF Next, GraphStep
<1> QED
  BY <1>1, ApprovalInvQuiet, ApprovalInvGate, ApprovalInvDispatch, ApprovalInvExecutor,
     ApprovalInvOpened, ApprovalInvDurable

\* No attempt of an irreversible step is ever handed to the executor without an
\* approval consumed for that attempt, whatever plan, retries and restarts.
THEOREM IrreversibleApproved == Spec => []IrreversibleNeedsApproval
<1>1. ApprovalInv => IrreversibleNeedsApproval
  BY DEF ApprovalInv
<1> QED
  BY <1>1, TypeInvInit, TypeInvStep, CancelInvInit, CancelInvStep, ApprovalInvInit,
     ApprovalInvStep, PTL DEF Spec

-----------------------------------------------------------------------------
(* AgentRuntime implements RunLifecycle: whatever the graph, cancel(),     *)
(* resume(), restarts and timers do in whatever order, the checkpoints a   *)
(* reader sees follow the lifecycle of a run.  The inductive invariant     *)
(* says how far the run in memory may be ahead of its checkpoint, and      *)
(* where its graph can be then.                                            *)

\* Nodes at work, which only a running run is at.
Busy == {"intent", "intent_io", "plan", "plan_io", "dispatch", "dispatch_io",
         "wait", "wait_io"}

\* Before the first checkpoint.
Unsaved ==
    /\ pc \in {"intent", "intent_io", "save", "throw"}
    /\ run.epoch = 0
    /\ run.status \in Lifecycle!Open \cup {"blocked", "failed", "cancelled"}

\* A waiting run has been answered, in the next epoch, or closed.
AnsweredOrClosed ==
    \/ run.status = "interrupted" /\ run.epoch = ck.epoch
    \/ /\ run.status = "interrupted" /\ pc = "throw"
       /\ run.epoch \in {ck.epoch, ck.epoch + 1}
    \/ run.status = "running" /\ pc = "save" /\ run.epoch = ck.epoch + 1
    \/ /\ run.status \in Lifecycle!Closed \ {"completed"}
       /\ run.epoch \in {ck.epoch, ck.epoch + 1}

\* What the run in memory may be, given its checkpoint.
Ahead ==
    /\ ck.status = "none" => Unsaved
    /\ ck.status = "running" => run.epoch = ck.epoch /\ run.status # "expired"
    /\ ck.status = "interrupted" => AnsweredOrClosed
    /\ ck.status \in Lifecycle!Closed =>
         run.status = ck.status /\ run.epoch = ck.epoch

\* A run at rest is what its checkpoint says; so is one that is being answered,
\* until a cancel closes it.
AtRest ==
    /\ pc = "idle" => run.status = ck.status /\ run.epoch = ck.epoch
    /\ pc = "resuming" /\ ~cm.cancelled =>
         run.status = "interrupted" /\ ck.status = "interrupted" /\ run.epoch = ck.epoch

\* The graph goes on with a closed run only to inspect a failed or a blocked one,
\* or to meet a cancellation.
GoingOn ==
    /\ pc \in Busy /\ ~cm.cancelled => run.status = "running"
    /\ pc = "save" /\ next \in Busy /\ ~cm.cancelled => run.status = "running"
    /\ pc = "save" /\ run.status \in Lifecycle!Closed /\ ~cm.cancelled =>
         next = "end" \/ (next = "inspect" /\ run.status \in {"failed", "blocked"})
    /\ pc \notin {"idle", "end", "save"} /\ ck.status \in Lifecycle!Closed /\ ~cm.cancelled =>
         /\ pc \in {"inspect", "throw"} /\ ck.status \in {"failed", "blocked"}
         /\ pc = "throw" => err = "budget"

LifeInv ==
    /\ ck.status = "none" => ck.epoch = 0
    /\ pc # "idle" => loaded
    /\ cm.cancelled => ck.status = "cancelled"
    /\ ~ck.hashOk => ck.status = "blocked"
    /\ loaded => Ahead /\ AtRest /\ GoingOn

-----------------------------------------------------------------------------
(* What a node may return.                                                 *)

\* The run q, on its way to node n, respects the checkpoint there is.
Fits(q, n) ==
    /\ ck.status = "none" =>
         q.epoch = 0 /\ q.status \in Lifecycle!Open \cup {"blocked", "failed", "cancelled"}
    /\ ck.status = "running" => q.epoch = ck.epoch /\ q.status # "expired"
    /\ ck.status = "interrupted" =>
         \/ q.status = "interrupted" /\ q.epoch = ck.epoch
         \/ q.status = "running" /\ q.epoch = ck.epoch + 1
         \/ /\ q.status \in Lifecycle!Closed \ {"completed"}
            /\ q.epoch \in {ck.epoch, ck.epoch + 1}
    /\ ck.status \in Lifecycle!Closed => q.status = ck.status /\ q.epoch = ck.epoch
    /\ n \in Busy /\ ~cm.cancelled => q.status = "running"
    /\ q.status \in Lifecycle!Closed /\ ~cm.cancelled =>
         n = "end" \/ (n = "inspect" /\ q.status \in {"failed", "blocked"})

\* A node that returns what fits keeps the invariant.
LEMMA ReturnHolds ==
    ASSUME LifeInv, loaded, NEW q \in RunState, NEW n, Return(q, n), Fits(q, n),
           UNCHANGED <<loaded, cm, ck>>
    PROVE  LifeInv'
<1>1. /\ run'.status = q.status /\ run'.epoch = q.epoch
      /\ pc' = "save" /\ next' = n
  BY SettledRun DEF Return, Keeps
<1>2. Ahead'
  BY <1>1 DEF Ahead, Fits, Unsaved, AnsweredOrClosed, Lifecycle!Open, Lifecycle!Closed
<1>3. AtRest'
  BY <1>1 DEF AtRest
<1>4. GoingOn'
  BY <1>1 DEF GoingOn, Fits, Busy
<1> QED
  BY <1>2, <1>3, <1>4 DEF LifeInv

\* At work and not cancelled, the run is running and so is its checkpoint, once
\* it has one.
LEMMA AtWorkRuns ==
    ASSUME TypeInv, LifeInv, pc \in Busy, ~cm.cancelled
    PROVE  /\ loaded /\ run.status = "running" /\ run.epoch = ck.epoch
           /\ ck.status = "running" \/ (ck.status = "none" /\ pc \in {"intent", "intent_io"})
           /\ ck.status = "none" => run.epoch = 0
<1>1. loaded /\ run.status = "running"
  BY DEF LifeInv, GoingOn, Busy
<1>2. ck.status \in {"none", "running", "interrupted"} \cup Lifecycle!Closed
  BY DEF TypeInv, TypeOK, Checkpoint, RunStatus, Terminal, Lifecycle!Closed
<1>3. ck.status \notin Lifecycle!Closed
  BY <1>1 DEF LifeInv, GoingOn, Busy
<1>4. ck.status # "interrupted"
  BY <1>1 DEF LifeInv, Ahead, AnsweredOrClosed, Busy, Lifecycle!Closed
<1>5. ck.status = "none" =>
        run.epoch = 0 /\ ck.epoch = 0 /\ pc \in {"intent", "intent_io"}
  BY <1>1 DEF LifeInv, Ahead, Unsaved, Busy
<1>6. ck.status = "running" => run.epoch = ck.epoch
  BY <1>1 DEF LifeInv, Ahead
<1> QED
  BY <1>1, <1>2, <1>3, <1>4, <1>5, <1>6

\* What a node at work may return: a run that is still running or asks, or one
\* that is closed, completed only after the first checkpoint.
LEMMA WorkFits ==
    ASSUME TypeInv, LifeInv, pc \in Busy, ~cm.cancelled,
           NEW q, q.epoch = run.epoch, NEW n,
           \/ q.status = "running"
           \/ q.status = "interrupted" /\ n \notin Busy
           \/ q.status \in {"failed", "blocked"} /\ n \in {"end", "inspect"}
           \/ q.status = "completed" /\ n = "end" /\ pc \notin {"intent", "intent_io"}
    PROVE  loaded /\ Fits(q, n)
BY AtWorkRuns DEF Fits, Busy, Lifecycle!Open, Lifecycle!Closed

-----------------------------------------------------------------------------
(* The steps.                                                              *)

\* A new run has no checkpoint.
LEMMA LifeInvInit == Init => LifeInv
BY DEF Init, LifeInv, NoCheckpoint, NoEntry

\* Steps that change neither the run nor its checkpoint: calls, errors and
\* what happens around the run.
LEMMA LifeQuiet ==
    ASSUME TypeInv, LifeInv,
           \/ TimedOut \/ CallFails \/ Refused \/ IntentCall \/ PlanCall
           \/ IssueApproval \/ Tick \/ UNCHANGED vars
    PROVE  LifeInv'
<1> USE DEF LifeInv, Ahead, Unsaved, AnsweredOrClosed, AtRest, GoingOn, Busy, history,
        Lifecycle!Open, Lifecycle!Closed
<1>1. CASE TimedOut
  BY <1>1 DEF TimedOut, Deadlined, Awaiting, Node, Throw
<1>2. CASE CallFails
  BY <1>2, AtWorkRuns DEF CallFails, Throw, Awaiting
<1>3. CASE Refused
  BY <1>3, AtWorkRuns DEF Refused, Throw
<1>4. CASE IntentCall
  BY <1>4 DEF IntentCall, Await
<1>5. CASE PlanCall
  BY <1>5 DEF PlanCall, Await
<1>6. CASE IssueApproval
  BY <1>6 DEF IssueApproval
<1>7. CASE Tick
  BY <1>7 DEF Tick, memory
<1>8. CASE UNCHANGED vars
  BY <1>8 DEF vars, memory
<1> QED
  BY <1>1, <1>2, <1>3, <1>4, <1>5, <1>6, <1>7, <1>8

\* The nodes up to the dispatch of a step.
LEMMA LifePlanning ==
    ASSUME TypeInv, LifeInv,
           IntentResolved \/ PlanCreated \/ DispatchCall \/ SupervisorDecides
    PROVE  LifeInv'
<1>a. run \in RunState /\ Sound(run)
  BY DEF TypeInv, TypeOK
<1>b. Fail(run) \in RunState /\ Fail(run).status = "failed" /\ Fail(run).epoch = run.epoch
  BY <1>a, FailedRun DEF Keeps
<1>c. ASSUME NEW q \in RunState, NEW n, Return(q, n), UNCHANGED <<loaded, cm, ck>>,
             pc \in Busy, ~cm.cancelled, q.epoch = run.epoch,
             \/ q.status = "running"
             \/ q.status = "interrupted" /\ n \notin Busy
             \/ q.status \in {"failed", "blocked"} /\ n \in {"end", "inspect"}
             \/ q.status = "completed" /\ n = "end" /\ pc \notin {"intent", "intent_io"}
      PROVE  LifeInv'
  BY <1>c, WorkFits, ReturnHolds
<1>1. CASE IntentResolved
  <2>u. /\ UNCHANGED <<loaded, cm, ck>> /\ pc \in Busy /\ ~cm.cancelled
    BY <1>1 DEF IntentResolved, Busy, Current, Aborted
  <2>1. CASE Return(Fail(run), "end")
    BY <2>u, <2>1, <1>b, <1>c
  <2>2. CASE Return(Asking(run, [NoInterrupt EXCEPT !.reason = "ambiguous_fact"]), "gate")
    <3>1. [NoInterrupt EXCEPT !.reason = "ambiguous_fact"] \in Interrupt
      BY DEF NoInterrupt, Interrupt, Reason, NoStep
    <3> QED
      BY <2>u, <2>2, <3>1, <1>a, <1>c, AskingRun DEF Keeps, Busy
  <2>3. CASE Return(InPhase(run, "plan"), "plan")
    BY <2>u, <2>3, <1>a, <1>c, PhasedRun DEF Keeps, Phase
  <2> QED
    BY <1>1, <2>1, <2>2, <2>3 DEF IntentResolved
<1>2. CASE PlanCreated
  <2>u. /\ UNCHANGED <<loaded, cm, ck>> /\ pc \in Busy /\ ~cm.cancelled
    BY <1>2 DEF PlanCreated, Busy, Current, Aborted
  <2>1. CASE Return(Fail(run), "end")
    BY <2>u, <2>1, <1>b, <1>c
  <2>2. ASSUME NEW q, q = [InPhase(run, "dispatch") EXCEPT !.gen = @ + 1, !.plan = FreshPlan],
               Return(q, "dispatch")
        PROVE  LifeInv'
    <3>1. q \in RunState /\ q.status = "running" /\ q.epoch = run.epoch
      <4>1. FreshPlan \in [Step -> StepState]
        BY DEF FreshPlan, StepState
      <4>2. /\ InPhase(run, "dispatch") \in RunState
            /\ InPhase(run, "dispatch").status = "running"
            /\ InPhase(run, "dispatch").epoch = run.epoch
        BY <1>a, PhasedRun DEF Keeps, Phase
      <4>3. InPhase(run, "dispatch").gen + 1 \in Nat
        BY <4>2 DEF RunState
      <4> DEFINE p == InPhase(run, "dispatch")
      <4>4. q = [p EXCEPT !.gen = p.gen + 1, !.plan = FreshPlan]
        BY <2>2, <4>2 DEF RunState
      <4> HIDE DEF p
      <4> QED
        BY <4>1, <4>2, <4>3, <4>4 DEF p, RunState
    <3> QED
      BY <2>u, <2>2, <3>1, <1>c
  <2> QED
    BY <1>2, <2>1, <2>2 DEF PlanCreated
<1>3. CASE DispatchCall
  <2>u. /\ UNCHANGED <<loaded, cm, ck>> /\ pc \in Busy /\ ~cm.cancelled /\ pc = "dispatch"
    BY <1>3 DEF DispatchCall, Busy, Aborted
  <2>1. CASE Return(Close(run, "completed", "complete"), "end")
    BY <2>u, <2>1, <1>a, <1>c, ClosedRun DEF Keeps, RunStatus, Terminal, Phase
  <2>2. ASSUME HasSteps(run), NEW s \in First(Ready(run.plan)),
               run' = [Charged(run) EXCEPT !.cur = s], Await("dispatch_io")
        PROVE  LifeInv'
    <3>1. run'.status = run.status /\ run'.epoch = run.epoch
      BY <2>2, <1>a, ChargedRun DEF First, Ready
    <3> QED
      BY <2>u, <2>2, <3>1, AtWorkRuns
         DEF Await, LifeInv, Ahead, Unsaved, AtRest, GoingOn, Busy, Lifecycle!Closed
  <2>3. CASE Throw("budget")
    BY <2>u, <2>3, AtWorkRuns DEF Throw, LifeInv, Ahead, Unsaved, AtRest, GoingOn, Busy,
       Lifecycle!Closed
  <2> QED
    BY <1>3, <2>1, <2>2, <2>3 DEF DispatchCall
<1>4. CASE SupervisorDecides
  <2>u. /\ UNCHANGED <<loaded, cm, ck>> /\ pc \in Busy /\ ~cm.cancelled /\ pc = "dispatch_io"
    BY <1>4 DEF SupervisorDecides, Busy, Current, Aborted
  <2>s. run.cur \in Step
    BY <2>u DEF TypeInv, Located
  <2>1. CASE Return(Fail(run), "end")
    BY <2>u, <2>1, <1>b, <1>c
  <2>2. CASE Return(Close(run, "blocked", "blocked"), "end")
    BY <2>u, <2>2, <1>a, <1>c, ClosedRun DEF Keeps, RunStatus, Terminal, Phase
  <2>3. ASSUME NEW i \in Interrupts(run, run.cur),
               Return([Asking(run, i) EXCEPT !.decided = "none"], "gate")
        PROVE  LifeInv'
    <3>1. i \in Interrupt
      BY <1>a, <2>s, InterruptTyped
    <3>2. Asking(run, i) \in RunState /\ Asking(run, i).status = "interrupted"
          /\ Asking(run, i).epoch = run.epoch
      BY <3>1, <1>a, AskingRun DEF Keeps
    <3> DEFINE q == [Asking(run, i) EXCEPT !.decided = "none"]
    <3>3. q \in RunState /\ q.status = "interrupted" /\ q.epoch = run.epoch
      BY <3>2 DEF RunState
    <3> QED
      BY <2>u, <2>3, <3>3, <1>c DEF Busy
  <2>4. ASSUME NEW q, q = [Mark(InPhase(run, "wait"), run.cur, "running")
                             EXCEPT !.decided = "dispatch"],
               Return(q, "wait")
        PROVE  LifeInv'
    <3>1. InPhase(run, "wait") \in RunState /\ InPhase(run, "wait").status = "running"
          /\ InPhase(run, "wait").epoch = run.epoch
      BY <1>a, PhasedRun DEF Keeps, Phase
    <3> DEFINE m == Mark(InPhase(run, "wait"), run.cur, "running")
    <3>2. m \in RunState /\ m.status = "running" /\ m.epoch = run.epoch
      BY <3>1, <2>s, MarkedRun DEF Keeps
    <3> HIDE DEF m
    <3>3. q \in RunState /\ q.status = "running" /\ q.epoch = run.epoch
      BY <3>2, <2>4 DEF m, RunState
    <3> QED
      BY <2>u, <2>4, <3>3, <1>c
  <2> QED
    BY <1>4, <2>1, <2>2, <2>3, <2>4 DEF SupervisorDecides
<1> QED
  BY <1>1, <1>2, <1>3, <1>4
\* The executor's call and its answer.
LEMMA LifeExecuting ==
    ASSUME TypeInv, LifeInv, WaitCall \/ ExecutorReturns
    PROVE  LifeInv'
<1>a. run \in RunState /\ Sound(run)
  BY DEF TypeInv, TypeOK
<1>u. /\ UNCHANGED <<loaded, cm, ck>> /\ pc \in Busy /\ ~cm.cancelled
      /\ pc \in {"wait", "wait_io"}
  BY DEF WaitCall, ExecutorReturns, Busy, Current, Aborted
<1>c. ASSUME NEW q \in RunState, Return(q, "inspect"), q.epoch = run.epoch,
             q.status \in {"running", "interrupted", "failed", "blocked"}
      PROVE  LifeInv'
  BY <1>u, <1>c, WorkFits, ReturnHolds DEF Busy
<1>t. ASSUME pc' = "throw", run'.status = run.status, run'.epoch = run.epoch
      PROVE  LifeInv'
  BY <1>t, <1>u, AtWorkRuns DEF LifeInv, Ahead, AtRest, GoingOn, Busy, Lifecycle!Closed
<1>1. CASE WaitCall
  <2>1. CASE Return(Fail(run), "inspect")
    BY <2>1, <1>a, <1>c, FailedRun DEF Keeps
  <2>2. CASE Await("wait_io") /\ UNCHANGED run
    BY <2>2, <1>u, AtWorkRuns DEF Await, LifeInv, Ahead, AtRest, GoingOn, Busy,
       Lifecycle!Closed
  <2> QED
    BY <1>1, <2>1, <2>2 DEF WaitCall
<1>2. CASE ExecutorReturns
  <2>s. run.cur \in Step
    BY <1>2 DEF ExecutorReturns, TypeInv, Located
  <2> SUFFICES ASSUME NEW c \in 0..1,
                      IF run.used.toolCalls + c > MaxToolCalls
                      THEN Throw("budget") /\ UNCHANGED plans
                      ELSE LET r == [run EXCEPT !.used.toolCalls = @ + c]
                               s == run.cur
                               done == [Done(r, s) EXCEPT !.phase = "inspect"]
                               stuck == Close(Mark(r, s, "blocked"), "blocked", "blocked")
                               again == [Retried(r, s) EXCEPT !.phase = "dispatch",
                                                              !.used.retries = @ + 1]
                           IN  \/ Return(Fail(r), "inspect") /\ UNCHANGED plans
                               \/ \E i \in Interrupts(r, s) :
                                    /\ i.reason = "final_submit" => Binds(i, r, s)
                                    /\ Return(Asking(r, i), "inspect") /\ UNCHANGED plans
                               \/ Return(done, "inspect") /\ SavePlan(done)
                               \/ Return(stuck, "inspect") /\ SavePlan(stuck)
                               \/ /\ MayRetry(r, s) /\ r.used.retries < MaxRetries
                                  /\ Return(again, "inspect") /\ SavePlan(again)
                               \/ /\ MayRetry(r, s) /\ r.used.retries = MaxRetries
                                  /\ pc' = "throw" /\ err' = "budget" /\ run' = r
                                  /\ UNCHANGED <<next, plans>>
               PROVE  LifeInv'
    BY <1>2 DEF ExecutorReturns
  <2>1. CASE run.used.toolCalls + c > MaxToolCalls
    BY <2>1, <1>t DEF Throw
  <2>2. CASE ~(run.used.toolCalls + c > MaxToolCalls)
    <3> DEFINE r == [run EXCEPT !.used.toolCalls = @ + c]
               s == run.cur
               done == [Done(r, s) EXCEPT !.phase = "inspect"]
               stuck == Close(Mark(r, s, "blocked"), "blocked", "blocked")
               again == [Retried(r, s) EXCEPT !.phase = "dispatch", !.used.retries = @ + 1]
    <3>1. r \in RunState /\ r.status = run.status /\ r.epoch = run.epoch
      <4>1. [run.used EXCEPT !.toolCalls = @ + c] \in Budget
        BY <2>2, <1>a, LimitsAssumption DEF RunState, Budget
      <4> QED
        BY <4>1, <1>a DEF RunState
    <3>2. r.status = "running"
      BY <3>1, <1>u, AtWorkRuns
    <3> HIDE DEF r
    <3>3. CASE Return(Fail(r), "inspect")
      BY <3>1, <3>3, <1>c, FailedRun DEF Keeps
    <3>4. ASSUME NEW i \in Interrupts(r, s), Return(Asking(r, i), "inspect")
          PROVE  LifeInv'
      <4>1. i \in Interrupt
        BY <3>1, <2>s DEF Interrupts, Interrupt, Reason, NoStep, RunState
      <4> QED
        BY <3>1, <3>4, <4>1, <1>c, AskingRun DEF Keeps
    <3>5. CASE Return(done, "inspect")
      <4>1. Done(r, s) \in RunState /\ Done(r, s).status = "running"
            /\ Done(r, s).epoch = run.epoch
        BY <3>1, <3>2, <2>s, DoneRun DEF Keeps
      <4>2. done \in RunState /\ done.status = "running" /\ done.epoch = run.epoch
        BY <4>1 DEF RunState, Phase
      <4> QED
        BY <3>5, <4>2, <1>c
    <3>6. CASE Return(stuck, "inspect")
      <4>1. Mark(r, s, "blocked") \in RunState /\ Mark(r, s, "blocked").epoch = run.epoch
        BY <3>1, <2>s, MarkedRun DEF Keeps
      <4>2. stuck \in RunState /\ stuck.status = "blocked" /\ stuck.epoch = run.epoch
        BY <4>1, ClosedRun DEF Keeps, RunStatus, Terminal, Phase
      <4> QED
        BY <3>6, <4>2, <1>c
    <3>7. CASE r.used.retries < MaxRetries /\ Return(again, "inspect")
      <4>1. /\ Retried(r, s) \in RunState /\ Retried(r, s).status = "running"
            /\ Retried(r, s).epoch = run.epoch /\ Retried(r, s).used = r.used
        BY <3>1, <3>2, <2>s, RetriedRun DEF Keeps
      <4>2. [Retried(r, s).used EXCEPT !.retries = @ + 1] \in Budget
        BY <3>7, <4>1, LimitsAssumption DEF RunState, Budget
      <4>3. again \in RunState /\ again.status = "running" /\ again.epoch = run.epoch
        BY <4>1, <4>2 DEF RunState, Phase
      <4> QED
        BY <3>7, <4>3, <1>c
    <3>8. CASE pc' = "throw" /\ run' = r
      BY <3>1, <3>8, <1>t
    <3> QED
      BY <2>2, <3>3, <3>4, <3>5, <3>6, <3>7, <3>8 DEF r
  <2> QED
    BY <2>1, <2>2
<1> QED
  BY <1>1, <1>2

\* Where a graph that is not at work may close, ask again or go on.
LEMMA LifeInspecting ==
    ASSUME TypeInv, LifeInv, Inspect \/ Park \/ GateClosed
    PROVE  LifeInv'
<1>a. run \in RunState /\ Sound(run)
  BY DEF TypeInv, TypeOK
<1>u. UNCHANGED <<loaded, cm, ck>> /\ loaded /\ Ahead /\ AtRest /\ GoingOn
      /\ pc \in {"inspect", "gate", "resuming"}
  BY DEF Inspect, Park, GateClosed, LifeInv
<1>k. /\ cm.cancelled => ck.status = "cancelled"
      /\ ck.status # "none"
      /\ ck.status \in {"running", "interrupted"} \cup Lifecycle!Closed
  BY <1>u DEF LifeInv, Ahead, Unsaved, TypeInv, TypeOK, Checkpoint, RunStatus, Terminal,
     Lifecycle!Closed
\* A run that keeps its status and epoch fits, wherever it goes but back to work.
<1>s. ASSUME NEW q \in RunState, q.status = run.status, q.epoch = run.epoch,
             NEW n \in {"end", "gate"}, run.status \in Terminal => n = "end",
             Return(q, n)
      PROVE  LifeInv'
  <2>1. run.status \in Lifecycle!Closed <=> run.status \in Terminal
    BY DEF Lifecycle!Closed, Terminal
  <2>2. Fits(q, n)
    BY <1>s, <1>u, <1>k, <2>1 DEF Fits, Ahead, AnsweredOrClosed, Busy
  <2> QED
    BY <1>s, <1>u, <2>2, ReturnHolds
<1>p. LET r == [run EXCEPT !.phase = "human_gate"]
      IN  r \in RunState /\ r.status = run.status /\ r.epoch = run.epoch
  BY <1>a DEF RunState, Phase
<1>1. CASE Inspect
  <2>1. CASE run.status = "interrupted" /\ Return([run EXCEPT !.phase = "human_gate"], "gate")
    BY <2>1, <1>p, <1>s DEF Terminal
  <2>2. CASE run.status \in Terminal /\ Return(run, "end")
    BY <2>2, <1>a, <1>s
  <2>r. run.status = "running" => ck.status = "running" /\ run.epoch = ck.epoch
    BY <1>1, <1>k, <1>u DEF Inspect, Ahead, AnsweredOrClosed, Lifecycle!Closed
  <2>3. CASE run.status = "running" /\ Return([run EXCEPT !.phase = "dispatch"], "dispatch")
    <3>1. LET q == [run EXCEPT !.phase = "dispatch"]
          IN  q \in RunState /\ q.status = "running" /\ q.epoch = run.epoch
      BY <2>3, <1>a DEF RunState, Phase
    <3>2. Fits([run EXCEPT !.phase = "dispatch"], "dispatch")
      BY <3>1, <2>r, <2>3 DEF Fits, Lifecycle!Closed
    <3> QED
      BY <2>3, <3>1, <3>2, <1>u, ReturnHolds
  <2>4. CASE run.status = "running" /\ Return(Close(run, "completed", "complete"), "end")
    <3>1. LET q == Close(run, "completed", "complete")
          IN  q \in RunState /\ q.status = "completed" /\ q.epoch = run.epoch
      BY <1>a, ClosedRun DEF Keeps, RunStatus, Terminal, Phase
    <3>2. Fits(Close(run, "completed", "complete"), "end")
      BY <3>1, <2>r, <2>4 DEF Fits, Busy, Lifecycle!Closed
    <3> QED
      BY <2>4, <3>1, <3>2, <1>u, ReturnHolds
  <2> QED
    BY <1>1, <2>1, <2>2, <2>3, <2>4 DEF Inspect
<1>2. CASE Park
  <2> DEFINE r == [run EXCEPT !.phase = "human_gate"]
  <2>1. CASE run.status = "interrupted" /\ run' = r /\ Await("end")
    <3>1. run'.status = run.status /\ run'.epoch = run.epoch /\ pc' = "end"
      BY <2>1, <1>p DEF Await
    <3>2. pc = "gate"
      BY <1>2 DEF Park
    <3>3. Ahead' /\ AtRest' /\ GoingOn'
      BY <1>k, <1>u, <2>1, <3>1, <3>2
         DEF Ahead, AnsweredOrClosed, AtRest, GoingOn, Busy, Lifecycle!Closed
    <3> QED
      BY <1>u, <3>3 DEF LifeInv
  <2>2. CASE run.status \in Terminal /\ Return(r, "end")
    BY <2>2, <1>p, <1>s
  <2> QED
    BY <1>2, <2>1, <2>2 DEF Park
<1>3. CASE GateClosed
  <2>1. CASE run.status \in Terminal /\ Return([run EXCEPT !.phase = "human_gate"], "end")
    BY <2>1, <1>p, <1>s
  <2>2. ASSUME NEW q \in RunState, q.epoch = run.epoch,
               q.status \in {"cancelled", "blocked", "expired", "failed"},
               StillAsking, Return(q, "end")
        PROVE  LifeInv'
    <3>1. ck.status = "interrupted" /\ run.epoch = ck.epoch
      BY <1>3, <2>2, <1>k, <1>u DEF GateClosed, StillAsking, Ahead, AtRest, Lifecycle!Closed
    <3>2. Fits(q, "end")
      BY <2>2, <3>1 DEF Fits, Busy, Lifecycle!Closed
    <3> QED
      BY <2>2, <3>2, <1>u, ReturnHolds
  <2>3. ASSUME NEW st \in {"cancelled", "blocked", "expired"},
               NEW p \in {"cancelled", "blocked", "fail"}
        PROVE  /\ Close(run, st, p) \in RunState /\ Close(run, st, p).epoch = run.epoch
               /\ Close(run, st, p).status = st
    BY <1>a, ClosedRun DEF Keeps, RunStatus, Terminal, Phase
  <2>4. /\ Fail(run) \in RunState /\ Fail(run).epoch = run.epoch
        /\ Fail(run).status = "failed"
    BY <1>a, FailedRun DEF Keeps
  <2> QED
    BY <1>3, <2>1, <2>2, <2>3, <2>4 DEF GateClosed
<1> QED
  BY <1>1, <1>2, <1>3
\* An answer takes a waiting run on in the next epoch.
LEMMA LifeAnswered ==
    ASSUME TypeInv, LifeInv, GateOpened \/ Clarified
    PROVE  LifeInv'
<1>a. run \in RunState /\ Sound(run)
  BY DEF TypeInv, TypeOK
<1>u. /\ UNCHANGED <<loaded, cm, ck>> /\ loaded /\ pc = "resuming"
      /\ run.status = "interrupted"
  BY DEF GateOpened, Clarified, Answered, StillAsking, LifeInv
<1>k. ck.status = "interrupted" /\ run.epoch = ck.epoch /\ ~cm.cancelled
  BY <1>u DEF LifeInv, Ahead, AtRest, Lifecycle!Closed
<1> DEFINE r == NextEpoch(run)
<1>r. r \in RunState /\ r.epoch = ck.epoch + 1 /\ r.status = "interrupted"
  BY <1>a, <1>u, <1>k, NextEpochRun
<1>1. CASE GateOpened
  <2>s. run.cur \in Step
    BY <1>1, <1>a DEF GateOpened, Sound, Planned
  <2> DEFINE m == Mark(InPhase(r, "wait"), run.cur, "running")
  <2>1. m \in RunState /\ m.status = "running" /\ m.epoch = ck.epoch + 1
    <3>1. /\ InPhase(r, "wait") \in RunState /\ InPhase(r, "wait").status = "running"
          /\ InPhase(r, "wait").epoch = ck.epoch + 1
      BY <1>r, PhasedRun DEF Keeps, Phase
    <3> QED
      BY <3>1, <2>s, MarkedRun DEF Keeps
  <2>2. Return([m EXCEPT !.decided = "dispatch"], "wait")
    BY <1>1 DEF GateOpened
  <2> HIDE DEF m
  <2>3. LET q == [m EXCEPT !.decided = "dispatch"]
        IN  q \in RunState /\ q.status = "running" /\ q.epoch = ck.epoch + 1
    BY <2>1 DEF RunState
  <2>4. Fits([m EXCEPT !.decided = "dispatch"], "wait")
    BY <2>3, <1>k DEF Fits, Lifecycle!Closed
  <2> QED
    BY <2>2, <2>3, <2>4, <1>u, ReturnHolds
<1>2. CASE Clarified
  <2> DEFINE fits == [r EXCEPT !.used.replans = @ + 1]
  <2>c. ASSUME NEW q \in RunState, q.epoch = ck.epoch + 1, NEW n, Return(q, n),
               \/ q.status = "failed" /\ n = "end"
               \/ q.status = "running" /\ n = "plan"
        PROVE  LifeInv'
    <3>1. Fits(q, n)
      BY <2>c, <1>k DEF Fits, Busy, Lifecycle!Closed
    <3> QED
      BY <2>c, <3>1, <1>u, ReturnHolds
  <2>1. CASE Return(Fail(r), "end")
    BY <2>1, <2>c, <1>r, FailedRun DEF Keeps
  <2>f. ASSUME r.used.replans < MaxReplans
        PROVE  fits \in RunState /\ fits.epoch = ck.epoch + 1
    <3>1. [r.used EXCEPT !.replans = @ + 1] \in Budget
      BY <2>f, <1>r, LimitsAssumption DEF RunState, Budget
    <3> QED
      BY <3>1, <1>r DEF RunState
  <2>2. CASE r.used.replans < MaxReplans /\ Return(Fail(fits), "end")
    BY <2>2, <2>f, <2>c, FailedRun DEF Keeps
  <2>3. CASE r.used.replans < MaxReplans /\ Return(InPhase(fits, "plan"), "plan")
    <3>1. fits \in RunState /\ fits.epoch = ck.epoch + 1
      BY <2>3, <2>f
    <3> HIDE DEF fits
    <3>2. /\ InPhase(fits, "plan") \in RunState /\ InPhase(fits, "plan").status = "running"
          /\ InPhase(fits, "plan").epoch = ck.epoch + 1
      BY <3>1, PhasedRun DEF Keeps, Phase
    <3> QED
      BY <2>3, <3>2, <2>c
  <2>4. CASE pc' = "throw" /\ run' = r
    BY <2>4, <1>k, <1>r, <1>u DEF LifeInv, Ahead, AnsweredOrClosed, AtRest, GoingOn, Busy,
       Lifecycle!Closed
  <2> QED
    BY <1>2, <2>1, <2>2, <2>3, <2>4 DEF Clarified
<1> QED
  BY <1>1, <1>2

\* What a checkpoint of a run keeps of it.
LEMMA Saved ==
    ASSUME NEW r \in RunState
    PROVE  /\ CheckpointOf(r).status = r.status /\ CheckpointOf(r).epoch = r.epoch
           /\ CheckpointOf(r).hashOk /\ r.status # "none"
BY CheckpointTyped DEF RunState, RunStatus, Terminal

\* catch leaves a run that closes, as failed or blocked, or as cancelled when
\* its checkpoint says so.
LEMMA Caught ==
    ASSUME TypeInv, LifeInv, pc = "throw"
    PROVE  /\ Surfaced(run) \in RunState /\ Surfaced(run).epoch = run.epoch
           /\ Surfaced(run).status \in {"failed", "blocked", "cancelled"}
           /\ cm.cancelled => Surfaced(run).status = "cancelled" /\ ck.status = "cancelled"
           /\ ~cm.cancelled => Surfaced(run).status \in {"failed", "blocked"}
           /\ ck.status \in Lifecycle!Closed /\ ~cm.cancelled =>
                ck.status \in {"failed", "blocked"} /\ Surfaced(run).status = "blocked"
<1>a. run \in RunState
  BY DEF TypeInv, TypeOK
<1>1. ASSUME NEW s \in {"cancelled", "blocked"}
      PROVE  /\ Close(run, s, s) \in RunState /\ Close(run, s, s).epoch = run.epoch
             /\ Close(run, s, s).status = s
  BY <1>a, ClosedRun DEF Keeps, RunStatus, Terminal, Phase
<1>2. /\ Fail(run) \in RunState /\ Fail(run).epoch = run.epoch
      /\ Fail(run).status = "failed"
  BY <1>a, FailedRun DEF Keeps
<1>3. ck.status \in Lifecycle!Closed /\ ~cm.cancelled =>
        ck.status \in {"failed", "blocked"} /\ err = "budget"
  BY DEF LifeInv, GoingOn
<1>4. CASE cm.cancelled
  BY <1>1, <1>4 DEF Surfaced, LifeInv
<1>5. CASE ~cm.cancelled
  BY <1>1, <1>2, <1>3, <1>5 DEF Surfaced
<1> QED
  BY <1>4, <1>5

\* Checkpoints: of a node, of an error, of the end of the graph.
LEMMA LifeSaving ==
    ASSUME TypeInv, LifeInv, SaveState \/ Catch \/ Finish
    PROVE  LifeInv'
<1>a. run \in RunState /\ next \in Node \cup {"end"}
  BY DEF TypeInv, TypeOK
<1>l. loaded /\ Ahead /\ AtRest /\ GoingOn
  BY DEF SaveState, Catch, Finish, LifeInv
<1>1. CASE SaveState
  <2>1. /\ ck'.status = run.status /\ ck'.epoch = run.epoch /\ ck'.hashOk
        /\ ck'.status # "none"
        /\ UNCHANGED <<run, cm, loaded, err>> /\ pc' = next /\ pc = "save" /\ next # "intent"
    BY <1>1, <1>a, Saved DEF SaveState, TypeInv, Located
  <2>2. cm.cancelled => run.status = "cancelled"
    BY <1>l DEF LifeInv, Ahead, Lifecycle!Closed
  <2>3. Ahead'
    BY <2>1, <1>l DEF Ahead, AnsweredOrClosed
  <2>4. AtRest'
    BY <2>1, <1>a DEF AtRest, Node
  <2>5. GoingOn'
    BY <2>1, <1>l, <1>a DEF GoingOn, Busy, Node, Lifecycle!Closed
  <2> QED
    BY <2>1, <2>2, <2>3, <2>4, <2>5, <1>l DEF LifeInv
<1>2. CASE Catch
  <2>1. /\ run' = Surfaced(run) /\ pc = "throw" /\ pc' = "end"
        /\ UNCHANGED <<cm, loaded>> /\ ck' = CheckpointOf(run')
    BY <1>2 DEF Catch
  <2>2. /\ run' \in RunState
        /\ run'.status \in {"failed", "blocked", "cancelled"}
        /\ cm.cancelled => run'.status = "cancelled"
    BY <2>1, Caught
  <2>3. ck'.status = run'.status /\ ck'.epoch = run'.epoch /\ ck'.hashOk
    BY <2>1, <2>2, Saved
  <2>4. Ahead' /\ AtRest' /\ GoingOn'
    BY <2>1, <2>2, <2>3 DEF Ahead, AtRest, GoingOn, Busy, Lifecycle!Closed
  <2> QED
    BY <2>1, <2>2, <2>3, <2>4, <1>l DEF LifeInv
<1>3. CASE Finish
  <2>1. /\ ck'.status = run.status /\ ck'.epoch = run.epoch /\ ck'.hashOk
        /\ ck'.status # "none" /\ pc' = "idle"
    BY <1>3, <1>a, Saved DEF Finish
  <2>2. CASE run.status \in Terminal
    BY <1>3, <2>1, <2>2 DEF Finish, Unload, NoEntry, LifeInv
  <2>3. CASE run.status \notin Terminal
    <3>1. UNCHANGED <<run, cm, loaded>>
      BY <1>3, <2>3 DEF Finish
    <3>2. ~cm.cancelled
      BY <1>l, <2>3 DEF LifeInv, Ahead, Terminal, Lifecycle!Closed
    <3>3. Ahead' /\ AtRest' /\ GoingOn'
      BY <2>1, <2>3, <3>1 DEF Ahead, AnsweredOrClosed, AtRest, GoingOn, Busy, Terminal,
         Lifecycle!Closed
    <3> QED
      BY <2>1, <3>1, <3>2, <3>3, <1>l DEF LifeInv
  <2> QED
    BY <2>2, <2>3
<1> QED
  BY <1>1, <1>2, <1>3

\* The operations of the Runtime, and what happens to its process.
LEMMA LifeOperations ==
    ASSUME TypeInv, LifeInv, Start \/ Resume \/ Cancel \/ Recover \/ Crash \/ Restore
    PROVE  LifeInv'
<1>a. run \in RunState /\ ck \in Checkpoint /\ InitialRun \in RunState
  BY InitialRunTyped DEF TypeInv, TypeOK
<1>1. CASE Start
  <2>1. /\ UNCHANGED ck /\ ck.status = "none" /\ run' = InitialRun /\ loaded' /\ pc' = "intent"
        /\ ~cm'.cancelled
    BY <1>1 DEF Start, Await
  <2>2. Ahead' /\ AtRest' /\ GoingOn'
    BY <2>1 DEF InitialRun, Ahead, Unsaved, AtRest, GoingOn, Busy, Lifecycle!Open,
       Lifecycle!Closed
  <2> QED
    BY <2>1, <2>2 DEF LifeInv
<1>2. CASE Resume
  <2>1. /\ UNCHANGED <<ck, run, loaded>> /\ loaded /\ pc = "idle" /\ pc' = "resuming"
        /\ ~cm'.cancelled /\ run.status = "interrupted"
    BY <1>2 DEF Resume, Await
  <2>2. Ahead /\ AtRest
    BY <2>1 DEF LifeInv
  <2>3. Ahead' /\ AtRest' /\ GoingOn'
    BY <2>1, <2>2 DEF Ahead, Unsaved, AnsweredOrClosed, AtRest, GoingOn, Busy,
       Lifecycle!Closed
  <2> QED
    BY <2>1, <2>3 DEF LifeInv
<1>3. CASE Cancel
  <2> DEFINE r == Close(run, "cancelled", "cancelled")
  <2>1. r \in RunState /\ r.status = "cancelled" /\ r.epoch = run.epoch
    BY <1>a, ClosedRun DEF Keeps, RunStatus, Terminal, Phase
  <2>2. ck' = CheckpointOf(r) /\ pc' = pc /\ loaded /\ UNCHANGED <<next, err>>
    BY <1>3 DEF Cancel
  <2> HIDE DEF r
  <2>3. ck'.status = "cancelled" /\ ck'.epoch = run.epoch /\ ck'.hashOk
    BY <2>1, <2>2, Saved
  <2>4. CASE pc = "idle"
    BY <1>3, <2>2, <2>3, <2>4 DEF Cancel, Unload, LifeInv
  <2>5. CASE pc # "idle"
    <3>1. run' = r /\ cm' = [cm EXCEPT !.cancelled = TRUE] /\ loaded' = loaded
      BY <1>3, <2>5 DEF Cancel, r
    <3>2. cm'.cancelled
      BY <3>1 DEF TypeInv, TypeOK
    <3>3. Ahead' /\ AtRest' /\ GoingOn'
      BY <2>1, <2>2, <2>3, <2>5, <3>1, <3>2 DEF Ahead, AtRest, GoingOn, Lifecycle!Closed
    <3> QED
      BY <2>2, <2>3, <3>1, <3>3 DEF LifeInv
  <2> QED
    BY <2>4, <2>5
<1>4. CASE Recover
  <2>1. /\ UNCHANGED <<ck, run, loaded>> /\ loaded /\ pc = "idle" /\ pc' = run.phase
        /\ run.status = "running"
    BY <1>4 DEF Recover, Await
  <2>2. run.phase \in {"intent", "plan", "dispatch", "wait", "inspect"}
    BY <2>1 DEF TypeInv, Sound, Planned
  <2>3. ck.status = "running" /\ run.epoch = ck.epoch /\ ~cm.cancelled
    BY <2>1 DEF LifeInv, AtRest, Ahead
  <2>4. ~cm'.cancelled
    BY <1>4, <2>3 DEF Recover
  <2>5. Ahead' /\ AtRest' /\ GoingOn'
    BY <2>1, <2>2, <2>3, <2>4 DEF Ahead, AtRest, GoingOn, Busy, Lifecycle!Closed
  <2> QED
    BY <2>1, <2>3, <2>4, <2>5 DEF LifeInv
<1>5. CASE Crash
  BY <1>5 DEF Crash, Unload, NoEntry, LifeInv
<1>6. CASE Restore
  <2> DEFINE broken == ~ck.hashOk \/ Uncertain
  <2>1. /\ pc = "idle" /\ ~loaded /\ ck.status # "none" /\ loaded'
        /\ UNCHANGED <<pc, cm, next, err>>
        /\ run'.status = (IF broken THEN "blocked" ELSE ck.status)
        /\ run'.epoch = ck.epoch
    BY <1>6, <1>a DEF Restore, RunState
  <2>2. /\ ck'.status = (IF broken THEN "blocked" ELSE ck.status)
        /\ ck'.epoch = ck.epoch
        /\ ~ck'.hashOk => ck'.status = "blocked"
    BY <1>6, <1>a DEF Restore, Checkpoint
  <2>3. ck.status = "cancelled" => ~broken
    BY DEF LifeInv, Uncertain
  <2>4. ck.status # "none" => ck'.status # "none"
    BY <2>2
  <2>5. run'.status # "expired" \/ ck'.status = "expired"
    BY <2>1, <2>2
  <2> HIDE DEF broken
  <2>6. Ahead' /\ AtRest' /\ GoingOn'
    BY <2>1, <2>2, <2>4 DEF Ahead, AnsweredOrClosed, AtRest, GoingOn, Busy,
       Lifecycle!Closed
  <2> QED
    BY <2>1, <2>2, <2>3, <2>4, <2>6 DEF LifeInv
<1> QED
  BY <1>1, <1>2, <1>3, <1>4, <1>5, <1>6

\* Every step keeps the invariant.
LEMMA LifeInvStep == TypeInv /\ LifeInv /\ [Next]_vars => LifeInv'
BY LifeQuiet, LifePlanning, LifeExecuting, LifeInspecting, LifeAnswered, LifeSaving,
   LifeOperations DEF Next, GraphStep

-----------------------------------------------------------------------------
(* The refinement.                                                         *)

Moves == [Lifecycle!Next]_(Lifecycle!lifecycle)

\* The checkpoint that a step of the lifecycle may write.
LEMMA LifecycleMoves ==
    ASSUME LifeInv, ck \in Checkpoint,
           \/ ck.status = "none" /\ ck'.epoch = 0 /\
                ck'.status \in Lifecycle!Open \cup {"blocked", "failed", "cancelled"}
           \/ /\ ck.status = "running" /\ ck'.epoch = ck.epoch
              /\ ck'.status \in Lifecycle!Open \cup (Lifecycle!Closed \ {"expired"})
           \/ /\ ck.status = "interrupted" /\ ck'.status = "running"
              /\ ck'.epoch = ck.epoch + 1
           \/ /\ ck.status = "interrupted" /\ ck'.epoch \in {ck.epoch, ck.epoch + 1}
              /\ ck'.status \in Lifecycle!Closed \ {"completed"}
           \/ ck.status = "failed" /\ ck'.status = "blocked" /\ ck'.epoch = ck.epoch
           \/ ck'.status = ck.status /\ ck'.epoch = ck.epoch
    PROVE  Moves
BY DEF LifeInv, Moves, Lifecycle!Next, Lifecycle!Begin, Lifecycle!Work, Lifecycle!Proceed,
   Lifecycle!Stop, Lifecycle!Dismiss, Lifecycle!Reclassify, Lifecycle!lifecycle,
   Lifecycle!Open, Lifecycle!Closed

\* Every checkpoint that a step writes is one the lifecycle allows.
LEMMA LifecycleStep == TypeInv /\ LifeInv /\ [Next]_vars => Moves
<1> SUFFICES ASSUME TypeInv, LifeInv, [Next]_vars PROVE Moves
  OBVIOUS
<1>a. run \in RunState /\ ck \in Checkpoint
  BY DEF TypeInv, TypeOK
<1>k. ck.status \in {"none", "running", "interrupted"} \cup Lifecycle!Closed
  BY <1>a DEF Checkpoint, RunStatus, Terminal, Lifecycle!Closed
<1>r. run.status \in {"running", "interrupted"} \cup Lifecycle!Closed
  BY <1>a DEF RunState, RunStatus, Terminal, Lifecycle!Closed
<1>1. CASE UNCHANGED ck
  BY <1>1, <1>a, LifecycleMoves
<1>2. CASE SaveState \/ Finish
  <2>1. ck'.status = run.status /\ ck'.epoch = run.epoch /\ pc \in {"save", "end"}
    BY <1>2, <1>a, Saved DEF SaveState, Finish
  <2>2. Ahead
    BY <2>1 DEF LifeInv
  <2> QED
    BY <1>a, <1>k, <1>r, <2>1, <2>2, LifecycleMoves
       DEF Ahead, Unsaved, AnsweredOrClosed, Lifecycle!Open, Lifecycle!Closed
<1>3. CASE Catch
  <2>1. /\ run' = Surfaced(run) /\ ck' = CheckpointOf(run') /\ pc = "throw"
    BY <1>3 DEF Catch
  <2>2. /\ run'.epoch = run.epoch
        /\ run'.status \in {"failed", "blocked", "cancelled"}
        /\ cm.cancelled => run'.status = "cancelled" /\ ck.status = "cancelled"
        /\ ck.status \in Lifecycle!Closed /\ ~cm.cancelled =>
             ck.status \in {"failed", "blocked"} /\ run'.status = "blocked"
    BY <2>1, Caught
  <2>3. ck'.status = run'.status /\ ck'.epoch = run.epoch
    BY <2>1, <2>2, Caught, Saved
  <2>4. Ahead
    BY <2>1 DEF LifeInv
  <2> QED
    BY <1>a, <1>k, <2>1, <2>2, <2>3, <2>4, LifecycleMoves
       DEF Ahead, Unsaved, AnsweredOrClosed, Lifecycle!Open, Lifecycle!Closed
<1>4. CASE Cancel
  <2> DEFINE r == Close(run, "cancelled", "cancelled")
  <2>1. r \in RunState /\ r.status = "cancelled" /\ r.epoch = run.epoch
    BY <1>a, ClosedRun DEF Keeps, RunStatus, Terminal, Phase
  <2>2. ck' = CheckpointOf(r) /\ loaded /\ run.status \notin Terminal
    BY <1>4 DEF Cancel
  <2> HIDE DEF r
  <2>3. ck'.status = "cancelled" /\ ck'.epoch = run.epoch
    BY <2>1, <2>2, Saved
  <2>4. Ahead
    BY <2>2 DEF LifeInv
  <2> QED
    BY <1>a, <1>k, <2>2, <2>3, <2>4, LifecycleMoves
       DEF Ahead, Unsaved, AnsweredOrClosed, Terminal, Lifecycle!Open, Lifecycle!Closed
<1>5. CASE Restore
  <2>1. /\ ck'.epoch = ck.epoch
        /\ ck'.status = (IF ~ck.hashOk \/ Uncertain THEN "blocked" ELSE ck.status)
    BY <1>5, <1>a DEF Restore, Checkpoint
  <2>2. ~ck.hashOk => ck.status = "blocked"
    BY DEF LifeInv
  <2>3. Uncertain => ck.status = "running"
    BY DEF Uncertain
  <2> QED
    BY <1>a, <2>1, <2>2, <2>3, LifecycleMoves DEF Lifecycle!Open, Lifecycle!Closed
<1>6. CASE \/ TimedOut \/ CallFails \/ Refused \/ IntentCall \/ IntentResolved \/ PlanCall
           \/ PlanCreated \/ DispatchCall \/ SupervisorDecides \/ WaitCall
           \/ ExecutorReturns \/ Inspect \/ Park \/ GateClosed \/ GateOpened \/ Clarified
           \/ Start \/ Resume \/ Recover \/ Crash \/ IssueApproval \/ Tick
           \/ UNCHANGED vars
  <2>1. UNCHANGED ck
    BY <1>6 DEF TimedOut, CallFails, Refused, IntentCall, IntentResolved, PlanCall,
       PlanCreated, DispatchCall, SupervisorDecides, WaitCall, ExecutorReturns, Inspect,
       Park, GateClosed, GateOpened, Clarified, Start, Resume, Recover, Crash,
       IssueApproval, Tick, vars
  <2> QED
    BY <2>1, <1>1
<1> QED
  BY <1>2, <1>3, <1>4, <1>5, <1>6 DEF Next, GraphStep

\* The checkpoints of every run, under every interleaving of its graph with
\* cancel(), resume(), recover(), crashes and restores, follow the lifecycle: a
\* closed run is never reopened, and a waiting run goes on only in a new epoch.
THEOREM ImplementsLifecycleHolds == Spec => ImplementsLifecycle
<1>1. Init => Lifecycle!Init
  BY DEF Init, NoCheckpoint, Lifecycle!Init
<1>2. TypeInv /\ LifeInv /\ [Next]_vars => [Lifecycle!Next]_(Lifecycle!lifecycle)
  BY LifecycleStep DEF Moves
<1> QED
  BY <1>1, <1>2, TypeInvInit, TypeInvStep, LifeInvInit, LifeInvStep, PTL
     DEF Spec, ImplementsLifecycle, Lifecycle!Spec
-----------------------------------------------------------------------------
(* The books of a run agree, and the executor never starts an attempt      *)
(* twice between two human answers: the inductive invariants               *)

\* The epoch that the cancellation manager knows: that of the run wherever the
\* graph is at work, and the next one while an answer is on its way in.
EpochInv ==
    /\ Heading(Working \cup {"inspect"}) /\ ~cm.cancelled => cm.live /\ cm.epoch = run.epoch
    /\ pc = "resuming" /\ ~cm.cancelled => cm.live /\ cm.epoch = run.epoch + 1
    /\ pc # "idle" => loaded
    /\ ~loaded \/ (pc = "idle" /\ run.status = "running") => ~cm.live

\* No step of a plan is in flight or stuck; none but c is.
Clean(p) == \A s \in Step : p[s].status \in {"pending", "completed"}
Alone(p, c) ==
    /\ p[c].status \in {"pending", "running"}
    /\ \A s \in Step \ {c} : p[s].status \in {"pending", "completed"}
AllDone(p) == \A s \in Step : p[s].status = "completed"

\* Interrupts that a human's answer takes back to the step.
OfStep == {"other", "final_submit"}

\* A state that goes on by choosing the next step.
Choosing(r) == r.status = "running" /\ r.phase \in {"dispatch", "inspect"}

\* A step is on its way to the executor.
Dispatched == Heading({"wait"}) /\ run.decided = "dispatch"

\* The plan in memory, as far as the graph relies on it.
PlanTidy ==
    /\ Heading({"dispatch", "dispatch_io"}) => Clean(run.plan)
    /\ Heading({"inspect"}) /\ run.status = "running" => Clean(run.plan)
    /\ pc = "dispatch_io" => run.plan[run.cur].status = "pending"
    /\ Dispatched \/ pc = "wait_io" =>
           Alone(run.plan, run.cur) /\ run.plan[run.cur].status = "running"
    /\ run.pend.reason \in OfStep => Alone(run.plan, run.cur)
    /\ run.status = "completed" =>
           AllDone(plans[run.gen]) /\ (pc \in {"end", "idle"} \/ (pc = "save" /\ next = "end"))
    /\ pc = "save" /\ Choosing(run) => next \in {"dispatch", "inspect"}

\* The plan artifact that the checkpoint refers to, as far as a restart relies on it.
ArtifactTidy ==
    /\ ck.pend.reason \in OfStep => Alone(plans[ck.gen], ck.cur)
    /\ Choosing(ck) => Clean(plans[ck.gen]) \/ InFlight(plans[ck.gen])
    /\ pc \in Working \ {"dispatch", "dispatch_io"} => ~ Choosing(ck)
    /\ pc = "resuming" => ck.status # "running"
    /\ pc = "idle" /\ loaded /\ run.status = "running" =>
           ck.phase = run.phase /\ (Choosing(run) => Clean(run.plan))
    /\ ck.status = "completed" =>
           /\ pc \in {"end", "idle"} /\ AllDone(plans[ck.gen])
           /\ loaded => run.status = "completed"

TidyInv == PlanTidy /\ ArtifactTidy

\* Attempts that are still to be made are within the limit.
Bounded(p) == \A s \in Step : p[s].status # "completed" => p[s].attempt < MaxAttempts

\* The steps charged to r cover what has run and the attempt r's step is at.
Covers(r, p) == Cardinality(everRan \cup {<<r.gen, r.cur, p[r.cur].attempt>>}) <= r.used.steps

PaidInv ==
    /\ IsFiniteSet(everRan)
    /\ \A k \in everRan : k[3] < MaxAttempts
    /\ Bounded(run.plan) /\ \A g \in PlanId : Bounded(plans[g])
    /\ ck.status = "none" => ck.used.steps = 0 /\ ck.gen = 0
    /\ Cardinality(everRan) <= ck.used.steps
    /\ loaded => Cardinality(everRan) <= run.used.steps
    /\ pc = "dispatch_io" => Cardinality(everRan) < run.used.steps
    /\ Dispatched => Covers(run, run.plan)
    /\ pc = "wait" /\ run.decided = "dispatch" => ck.used.steps = run.used.steps
    /\ pc = "wait_io" => Key(run, run.cur) \in everRan
    /\ run.pend.reason \in OfStep => Covers(run, run.plan)
    /\ ck.pend.reason \in OfStep => Covers(ck, plans[ck.gen])

\* What has run of a plan is behind what is still to be run.
FreshInv ==
    /\ \A k \in ran : k[1] <= ck.gen /\ (loaded => k[1] <= run.gen)
    /\ \A k \in ran : LET s == plans[k[1]][k[2]]
                      IN  k[3] <= s.attempt /\ (s.status = "pending" => k[3] < s.attempt)
    /\ Dispatched => Key(run, run.cur) \notin ran
    /\ pc = "wait" /\ run.decided = "dispatch" => ck.gen = run.gen

-----------------------------------------------------------------------------
(* What a step does, in the terms of the invariants.                       *)

\* The run keeps its plan, its step and what it has paid.
Carries == /\ run'.gen = run.gen /\ run'.cur = run.cur /\ run'.plan = run.plan
           /\ run'.used.steps = run.used.steps

\* A node leaves what is not its own alone.
Outside == UNCHANGED <<loaded, cm, ck, ran, everRan>>

\* The callback has returned a run of this status on its way to n.
Leaves(n, status) == /\ pc' = "save" /\ next' = n /\ run'.status = status
                     /\ status # "interrupted" => run'.pend.reason = "none"

\* runNode stores what the callback returns.
LEMMA Returned ==
    ASSUME NEW q \in RunState, NEW n, Return(q, n)
    PROVE  /\ Leaves(n, q.status) /\ run'.phase = q.phase /\ run'.epoch = q.epoch
           /\ run'.gen = q.gen /\ run'.cur = q.cur /\ run'.plan = q.plan
           /\ run'.decided = q.decided /\ run'.used = q.used
           /\ q.status = "interrupted" => run'.pend = q.pend
BY SettledRun, SettledSame DEF Return, Leaves, Keeps, Same

\* A run that a node closes.
LEMMA ClosedLeaves ==
    ASSUME NEW r \in RunState, NEW n, NEW s \in Terminal, NEW p \in Phase,
           Return(Close(r, s, p), n)
    PROVE  /\ Leaves(n, s) /\ run'.phase = p /\ run'.epoch = r.epoch
           /\ run'.gen = r.gen /\ run'.cur = r.cur /\ run'.plan = r.plan /\ run'.used = r.used
<1>1. /\ Close(r, s, p) \in RunState /\ Keeps(r, Close(r, s, p)) /\ Same(r, Close(r, s, p))
      /\ Close(r, s, p).status = s /\ Close(r, s, p).phase = p
  BY ClosedRun, ClosedSame DEF RunStatus
<1> HIDE DEF Close
<1> QED
  BY <1>1, Returned DEF Keeps, Same

\* A run that a node fails.
LEMMA FailedLeaves ==
    ASSUME NEW r \in RunState, NEW n, Return(Fail(r), n)
    PROVE  /\ Leaves(n, "failed") /\ run'.phase = "fail" /\ run'.epoch = r.epoch
           /\ run'.gen = r.gen /\ run'.cur = r.cur /\ run'.plan = r.plan /\ run'.used = r.used
BY ClosedLeaves DEF Fail, Terminal, Phase

\* A run that a node moves to another phase.
LEMMA PhasedLeaves ==
    ASSUME NEW r \in RunState, NEW n, NEW p \in Phase, Return([r EXCEPT !.phase = p], n)
    PROVE  /\ Leaves(n, r.status) /\ run'.phase = p /\ run'.epoch = r.epoch
           /\ run'.gen = r.gen /\ run'.cur = r.cur /\ run'.plan = r.plan /\ run'.used = r.used
           /\ run'.pend.reason \in {r.pend.reason, "none"}
<1> DEFINE q == [r EXCEPT !.phase = p]
<1>1. /\ q \in RunState /\ q.status = r.status /\ q.phase = p /\ q.epoch = r.epoch
      /\ q.gen = r.gen /\ q.cur = r.cur /\ q.plan = r.plan /\ q.used = r.used /\ q.pend = r.pend
  BY DEF RunState
<1>2. Return(q, n)
  OBVIOUS
<1> HIDE DEF q
<1> QED
  BY <1>1, <1>2, Returned DEF Leaves

\* The intent node.
LEMMA IntentDoes ==
    ASSUME TypeInv, ApprovalInv, IntentResolved
    PROVE  /\ pc = "intent_io" /\ Current /\ Outside /\ UNCHANGED plans
           /\ Carries /\ run'.epoch = run.epoch
           /\ \/ Leaves("end", "failed")
              \/ Leaves("gate", "interrupted") /\ run'.pend.reason = "ambiguous_fact"
              \/ Leaves("plan", "running") /\ run'.phase = "plan"
<1>a. run \in RunState
  BY DEF TypeInv, TypeOK
<1>u. pc = "intent_io" /\ Current /\ Outside /\ UNCHANGED plans
  BY DEF IntentResolved, Outside, history
<1>1. CASE Return(Fail(run), "end")
  BY <1>a, <1>u, <1>1, FailedLeaves DEF Carries
<1>2. CASE Return(Asking(run, [NoInterrupt EXCEPT !.reason = "ambiguous_fact"]), "gate")
  <2> DEFINE i == [NoInterrupt EXCEPT !.reason = "ambiguous_fact"]
             q == Asking(run, i)
  <2>1. i \in Interrupt /\ i.reason = "ambiguous_fact"
    BY DEF NoInterrupt, Interrupt, Reason, NoStep
  <2> HIDE DEF i
  <2>2. q \in RunState /\ q.pend = i /\ Keeps(run, q) /\ q.status = "interrupted"
    BY <1>a, <2>1, AskingRun
  <2>3. q.plan = run.plan
    BY <1>a DEF Asking, RunState
  <2>4. Return(q, "gate")
    BY <1>2 DEF i
  <2> HIDE DEF q
  <2> QED
    BY <1>u, <2>1, <2>2, <2>3, <2>4, Returned DEF Carries, Keeps
<1>3. CASE Return(InPhase(run, "plan"), "plan")
  <2>1. /\ InPhase(run, "plan") \in RunState /\ Same(run, InPhase(run, "plan"))
        /\ Keeps(run, InPhase(run, "plan"))
        /\ InPhase(run, "plan").status = "running" /\ InPhase(run, "plan").phase = "plan"
    BY <1>a, PhasedSame, PhasedRun DEF Phase
  <2> QED
    BY <1>u, <1>3, <2>1, Returned DEF Carries, Keeps, Same
<1> QED
  BY <1>1, <1>2, <1>3 DEF IntentResolved

\* The plan node: a new plan has an artifact of its own.
LEMMA PlanDoes ==
    ASSUME TypeInv, ApprovalInv, PlanCreated
    PROVE  /\ pc = "plan_io" /\ Current /\ Outside
           /\ run'.epoch = run.epoch /\ run'.used.steps = run.used.steps
           /\ \/ Leaves("end", "failed") /\ Carries /\ UNCHANGED plans
              \/ /\ Leaves("dispatch", "running") /\ run'.phase = "dispatch"
                 /\ run.gen + 1 \in PlanId /\ run'.gen = run.gen + 1 /\ run'.plan = FreshPlan
                 /\ plans' = [plans EXCEPT ![run.gen + 1] = FreshPlan]
<1>a. run \in RunState
  BY DEF TypeInv, TypeOK
<1>u. pc = "plan_io" /\ Current /\ Outside
  BY DEF PlanCreated, Outside, history
<1>1. CASE Return(Fail(run), "end") /\ UNCHANGED plans
  BY <1>a, <1>u, <1>1, FailedLeaves DEF Carries
<1> DEFINE p == InPhase(run, "dispatch")
           r == [p EXCEPT !.gen = @ + 1, !.plan = FreshPlan]
<1>2. CASE Return(r, "dispatch") /\ SavePlan(r)
  <2>1. /\ p \in RunState /\ p.status = "running" /\ p.phase = "dispatch" /\ Keeps(run, p)
    BY <1>a, PhasedRun DEF Phase
  <2> HIDE DEF p
  <2>2. /\ FreshPlan \in [Step -> StepState] /\ p.gen + 1 \in Nat
    BY <2>1 DEF FreshPlan, StepState, RunState
  <2>3. /\ r \in RunState /\ r.status = "running" /\ r.phase = "dispatch"
        /\ r.gen = run.gen + 1 /\ r.plan = FreshPlan /\ r.epoch = run.epoch /\ r.used = run.used
    BY <2>1, <2>2 DEF RunState, Keeps
  <2>4. run.gen + 1 \in PlanId
    <3>1. run.used \in Budget /\ run.gen <= run.used.replans /\ run.gen \in Nat
      BY <1>u, <1>a DEF TypeInv, Located, RunState
    <3> QED
      BY <3>1, LimitsAssumption DEF Budget, PlanId
  <2> HIDE DEF r
  <2> QED
    BY <1>u, <1>2, <2>3, <2>4, Returned DEF SavePlan
<1> QED
  BY <1>1, <1>2 DEF PlanCreated

\* Dispatch: every step is done, or the next one is charged, or cannot be.
LEMMA DispatchDoes ==
    ASSUME TypeInv, ApprovalInv, DispatchCall
    PROVE  /\ pc = "dispatch" /\ ~Aborted /\ Outside /\ UNCHANGED plans
           /\ run'.epoch = run.epoch /\ run'.gen = run.gen /\ run'.plan = run.plan
           /\ \/ Leaves("end", "completed") /\ Carries /\ Ready(run.plan) = {}
              \/ /\ pc' = "dispatch_io" /\ run'.cur \in Ready(run.plan)
                 /\ run'.used.steps = run.used.steps + 1 /\ run'.status = run.status
                 /\ run'.pend = run.pend /\ run.pend.reason = "none"
              \/ pc' = "throw" /\ UNCHANGED run
<1>a. run \in RunState
  BY DEF TypeInv, TypeOK
<1>u. pc = "dispatch" /\ ~Aborted /\ Outside /\ UNCHANGED plans
  BY DEF DispatchCall, Outside, history
<1>1. CASE Ready(run.plan) = {} /\ Return(Close(run, "completed", "complete"), "end")
  BY <1>a, <1>u, <1>1, ClosedLeaves DEF Carries, Phase, Terminal
<1>2. CASE Throw("budget")
  BY <1>u, <1>2 DEF Throw
<1>3. ASSUME HasSteps(run), NEW s \in First(Ready(run.plan)),
             run' = [Charged(run) EXCEPT !.cur = s], Await("dispatch_io")
      PROVE  /\ pc' = "dispatch_io" /\ run'.cur \in Ready(run.plan)
             /\ run'.used.steps = run.used.steps + 1 /\ run'.status = run.status
             /\ run'.pend = run.pend /\ run.pend.reason = "none"
             /\ run'.epoch = run.epoch /\ run'.gen = run.gen /\ run'.plan = run.plan
  <2>1. s \in Step /\ s \in Ready(run.plan)
    BY <1>3 DEF First, Ready
  <2>2. run.used \in Budget /\ run.used.steps \in Nat
    BY <1>a DEF RunState, Budget
  <2>3. /\ run'.plan = run.plan /\ run'.used.steps = run.used.steps + 1
    BY <1>a, <1>3, <2>2 DEF Charged, RunState, Budget
  <2>4. run.pend.reason = "none"
    BY <1>u DEF ApprovalInv, Placed, Heading, Working, AsksOnly
  <2> QED
    BY <1>a, <1>3, <2>1, <2>3, <2>4, ChargedRun DEF Await
<1> QED
  BY <1>u, <1>1, <1>2, <1>3 DEF DispatchCall

\* The step's entry of the plan changes, in memory and in the artifact, and no other.
Touches(s) ==
    /\ \A t \in Step \ {s} : run'.plan[t] = run.plan[t]
    /\ plans' = [plans EXCEPT ![run.gen] = run'.plan]

\* Marking a step leaves the other steps alone.
LEMMA MarkTouches ==
    ASSUME NEW r \in RunState, NEW s \in Step,
           NEW st \in {"pending", "running", "completed", "blocked"}
    PROVE  /\ \A t \in Step \ {s} : Mark(r, s, st).plan[t] = r.plan[t]
           /\ Mark(r, s, st).plan[s].status = st
           /\ Mark(r, s, st).plan[s].attempt = r.plan[s].attempt
BY DEF Mark, RunState, StepState

\* A retry is a new attempt.
LEMMA RetryTouches ==
    ASSUME NEW r \in RunState, NEW s \in Step
    PROVE  /\ \A t \in Step \ {s} : Retried(r, s).plan[t] = r.plan[t]
           /\ Retried(r, s).plan[s].status = "pending"
           /\ Retried(r, s).plan[s].attempt = r.plan[s].attempt + 1
<1> DEFINE m == Mark(r, s, "pending")
<1>1. m \in RunState
  BY MarkedRun
<1>2. /\ \A t \in Step \ {s} : m.plan[t] = r.plan[t]
      /\ m.plan[s].status = "pending" /\ m.plan[s].attempt = r.plan[s].attempt
  BY MarkTouches
<1>3. Retried(r, s) = [m EXCEPT !.plan[s].attempt = @ + 1]
  BY DEF Retried
<1> HIDE DEF m
<1> QED
  BY <1>1, <1>2, <1>3 DEF RunState, StepState

\* A step that is done counts one attempt at least.
LEMMA DoneTouches ==
    ASSUME NEW r \in RunState, NEW s \in Step
    PROVE  /\ \A t \in Step \ {s} : Done(r, s).plan[t] = r.plan[t]
           /\ Done(r, s).plan[s].status = "completed"
           /\ Done(r, s).plan[s].attempt >= r.plan[s].attempt
<1> DEFINE m == Mark(r, s, "completed")
<1>1. m \in RunState
  BY MarkedRun
<1>2. /\ \A t \in Step \ {s} : m.plan[t] = r.plan[t]
      /\ m.plan[s].status = "completed" /\ m.plan[s].attempt = r.plan[s].attempt
  BY MarkTouches
<1>3. Done(r, s) = [m EXCEPT !.plan[s].attempt = IF @ = 0 THEN 1 ELSE @]
  BY DEF Done
<1>4. m.plan[s] \in StepState /\ m.plan[s].attempt \in Nat
  BY <1>1 DEF RunState, StepState
<1> HIDE DEF m
<1> QED
  BY <1>1, <1>2, <1>3, <1>4 DEF RunState, StepState

\* The supervisor's decision.
LEMMA SupervisorDoes ==
    ASSUME TypeInv, ApprovalInv, SupervisorDecides
    PROVE  /\ pc = "dispatch_io" /\ Current /\ Outside /\ run.cur \in Step
           /\ run.plan = plans[run.gen]
           /\ run'.epoch = run.epoch /\ run'.gen = run.gen /\ run'.cur = run.cur
           /\ run'.used.steps = run.used.steps
           /\ \/ /\ \E st \in {"failed", "blocked"} : Leaves("end", st)
                 /\ Carries /\ UNCHANGED plans
              \/ Leaves("gate", "interrupted") /\ Carries /\ UNCHANGED plans
              \/ /\ Leaves("wait", "running") /\ run'.phase = "wait"
                 /\ run'.decided = "dispatch" /\ Touches(run.cur)
                 /\ run'.plan[run.cur].status = "running"
                 /\ run'.plan[run.cur].attempt = run.plan[run.cur].attempt
<1> DEFINE s == run.cur
           p == InPhase(run, "wait")
           m == Mark(p, s, "running")
           r == [m EXCEPT !.decided = "dispatch"]
<1>a. run \in RunState
  BY DEF TypeInv, TypeOK
<1>u. /\ pc = "dispatch_io" /\ Current /\ Outside /\ s \in Step /\ run.plan = plans[run.gen]
  BY DEF SupervisorDecides, history, Outside, TypeInv, Located, ApprovalInv, Synced, Heading
<1>1. CASE Return(Fail(run), "end") /\ UNCHANGED plans
  BY <1>a, <1>u, <1>1, FailedLeaves DEF Carries
<1>2. CASE Return(Close(run, "blocked", "blocked"), "end") /\ UNCHANGED plans
  BY <1>a, <1>u, <1>2, ClosedLeaves DEF Carries, Terminal, Phase
<1>3. ASSUME NEW i \in Interrupts(run, s), UNCHANGED plans,
             Return([Asking(run, i) EXCEPT !.decided = "none"], "gate")
      PROVE  /\ Leaves("gate", "interrupted") /\ Carries /\ run'.epoch = run.epoch
  <2> DEFINE a == Asking(run, i)
             q == [a EXCEPT !.decided = "none"]
  <2>1. i \in Interrupt
    BY <1>u, InterruptTyped DEF TypeInv
  <2>2. /\ a \in RunState /\ a.status = "interrupted" /\ Keeps(run, a)
    BY <1>a, <2>1, AskingRun
  <2>3. a.plan = run.plan
    BY <1>a DEF Asking, RunState
  <2> HIDE DEF a
  <2>4. /\ q \in RunState /\ q.status = "interrupted" /\ q.epoch = run.epoch
        /\ q.gen = run.gen /\ q.cur = s /\ q.plan = run.plan /\ q.used = run.used
    BY <2>2, <2>3 DEF RunState, Keeps
  <2>5. Return(q, "gate")
    BY <1>3 DEF a
  <2> HIDE DEF q
  <2> QED
    BY <2>4, <2>5, Returned DEF Carries
<1>4. CASE Return(r, "wait") /\ SavePlan(r)
  <2>1. /\ p \in RunState /\ p.status = "running" /\ p.phase = "wait" /\ Keeps(run, p)
        /\ p.plan = run.plan
    BY <1>a, PhasedRun, PhasedSame DEF Phase, Same
  <2> HIDE DEF p
  <2>2. /\ m \in RunState /\ m.status = "running" /\ m.phase = "wait" /\ Keeps(p, m)
        /\ \A t \in Step \ {s} : m.plan[t] = p.plan[t]
        /\ m.plan[s].status = "running" /\ m.plan[s].attempt = p.plan[s].attempt
    BY <1>u, <2>1, MarkedRun, MarkTouches
  <2> HIDE DEF m
  <2>3. /\ r \in RunState /\ r.status = "running" /\ r.phase = "wait" /\ r.epoch = run.epoch
        /\ r.gen = run.gen /\ r.cur = s /\ r.plan = m.plan /\ r.used = run.used
        /\ r.decided = "dispatch"
    BY <2>1, <2>2 DEF RunState, Keeps
  <2> HIDE DEF r
  <2>4. /\ Leaves("wait", "running") /\ run'.phase = "wait" /\ run'.epoch = run.epoch
        /\ run'.gen = run.gen /\ run'.cur = s /\ run'.plan = m.plan /\ run'.used = run.used
        /\ run'.decided = "dispatch" /\ plans' = [plans EXCEPT ![run.gen] = run'.plan]
    BY <1>4, <2>3, Returned DEF SavePlan
  <2> QED
    BY <1>u, <2>1, <2>2, <2>4 DEF Touches
<1> HIDE DEF r
<1>5. \/ Return(Fail(run), "end") /\ UNCHANGED plans
      \/ Return(Close(run, "blocked", "blocked"), "end") /\ UNCHANGED plans
      \/ \E i \in Interrupts(run, s) :
           UNCHANGED plans /\ Return([Asking(run, i) EXCEPT !.decided = "none"], "gate")
      \/ Return(r, "wait") /\ SavePlan(r)
  BY DEF SupervisorDecides, r
<1>6. CASE \E i \in Interrupts(run, s) :
             UNCHANGED plans /\ Return([Asking(run, i) EXCEPT !.decided = "none"], "gate")
  BY <1>u, <1>3, <1>6 DEF Carries
<1> QED
  BY <1>5, <1>1, <1>2, <1>4, <1>6

\* The executor's call.
LEMMA WaitDoes ==
    ASSUME TypeInv, ApprovalInv, WaitCall
    PROVE  /\ pc = "wait" /\ ~Aborted /\ UNCHANGED <<loaded, cm, ck, plans>>
           /\ Carries /\ run'.epoch = run.epoch /\ run.plan = plans[run.gen]
           /\ \/ Leaves("inspect", "failed") /\ UNCHANGED <<ran, everRan>>
              \/ /\ pc' = "wait_io" /\ run.decided = "dispatch" /\ UNCHANGED run
                 /\ ran' = ran \cup {Key(run, run.cur)}
                 /\ everRan' = everRan \cup {Key(run, run.cur)}
<1>a. run \in RunState /\ run.plan = plans[run.gen]
  BY DEF TypeInv, TypeOK, WaitCall, ApprovalInv, Synced, Heading
<1>1. CASE Return(Fail(run), "inspect") /\ UNCHANGED <<ran, everRan>>
  BY <1>a, <1>1, FailedLeaves DEF WaitCall, Carries
<1>2. CASE run.decided = "dispatch" /\ Await("wait_io")
  BY <1>a, <1>2 DEF WaitCall, Await, Carries, Return
<1> QED
  BY <1>1, <1>2 DEF WaitCall

\* The executor's answer.
LEMMA ExecutorDoes ==
    ASSUME TypeInv, ApprovalInv, ExecutorReturns
    PROVE  /\ pc = "wait_io" /\ Current /\ Outside /\ run.cur \in Step /\ run.gen \in PlanId
           /\ run.plan = plans[run.gen] /\ run.pend.reason = "none"
           /\ run'.epoch = run.epoch /\ run'.gen = run.gen /\ run'.cur = run.cur
           /\ run'.used.steps = run.used.steps
           /\ \/ /\ pc' = "throw" /\ Carries /\ UNCHANGED plans
                 /\ run'.status = run.status /\ run'.pend = run.pend
              \/ Leaves("inspect", "failed") /\ Carries /\ UNCHANGED plans
              \/ Leaves("inspect", "interrupted") /\ Carries /\ UNCHANGED plans
              \/ /\ Leaves("inspect", run.status) /\ Touches(run.cur)
                 /\ run'.plan[run.cur].status = "completed"
                 /\ run'.plan[run.cur].attempt >= run.plan[run.cur].attempt
              \/ /\ Leaves("inspect", "blocked") /\ Touches(run.cur)
                 /\ run'.plan[run.cur].status = "blocked"
                 /\ run'.plan[run.cur].attempt = run.plan[run.cur].attempt
              \/ /\ Leaves("inspect", run.status) /\ Touches(run.cur)
                 /\ run'.plan[run.cur].status = "pending"
                 /\ run'.plan[run.cur].attempt = run.plan[run.cur].attempt + 1
                 /\ run'.plan[run.cur].attempt < MaxAttempts
<1>1. /\ run \in RunState /\ run.gen \in PlanId /\ run.cur \in Step
      /\ pc = "wait_io" /\ Current /\ Outside
  BY RunGen DEF TypeInv, TypeOK, Located, ExecutorReturns, history, Outside
<1>2. /\ run.plan = plans[run.gen] /\ run.pend.reason = "none" /\ run.status # "interrupted"
  BY DEF ExecutorReturns, ApprovalInv, Synced, Heading, Placed, AsksOnly, Working
<1>3. PICK c \in 0..1 :
         IF run.used.toolCalls + c > MaxToolCalls
         THEN Throw("budget") /\ UNCHANGED plans
         ELSE LET r == [run EXCEPT !.used.toolCalls = @ + c]
                  s == run.cur
                  done == [Done(r, s) EXCEPT !.phase = "inspect"]
                  stuck == Close(Mark(r, s, "blocked"), "blocked", "blocked")
                  again == [Retried(r, s) EXCEPT !.phase = "dispatch", !.used.retries = @ + 1]
              IN  \/ Return(Fail(r), "inspect") /\ UNCHANGED plans
                  \/ \E i \in Interrupts(r, s) :
                       /\ i.reason = "final_submit" => Binds(i, r, s)
                       /\ Return(Asking(r, i), "inspect") /\ UNCHANGED plans
                  \/ Return(done, "inspect") /\ SavePlan(done)
                  \/ Return(stuck, "inspect") /\ SavePlan(stuck)
                  \/ /\ MayRetry(r, s) /\ r.used.retries < MaxRetries
                     /\ Return(again, "inspect") /\ SavePlan(again)
                  \/ /\ MayRetry(r, s) /\ r.used.retries = MaxRetries
                     /\ pc' = "throw" /\ err' = "budget" /\ run' = r
                     /\ UNCHANGED <<next, plans>>
  BY DEF ExecutorReturns
<1>4. CASE run.used.toolCalls + c > MaxToolCalls
  BY <1>1, <1>2, <1>3, <1>4 DEF Throw, Carries
<1>5. CASE ~(run.used.toolCalls + c > MaxToolCalls)
  <2> DEFINE r == [run EXCEPT !.used.toolCalls = @ + c]
             s == run.cur
             done == [Done(r, s) EXCEPT !.phase = "inspect"]
             stuck == Close(Mark(r, s, "blocked"), "blocked", "blocked")
             again == [Retried(r, s) EXCEPT !.phase = "dispatch", !.used.retries = @ + 1]
  <2>1. /\ r \in RunState /\ Same(run, r) /\ r.status = run.status /\ r.pend = run.pend
        /\ r.epoch = run.epoch /\ r.used.steps = run.used.steps
    <3>1. run.used \in Budget /\ run.used.toolCalls + c \in 0..MaxToolCalls
      BY <1>1, <1>5, LimitsAssumption DEF RunState, Budget
    <3>2. /\ [run.used EXCEPT !.toolCalls = @ + c] \in Budget
          /\ [run.used EXCEPT !.toolCalls = @ + c].steps = run.used.steps
      BY <3>1 DEF Budget
    <3> QED
      BY <1>1, <3>2 DEF RunState, Same
  <2>2. r.cur = s /\ r.gen = run.gen /\ r.plan = run.plan
    BY <2>1 DEF Same
  <2>3. \/ Return(Fail(r), "inspect") /\ UNCHANGED plans
        \/ \E i \in Interrupts(r, s) : Return(Asking(r, i), "inspect") /\ UNCHANGED plans
        \/ Return(done, "inspect") /\ SavePlan(done)
        \/ Return(stuck, "inspect") /\ SavePlan(stuck)
        \/ /\ MayRetry(r, s) /\ r.used.retries < MaxRetries
           /\ Return(again, "inspect") /\ SavePlan(again)
        \/ pc' = "throw" /\ run' = r /\ UNCHANGED <<next, plans>>
    BY <1>3, <1>5
  <2> HIDE DEF r
  <2>4. CASE Return(Fail(r), "inspect") /\ UNCHANGED plans
    BY <1>1, <1>2, <2>1, <2>2, <2>4, FailedLeaves DEF Carries
  <2>5. ASSUME NEW i \in Interrupts(r, s), Return(Asking(r, i), "inspect"), UNCHANGED plans
        PROVE  Leaves("inspect", "interrupted") /\ Carries /\ run'.epoch = run.epoch
    <3> DEFINE a == Asking(r, i)
    <3>1. i \in Interrupt
      BY <1>1, <2>1 DEF Interrupts, Interrupt, Reason, NoStep, RunState
    <3>2. a \in RunState /\ a.status = "interrupted" /\ Keeps(r, a)
      BY <2>1, <3>1, AskingRun
    <3>3. a.plan = run.plan
      BY <2>1, <2>2 DEF Asking, RunState
    <3>4. Return(a, "inspect")
      BY <2>5
    <3> HIDE DEF a
    <3> QED
      BY <2>1, <2>2, <3>2, <3>3, <3>4, Returned DEF Carries, Keeps
  <2>6. CASE Return(done, "inspect") /\ SavePlan(done)
    <3> DEFINE d == Done(r, s)
    <3>1. /\ d \in RunState /\ Keeps(r, d) /\ d.status = r.status
          /\ \A t \in Step \ {s} : d.plan[t] = run.plan[t]
          /\ d.plan[s].status = "completed" /\ d.plan[s].attempt >= run.plan[s].attempt
      BY <1>1, <2>1, <2>2, DoneRun, DoneTouches
    <3>2. done = [d EXCEPT !.phase = "inspect"]
      OBVIOUS
    <3> HIDE DEF d, done
    <3>3. /\ done \in RunState /\ done.status = run.status /\ done.epoch = run.epoch
          /\ done.gen = run.gen /\ done.cur = s /\ done.plan = d.plan
          /\ done.used.steps = run.used.steps
      BY <2>1, <2>2, <3>1, <3>2 DEF RunState, Phase, Keeps
    <3>4. /\ Leaves("inspect", run.status) /\ run'.epoch = run.epoch /\ run'.gen = run.gen
          /\ run'.cur = s /\ run'.used.steps = run.used.steps /\ run'.plan = d.plan
          /\ plans' = [plans EXCEPT ![run.gen] = run'.plan]
      BY <2>6, <3>3, Returned DEF SavePlan
    <3> QED
      BY <1>1, <1>2, <3>1, <3>4 DEF Touches
  <2>7. CASE Return(stuck, "inspect") /\ SavePlan(stuck)
    <3> DEFINE m == Mark(r, s, "blocked")
    <3>a. m \in RunState /\ Keeps(r, m)
      BY <1>1, <2>1, MarkedRun
    <3>b. /\ \A t \in Step \ {s} : m.plan[t] = r.plan[t]
          /\ m.plan[s].status = "blocked" /\ m.plan[s].attempt = r.plan[s].attempt
      BY <1>1, <2>1, MarkTouches
    <3>1. /\ m \in RunState /\ Keeps(r, m)
          /\ \A t \in Step \ {s} : m.plan[t] = run.plan[t]
          /\ m.plan[s].status = "blocked" /\ m.plan[s].attempt = run.plan[s].attempt
      BY <3>a, <3>b, <2>2
    <3>2. stuck = Close(m, "blocked", "blocked")
      OBVIOUS
    <3> HIDE DEF m, stuck
    <3>3. Return(Close(m, "blocked", "blocked"), "inspect") /\ SavePlan(stuck)
      BY <2>7, <3>2
    <3>4. stuck.gen = run.gen /\ stuck.plan = m.plan
      BY <2>2, <3>1, <3>2, ClosedSame DEF Same, Keeps
    <3>5. /\ Leaves("inspect", "blocked") /\ run'.epoch = m.epoch /\ run'.gen = m.gen
          /\ run'.cur = m.cur /\ run'.plan = m.plan /\ run'.used = m.used
      BY <3>1, <3>3, ClosedLeaves DEF Terminal, Phase
    <3>6. plans' = [plans EXCEPT ![run.gen] = run'.plan]
      BY <3>3, <3>4, <3>5 DEF SavePlan
    <3> QED
      BY <1>1, <1>2, <2>1, <2>2, <3>1, <3>5, <3>6 DEF Touches, Keeps
  <2>8. CASE /\ MayRetry(r, s) /\ r.used.retries < MaxRetries
             /\ Return(again, "inspect") /\ SavePlan(again)
    <3> DEFINE d == Retried(r, s)
    <3>1. /\ d \in RunState /\ Keeps(r, d) /\ d.status = r.status
          /\ \A t \in Step \ {s} : d.plan[t] = run.plan[t]
          /\ d.plan[s].status = "pending" /\ d.plan[s].attempt = run.plan[s].attempt + 1
      BY <1>1, <2>1, <2>2, RetriedRun, RetryTouches
    <3>2. again = [d EXCEPT !.phase = "dispatch", !.used.retries = @ + 1]
      OBVIOUS
    <3>3. d.plan[s].attempt < MaxAttempts
      BY <2>2, <2>8, <3>1 DEF MayRetry
    <3> HIDE DEF d, again
    <3>4. /\ [d.used EXCEPT !.retries = @ + 1] \in Budget
          /\ [d.used EXCEPT !.retries = @ + 1].steps = run.used.steps
      BY <2>1, <2>8, <3>1, LimitsAssumption DEF RunState, Budget, Keeps
    <3>5. /\ again \in RunState /\ again.status = run.status /\ again.epoch = run.epoch
          /\ again.gen = run.gen /\ again.cur = s /\ again.plan = d.plan
          /\ again.used.steps = run.used.steps
      BY <2>1, <2>2, <3>1, <3>2, <3>4 DEF RunState, Phase, Keeps
    <3>6. /\ Leaves("inspect", run.status) /\ run'.epoch = run.epoch /\ run'.gen = run.gen
          /\ run'.cur = s /\ run'.used.steps = run.used.steps /\ run'.plan = d.plan
          /\ plans' = [plans EXCEPT ![run.gen] = run'.plan]
      BY <2>8, <3>5, Returned DEF SavePlan
    <3> QED
      BY <1>1, <1>2, <3>1, <3>3, <3>6 DEF Touches
  <2>9. CASE pc' = "throw" /\ run' = r /\ UNCHANGED <<next, plans>>
    BY <1>1, <1>2, <2>1, <2>2, <2>9 DEF Carries
  <2>10. CASE \E i \in Interrupts(r, s) : Return(Asking(r, i), "inspect") /\ UNCHANGED plans
    BY <1>1, <1>2, <2>5, <2>10 DEF Carries
  <2> HIDE DEF done, stuck, again
  <2> QED
    BY <2>3, <2>4, <2>6, <2>7, <2>8, <2>9, <2>10
<1> QED
  BY <1>4, <1>5

\* The end of a turn: on to the human gate, the next step, or the end.
LEMMA InspectDoes ==
    ASSUME TypeInv, ApprovalInv, Inspect
    PROVE  /\ pc = "inspect" /\ Outside /\ UNCHANGED plans /\ Carries /\ run'.epoch = run.epoch
           /\ run.plan = plans[run.gen]
           /\ \/ /\ run.status = "interrupted" /\ Leaves("gate", "interrupted")
                 /\ run'.pend.reason \in {run.pend.reason, "none"}
              \/ run.status \in Terminal /\ Leaves("end", run.status)
              \/ /\ run.status = "running" /\ Leaves("dispatch", "running")
                 /\ run'.phase = "dispatch"
              \/ run.status = "running" /\ ~Unfinished(run.plan) /\ Leaves("end", "completed")
<1>a. run \in RunState /\ run.plan = plans[run.gen]
  BY DEF TypeInv, TypeOK, Inspect, ApprovalInv, Synced, Heading
<1>u. pc = "inspect" /\ Outside /\ UNCHANGED plans
  BY DEF Inspect, Outside, history
<1>1. CASE run.status = "interrupted" /\ Return([run EXCEPT !.phase = "human_gate"], "gate")
  <2>1. "human_gate" \in Phase
    BY DEF Phase
  <2> QED
    BY <1>a, <1>u, <1>1, <2>1, PhasedLeaves DEF Carries
<1>2. CASE run.status \in Terminal /\ Return(run, "end")
  BY <1>a, <1>u, <1>2, Returned DEF Carries
<1>3. CASE run.status = "running" /\ Return([run EXCEPT !.phase = "dispatch"], "dispatch")
  <2>1. "dispatch" \in Phase
    BY DEF Phase
  <2> QED
    BY <1>a, <1>u, <1>3, <2>1, PhasedLeaves DEF Carries
<1>4. CASE /\ run.status = "running" /\ ~Unfinished(run.plan)
           /\ Return(Close(run, "completed", "complete"), "end")
  BY <1>a, <1>u, <1>4, ClosedLeaves DEF Carries, Terminal, Phase
<1> QED
  BY <1>1, <1>2, <1>3, <1>4 DEF Inspect

\* The first entry of the human gate.
LEMMA ParkDoes ==
    ASSUME TypeInv, Park
    PROVE  /\ pc = "gate" /\ Outside /\ UNCHANGED plans /\ Carries /\ run'.epoch = run.epoch
           /\ \/ /\ run.status = "interrupted" /\ pc' = "end"
                 /\ run'.status = run.status /\ run'.pend = run.pend
              \/ run.status \in Terminal /\ Leaves("end", run.status)
<1>a. run \in RunState
  BY DEF TypeInv, TypeOK
<1>u. pc = "gate" /\ Outside /\ UNCHANGED plans
  BY DEF Park, Outside, history
<1> DEFINE r == [run EXCEPT !.phase = "human_gate"]
<1>1. CASE run.status = "interrupted" /\ run' = r /\ Await("end")
  BY <1>a, <1>u, <1>1 DEF Await, Carries, RunState
<1>2. CASE run.status \in Terminal /\ Return(r, "end")
  <2>1. "human_gate" \in Phase
    BY DEF Phase
  <2> QED
    BY <1>a, <1>u, <1>2, <2>1, PhasedLeaves DEF Carries
<1> QED
  BY <1>1, <1>2 DEF Park

\* An answer that closes the run, or meets one that is closed.
LEMMA GateClosedDoes ==
    ASSUME TypeInv, GateClosed
    PROVE  /\ pc = "resuming" /\ Outside /\ UNCHANGED plans /\ Carries /\ run'.epoch = run.epoch
           /\ \/ run.status \in Terminal /\ Leaves("end", run.status)
              \/ \E st \in {"cancelled", "blocked", "expired", "failed"} : Leaves("end", st)
<1>a. run \in RunState
  BY DEF TypeInv, TypeOK
<1>u. pc = "resuming" /\ Outside /\ UNCHANGED plans
  BY DEF GateClosed, Outside, history
<1> DEFINE r == [run EXCEPT !.phase = "human_gate"]
<1>1. CASE run.status \in Terminal /\ Return(r, "end")
  <2>1. "human_gate" \in Phase
    BY DEF Phase
  <2> QED
    BY <1>a, <1>u, <1>1, <2>1, PhasedLeaves DEF Carries
<1>2. ASSUME NEW st \in {"cancelled", "blocked", "expired"}, NEW p \in Phase,
             Return(Close(run, st, p), "end")
      PROVE  Leaves("end", st) /\ Carries /\ run'.epoch = run.epoch
  BY <1>a, <1>2, ClosedLeaves DEF Carries, Terminal
<1>3. CASE Return(Fail(run), "end")
  BY <1>a, <1>u, <1>3, FailedLeaves DEF Carries
<1>4. \/ run.status \in Terminal /\ Return(r, "end")
      \/ \E st \in {"cancelled", "blocked", "expired"} : \E p \in Phase :
           Return(Close(run, st, p), "end")
      \/ Return(Fail(run), "end")
  BY DEF GateClosed, Phase
<1> QED
  BY <1>u, <1>1, <1>2, <1>3, <1>4

\* An answer that takes the run back to its step.
LEMMA GateOpenedDoes ==
    ASSUME TypeInv, ApprovalInv, GateOpened
    PROVE  /\ pc = "resuming" /\ UNCHANGED <<loaded, cm, ck, everRan>>
           /\ run.status = "interrupted" /\ run.pend.reason \in OfStep
           /\ run.cur \in Step /\ run.gen \in PlanId /\ run.plan = plans[run.gen]
           /\ ran' = ran \ {Key(run, run.cur)}
           /\ Leaves("wait", "running") /\ run'.phase = "wait" /\ run'.decided = "dispatch"
           /\ run'.epoch = run.epoch + 1 /\ run'.gen = run.gen /\ run'.cur = run.cur
           /\ run'.used = run.used
           /\ Touches(run.cur) /\ run'.plan[run.cur].status = "running"
           /\ run'.plan[run.cur].attempt = run.plan[run.cur].attempt
<1> DEFINE s == run.cur
           n == NextEpoch(run)
           p == InPhase(n, "wait")
           m == Mark(p, s, "running")
           r == [m EXCEPT !.decided = "dispatch"]
<1>1. /\ run \in RunState /\ run.gen \in PlanId
      /\ run.pend.reason \in {"final_submit", "other"}
      /\ run.status = "interrupted" /\ s \in Step /\ run.plan = plans[run.gen]
  BY RunGen DEF TypeInv, TypeOK, GateOpened, Answered, StillAsking, Sound, Planned,
     ApprovalInv, Synced
<1>2. /\ n \in RunState /\ n.epoch = run.epoch + 1 /\ n.cur = s /\ n.gen = run.gen
      /\ n.used = run.used
  BY <1>1, NextEpochRun
<1>3. n.plan = run.plan
  BY <1>1 DEF NextEpoch, RunState
<1>q. Return(r, "wait") /\ SavePlan(r)
  BY DEF GateOpened
<1> HIDE DEF n
<1>4. /\ p \in RunState /\ p.status = "running" /\ p.phase = "wait" /\ Keeps(n, p)
  BY <1>2, PhasedRun DEF Phase
<1>5. p.plan = n.plan
  BY <1>2, PhasedSame DEF Same
<1> HIDE DEF p
<1>6. /\ m \in RunState /\ m.status = "running" /\ m.phase = "wait" /\ Keeps(p, m)
  BY <1>1, <1>4, MarkedRun
<1>7. /\ \A t \in Step \ {s} : m.plan[t] = p.plan[t]
      /\ m.plan[s].status = "running" /\ m.plan[s].attempt = p.plan[s].attempt
  BY <1>1, <1>4, MarkTouches
<1> HIDE DEF m
<1>8. /\ r \in RunState /\ r.status = "running" /\ r.phase = "wait" /\ r.decided = "dispatch"
      /\ r.epoch = m.epoch /\ r.gen = m.gen /\ r.cur = m.cur /\ r.plan = m.plan
      /\ r.used = m.used
  BY <1>6 DEF RunState
<1> HIDE DEF r
<1>9. /\ Leaves("wait", "running") /\ run'.phase = "wait" /\ run'.decided = "dispatch"
      /\ run'.epoch = run.epoch + 1 /\ run'.gen = run.gen /\ run'.cur = s
      /\ run'.used = run.used /\ run'.plan = m.plan
      /\ plans' = [plans EXCEPT ![run.gen] = run'.plan]
  BY <1>2, <1>4, <1>6, <1>8, <1>q, Returned DEF SavePlan, Keeps
<1>10. /\ pc = "resuming" /\ UNCHANGED <<loaded, cm, ck, everRan>>
       /\ ran' = ran \ {Key(run, run.cur)}
  BY DEF GateOpened, Answered
<1> QED
  BY <1>1, <1>3, <1>5, <1>7, <1>9, <1>10 DEF Touches, OfStep

\* A clarified fact leads to the plan node.
LEMMA ClarifiedDoes ==
    ASSUME TypeInv, Clarified
    PROVE  /\ pc = "resuming" /\ Outside /\ UNCHANGED plans /\ Carries
           /\ run.status = "interrupted" /\ run'.epoch = run.epoch + 1
           /\ \/ Leaves("end", "failed")
              \/ Leaves("plan", "running") /\ run'.phase = "plan"
              \/ /\ pc' = "throw" /\ run'.status = "interrupted"
                 /\ run'.pend.reason = "none"
<1> DEFINE n == NextEpoch(run)
           fits == [n EXCEPT !.used.replans = @ + 1]
<1>a. run \in RunState
  BY DEF TypeInv, TypeOK
<1>u. pc = "resuming" /\ Outside /\ UNCHANGED plans /\ run.status = "interrupted"
  BY DEF Clarified, Answered, StillAsking, Outside, history
<1>1. /\ n \in RunState /\ n.epoch = run.epoch + 1 /\ n.cur = run.cur /\ n.gen = run.gen
      /\ n.used = run.used /\ n.status = run.status /\ n.pend = NoInterrupt
  BY <1>a, NextEpochRun
<1>2. n.plan = run.plan
  BY <1>a DEF NextEpoch, RunState
<1>3. \/ Return(Fail(n), "end")
      \/ /\ n.used.replans < MaxReplans
         /\ Return(Fail(fits), "end") \/ Return(InPhase(fits, "plan"), "plan")
      \/ pc' = "throw" /\ run' = n
  BY DEF Clarified
<1> HIDE DEF n
<1>4. CASE Return(Fail(n), "end")
  BY <1>u, <1>1, <1>2, <1>4, FailedLeaves DEF Carries
<1>5. CASE pc' = "throw" /\ run' = n
  BY <1>u, <1>1, <1>2, <1>5 DEF Carries, NoInterrupt
<1>6. CASE /\ n.used.replans < MaxReplans
           /\ Return(Fail(fits), "end") \/ Return(InPhase(fits, "plan"), "plan")
  <2>1. /\ [n.used EXCEPT !.replans = @ + 1] \in Budget
        /\ [n.used EXCEPT !.replans = @ + 1].steps = run.used.steps
    BY <1>1, <1>6, LimitsAssumption DEF RunState, Budget
  <2>2. /\ fits \in RunState /\ fits.epoch = run.epoch + 1 /\ fits.cur = run.cur
        /\ fits.gen = run.gen /\ fits.plan = run.plan /\ fits.used.steps = run.used.steps
    BY <1>1, <1>2, <2>1 DEF RunState
  <2> HIDE DEF fits
  <2>3. CASE Return(Fail(fits), "end")
    BY <1>u, <2>2, <2>3, FailedLeaves DEF Carries
  <2>4. CASE Return(InPhase(fits, "plan"), "plan")
    <3> DEFINE p == InPhase(fits, "plan")
    <3>1. /\ p \in RunState /\ Keeps(fits, p) /\ p.status = "running" /\ p.phase = "plan"
      BY <2>2, PhasedRun DEF Phase
    <3>2. p.plan = fits.plan
      BY <2>2, PhasedSame DEF Same
    <3> HIDE DEF p
    <3>3. Return(p, "plan")
      BY <2>4 DEF p
    <3> QED
      BY <1>u, <2>2, <3>1, <3>2, <3>3, Returned DEF Carries, Keeps
  <2> QED
    BY <1>6, <2>3, <2>4
<1> QED
  BY <1>3, <1>4, <1>5, <1>6

\* The checkpoint says of r what a restart needs of it.
Records(r) ==
    /\ ck'.status = r.status /\ ck'.phase = r.phase /\ ck'.gen = r.gen /\ ck'.cur = r.cur
    /\ ck'.used = r.used
    /\ r.status = "interrupted" => ck'.pend = r.pend
    /\ r.status # "interrupted" => ck'.pend.reason = "none"

\* toCheckpoint does.
LEMMA Recorded ==
    ASSUME NEW r \in RunState, ck' = CheckpointOf(r)
    PROVE  Records(r)
BY CheckpointTyped, CheckpointSame DEF Records

\* The checkpoint that a node writes, and the one that runGraph writes last.
LEMMA SaveDoes ==
    ASSUME TypeInv, SaveState \/ Finish
    PROVE  /\ Records(run) /\ UNCHANGED <<plans, ran, everRan>>
           /\ \/ /\ pc = "save" /\ pc' = next /\ next \in Node \cup {"end"}
                 /\ UNCHANGED <<next, loaded, run, cm>>
              \/ /\ pc = "end" /\ pc' = "idle" /\ next' = "end"
                 /\ \/ run.status \in Terminal /\ Unload
                    \/ run.status \notin Terminal /\ UNCHANGED <<loaded, run, cm>>
<1>a. run \in RunState /\ next \in Node \cup {"end"}
  BY DEF TypeInv, TypeOK
<1>1. CASE SaveState
  BY <1>1, <1>a, Recorded DEF SaveState, history
<1>2. CASE Finish
  BY <1>2, <1>a, Recorded DEF Finish, history
<1> QED
  BY <1>1, <1>2

\* An error that surfaces closes the run.
LEMMA CatchDoes ==
    ASSUME TypeInv, Catch
    PROVE  /\ pc = "throw" /\ pc' = "end" /\ UNCHANGED <<next, loaded, cm, plans, ran, everRan>>
           /\ Records(run') /\ Carries /\ run'.epoch = run.epoch /\ run'.pend.reason = "none"
           /\ run'.status \in {"cancelled", "blocked", "failed"}
<1>a. run \in RunState
  BY DEF TypeInv, TypeOK
<1>u. /\ pc = "throw" /\ pc' = "end" /\ UNCHANGED <<next, loaded, cm, plans, ran, everRan>>
      /\ run' = Surfaced(run) /\ ck' = CheckpointOf(run')
  BY DEF Catch, history
<1>1. /\ run' \in RunState /\ Same(run, run') /\ Keeps(run, run')
      /\ run'.status \in {"cancelled", "blocked", "failed"}
      /\ run'.pend.reason = "none"
  BY <1>a, <1>u, ClosedSame, ClosedRun, FailedRun
     DEF Surfaced, RunStatus, Terminal, Phase, NoInterrupt
<1> QED
  BY <1>u, <1>1, Recorded DEF Carries, Same, Keeps

\* cancel() closes the run in the checkpoint and, if the graph is at work, in memory.
LEMMA CancelDoes ==
    ASSUME TypeInv, Cancel
    PROVE  /\ loaded /\ run.status \notin Terminal
           /\ UNCHANGED <<pc, next, plans, ran, everRan>>
           /\ ck'.status = "cancelled" /\ ck'.pend.reason = "none"
           /\ ck'.gen = run.gen /\ ck'.cur = run.cur /\ ck'.used = run.used
           /\ \/ pc = "idle" /\ Unload
              \/ /\ pc # "idle" /\ UNCHANGED loaded /\ cm'.cancelled /\ cm'.live = cm.live
                 /\ Carries /\ run'.used = run.used /\ run'.decided = run.decided
                 /\ run'.status = "cancelled" /\ run'.pend.reason = "none"
<1> DEFINE r == Close(run, "cancelled", "cancelled")
<1>a. run \in RunState /\ cm \in [live : BOOLEAN, epoch : Nat, cancelled : BOOLEAN]
  BY DEF TypeInv, TypeOK
<1>1. /\ r \in RunState /\ Same(run, r) /\ Keeps(run, r) /\ r.status = "cancelled"
      /\ r.pend.reason = "none"
  BY <1>a, ClosedSame, ClosedRun DEF RunStatus, Terminal, Phase
<1>2. /\ loaded /\ run.status \notin Terminal /\ UNCHANGED <<pc, next, plans, ran, everRan>>
      /\ ck' = CheckpointOf(r)
      /\ \/ pc = "idle" /\ Unload
         \/ pc # "idle" /\ UNCHANGED loaded /\ run' = r /\ cm' = [cm EXCEPT !.cancelled = TRUE]
  BY DEF Cancel
<1> HIDE DEF r
<1>3. Records(r)
  BY <1>1, <1>2, Recorded
<1> QED
  BY <1>a, <1>1, <1>2, <1>3 DEF Same, Keeps, Records, Carries

\* restore() rebuilds the run from its checkpoint, and blocks it if an attempt was in flight.
LEMMA RestoreDoes ==
    ASSUME TypeInv, CancelInv, ApprovalInv, Restore
    PROVE  /\ pc = "idle" /\ ~loaded /\ loaded' = TRUE /\ ck.status # "none"
           /\ UNCHANGED <<pc, next, cm, plans, ran, everRan>>
           /\ run'.pend = ck.pend /\ run'.gen = ck.gen /\ run'.cur = ck.cur
           /\ run'.plan = plans[ck.gen] /\ run'.used = ck.used /\ run'.decided = "none"
           /\ ck'.gen = ck.gen /\ ck'.cur = ck.cur /\ ck'.used = ck.used
           /\ \/ /\ run'.status = ck.status /\ run'.phase = ck.phase /\ UNCHANGED ck
                 /\ ~Uncertain
              \/ /\ run'.status = "blocked" /\ ck'.status = "blocked"
                 /\ ck.pend.reason = "none" /\ ck'.pend.reason = "none"
<1> DEFINE blocked == ~ck.hashOk \/ Uncertain
<1>1. /\ pc = "idle" /\ ~loaded /\ loaded' = TRUE /\ ck.status # "none" /\ ck \in Checkpoint
      /\ UNCHANGED <<pc, next, cm, plans, ran, everRan>>
  BY DEF Restore, history, TypeInv, TypeOK
<1>2. blocked => ck.pend.reason = "none"
  BY DEF CancelInv, Uncertain, ApprovalInv, AsksOnly
<1>3. /\ run'.status = (IF blocked THEN "blocked" ELSE ck.status)
      /\ run'.phase = (IF ~ck.hashOk THEN "blocked" ELSE ck.phase)
      /\ run'.pend = ck.pend /\ run'.gen = ck.gen /\ run'.cur = ck.cur
      /\ run'.plan = plans[ck.gen] /\ run'.used = ck.used /\ run'.decided = "none"
  BY DEF Restore, InitialRun
<1>4. CASE blocked
  <2>1. ck' = [ck EXCEPT !.status = "blocked", !.phase = "blocked", !.pend = NoInterrupt,
                         !.hashOk = ~ck.hashOk \/ ck.phase = "blocked"]
    BY <1>4 DEF Restore
  <2> QED
    BY <1>1, <1>2, <1>3, <1>4, <2>1 DEF Checkpoint, NoInterrupt
<1>5. CASE ~blocked
  <2>1. ck' = ck
    BY <1>5 DEF Restore
  <2> QED
    BY <1>1, <1>3, <1>5, <2>1
<1> QED
  BY <1>4, <1>5

\* Steps that leave the run, its plan and the checkpoint alone.
LEMMA QuietDoes ==
    ASSUME TypeInv, ApprovalInv,
           TimedOut \/ CallFails \/ Refused \/ IntentCall \/ PlanCall \/ Resume \/ Recover
             \/ IssueApproval \/ Tick \/ UNCHANGED vars
    PROVE  /\ UNCHANGED <<next, loaded, run, ck, plans, ran, everRan>>
           /\ \/ /\ pc \in Node \cup Awaiting \cup {"resuming"} /\ pc' = "throw"
                 /\ UNCHANGED cm
              \/ /\ <<pc, pc'>> \in {<<"intent", "intent_io">>, <<"plan", "plan_io">>}
                 /\ UNCHANGED cm
              \/ /\ pc = "idle" /\ pc' = "resuming" /\ run.status = "interrupted" /\ loaded
                 /\ cm' = [live |-> TRUE, epoch |-> run.epoch + 1, cancelled |-> FALSE]
              \/ /\ pc = "idle" /\ pc' = run.phase /\ run.status = "running" /\ loaded
                 /\ pc' \in {"intent", "plan", "dispatch", "wait", "inspect"}
                 /\ cm' = IF Aborted THEN [live |-> TRUE, epoch |-> run.epoch, cancelled |-> FALSE]
                          ELSE cm
              \/ UNCHANGED <<pc, cm>>
<1> USE DEF history, Awaiting, Node
<1>1. CASE TimedOut
  BY <1>1 DEF TimedOut, Deadlined, Throw
<1>2. CASE CallFails
  BY <1>2 DEF CallFails, Throw
<1>3. CASE Refused
  BY <1>3 DEF Refused, Throw
<1>4. CASE IntentCall
  BY <1>4 DEF IntentCall, Await
<1>5. CASE PlanCall
  BY <1>5 DEF PlanCall, Await
<1>6. CASE Resume
  BY <1>6 DEF Resume, Await
<1>7. CASE Recover
  <2>1. run.phase \in {"intent", "plan", "dispatch", "wait", "inspect"}
    BY <1>7 DEF Recover, TypeInv, Sound, Planned
  <2> QED
    BY <1>7, <2>1 DEF Recover, Await
<1>8. CASE IssueApproval
  BY <1>8 DEF IssueApproval
<1>9. CASE Tick
  BY <1>9 DEF Tick, memory
<1>10. CASE UNCHANGED vars
  BY <1>10 DEF vars, memory
<1> QED
  BY <1>1, <1>2, <1>3, <1>4, <1>5, <1>6, <1>7, <1>8, <1>9, <1>10

\* A new run begins as the initial one, in its intent node.
LEMMA StartDoes ==
    ASSUME Start
    PROVE  /\ pc = "idle" /\ pc' = "intent" /\ ~loaded /\ loaded' /\ run' = InitialRun
           /\ ck.status = "none" /\ UNCHANGED <<next, ck, plans, ran, everRan>>
           /\ cm' = [live |-> TRUE, epoch |-> 0, cancelled |-> FALSE]
BY DEF Start, Await, history

\* A crash loses what is in memory.
LEMMA CrashDoes ==
    ASSUME Crash
    PROVE  pc' = "idle" /\ next' = "end" /\ Unload /\ UNCHANGED <<ck, plans, ran, everRan>>
BY DEF Crash, history

\* What the initial run says.
LEMMA InitialSays ==
    /\ InitialRun.status = "running" /\ InitialRun.phase = "intent" /\ InitialRun.epoch = 0
    /\ InitialRun.gen = 0 /\ InitialRun.plan = FreshPlan /\ InitialRun.used.steps = 0
    /\ InitialRun.pend.reason = "none" /\ InitialRun.decided = "none"
BY DEF InitialRun, NoInterrupt

\* The disjuncts of a step.
LEMMA Steps ==
    ASSUME [Next]_vars
    PROVE  \/ TimedOut \/ CallFails \/ Refused \/ IntentCall \/ PlanCall \/ Resume \/ Recover
              \/ IssueApproval \/ Tick \/ UNCHANGED vars
           \/ IntentResolved \/ PlanCreated \/ DispatchCall \/ SupervisorDecides
           \/ WaitCall \/ ExecutorReturns
           \/ Inspect \/ Park \/ GateClosed \/ GateOpened \/ Clarified
           \/ SaveState \/ Finish \/ Catch \/ Start \/ Cancel \/ Crash \/ Restore
BY DEF Next, GraphStep

-----------------------------------------------------------------------------
(* The epochs agree                                                        *)

\* The initial state satisfies the epoch invariant.
LEMMA EpochInvInit == Init => EpochInv
BY InitialSays DEF Init, EpochInv, Heading, Working, NoEntry

\* A node that leaves the cancellation entry alone and does not touch the epoch.
LEMMA EpochKept ==
    ASSUME EpochInv, NEW n \in {"gate", "plan", "dispatch", "wait", "inspect", "end"},
           NEW st, Leaves(n, st), UNCHANGED <<loaded, cm>>,
           run'.epoch = run.epoch, pc \in Working \cup {"inspect"}
    PROVE  EpochInv'
BY DEF EpochInv, Heading, Working, Leaves

\* Every step keeps the cancellation manager at the epoch of the run.
LEMMA EpochInvStep ==
    TypeInv /\ CancelInv /\ ApprovalInv /\ EpochInv /\ [Next]_vars => EpochInv'
<1> SUFFICES ASSUME TypeInv, CancelInv, ApprovalInv, EpochInv, [Next]_vars PROVE EpochInv'
  OBVIOUS
<1> USE DEF Node
<1>1. CASE TimedOut \/ CallFails \/ Refused \/ IntentCall \/ PlanCall \/ Resume \/ Recover
             \/ IssueApproval \/ Tick \/ UNCHANGED vars
  BY <1>1, QuietDoes DEF EpochInv, Heading, Working, Awaiting, Aborted
<1>2. CASE IntentResolved
  BY <1>2, IntentDoes, EpochKept DEF Outside, Working
<1>3. CASE PlanCreated
  BY <1>3, PlanDoes, EpochKept DEF Outside, Working
<1>4. CASE DispatchCall
  BY <1>4, DispatchDoes DEF Outside, Working, EpochInv, Heading, Leaves
<1>5. CASE SupervisorDecides
  BY <1>5, SupervisorDoes, EpochKept DEF Outside, Working
<1>6. CASE WaitCall
  BY <1>6, WaitDoes DEF Outside, Working, EpochInv, Heading, Leaves
<1>7. CASE ExecutorReturns
  BY <1>7, ExecutorDoes DEF Outside, Working, EpochInv, Heading, Leaves
<1>8. CASE Inspect
  BY <1>8, InspectDoes, EpochKept DEF Outside, Working
<1>9. CASE Park
  BY <1>9, ParkDoes DEF Outside, Working, EpochInv, Heading, Leaves
<1>10. CASE GateClosed
  BY <1>10, GateClosedDoes DEF Outside, Working, EpochInv, Heading, Leaves
<1>11. CASE GateOpened
  BY <1>11, GateOpenedDoes DEF EpochInv, Working, Heading, Leaves
<1>12. CASE Clarified
  BY <1>12, ClarifiedDoes DEF Outside, EpochInv, Working, Heading, Leaves
<1>13. CASE SaveState \/ Finish
  <2>1. pc = "end" => run.status # "running"
    BY DEF ApprovalInv, Placed, Heading
  <2>2. CASE pc = "save" /\ pc' = next /\ UNCHANGED <<next, loaded, run, cm>>
    BY <1>13, <2>2, SaveDoes DEF EpochInv, Working, Heading
  <2>3. CASE pc' = "idle" /\ Unload
    BY <2>3 DEF EpochInv, Working, Heading, Unload, NoEntry
  <2>4. CASE pc = "end" /\ pc' = "idle" /\ UNCHANGED <<loaded, run, cm>>
    BY <2>1, <2>4 DEF EpochInv, Working, Heading
  <2> QED
    BY <1>13, <2>2, <2>3, <2>4, SaveDoes
<1>14. CASE Catch
  BY <1>14, CatchDoes DEF EpochInv, Working, Heading
<1>15. CASE Start
  BY <1>15, StartDoes, InitialSays DEF EpochInv, Working, Heading
<1>16. CASE Cancel
  <2>1. CASE pc' = "idle" /\ Unload
    BY <2>1 DEF EpochInv, Working, Heading, Unload, NoEntry
  <2>2. CASE pc' # "idle" /\ loaded' /\ cm'.cancelled
    BY <2>2 DEF EpochInv, Working, Heading
  <2> QED
    BY <1>16, <2>1, <2>2, CancelDoes
<1>17. CASE Crash
  BY <1>17, CrashDoes DEF EpochInv, Working, Heading, Unload, NoEntry
<1>18. CASE Restore
  BY <1>18, RestoreDoes DEF EpochInv, Working, Heading
<1> QED
  BY <1>1, <1>2, <1>3, <1>4, <1>5, <1>6, <1>7, <1>8, <1>9, <1>10, <1>11, <1>12, <1>13,
     <1>14, <1>15, <1>16, <1>17, <1>18, Steps

-----------------------------------------------------------------------------
(* The plans are tidy                                                      *)

\* Every plan that has nothing stuck or in flight and nothing ready is done:
\* the first pending step would be ready, as dependencies come first.
LEMMA NothingReady ==
    ASSUME NEW p, Clean(p), Ready(p) = {}
    PROVE  AllDone(p)
<1> DEFINE S == {s \in Step : p[s].status = "pending"}
<1>1. S # {} => FALSE
  <2> SUFFICES ASSUME S # {} PROVE FALSE
    OBVIOUS
  <2>1. S \in SUBSET Nat
    BY StepsAssumption DEF Step
  <2>2. PICK m \in S : \A i \in S : ~ (<<i, m>> \in OpToRel(<, Nat))
    BY <2>1, NatLessThanWellFounded, WFMin
  <2>3. ASSUME NEW d \in DependsOn[m]
        PROVE  p[d].status = "completed"
    <3>1. m \in Step /\ d \in Step /\ d < m /\ d \in Nat /\ m \in Nat
      BY StepsAssumption DEF Step
    <3>2. <<d, m>> \in OpToRel(<, Nat)
      BY <3>1 DEF OpToRel
    <3>3. d \notin S
      BY <2>2, <3>2, Zenon
    <3> QED
      BY <3>1, <3>3 DEF Clean
  <2>4. m \in Ready(p)
    BY <2>3 DEF Ready
  <2> QED
    BY <2>4
<1> QED
  BY <1>1 DEF Clean, AllDone

\* The plan that a checkpoint refers to has an artifact.
LEMMA CkGen == TypeInv => ck.gen \in PlanId
<1> SUFFICES ASSUME TypeInv PROVE ck.gen \in PlanId
  OBVIOUS
<1>1. ck.gen \in Nat /\ ck.used \in Budget /\ ck.gen <= ck.used.replans + 1
  BY DEF TypeInv, TypeOK, Planned, Checkpoint
<1> QED
  BY <1>1, LimitsAssumption DEF Budget, PlanId

\* A step that touches the plan in memory saves it, and no other plan.
LEMMA Touched ==
    ASSUME TypeInv, NEW s, Touches(s), run.gen \in PlanId
    PROVE  /\ plans'[run.gen] = run'.plan
           /\ \A g \in PlanId \ {run.gen} : plans'[g] = plans[g]
BY DEF TypeInv, TypeOK, Touches

\* At work the checkpoint has no interrupt, and outside the dispatch node it
\* does not say that a step is to be chosen.
LEMMA AtWork ==
    ASSUME ApprovalInv, TidyInv, pc \in Working
    PROVE  /\ ck.pend.reason = "none" /\ run.pend.reason = "none" /\ ck.status # "completed"
           /\ run.status \notin {"interrupted", "completed"}
           /\ pc \notin {"dispatch", "dispatch_io"} => ~Choosing(ck)
BY DEF ApprovalInv, Placed, AsksOnly, Heading, Working, TidyInv, PlanTidy, ArtifactTidy

\* The initial state satisfies the invariant.
LEMMA TidyInvInit == Init => TidyInv
BY InitialSays DEF Init, TidyInv, PlanTidy, ArtifactTidy, Heading, NoCheckpoint, OfStep,
   Dispatched, Choosing, NoInterrupt, Working

\* A node that closes the run, or goes to the intent, plan or human gate, and
\* leaves the plan and its artifact alone.
LEMMA TidyLeaves ==
    ASSUME ApprovalInv, TidyInv, NEW n \in {"gate", "plan", "inspect", "end"}, NEW st,
           Leaves(n, st), UNCHANGED <<ck, plans, loaded>>, Carries,
           st = "running" => n = "plan" /\ run'.phase = "plan",
           st = "completed" => n = "end" /\ AllDone(plans[run.gen]),
           run'.pend.reason \in OfStep => Alone(run.plan, run.cur),
           pc \notin {"end", "idle"}
    PROVE  TidyInv'
<1>1. PlanTidy'
  BY DEF PlanTidy, Leaves, Carries, Heading, Dispatched, Choosing, AllDone, Alone, OfStep
<1>2. ArtifactTidy'
  BY DEF TidyInv, ArtifactTidy, Leaves, Carries, Choosing, AllDone, Alone, Clean, InFlight,
     OfStep, Working
<1> QED
  BY <1>1, <1>2 DEF TidyInv

\* The graph's steps up to the end of a turn keep the plans tidy.
LEMMA TidyInvTurn ==
    ASSUME TypeInv, ApprovalInv, TidyInv,
           IntentResolved \/ PlanCreated \/ DispatchCall \/ SupervisorDecides \/ WaitCall
             \/ ExecutorReturns
    PROVE  TidyInv'
<1> USE DEF OfStep
<1>a. /\ run.gen \in PlanId /\ ck.gen \in PlanId
      /\ run.plan \in [Step -> StepState]
  BY RunGen, CkGen DEF TypeInv, TypeOK, RunState
<1>1. CASE IntentResolved
  <2>u. /\ pc = "intent_io" /\ Outside /\ UNCHANGED plans /\ Carries
    BY <1>1, IntentDoes
  <2>1. CASE Leaves("end", "failed")
    BY <2>u, <2>1, TidyLeaves DEF Outside, Leaves
  <2>2. CASE Leaves("gate", "interrupted") /\ run'.pend.reason = "ambiguous_fact"
    BY <2>u, <2>2, TidyLeaves DEF Outside
  <2>3. CASE Leaves("plan", "running") /\ run'.phase = "plan"
    BY <2>u, <2>3, TidyLeaves DEF Outside, Leaves
  <2> QED
    BY <1>1, <2>1, <2>2, <2>3, IntentDoes
<1>2. CASE PlanCreated
  <2>1. CASE Leaves("end", "failed") /\ Carries /\ UNCHANGED plans
    BY <1>2, <2>1, PlanDoes, TidyLeaves DEF Outside, Leaves
  <2>2. CASE /\ Leaves("dispatch", "running") /\ run'.phase = "dispatch"
             /\ run'.plan = FreshPlan /\ pc = "plan_io" /\ Outside
    <3>1. Clean(FreshPlan)
      BY DEF Clean, FreshPlan
    <3>2. /\ ck.pend.reason = "none" /\ ~Choosing(ck) /\ ck.status # "completed"
      BY <2>2, AtWork DEF Working
    <3>3. PlanTidy'
      BY <2>2, <3>1 DEF PlanTidy, Heading, Dispatched, Choosing, Leaves
    <3>4. ArtifactTidy'
      BY <2>2, <3>2 DEF ArtifactTidy, Choosing, Leaves, Outside, Working
    <3> QED
      BY <3>3, <3>4 DEF TidyInv
  <2> QED
    BY <1>2, <2>1, <2>2, PlanDoes
<1>3. CASE DispatchCall
  <2>u. /\ pc = "dispatch" /\ Outside /\ UNCHANGED plans /\ Clean(run.plan)
        /\ run.plan = plans[run.gen] /\ run'.plan = run.plan /\ run'.gen = run.gen
        /\ run.status \notin {"interrupted", "completed"}
    <3>1. pc = "dispatch" /\ Heading({"dispatch"})
      BY <1>3 DEF DispatchCall, Heading
    <3> QED
      BY <1>3, <3>1, DispatchDoes, AtWork DEF TidyInv, PlanTidy, ApprovalInv, Synced, Heading,
         Working
  <2>1. CASE Leaves("end", "completed") /\ Carries /\ Ready(run.plan) = {}
    BY <2>u, <2>1, NothingReady, TidyLeaves DEF Outside, Leaves
  <2>2. CASE /\ pc' = "dispatch_io" /\ run'.cur \in Ready(run.plan)
             /\ run'.status = run.status /\ run'.pend = run.pend /\ run.pend.reason = "none"
    <3>1. PlanTidy'
      BY <2>u, <2>2 DEF TidyInv, PlanTidy, Heading, Dispatched, Ready, Choosing
    <3>2. ArtifactTidy'
      BY <2>u, <2>2 DEF TidyInv, ArtifactTidy, Choosing, Outside, Working
    <3> QED
      BY <3>1, <3>2 DEF TidyInv
  <2>3. CASE pc' = "throw" /\ UNCHANGED run
    BY <2>u, <2>3 DEF TidyInv, PlanTidy, ArtifactTidy, Heading, Dispatched, Choosing, Outside,
       Working
  <2> QED
    BY <1>3, <2>1, <2>2, <2>3, DispatchDoes
<1>4. CASE SupervisorDecides
  <2>u. /\ pc = "dispatch_io" /\ Outside /\ Clean(run.plan) /\ run.cur \in Step
        /\ run.plan[run.cur].status = "pending" /\ run.plan = plans[run.gen]
        /\ run'.gen = run.gen /\ run'.cur = run.cur
    <3>1. pc = "dispatch_io" /\ Heading({"dispatch", "dispatch_io"})
      BY <1>4 DEF SupervisorDecides, Heading
    <3> QED
      BY <1>4, <3>1, SupervisorDoes DEF TidyInv, PlanTidy
  <2>1. CASE (\E st \in {"failed", "blocked"} : Leaves("end", st)) /\ Carries /\ UNCHANGED plans
    BY <2>u, <2>1, TidyLeaves DEF Outside, Leaves
  <2>2. CASE Leaves("gate", "interrupted") /\ Carries /\ UNCHANGED plans
    <3>1. Alone(run.plan, run.cur)
      BY <2>u DEF Alone, Clean
    <3> QED
      BY <2>u, <2>2, <3>1, TidyLeaves DEF Outside
  <2>3. CASE /\ Leaves("wait", "running") /\ run'.phase = "wait"
             /\ Touches(run.cur) /\ run'.plan[run.cur].status = "running"
    <3>1. Alone(run'.plan, run.cur)
      BY <2>u, <2>3 DEF Touches, Alone, Clean
    <3>2. /\ plans'[run.gen] = run'.plan
          /\ \A g \in PlanId \ {run.gen} : plans'[g] = plans[g]
      BY <1>a, <2>3, Touched
    <3>3. PlanTidy'
      BY <2>u, <2>3, <3>1 DEF PlanTidy, Leaves, Heading, Dispatched, Choosing
    <3>4. ck.pend.reason = "none" /\ ck.status # "completed"
      BY <2>u, AtWork DEF Working
    <3>5. Choosing(ck) => Clean(plans'[ck.gen]) \/ InFlight(plans'[ck.gen])
      <4>1. CASE ck.gen = run.gen
        BY <2>u, <2>3, <3>2, <4>1 DEF InFlight
      <4>2. CASE ck.gen # run.gen
        <5>1. plans'[ck.gen] = plans[ck.gen]
          BY <1>a, <3>2, <4>2
        <5> QED
          BY <5>1 DEF TidyInv, ArtifactTidy
      <4> QED
        BY <4>1, <4>2
    <3>6. ArtifactTidy'
      BY <2>u, <2>3, <3>4, <3>5 DEF ArtifactTidy, Choosing, Leaves, Outside, Working
    <3> QED
      BY <3>3, <3>6 DEF TidyInv
  <2> QED
    BY <1>4, <2>1, <2>2, <2>3, SupervisorDoes
<1>5. CASE WaitCall
  <2>u. /\ pc = "wait" /\ UNCHANGED <<loaded, ck, plans>> /\ Carries
        /\ ck.pend.reason = "none" /\ ck.status # "completed" /\ ~Choosing(ck)
        /\ run.pend.reason = "none" /\ run.status # "completed"
    <3>1. pc = "wait"
      BY <1>5 DEF WaitCall
    <3> QED
      BY <1>5, <3>1, WaitDoes, AtWork DEF Working
  <2>1. CASE Leaves("inspect", "failed")
    BY <2>u, <2>1, TidyLeaves DEF Leaves
  <2>2. CASE pc' = "wait_io" /\ run.decided = "dispatch" /\ UNCHANGED run
    BY <2>u, <2>2 DEF TidyInv, PlanTidy, ArtifactTidy, Heading, Dispatched, Choosing, Working
  <2> QED
    BY <1>5, <2>1, <2>2, WaitDoes
<1>6. CASE ExecutorReturns
  <2>u. /\ pc = "wait_io" /\ Outside /\ run.cur \in Step /\ run.pend.reason = "none"
        /\ run'.gen = run.gen /\ run'.cur = run.cur
        /\ Alone(run.plan, run.cur) /\ run.plan[run.cur].status = "running"
        /\ ck.pend.reason = "none" /\ ck.status # "completed" /\ ~Choosing(ck)
        /\ run.status \notin {"interrupted", "completed"}
    <3>1. pc = "wait_io"
      BY <1>6 DEF ExecutorReturns
    <3> QED
      BY <1>6, <3>1, ExecutorDoes, AtWork DEF Working, TidyInv, PlanTidy
  <2>1. CASE /\ pc' = "throw" /\ Carries /\ UNCHANGED plans
             /\ run'.status = run.status /\ run'.pend = run.pend
    BY <2>u, <2>1 DEF TidyInv, PlanTidy, ArtifactTidy, Heading, Dispatched, Choosing, Outside,
       Working
  <2>2. CASE Leaves("inspect", "failed") /\ Carries /\ UNCHANGED plans
    BY <2>u, <2>2, TidyLeaves DEF Outside, Leaves
  <2>3. CASE Leaves("inspect", "interrupted") /\ Carries /\ UNCHANGED plans
    BY <2>u, <2>3, TidyLeaves DEF Outside
  <2>4. ASSUME NEW st, Leaves("inspect", st), Touches(run.cur),
               st \notin {"interrupted", "completed"},
               \/ run'.plan[run.cur].status \in {"completed", "pending"}
               \/ st = "blocked"
        PROVE  TidyInv'
    <3>1. st = "running" => Clean(run'.plan)
      BY <2>u, <2>4 DEF Clean, Alone, Touches
    <3>2. PlanTidy'
      BY <2>u, <2>4, <3>1 DEF PlanTidy, Leaves, Heading, Dispatched, Choosing
    <3>3. ArtifactTidy'
      BY <2>u, <2>4 DEF ArtifactTidy, Choosing, Leaves, Outside, Working
    <3> QED
      BY <3>2, <3>3 DEF TidyInv
  <2> QED
    BY <1>6, <2>u, <2>1, <2>2, <2>3, <2>4, ExecutorDoes
<1> QED
  BY <1>1, <1>2, <1>3, <1>4, <1>5, <1>6

\* So do the end of a turn and the human gate.
LEMMA TidyInvGate ==
    ASSUME TypeInv, ApprovalInv, TidyInv,
           Inspect \/ Park \/ GateClosed \/ GateOpened \/ Clarified
    PROVE  TidyInv'
<1> USE DEF OfStep
<1>a. /\ run.gen \in PlanId /\ ck.gen \in PlanId
  BY RunGen, CkGen
<1>b. run.pend.reason \in OfStep => Alone(run.plan, run.cur)
  BY DEF TidyInv, PlanTidy
<1>c. pc \in {"inspect", "gate", "resuming"} => run.status # "completed"
  BY DEF TidyInv, PlanTidy
<1>1. CASE Inspect
  <2>u. /\ pc = "inspect" /\ Outside /\ UNCHANGED plans /\ Carries /\ run.plan = plans[run.gen]
        /\ run.status # "completed"
    BY <1>1, <1>c, InspectDoes
  <2>c. run.status = "running" => Clean(run.plan)
    BY <2>u DEF TidyInv, PlanTidy, Heading
  <2>1. CASE /\ run.status = "interrupted" /\ Leaves("gate", "interrupted")
             /\ run'.pend.reason \in {run.pend.reason, "none"}
    BY <1>b, <2>u, <2>1, TidyLeaves DEF Outside
  <2>2. CASE run.status \in Terminal /\ Leaves("end", run.status)
    BY <2>u, <2>2, TidyLeaves DEF Outside, Terminal, Leaves
  <2>3. CASE run.status = "running" /\ Leaves("dispatch", "running") /\ run'.phase = "dispatch"
    <3>1. PlanTidy'
      BY <2>u, <2>c, <2>3 DEF PlanTidy, Leaves, Heading, Dispatched, Choosing, Carries
    <3>2. ArtifactTidy'
      BY <2>u, <2>3 DEF TidyInv, ArtifactTidy, Choosing, Leaves, Outside, Working
    <3> QED
      BY <3>1, <3>2 DEF TidyInv
  <2>4. CASE run.status = "running" /\ ~Unfinished(run.plan) /\ Leaves("end", "completed")
    <3>1. AllDone(run.plan)
      BY <2>c, <2>4 DEF AllDone, Clean, Unfinished
    <3> QED
      BY <2>u, <2>4, <3>1, TidyLeaves DEF Outside, Leaves
  <2> QED
    BY <1>1, <2>1, <2>2, <2>3, <2>4, InspectDoes
<1>2. CASE Park
  <2>u. /\ pc = "gate" /\ Outside /\ UNCHANGED plans /\ Carries /\ run.status # "completed"
    BY <1>2, <1>c, ParkDoes
  <2>1. CASE /\ run.status = "interrupted" /\ pc' = "end"
             /\ run'.status = run.status /\ run'.pend = run.pend
    BY <2>u, <2>1 DEF TidyInv, PlanTidy, ArtifactTidy, Heading, Dispatched, Choosing, Outside,
       Carries, Working
  <2>2. CASE run.status \in Terminal /\ Leaves("end", run.status)
    BY <2>u, <2>2, TidyLeaves DEF Outside, Terminal, Leaves
  <2> QED
    BY <1>2, <2>1, <2>2, ParkDoes
<1>3. CASE GateClosed
  <2>u. /\ pc = "resuming" /\ Outside /\ UNCHANGED plans /\ Carries /\ run.status # "completed"
    BY <1>3, <1>c, GateClosedDoes
  <2>1. ASSUME NEW st \in {"cancelled", "blocked", "expired", "failed"}, Leaves("end", st)
        PROVE  TidyInv'
    BY <2>u, <2>1, TidyLeaves DEF Outside, Leaves
  <2> QED
    BY <1>3, <2>u, <2>1, GateClosedDoes DEF Terminal
<1>4. CASE GateOpened
  <2>u. /\ pc = "resuming" /\ UNCHANGED <<loaded, ck>> /\ run.pend.reason \in OfStep
        /\ run.cur \in Step /\ run'.gen = run.gen /\ run'.cur = run.cur
        /\ Leaves("wait", "running") /\ run'.phase = "wait"
        /\ Touches(run.cur) /\ run'.plan[run.cur].status = "running"
    BY <1>4, GateOpenedDoes
  <2>1. Alone(run'.plan, run.cur)
    BY <1>b, <2>u DEF Alone, Touches
  <2>2. plans'[run.gen] = run'.plan
    BY <1>a, <2>u, Touched
  <2>3. PlanTidy'
    BY <2>u, <2>1 DEF PlanTidy, Leaves, Heading, Dispatched, Choosing
  <2>4. /\ ck.status \notin {"running", "completed"}
        /\ ck.pend.reason \in OfStep => ck.gen = run.gen /\ ck.cur = run.cur
    BY <2>u DEF TidyInv, ArtifactTidy, ApprovalInv, Rested, AsksOnly
  <2>5. ArtifactTidy'
    BY <2>u, <2>1, <2>2, <2>4 DEF ArtifactTidy, Choosing, Leaves
  <2> QED
    BY <2>3, <2>5 DEF TidyInv
<1>5. CASE Clarified
  <2>u. /\ pc = "resuming" /\ Outside /\ UNCHANGED plans /\ Carries /\ run.status = "interrupted"
    BY <1>5, ClarifiedDoes
  <2>1. CASE Leaves("end", "failed")
    BY <2>u, <2>1, TidyLeaves DEF Outside, Leaves
  <2>2. CASE Leaves("plan", "running") /\ run'.phase = "plan"
    BY <2>u, <2>2, TidyLeaves DEF Outside, Leaves
  <2>3. CASE pc' = "throw" /\ run'.status = "interrupted" /\ run'.pend.reason = "none"
    BY <2>u, <2>3 DEF TidyInv, PlanTidy, ArtifactTidy, Heading, Dispatched, Choosing, Outside,
       Carries, Working
  <2> QED
    BY <1>5, <2>1, <2>2, <2>3, ClarifiedDoes
<1> QED
  BY <1>1, <1>2, <1>3, <1>4, <1>5

\* So do writing checkpoints, closing the run, restarting and restoring it.
LEMMA TidyInvDurable ==
    ASSUME TypeInv, CancelInv, ApprovalInv, TidyInv,
           SaveState \/ Finish \/ Catch \/ Start \/ Cancel \/ Crash \/ Restore
    PROVE  TidyInv'
<1> USE DEF OfStep
<1>a. run.pend.reason \in OfStep =>
        /\ run.plan = plans[run.gen] /\ Alone(run.plan, run.cur) /\ run.status = "interrupted"
  BY DEF TidyInv, PlanTidy, ApprovalInv, Synced, AsksOnly
<1>i. ASSUME run' = InitialRun, loaded' = FALSE, pc' = "idle", UNCHANGED plans,
             ck'.status # "running",
             ck'.pend.reason \in OfStep => Alone(plans[ck'.gen], ck'.cur),
             ck'.status = "completed" => AllDone(plans[ck'.gen])
      PROVE  TidyInv'
  BY <1>i, InitialSays DEF TidyInv, PlanTidy, ArtifactTidy, Heading, Dispatched, Choosing, Working
<1>1. CASE SaveState \/ Finish
  <2>u. Records(run) /\ UNCHANGED plans
    BY <1>1, SaveDoes
  <2>c. ck'.pend.reason \in OfStep => Alone(plans[ck'.gen], ck'.cur)
    BY <1>a, <2>u DEF Records
  <2>d. ck'.status = "completed" => AllDone(plans[ck'.gen]) /\ run.status = "completed"
    BY <2>u DEF Records, TidyInv, PlanTidy
  <2>1. CASE /\ pc = "save" /\ pc' = next /\ next \in Node \cup {"end"}
             /\ UNCHANGED <<next, loaded, run>>
    <3>1. Choosing(run) =>
            /\ next \in {"dispatch", "inspect"} /\ Clean(run.plan) /\ run.plan = plans[run.gen]
      BY <2>1 DEF TidyInv, PlanTidy, Heading, Choosing, ApprovalInv, Synced
    <3>2. PlanTidy'
      BY <2>u, <2>1 DEF TidyInv, PlanTidy, Heading, Dispatched, Choosing, Node
    <3>3. Choosing(ck)' => Choosing(run) /\ Clean(plans'[ck'.gen])
      BY <2>u, <3>1 DEF Records, Choosing
    <3>4. ck'.status = "completed" => pc' = "end" /\ run'.status = "completed"
      BY <2>1, <2>d DEF TidyInv, PlanTidy
    <3>5. ArtifactTidy'
      BY <2>u, <2>c, <2>d, <2>1, <3>1, <3>3, <3>4 DEF ArtifactTidy, Working, Node, Choosing
    <3> QED
      BY <3>2, <3>5 DEF TidyInv
  <2>2. CASE /\ pc = "end" /\ pc' = "idle" /\ run.status \in Terminal /\ Unload
    <3>1. ck'.status # "running"
      BY <2>u, <2>2 DEF Records, Terminal
    <3> QED
      BY <1>i, <2>u, <2>c, <2>d, <2>2, <3>1 DEF Unload
  <2>3. CASE /\ pc = "end" /\ pc' = "idle" /\ next' = "end" /\ run.status \notin Terminal
             /\ UNCHANGED <<loaded, run>>
    <3>1. run.status \notin {"running", "completed"}
      BY <2>3 DEF ApprovalInv, Placed, Heading, Terminal
    <3>2. PlanTidy'
      BY <2>u, <2>3, <3>1 DEF TidyInv, PlanTidy, Heading, Dispatched, Choosing
    <3>3. ArtifactTidy'
      BY <2>u, <2>c, <2>3, <3>1 DEF ArtifactTidy, Working, Records, Choosing
    <3> QED
      BY <3>2, <3>3 DEF TidyInv
  <2> QED
    BY <1>1, <2>1, <2>2, <2>3, SaveDoes
<1>2. CASE Catch
  <2>1. /\ pc' = "end" /\ UNCHANGED plans /\ Carries /\ run'.pend.reason = "none"
        /\ run'.status \in {"cancelled", "blocked", "failed"}
        /\ ck'.status \in {"cancelled", "blocked", "failed"} /\ ck'.pend.reason = "none"
    BY <1>2, CatchDoes DEF Records
  <2> QED
    BY <2>1 DEF TidyInv, PlanTidy, ArtifactTidy, Heading, Dispatched, Choosing, Working
<1>3. CASE Start
  <2>1. /\ pc' = "intent" /\ run' = InitialRun /\ ck.status = "none" /\ UNCHANGED <<ck, plans>>
    BY <1>3, StartDoes
  <2> QED
    BY <2>1, InitialSays
       DEF TidyInv, PlanTidy, ArtifactTidy, Heading, Dispatched, Choosing, Working
<1>4. CASE Cancel
  <2>u. /\ UNCHANGED <<pc, next, plans>> /\ ck'.status = "cancelled" /\ ck'.pend.reason = "none"
    BY <1>4, CancelDoes
  <2>1. CASE pc = "idle" /\ Unload
    BY <1>i, <2>u, <2>1 DEF Unload
  <2>2. CASE /\ pc # "idle" /\ Carries /\ run'.decided = run.decided
             /\ run'.status = "cancelled" /\ run'.pend.reason = "none"
    <3>1. PlanTidy'
      BY <2>u, <2>2 DEF TidyInv, PlanTidy, Heading, Dispatched, Choosing, Carries
    <3>2. ArtifactTidy'
      BY <2>u, <2>2 DEF ArtifactTidy, Choosing
    <3> QED
      BY <3>1, <3>2 DEF TidyInv
  <2> QED
    BY <1>4, <2>1, <2>2, CancelDoes
<1>5. CASE Crash
  <2>1. /\ pc' = "idle" /\ run' = InitialRun /\ loaded' = FALSE /\ UNCHANGED <<ck, plans>>
    BY <1>5, CrashDoes DEF Unload
  <2> QED
    BY <2>1, InitialSays
       DEF TidyInv, PlanTidy, ArtifactTidy, Heading, Dispatched, Choosing, Working
<1>6. CASE Restore
  <2>u. /\ pc = "idle" /\ UNCHANGED <<pc, next, plans>>
        /\ run'.pend = ck.pend /\ run'.gen = ck.gen /\ run'.cur = ck.cur
        /\ run'.plan = plans[ck.gen] /\ run'.decided = "none"
        /\ ck'.gen = ck.gen /\ ck'.cur = ck.cur
    BY <1>6, RestoreDoes
  <2>1. CASE /\ run'.status = ck.status /\ run'.phase = ck.phase /\ UNCHANGED ck
             /\ ~Uncertain
    <3>1. Choosing(ck) => Clean(plans[ck.gen])
      BY <2>1 DEF Uncertain, Choosing, TidyInv, ArtifactTidy
    <3>2. PlanTidy'
      BY <2>u, <2>1 DEF TidyInv, PlanTidy, ArtifactTidy, Heading, Dispatched, Choosing
    <3>3. ArtifactTidy'
      BY <2>u, <2>1, <3>1 DEF TidyInv, ArtifactTidy, Choosing, Working
    <3> QED
      BY <3>2, <3>3 DEF TidyInv
  <2>2. CASE /\ run'.status = "blocked" /\ ck'.status = "blocked"
             /\ ck.pend.reason = "none" /\ ck'.pend.reason = "none"
    BY <2>u, <2>2 DEF TidyInv, PlanTidy, ArtifactTidy, Heading, Dispatched, Choosing, Working
  <2> QED
    BY <1>6, <2>1, <2>2, RestoreDoes
<1> QED
  BY <1>1, <1>2, <1>3, <1>4, <1>5, <1>6

\* Every step keeps the plans tidy.
LEMMA TidyInvStep ==
    TypeInv /\ CancelInv /\ ApprovalInv /\ TidyInv /\ [Next]_vars => TidyInv'
<1> SUFFICES ASSUME TypeInv, CancelInv, ApprovalInv, TidyInv, [Next]_vars
             PROVE  TidyInv'
  OBVIOUS
<1>1. CASE TimedOut \/ CallFails \/ Refused \/ IntentCall \/ PlanCall \/ Resume \/ Recover
             \/ IssueApproval \/ Tick \/ UNCHANGED vars
  <2>u. UNCHANGED <<next, loaded, run, ck, plans>>
    BY <1>1, QuietDoes
  <2>1. CASE pc \in Node \cup Awaiting \cup {"resuming"} /\ pc' = "throw"
    BY <2>u, <2>1 DEF TidyInv, PlanTidy, ArtifactTidy, Heading, Dispatched, Choosing, Working,
       Node, Awaiting
  <2>2. CASE <<pc, pc'>> \in {<<"intent", "intent_io">>, <<"plan", "plan_io">>}
    BY <2>u, <2>2 DEF TidyInv, PlanTidy, ArtifactTidy, Heading, Dispatched, Choosing, Working
  <2>3. CASE pc = "idle" /\ pc' = "resuming" /\ run.status = "interrupted" /\ loaded
    <3>1. ck.status = "interrupted"
      BY <2>3 DEF ApprovalInv, Rested
    <3> QED
      BY <2>u, <2>3, <3>1
         DEF TidyInv, PlanTidy, ArtifactTidy, Heading, Dispatched, Choosing, Working
  <2>4. CASE /\ pc = "idle" /\ pc' = run.phase /\ run.status = "running" /\ loaded
             /\ pc' \in {"intent", "plan", "dispatch", "wait", "inspect"}
    <3>1. /\ ck.status = "running" /\ run.decided = "none" /\ ck.phase = run.phase
          /\ Choosing(run) => Clean(run.plan)
      BY <2>4 DEF ApprovalInv, Rested, TidyInv, ArtifactTidy
    <3>2. PlanTidy'
      BY <2>u, <2>4, <3>1 DEF TidyInv, PlanTidy, Heading, Dispatched, Choosing
    <3>3. ArtifactTidy'
      BY <2>u, <2>4, <3>1 DEF TidyInv, ArtifactTidy, Choosing, Working
    <3> QED
      BY <3>2, <3>3 DEF TidyInv
  <2>5. CASE UNCHANGED pc
    BY <2>u, <2>5 DEF TidyInv, PlanTidy, ArtifactTidy, Heading, Dispatched, Choosing, Working
  <2> QED
    BY <1>1, <2>1, <2>2, <2>3, <2>4, <2>5, QuietDoes
<1> QED
  BY <1>1, Steps, TidyInvTurn, TidyInvGate, TidyInvDurable

-----------------------------------------------------------------------------
(* Every attempt is paid for                                               *)

\* One more attempt costs one step at most.
LEMMA OneMore ==
    ASSUME NEW S, IsFiniteSet(S), NEW x
    PROVE  /\ IsFiniteSet(S \cup {x}) /\ Cardinality(S) \in Nat /\ Cardinality(S \cup {x}) \in Nat
           /\ Cardinality(S) <= Cardinality(S \cup {x})
           /\ Cardinality(S \cup {x}) <= Cardinality(S) + 1
BY FS_AddElement, FS_CardinalityType

\* The initial state has paid for what it has run: nothing.
LEMMA PaidInvInit == Init => PaidInv
<1> SUFFICES ASSUME Init PROVE PaidInv
  OBVIOUS
<1>1. IsFiniteSet(everRan) /\ Cardinality(everRan) = 0
  BY FS_EmptySet DEF Init
<1>2. Bounded(FreshPlan)
  BY LimitsAssumption DEF Bounded, FreshPlan
<1>3. ck.used.steps = 0 /\ ck.gen = 0 /\ ck.pend.reason = "none"
  BY InitialSays DEF Init, NoCheckpoint, NoInterrupt
<1> QED
  BY <1>1, <1>2, <1>3, InitialSays DEF Init, PaidInv, Heading, Dispatched, OfStep

\* The step budget of a run and of a checkpoint is a natural number.
LEMMA StepsTyped == TypeInv => run.used.steps \in Nat /\ ck.used.steps \in Nat
BY LimitsAssumption DEF TypeInv, TypeOK, RunState, Checkpoint, Budget

\* A step that makes no attempt, leaves the plan and the checkpoint alone and
\* dispatches nothing: what it has to show is that it asks for a paid attempt.
LEMMA PaidKept ==
    ASSUME TypeInv, PaidInv, UNCHANGED <<everRan, ck, plans>>, Carries,
           loaded' => loaded,
           pc' \notin {"dispatch_io", "wait", "wait_io"}, next' # "wait" \/ pc' # "save",
           run'.pend.reason \in OfStep => Covers(run, run.plan)
    PROVE  PaidInv'
BY DEF PaidInv, Carries, Covers, Bounded, Dispatched, Heading

\* Saving a plan in which one step changed keeps the plans within the limit.
LEMMA BoundedTouched ==
    ASSUME TypeInv, PaidInv, run.gen \in PlanId, NEW s \in Step, Touches(s),
           run'.plan[s].status # "completed" => run'.plan[s].attempt < MaxAttempts
    PROVE  Bounded(run'.plan) /\ \A g \in PlanId : Bounded(plans'[g])
<1>1. Bounded(run'.plan)
  BY DEF PaidInv, Bounded, Touches
<1>2. /\ plans'[run.gen] = run'.plan
      /\ \A g \in PlanId \ {run.gen} : plans'[g] = plans[g]
  BY Touched
<1> QED
  BY <1>1, <1>2 DEF PaidInv

\* The graph's steps up to the end of a turn.
LEMMA PaidInvTurn ==
    ASSUME TypeInv, ApprovalInv, EpochInv, TidyInv, PaidInv,
           IntentResolved \/ PlanCreated \/ DispatchCall \/ SupervisorDecides \/ WaitCall
             \/ ExecutorReturns
    PROVE  PaidInv'
<1> USE DEF OfStep
<1>a. /\ run.gen \in PlanId /\ ck.gen \in PlanId
      /\ run.used.steps \in Nat /\ ck.used.steps \in Nat
  BY RunGen, CkGen, StepsTyped
<1>b. /\ IsFiniteSet(everRan) /\ Cardinality(everRan) \in Nat
      /\ Cardinality(everRan) <= ck.used.steps
      /\ loaded => Cardinality(everRan) <= run.used.steps
  BY FS_CardinalityType DEF PaidInv
<1>w. pc \in Working => ck.pend.reason = "none" /\ run.pend.reason = "none"
  BY AtWork
<1>1. CASE IntentResolved
  BY <1>1, <1>w, IntentDoes, PaidKept DEF Outside, Leaves, Working
<1>2. CASE PlanCreated
  <2>1. CASE Leaves("end", "failed") /\ Carries /\ UNCHANGED plans
    BY <1>2, <2>1, PlanDoes, PaidKept DEF Outside, Leaves
  <2>2. CASE /\ Leaves("dispatch", "running") /\ pc = "plan_io" /\ Outside
             /\ run'.used.steps = run.used.steps
             /\ run.gen + 1 \in PlanId /\ run'.gen = run.gen + 1 /\ run'.plan = FreshPlan
             /\ plans' = [plans EXCEPT ![run.gen + 1] = FreshPlan]
    <3>1. Bounded(FreshPlan)
      BY LimitsAssumption DEF Bounded, FreshPlan
    <3>2. Bounded(run'.plan) /\ \A g \in PlanId : Bounded(plans'[g])
      BY <2>2, <3>1 DEF PaidInv, TypeInv, TypeOK
    <3>3. ck.pend.reason = "none"
      BY <1>w, <2>2 DEF Working
    <3> QED
      BY <2>2, <3>2, <3>3 DEF PaidInv, Outside, Leaves, Heading, Dispatched
  <2> QED
    BY <1>2, <2>1, <2>2, PlanDoes
<1>3. CASE DispatchCall
  <2>u. /\ pc = "dispatch" /\ Outside /\ UNCHANGED plans /\ run'.plan = run.plan
        /\ ck.pend.reason = "none" /\ run.pend.reason = "none" /\ loaded
    BY <1>3, <1>w, DispatchDoes DEF Working, EpochInv
  <2>1. CASE Leaves("end", "completed") /\ Carries
    BY <2>u, <2>1, PaidKept DEF Outside, Leaves
  <2>2. CASE /\ pc' = "dispatch_io" /\ run'.used.steps = run.used.steps + 1
             /\ run'.pend = run.pend
    BY <1>a, <1>b, <2>u, <2>2 DEF PaidInv, Outside, Heading, Dispatched
  <2>3. CASE pc' = "throw" /\ UNCHANGED run
    BY <2>u, <2>3, PaidKept DEF Outside, Carries
  <2> QED
    BY <1>3, <2>1, <2>2, <2>3, DispatchDoes
<1>4. CASE SupervisorDecides
  <2>u. /\ pc = "dispatch_io" /\ Outside /\ run.cur \in Step
        /\ run.plan[run.cur].status = "pending"
        /\ run'.gen = run.gen /\ run'.cur = run.cur /\ run'.used.steps = run.used.steps
        /\ ck.pend.reason = "none"
    BY <1>4, <1>w, SupervisorDoes DEF TidyInv, PlanTidy, Working
  <2>c. Covers(run, run.plan)
    <3>1. Cardinality(everRan) < run.used.steps
      BY <2>u DEF PaidInv
    <3> DEFINE k == Key(run, run.cur)
               more == Cardinality(everRan \cup {k})
    <3>2. more \in Nat /\ more <= Cardinality(everRan) + 1
      BY <1>b, OneMore
    <3>3. Covers(run, run.plan) <=> more <= run.used.steps
      BY DEF Covers, Key
    <3> HIDE DEF more
    <3> QED
      BY <1>a, <1>b, <3>1, <3>2, <3>3
  <2>1. CASE (\E st \in {"failed", "blocked"} : Leaves("end", st)) /\ Carries /\ UNCHANGED plans
    BY <2>u, <2>1, PaidKept DEF Outside, Leaves
  <2>2. CASE Leaves("gate", "interrupted") /\ Carries /\ UNCHANGED plans
    BY <2>u, <2>c, <2>2, PaidKept DEF Outside, Leaves
  <2>3. CASE /\ Leaves("wait", "running") /\ Touches(run.cur)
             /\ run'.plan[run.cur].attempt = run.plan[run.cur].attempt
    <3>1. Bounded(run'.plan) /\ \A g \in PlanId : Bounded(plans'[g])
      BY <1>a, <2>u, <2>3, BoundedTouched DEF PaidInv, Bounded
    <3>2. Covers(run, run.plan)'
      BY <2>u, <2>c, <2>3 DEF Covers, Outside
    <3> QED
      BY <2>u, <2>3, <3>1, <3>2 DEF PaidInv, Outside, Leaves, Heading, Dispatched
  <2> QED
    BY <1>4, <2>1, <2>2, <2>3, SupervisorDoes
<1>5. CASE WaitCall
  <2>u. /\ pc = "wait" /\ UNCHANGED <<loaded, ck, plans>> /\ Carries
        /\ ck.pend.reason = "none" /\ run.pend.reason = "none"
    BY <1>5, <1>w, WaitDoes DEF Working
  <2>1. CASE Leaves("inspect", "failed") /\ UNCHANGED everRan
    BY <2>u, <2>1, PaidKept DEF Leaves
  <2>2. CASE /\ pc' = "wait_io" /\ run.decided = "dispatch" /\ UNCHANGED run
             /\ everRan' = everRan \cup {Key(run, run.cur)}
    <3>1. Dispatched
      BY <2>u, <2>2 DEF Dispatched, Heading
    <3>2. /\ Cardinality(everRan') <= run.used.steps /\ ck.used.steps = run.used.steps
      BY <2>u, <2>2, <3>1 DEF PaidInv, Covers, Key
    <3>3. run.cur \in Step /\ run.plan[run.cur].status = "running"
      BY <2>u, <2>2, <3>1 DEF TypeInv, Sound, TidyInv, PlanTidy
    <3>4. Key(run, run.cur)[3] < MaxAttempts
      BY <3>3 DEF PaidInv, Bounded, Key
    <3>5. IsFiniteSet(everRan')
      BY <1>b, <2>2, OneMore
    <3> QED
      BY <2>u, <2>2, <3>2, <3>4, <3>5 DEF PaidInv, Heading, Dispatched
  <2> QED
    BY <1>5, <2>1, <2>2, WaitDoes
<1>6. CASE ExecutorReturns
  <2>u. /\ pc = "wait_io" /\ Outside /\ run.cur \in Step /\ run.pend.reason = "none"
        /\ run'.gen = run.gen /\ run'.cur = run.cur /\ run'.used.steps = run.used.steps
        /\ run.plan[run.cur].status = "running" /\ loaded
        /\ ck.pend.reason = "none"
    BY <1>6, <1>w, ExecutorDoes DEF TidyInv, PlanTidy, Working, EpochInv
  <2>c. Covers(run, run.plan)
    <3>1. Key(run, run.cur) \in everRan
      BY <2>u DEF PaidInv
    <3>2. everRan \cup {Key(run, run.cur)} = everRan
      BY <3>1
    <3> QED
      BY <1>b, <2>u, <3>2 DEF Covers, Key
  <2>1. CASE pc' = "throw" /\ Carries /\ UNCHANGED plans /\ run'.pend = run.pend
    BY <2>u, <2>1, PaidKept DEF Outside
  <2>2. ASSUME NEW st, Leaves("inspect", st), Carries, UNCHANGED plans
        PROVE  PaidInv'
    BY <2>u, <2>c, <2>2, PaidKept DEF Outside, Leaves
  <2>3. ASSUME NEW st, Leaves("inspect", st), Touches(run.cur), st # "interrupted",
               \/ run'.plan[run.cur].status = "completed"
               \/ run'.plan[run.cur].attempt = run.plan[run.cur].attempt
               \/ run'.plan[run.cur].attempt < MaxAttempts
        PROVE  PaidInv'
    <3>1. Bounded(run'.plan) /\ \A g \in PlanId : Bounded(plans'[g])
      BY <1>a, <2>u, <2>3, BoundedTouched DEF PaidInv, Bounded
    <3> QED
      BY <2>u, <2>3, <3>1 DEF PaidInv, Outside, Leaves, Heading, Dispatched
  <2>4. run.status # "interrupted"
    BY <2>u DEF ApprovalInv, Placed, Heading, Working
  <2> QED
    BY <1>6, <2>1, <2>2, <2>3, <2>4, ExecutorDoes
<1> QED
  BY <1>1, <1>2, <1>3, <1>4, <1>5, <1>6

\* The end of a turn and the human gate.
LEMMA PaidInvGate ==
    ASSUME TypeInv, ApprovalInv, TidyInv, PaidInv,
           Inspect \/ Park \/ GateClosed \/ GateOpened \/ Clarified
    PROVE  PaidInv'
<1> USE DEF OfStep
<1>a. run.gen \in PlanId /\ ck.gen \in PlanId
  BY RunGen, CkGen
<1>b. run.pend.reason \in OfStep => Covers(run, run.plan)
  BY DEF PaidInv
<1>1. CASE Inspect
  BY <1>1, <1>b, InspectDoes, PaidKept DEF Outside, Leaves, Terminal
<1>2. CASE Park
  BY <1>2, <1>b, ParkDoes, PaidKept DEF Outside, Leaves, Terminal
<1>3. CASE GateClosed
  BY <1>3, <1>b, GateClosedDoes, PaidKept DEF Outside, Leaves, Terminal
<1>4. CASE GateOpened
  <2>u. /\ pc = "resuming" /\ UNCHANGED <<loaded, ck, everRan>> /\ run.pend.reason \in OfStep
        /\ run.cur \in Step /\ run'.gen = run.gen /\ run'.cur = run.cur /\ run'.used = run.used
        /\ Leaves("wait", "running") /\ Touches(run.cur)
        /\ run'.plan[run.cur].attempt = run.plan[run.cur].attempt
        /\ run.plan = plans[run.gen]
    BY <1>4, GateOpenedDoes
  <2>1. Covers(run, run.plan)'
    BY <1>b, <2>u DEF Covers
  <2>2. Bounded(run'.plan) /\ \A g \in PlanId : Bounded(plans'[g])
    <3>1. run.plan[run.cur].status # "completed"
      BY <2>u DEF TidyInv, PlanTidy, Alone
    <3> QED
      BY <1>a, <2>u, <3>1, BoundedTouched DEF PaidInv, Bounded
  <2>3. ck.pend.reason \in OfStep => Covers(ck, plans'[ck.gen])
    <3>1. ck.pend.reason \in OfStep => ck.gen = run.gen /\ ck.cur = run.cur
      BY <2>u DEF ApprovalInv, Rested, AsksOnly
    <3>2. plans'[run.gen][run.cur].attempt = plans[run.gen][run.cur].attempt
      BY <1>a, <2>u, Touched
    <3> QED
      BY <3>1, <3>2 DEF PaidInv, Covers
  <2> QED
    BY <2>u, <2>1, <2>2, <2>3 DEF PaidInv, Leaves, Heading, Dispatched, Covers
<1>5. CASE Clarified
  BY <1>5, <1>b, ClarifiedDoes, PaidKept DEF Outside, Leaves
<1> QED
  BY <1>1, <1>2, <1>3, <1>4, <1>5

\* Writing checkpoints, closing the run, restarting and restoring it.
LEMMA PaidInvDurable ==
    ASSUME TypeInv, CancelInv, ApprovalInv, EpochInv, PaidInv,
           SaveState \/ Finish \/ Catch \/ Start \/ Cancel \/ Crash \/ Restore
    PROVE  PaidInv'
<1> USE DEF OfStep
<1>a. run.gen \in PlanId /\ ck.gen \in PlanId
  BY RunGen, CkGen
<1>b. run.pend.reason \in OfStep =>
        run.plan = plans[run.gen] /\ run.status = "interrupted" /\ Covers(run, run.plan)
  BY DEF PaidInv, ApprovalInv, Synced, AsksOnly
<1>c. pc # "idle" => loaded /\ Cardinality(everRan) <= run.used.steps
  BY DEF EpochInv, PaidInv
<1>d. Bounded(FreshPlan)
  BY LimitsAssumption DEF Bounded, FreshPlan
<1>i. ASSUME run' = InitialRun, loaded' = FALSE, pc' = "idle", UNCHANGED <<plans, everRan>>,
             ck'.status # "none",
             Cardinality(everRan) <= ck'.used.steps,
             ck'.pend.reason \in OfStep => Covers(ck', plans[ck'.gen])
      PROVE  PaidInv'
  BY <1>d, <1>i, InitialSays DEF PaidInv, Heading, Dispatched, Covers
<1>1. CASE SaveState \/ Finish
  <2>u. Records(run) /\ UNCHANGED <<plans, everRan>> /\ pc # "idle"
    BY <1>1, SaveDoes
  <2>c. ck'.pend.reason \in OfStep => Covers(ck', plans[ck'.gen])
    BY <1>b, <2>u DEF Records, Covers
  <2>d. ck'.used = run.used /\ ck'.status # "none"
    BY <2>u DEF Records, TypeInv, TypeOK, RunState, RunStatus, Terminal
  <2>1. CASE /\ pc = "save" /\ pc' = next /\ next \in Node \cup {"end"}
             /\ UNCHANGED <<next, loaded, run>>
    BY <1>c, <2>u, <2>c, <2>d, <2>1 DEF PaidInv, Node, Heading, Dispatched, Covers
  <2>2. CASE /\ pc = "end" /\ pc' = "idle" /\ Unload
    BY <1>c, <1>i, <2>u, <2>c, <2>d, <2>2 DEF Unload
  <2>3. CASE pc = "end" /\ pc' = "idle" /\ UNCHANGED <<loaded, run>>
    BY <1>c, <2>u, <2>c, <2>d, <2>3 DEF PaidInv, Heading, Dispatched, Covers
  <2> QED
    BY <1>1, <2>1, <2>2, <2>3, SaveDoes
<1>2. CASE Catch
  <2>1. /\ pc = "throw" /\ pc' = "end" /\ UNCHANGED <<plans, everRan, loaded>> /\ Carries
        /\ run'.pend.reason = "none" /\ ck'.pend.reason = "none"
        /\ ck'.status \in {"cancelled", "blocked", "failed"}
        /\ ck'.used.steps = run.used.steps
    BY <1>2, CatchDoes DEF Records, Carries
  <2> QED
    BY <1>c, <2>1 DEF PaidInv, Heading, Dispatched, Carries
<1>3. CASE Start
  <2>1. /\ pc' = "intent" /\ run' = InitialRun /\ ck.status = "none"
        /\ UNCHANGED <<ck, plans, everRan>>
    BY <1>3, StartDoes
  <2>2. Cardinality(everRan) <= 0
    BY <2>1 DEF PaidInv
  <2> QED
    BY <1>d, <2>1, <2>2, InitialSays DEF PaidInv, Heading, Dispatched, Covers
<1>4. CASE Cancel
  <2>u. /\ loaded /\ UNCHANGED <<pc, next, plans, everRan>> /\ ck'.status = "cancelled"
        /\ ck'.pend.reason = "none" /\ ck'.used = run.used
    BY <1>4, CancelDoes
  <2>1. CASE pc = "idle" /\ Unload
    BY <1>i, <2>u, <2>1 DEF Unload, PaidInv
  <2>2. CASE /\ pc # "idle" /\ Carries /\ run'.used = run.used /\ run'.decided = run.decided
             /\ UNCHANGED loaded /\ run'.pend.reason = "none"
    BY <2>u, <2>2 DEF PaidInv, Heading, Dispatched, Carries, Covers, Key
  <2> QED
    BY <1>4, <2>1, <2>2, CancelDoes
<1>5. CASE Crash
  <2>1. /\ pc' = "idle" /\ run' = InitialRun /\ loaded' = FALSE
        /\ UNCHANGED <<ck, plans, everRan>>
    BY <1>5, CrashDoes DEF Unload
  <2> QED
    BY <1>d, <2>1, InitialSays DEF PaidInv, Heading, Dispatched, Covers
<1>6. CASE Restore
  <2>u. /\ pc = "idle" /\ UNCHANGED <<pc, next, plans, everRan>> /\ ck.status # "none"
        /\ run'.pend = ck.pend /\ run'.gen = ck.gen /\ run'.cur = ck.cur
        /\ run'.plan = plans[ck.gen] /\ run'.used = ck.used /\ run'.decided = "none"
        /\ ck'.gen = ck.gen /\ ck'.cur = ck.cur /\ ck'.used = ck.used
        /\ ck'.status # "none"
        /\ ck'.pend.reason \in OfStep => ck.pend.reason \in OfStep
    BY <1>6, RestoreDoes
  <2> QED
    BY <1>a, <2>u DEF PaidInv, Heading, Dispatched, Covers
<1> QED
  BY <1>1, <1>2, <1>3, <1>4, <1>5, <1>6

\* Every step keeps the executions metered.
LEMMA PaidInvStep ==
    TypeInv /\ CancelInv /\ ApprovalInv /\ EpochInv /\ TidyInv /\ PaidInv /\ [Next]_vars
        => PaidInv'
<1> SUFFICES ASSUME TypeInv, CancelInv, ApprovalInv, EpochInv, TidyInv, PaidInv, [Next]_vars
             PROVE  PaidInv'
  OBVIOUS
<1>1. CASE TimedOut \/ CallFails \/ Refused \/ IntentCall \/ PlanCall \/ Resume \/ Recover
             \/ IssueApproval \/ Tick \/ UNCHANGED vars
  <2>1. UNCHANGED <<next, loaded, run, ck, plans, everRan>>
    BY <1>1, QuietDoes
  <2>2. \/ pc' \in {"throw", "intent_io", "plan_io", "resuming"}
        \/ UNCHANGED pc
        \/ /\ pc' \in {"intent", "plan", "dispatch", "wait", "inspect"}
           /\ run.decided = "none"
    BY <1>1, QuietDoes DEF ApprovalInv, Rested
  <2> QED
    BY <2>1, <2>2 DEF PaidInv, Heading, Dispatched, Covers, Key
<1> QED
  BY <1>1, Steps, PaidInvTurn, PaidInvGate, PaidInvDurable

-----------------------------------------------------------------------------
(* What runs is fresh                                                      *)

\* What has run of a plan is behind the plan's artifact.
Behind(ps) == \A k \in ran : LET s == ps[k[1]][k[2]]
                             IN  k[3] <= s.attempt /\ (s.status = "pending" => k[3] < s.attempt)

\* In the initial state nothing has run.
LEMMA FreshInvInit == Init => FreshInv
BY InitialSays DEF Init, FreshInv, Heading, Dispatched, Key

\* Saving a plan leaves what has run behind it, if the step that changed is
\* not pending again at an attempt that ran.
LEMMA BehindTouched ==
    ASSUME TypeInv, FreshInv, run.gen \in PlanId, NEW s \in Step, Touches(s),
           run.plan = plans[run.gen], run'.plan[s].attempt \in Nat,
           \/ /\ run'.plan[s].attempt >= run.plan[s].attempt
              /\ run'.plan[s].status # "pending"
           \/ run'.plan[s].attempt > run.plan[s].attempt
    PROVE  Behind(plans')
<1>1. /\ plans'[run.gen] = run'.plan
      /\ \A g \in PlanId \ {run.gen} : plans'[g] = plans[g]
  BY Touched
<1> SUFFICES ASSUME NEW k \in ran
             PROVE  LET t == plans'[k[1]][k[2]]
                    IN  k[3] <= t.attempt /\ (t.status = "pending" => k[3] < t.attempt)
  BY DEF Behind
<1>2. k[1] \in PlanId /\ k[2] \in Step /\ k[3] \in Nat
  BY DEF TypeInv, TypeOK, KeySet, PlanId
<1>3. LET t == plans[k[1]][k[2]]
      IN  k[3] <= t.attempt /\ (t.status = "pending" => k[3] < t.attempt)
  BY DEF FreshInv
<1>4. CASE k[1] = run.gen /\ k[2] = s
  <2>1. run.plan[s].attempt \in Nat /\ k[3] <= run.plan[s].attempt
    BY <1>3, <1>4 DEF TypeInv, TypeOK, RunState, StepState
  <2>2. plans'[k[1]][k[2]] = run'.plan[s]
    BY <1>1, <1>4
  <2> QED
    BY <1>2, <2>1, <2>2
<1>5. CASE ~(k[1] = run.gen /\ k[2] = s)
  <2>1. plans'[k[1]][k[2]] = plans[k[1]][k[2]]
    BY <1>1, <1>2, <1>5 DEF Touches
  <2> QED
    BY <1>3, <2>1
<1> QED
  BY <1>4, <1>5

\* Steps that run nothing, save no plan and do not lead to the executor.
LEMMA FreshKept ==
    ASSUME FreshInv, UNCHANGED <<ran, plans, ck>>, run'.gen = run.gen, loaded' => loaded,
           pc' # "wait", next' # "wait" \/ pc' # "save"
    PROVE  FreshInv'
BY DEF FreshInv, Heading, Dispatched

\* A restart, and a run that is closed.
LEMMA FreshUnloaded ==
    ASSUME FreshInv, UNCHANGED <<ran, plans>>, loaded' = FALSE, pc' = "idle",
           ck'.gen = ck.gen \/ (ck'.gen = run.gen /\ loaded)
    PROVE  FreshInv'
BY DEF FreshInv, Heading, Dispatched

\* The graph's steps.
LEMMA FreshInvGraph ==
    ASSUME TypeInv, ApprovalInv, EpochInv, TidyInv, FreshInv,
           IntentResolved \/ PlanCreated \/ DispatchCall \/ SupervisorDecides \/ WaitCall
             \/ ExecutorReturns \/ Inspect \/ Park \/ GateClosed \/ GateOpened \/ Clarified
    PROVE  FreshInv'
<1>a. /\ run.gen \in PlanId /\ run.gen \in Nat /\ ran \subseteq KeySet
      /\ run \in RunState /\ run.plan \in [Step -> StepState]
  BY RunGen DEF TypeInv, TypeOK, RunState
<1>1. CASE IntentResolved
  BY <1>1, IntentDoes, FreshKept DEF Outside, Carries, Leaves
<1>2. CASE PlanCreated
  <2>1. CASE Leaves("end", "failed") /\ Carries /\ UNCHANGED plans
    BY <1>2, <2>1, PlanDoes, FreshKept DEF Outside, Carries, Leaves
  <2>2. CASE /\ Leaves("dispatch", "running") /\ Outside /\ run'.gen = run.gen + 1
             /\ plans' = [plans EXCEPT ![run.gen + 1] = FreshPlan]
             /\ run.gen + 1 \in PlanId /\ loaded
    <3>1. \A k \in ran : k[1] <= run.gen /\ k[1] \in Nat /\ k[1] \in PlanId
      BY <1>a, <2>2 DEF FreshInv, KeySet, PlanId
    <3>2. \A k \in ran : plans'[k[1]] = plans[k[1]]
      BY <1>a, <2>2, <3>1 DEF TypeInv, TypeOK
    <3>3. \A k \in ran : k[1] <= run'.gen
      BY <1>a, <2>2, <3>1
    <3> QED
      BY <2>2, <3>2, <3>3 DEF FreshInv, Outside, Leaves, Heading, Dispatched
  <2> QED
    BY <1>2, <2>1, <2>2, PlanDoes DEF EpochInv
<1>3. CASE DispatchCall
  BY <1>3, DispatchDoes, FreshKept DEF Outside, Leaves
<1>4. CASE SupervisorDecides
  <2>u. /\ pc = "dispatch_io" /\ Outside /\ run.cur \in Step /\ run.plan = plans[run.gen]
        /\ run'.gen = run.gen /\ run'.cur = run.cur /\ run.plan[run.cur].status = "pending"
    BY <1>4, SupervisorDoes DEF TidyInv, PlanTidy
  <2>1. ASSUME NEW n \in {"end", "gate"}, NEW st, Leaves(n, st), UNCHANGED plans
        PROVE  FreshInv'
    BY <2>u, <2>1, FreshKept DEF Outside, Leaves
  <2>2. CASE /\ Leaves("wait", "running") /\ Touches(run.cur)
             /\ run'.plan[run.cur].status = "running"
             /\ run'.plan[run.cur].attempt = run.plan[run.cur].attempt
    <3>1. run.plan[run.cur].attempt \in Nat
      BY <1>a, <2>u DEF StepState
    <3>2. Behind(plans')
      BY <1>a, <2>u, <2>2, <3>1, BehindTouched
    <3>3. Key(run, run.cur) \notin ran
      <4> SUFFICES ASSUME Key(run, run.cur) \in ran PROVE FALSE
        OBVIOUS
      <4>1. run.plan[run.cur].attempt < run.plan[run.cur].attempt
        BY <2>u DEF FreshInv, Key
      <4> QED
        BY <3>1, <4>1
    <3>4. Key(run, run.cur)' = Key(run, run.cur)
      BY <2>u, <2>2 DEF Key
    <3> QED
      BY <2>u, <2>2, <3>2, <3>3, <3>4 DEF FreshInv, Outside, Leaves, Behind
  <2> QED
    BY <1>4, <2>1, <2>2, SupervisorDoes
<1>5. CASE WaitCall
  <2>u. pc = "wait" /\ UNCHANGED <<loaded, ck, plans>> /\ Carries /\ run.plan = plans[run.gen]
    BY <1>5, WaitDoes
  <2>1. CASE Leaves("inspect", "failed") /\ UNCHANGED ran
    BY <2>u, <2>1, FreshKept DEF Leaves, Carries
  <2>2. CASE /\ pc' = "wait_io" /\ run.decided = "dispatch" /\ UNCHANGED run
             /\ ran' = ran \cup {Key(run, run.cur)}
    <3> DEFINE k == Key(run, run.cur)
    <3>1. Dispatched
      BY <2>u, <2>2 DEF Dispatched, Heading
    <3>2. run.cur \in Step /\ run.plan[run.cur].status = "running"
      BY <2>u, <2>2, <3>1 DEF TypeInv, Sound, TidyInv, PlanTidy
    <3>3. /\ k[1] = run.gen /\ k[2] = run.cur /\ k[3] = run.plan[run.cur].attempt
          /\ run.plan[run.cur].attempt \in Nat
      BY <1>a, <3>2 DEF Key, StepState
    <3>4. ck.gen = run.gen
      BY <2>u, <2>2 DEF FreshInv
    <3>5. LET s == plans[k[1]][k[2]]
          IN  k[3] <= s.attempt /\ (s.status = "pending" => k[3] < s.attempt)
      BY <2>u, <3>2, <3>3
    <3>6. k[1] <= ck.gen /\ k[1] <= run.gen
      BY <1>a, <3>3, <3>4
    <3> HIDE DEF k
    <3>7. ran' = ran \cup {k}
      BY <2>2 DEF k
    <3> QED
      BY <2>u, <2>2, <3>5, <3>6, <3>7 DEF FreshInv, Heading, Dispatched
  <2> QED
    BY <1>5, <2>1, <2>2, WaitDoes
<1>6. CASE ExecutorReturns
  <2>u. /\ pc = "wait_io" /\ Outside /\ run.cur \in Step /\ run.plan = plans[run.gen]
        /\ run'.gen = run.gen /\ run'.cur = run.cur
    BY <1>6, ExecutorDoes
  <2>1. CASE pc' = "throw" /\ UNCHANGED plans
    BY <2>u, <2>1, FreshKept DEF Outside
  <2>2. ASSUME NEW st, Leaves("inspect", st), UNCHANGED plans
        PROVE  FreshInv'
    BY <2>u, <2>2, FreshKept DEF Outside, Leaves
  <2>3. ASSUME NEW st, Leaves("inspect", st), Touches(run.cur),
               \/ /\ run'.plan[run.cur].attempt >= run.plan[run.cur].attempt
                  /\ run'.plan[run.cur].status # "pending"
               \/ run'.plan[run.cur].attempt > run.plan[run.cur].attempt
        PROVE  FreshInv'
    <3>1. run'.plan[run.cur].attempt \in Nat
      BY <1>6, <2>u, TypeInvStep DEF TypeInv, TypeOK, RunState, StepState, Next, GraphStep
    <3>2. Behind(plans')
      BY <1>a, <2>u, <2>3, <3>1, BehindTouched
    <3> QED
      BY <2>u, <2>3, <3>2 DEF FreshInv, Outside, Leaves, Heading, Dispatched, Behind
  <2>4. run.plan[run.cur].attempt \in Nat
    BY <1>a, <2>u DEF StepState
  <2> QED
    BY <1>6, <2>1, <2>2, <2>3, <2>4, ExecutorDoes
<1>7. CASE Inspect
  BY <1>7, InspectDoes, FreshKept DEF Outside, Carries, Leaves
<1>8. CASE Park
  BY <1>8, ParkDoes, FreshKept DEF Outside, Carries, Leaves
<1>9. CASE GateClosed
  BY <1>9, GateClosedDoes, FreshKept DEF Outside, Carries, Leaves
<1>10. CASE GateOpened
  <2>u. /\ pc = "resuming" /\ UNCHANGED <<loaded, ck>> /\ run.cur \in Step
        /\ run'.gen = run.gen /\ run'.cur = run.cur /\ run.plan = plans[run.gen]
        /\ Leaves("wait", "running") /\ Touches(run.cur)
        /\ run'.plan[run.cur].status = "running"
        /\ run'.plan[run.cur].attempt = run.plan[run.cur].attempt
        /\ ran' = ran \ {Key(run, run.cur)}
    BY <1>10, GateOpenedDoes
  <2>1. run.plan[run.cur].attempt \in Nat
    BY <1>a, <2>u DEF StepState
  <2>2. Behind(plans')
    BY <1>a, <2>u, <2>1, BehindTouched
  <2>3. Key(run, run.cur)' = Key(run, run.cur)
    BY <2>u DEF Key
  <2>4. Key(run, run.cur)' \notin ran'
    BY <2>u, <2>3
  <2> QED
    BY <2>u, <2>2, <2>4 DEF FreshInv, Leaves, Heading, Dispatched, Behind
<1>11. CASE Clarified
  BY <1>11, ClarifiedDoes, FreshKept DEF Outside, Carries, Leaves
<1> QED
  BY <1>1, <1>2, <1>3, <1>4, <1>5, <1>6, <1>7, <1>8, <1>9, <1>10, <1>11

\* Every step keeps what runs fresh.
LEMMA FreshInvStep ==
    TypeInv /\ CancelInv /\ ApprovalInv /\ EpochInv /\ TidyInv /\ PaidInv /\ FreshInv
      /\ [Next]_vars => FreshInv'
<1> SUFFICES ASSUME TypeInv, CancelInv, ApprovalInv, EpochInv, TidyInv, PaidInv, FreshInv,
                    [Next]_vars
             PROVE  FreshInv'
  OBVIOUS
<1>1. CASE TimedOut \/ CallFails \/ Refused \/ IntentCall \/ PlanCall \/ Resume \/ Recover
             \/ IssueApproval \/ Tick \/ UNCHANGED vars
  <2>1. UNCHANGED <<next, loaded, run, ck, plans, ran>>
    BY <1>1, QuietDoes
  <2>2. \/ pc' \in {"throw", "intent_io", "plan_io", "resuming"}
        \/ UNCHANGED pc
        \/ /\ pc' \in {"intent", "plan", "dispatch", "wait", "inspect"}
           /\ run.decided = "none"
    BY <1>1, QuietDoes DEF ApprovalInv, Rested
  <2> QED
    BY <2>1, <2>2 DEF FreshInv, Heading, Dispatched, Key
<1>2. CASE SaveState \/ Finish
  <2>u. /\ ck'.gen = run.gen /\ UNCHANGED <<plans, ran>> /\ loaded
    BY <1>2, SaveDoes DEF Records, EpochInv
  <2>1. CASE /\ pc = "save" /\ pc' = next /\ next \in Node \cup {"end"}
             /\ UNCHANGED <<next, loaded, run>>
    BY <2>u, <2>1 DEF FreshInv, Heading, Dispatched, Node, Key
  <2>2. CASE pc' = "idle" /\ Unload
    BY <2>u, <2>2, FreshUnloaded DEF Unload
  <2>3. CASE pc = "end" /\ pc' = "idle" /\ UNCHANGED <<loaded, run>>
    BY <2>u, <2>3 DEF FreshInv, Heading, Dispatched
  <2> QED
    BY <1>2, <2>1, <2>2, <2>3, SaveDoes
<1>3. CASE Catch
  <2>1. /\ ck'.gen = run.gen /\ UNCHANGED <<plans, ran, loaded>> /\ pc = "throw" /\ pc' = "end"
        /\ run'.gen = run.gen
    BY <1>3, CatchDoes DEF Records, Carries
  <2> QED
    BY <2>1 DEF FreshInv, Heading, Dispatched, EpochInv
<1>4. CASE Start
  <2>1. /\ pc' = "intent" /\ run' = InitialRun /\ ck.status = "none"
        /\ UNCHANGED <<ck, plans, ran>>
    BY <1>4, StartDoes
  <2>2. ck.gen = 0
    BY <2>1 DEF PaidInv
  <2> QED
    BY <2>1, <2>2, InitialSays DEF FreshInv, Heading, Dispatched
<1>5. CASE Cancel
  <2>u. /\ loaded /\ UNCHANGED <<pc, next, plans, ran>> /\ ck'.gen = run.gen
    BY <1>5, CancelDoes
  <2>1. CASE pc = "idle" /\ Unload
    BY <2>u, <2>1, FreshUnloaded DEF Unload
  <2>2. CASE pc # "idle" /\ Carries /\ run'.decided = run.decided /\ UNCHANGED loaded
    BY <2>u, <2>2 DEF FreshInv, Heading, Dispatched, Carries, Key
  <2> QED
    BY <1>5, <2>1, <2>2, CancelDoes
<1>6. CASE Crash
  BY <1>6, CrashDoes, FreshUnloaded DEF Unload
<1>7. CASE Restore
  <2>1. /\ pc = "idle" /\ UNCHANGED <<pc, next, plans, ran>>
        /\ run'.gen = ck.gen /\ run'.decided = "none" /\ ck'.gen = ck.gen
    BY <1>7, RestoreDoes
  <2> QED
    BY <2>1 DEF FreshInv, Heading, Dispatched
<1> QED
  BY <1>1, <1>2, <1>3, <1>4, <1>5, <1>6, <1>7, Steps, FreshInvGraph

-----------------------------------------------------------------------------
(* Theorems about the books                                                *)

BooksInv == EpochInv /\ TidyInv /\ PaidInv /\ FreshInv

\* The books of a run agree in every reachable state: a checkpoint says
\* "completed" only of a plan whose steps all are, every attempt the executor
\* started is paid for in the durable budget and within the limit, and the
\* cancellation manager waits for the epoch the run is in (agent-runtime.ts,
\* budget-manager.ts, cancellation-manager.ts).
THEOREM BooksAgree == Spec => []Consistent
<1>1. TypeInv /\ BooksInv => Consistent
  <2>1. TypeInv /\ TidyInv => CompletedMeansDone
    BY DEF TidyInv, ArtifactTidy, CompletedMeansDone, AllDone
  <2>2. PaidInv => ExecutionsAreMetered
    BY DEF PaidInv, ExecutionsAreMetered
  <2>3. EpochInv => EpochsAgree
    BY DEF EpochInv, EpochsAgree, Awaiting, Heading, Working
  <2> QED
    BY <2>1, <2>2, <2>3 DEF TypeInv, BooksInv, Consistent
<1>2. Init => BooksInv
  BY EpochInvInit, TidyInvInit, PaidInvInit, FreshInvInit DEF BooksInv
<1>3. TypeInv /\ CancelInv /\ ApprovalInv /\ BooksInv /\ [Next]_vars => BooksInv'
  BY EpochInvStep, TidyInvStep, PaidInvStep, FreshInvStep DEF BooksInv
<1> QED
  BY <1>1, <1>2, <1>3, TypeInvInit, TypeInvStep, CancelInvInit, CancelInvStep,
     ApprovalInvInit, ApprovalInvStep, PTL DEF Spec

\* The executor is started for an attempt at most once between two human
\* answers for it, whatever retries, crashes, restores and recoveries.
THEOREM NothingRunsTwice == Spec => NoBlindRerun
<1>1. TypeInv /\ BooksInv /\ [Next]_vars
        => [pc = "wait" /\ pc' = "wait_io" => Key(run, run.cur) \notin ran]_vars
  <2> SUFFICES ASSUME TypeInv, BooksInv, [Next]_vars, pc = "wait", pc' = "wait_io"
               PROVE  Key(run, run.cur) \notin ran
    OBVIOUS
  <2>1. WaitCall
    BY DEF Next, GraphStep, TimedOut, CallFails, Refused, Throw, Awaiting, IntentCall,
       PlanCall, IntentResolved, PlanCreated, DispatchCall, SupervisorDecides,
       ExecutorReturns, Inspect, Park, GateClosed, GateOpened, Answered, Clarified,
       SaveState, Catch, Finish, Start, Resume, Cancel, Recover, Crash, Restore,
       IssueApproval, Tick, vars, memory
  <2>2. run.decided = "dispatch"
    BY <2>1 DEF WaitCall, Return
  <2>3. Dispatched
    BY <2>2 DEF Dispatched, Heading
  <2> QED
    BY <2>3 DEF BooksInv, FreshInv
<1>2. Init => BooksInv
  BY EpochInvInit, TidyInvInit, PaidInvInit, FreshInvInit DEF BooksInv
<1>3. TypeInv /\ CancelInv /\ ApprovalInv /\ BooksInv /\ [Next]_vars => BooksInv'
  BY EpochInvStep, TidyInvStep, PaidInvStep, FreshInvStep DEF BooksInv
<1> QED
  BY <1>1, <1>2, <1>3, TypeInvInit, TypeInvStep, CancelInvInit, CancelInvStep,
     ApprovalInvInit, ApprovalInvStep, PTL DEF Spec, NoBlindRerun
=============================================================================
