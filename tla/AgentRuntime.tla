---------------------------- MODULE AgentRuntime ----------------------------
(***************************************************************************)
(* One run of the Agent Runtime (apps/api/src/agent/runtime): the graph    *)
(* intent -> plan -> dispatch -> wait -> inspect -> ... with its human     *)
(* gate, the cancellation manager, the budget manager, the approval gate,  *)
(* the checkpoint store and the restore path of a restarted process.       *)
(* Runs share nothing (every map of the loop is keyed by runId), so one    *)
(* run is modelled.                                                        *)
(*                                                                         *)
(* A node of the graph is split where the code can be interleaved or can   *)
(* crash: entering the node up to its await ("x"), the awaited call        *)
(* ("x_io"), and the checkpoint written after the callback ("save").       *)
(***************************************************************************)
EXTENDS Integers, FiniteSets

CONSTANTS
    NSteps,        \* steps of a plan
    DependsOn,     \* PlanStep.dependsOn
    Irreversible,  \* steps whose risk is "irreversible"
    MaxAttempts,   \* min(step.maxAttempts, maxAttemptsPerStep)
    MaxSteps, MaxRetries, MaxReplans, MaxToolCalls,  \* BudgetLimits
    Approvals,     \* identities of issued human approvals
    MaxEpoch,      \* bound of the model: human answers to one run
    MaxCrashes     \* bound of the model: process restarts

Step == 1..NSteps
NoStep == 0

\* validatePlan accepts acyclic plans only; steps are numbered so that a
\* dependency precedes its dependants, as both planners produce them.
ASSUME StepsAssumption ==
    /\ NSteps \in Nat \ {0}
    /\ DependsOn \in [Step -> SUBSET Step]
    /\ \A s \in Step : \A d \in DependsOn[s] : d < s
    /\ Irreversible \subseteq Step
ASSUME LimitsAssumption ==
    /\ MaxAttempts \in Nat \ {0}
    /\ MaxSteps \in Nat /\ MaxRetries \in Nat
    /\ MaxReplans \in Nat /\ MaxToolCalls \in Nat
    /\ MaxEpoch \in Nat /\ MaxCrashes \in Nat

Terminal == {"completed", "blocked", "failed", "cancelled", "expired"}
RunStatus == {"running", "interrupted"} \cup Terminal
Phase == {"intent", "plan", "dispatch", "wait", "inspect", "human_gate",
          "complete", "blocked", "fail", "cancelled"}
Node == {"intent", "plan", "dispatch", "wait", "inspect", "gate"}
Reason == {"final_submit", "ambiguous_fact", "other"}

VARIABLES
    pc,       \* where the run's graph invocation stands
    next,     \* the node the conditional edge selected when the callback returned
    err,      \* the error on its way to runGraph's catch
    loaded,   \* states.has(runId)
    run,      \* the RuntimeState object in that map
    cm,       \* the run's CancellationManager entry
    answer,   \* the human answer held in resumeValues
    issued,   \* approval records: approval -> binding
    consumed, \* approval ids consumed at the gate
    late,     \* the wall-clock duration budget is exhausted
    ck,       \* the latest runtime checkpoint (durable)
    plans,    \* plan artifacts by plan identity (durable, updated in place)
    crashes,  \* restarts so far
    \* history, read by the properties only
    ran,      \* step attempts the executor started since the last human answer for them
    everRan,  \* step attempts the executor ever started
    approved, \* step attempts an approval was consumed for
    stopped   \* cancel() returned with the run cancelled

memory == <<pc, next, err, loaded, run, cm, answer, issued, consumed>>
history == <<ran, everRan, approved, stopped>>
vars == <<memory, late, ck, plans, crashes, history>>

-----------------------------------------------------------------------------
(* Values                                                                  *)

StepState == [status : {"pending", "running", "completed", "blocked"}, attempt : Nat]
FreshPlan == [s \in Step |-> [status |-> "pending", attempt |-> 0]]
Budget == [steps : 0..MaxSteps, retries : 0..MaxRetries,
           replans : 0..MaxReplans, toolCalls : 0..MaxToolCalls]

\* What an approval is bound to: the epoch, and the target, snapshot and payload
\* hash, which the supervisor derives from the step.
Binding == [step : Step \cup {NoStep}, epoch : Nat]
NoInterrupt == [reason |-> "none", step |-> NoStep, epoch |-> 0]
Interrupt == [reason : Reason \cup {"none"}, step : Step \cup {NoStep}, epoch : Nat]
NoAnswer == [action |-> "none", approval |-> "none"]
Answer == [action : {"none", "approve", "reject", "confirm", "correct", "cancel"},
           approval : Approvals \cup {"none"}]
Unissued == [step |-> NoStep, epoch |-> 0]

RunState == [status : RunStatus, phase : Phase, epoch : Nat,
             cur : Step \cup {NoStep}, pend : Interrupt,
             gen : Nat,                      \* plan identity, 0: no plan yet
             plan : [Step -> StepState],
             decided : {"none", "dispatch"}, \* lastDecision, in memory only
             used : Budget]

InitialRun == [status |-> "running", phase |-> "intent", epoch |-> 0,
               cur |-> NoStep, pend |-> NoInterrupt, gen |-> 0, plan |-> FreshPlan,
               decided |-> "none",
               used |-> [steps |-> 0, retries |-> 0, replans |-> 0, toolCalls |-> 0]]

Checkpoint == [status : RunStatus \cup {"none"}, phase : Phase, epoch : Nat,
               cur : Step \cup {NoStep}, pend : Interrupt, gen : Nat,
               used : Budget, hashOk : BOOLEAN]

\* A checkpoint keeps the references and counters of the state, not the plan.
NoCheckpoint == [status |-> "none", phase |-> "intent", epoch |-> 0, cur |-> NoStep,
                 pend |-> NoInterrupt, gen |-> 0, used |-> InitialRun.used, hashOk |-> TRUE]
CheckpointOf(r) ==
    [status |-> r.status, phase |-> r.phase, epoch |-> r.epoch, cur |-> r.cur,
     pend |-> IF r.status = "interrupted" THEN r.pend ELSE NoInterrupt,
     gen |-> r.gen, used |-> r.used, hashOk |-> TRUE]

NoEntry == [live |-> FALSE, epoch |-> 0, cancelled |-> FALSE]

\* The attempt of a step that the executor is asked to run.
Key(r, s) == <<r.gen, s, r.plan[s].attempt>>

PlanId == 0..(MaxReplans + 1)

Init ==
    /\ pc = "idle" /\ next = "end" /\ err = "none"
    /\ loaded = FALSE /\ run = InitialRun /\ cm = NoEntry /\ answer = NoAnswer
    /\ issued = [a \in Approvals |-> Unissued] /\ consumed = {}
    /\ late = FALSE
    /\ ck = NoCheckpoint /\ plans = [g \in PlanId |-> FreshPlan] /\ crashes = 0
    /\ ran = {} /\ everRan = {} /\ approved = {} /\ stopped = FALSE

-----------------------------------------------------------------------------
(* Parts shared by the nodes                                               *)

\* persist() and saveState() drop the interrupt of a run that is not interrupted.
Settled(r) == IF r.status = "interrupted" THEN r ELSE [r EXCEPT !.pend = NoInterrupt]

\* The callback returns r; the conditional edge is evaluated on that value.
Return(r, n) == run' = Settled(r) /\ pc' = "save" /\ next' = n /\ err' = err
Throw(e) == pc' = "throw" /\ err' = e /\ UNCHANGED <<next, run>>
Await(p) == pc' = p /\ UNCHANGED <<next, err>>

Close(r, s, p) == [r EXCEPT !.status = s, !.phase = p, !.pend = NoInterrupt]
Fail(r) == Close(r, "failed", "fail")
InPhase(r, p) == [r EXCEPT !.status = "running", !.phase = p]
Asking(r, i) == [r EXCEPT !.status = "interrupted", !.phase = "human_gate", !.pend = i]
Mark(r, s, st) == [r EXCEPT !.plan[s].status = st]

\* savePlan overwrites the artifact that the checkpoint already references.
SavePlan(r) == plans' = [plans EXCEPT ![r.gen] = r.plan]

Aborted_IgnoresCancel == ~cm.live
Aborted == ~cm.live \/ cm.cancelled
Current == ~Aborted /\ cm.epoch = run.epoch

\* nextStep: the first pending step whose dependencies are completed.
Ready(p) == {s \in Step : /\ p[s].status = "pending"
                          /\ \A d \in DependsOn[s] : p[d].status = "completed"}
First(S) == {s \in S : \A t \in S : s <= t}
Unfinished(p) == \E s \in Step : p[s].status \in {"pending", "running"}

\* approvalBindingMatches
Binds(i, r, s) == i.reason = "final_submit" /\ i.step = s /\ i.epoch = r.epoch

\* The interrupts a supervisor or an executor may raise; only a final_submit
\* one carries a binding, which may be malformed (NoStep).
Interrupts(r, s) ==
    [reason : {"ambiguous_fact", "other"}, step : {NoStep}, epoch : {0}]
    \cup [reason : {"final_submit"}, step : {s, NoStep}, epoch : {r.epoch}]

-----------------------------------------------------------------------------
(* The graph                                                               *)

\* Where the duration budget is observed: every node entry, and every awaited
\* call, which runs under a deadline signal.
Awaiting == {"intent_io", "plan_io", "dispatch_io", "wait_io"}
Deadlined_NodesOnly == Node \cup {"resuming"}
Deadlined == Node \cup {"resuming"} \cup Awaiting

\* runNode and runWithDeadline: once the duration budget is exhausted every
\* node entry and every awaited call ends in BudgetExceededError.
TimedOut ==
    /\ late
    /\ pc \in Deadlined
    /\ Throw("budget")
    /\ UNCHANGED <<loaded, cm, answer, issued, consumed, late, ck, plans, crashes, history>>

\* The awaited call rejects, or assertActiveEpoch refuses its result.
CallFails ==
    /\ ~late
    /\ pc \in Awaiting
    /\ Throw("other")
    /\ UNCHANGED <<loaded, cm, answer, issued, consumed, late, ck, plans, crashes, history>>

\* Nodes whose first effect is an awaited call.
IntentCall ==
    /\ pc = "intent" /\ ~late
    /\ Await("intent_io")
    /\ UNCHANGED <<loaded, run, cm, answer, issued, consumed, late, ck, plans, crashes, history>>

PlanCall ==
    /\ pc = "plan" /\ ~late
    /\ Await("plan_io")
    /\ UNCHANGED <<loaded, run, cm, answer, issued, consumed, late, ck, plans, crashes, history>>

IntentResolved ==
    /\ pc = "intent_io" /\ ~late /\ Current
    /\ \/ Return(Fail(run), "end")
       \/ Return(Asking(run, [NoInterrupt EXCEPT !.reason = "ambiguous_fact"]), "gate")
       \/ Return(InPhase(run, "plan"), "plan")
    /\ UNCHANGED <<loaded, cm, answer, issued, consumed, late, ck, plans, crashes, history>>

PlanCreated ==
    /\ pc = "plan_io" /\ ~late /\ Current
    /\ \/ Return(Fail(run), "end") /\ UNCHANGED plans
       \/ LET r == [InPhase(run, "dispatch") EXCEPT !.gen = @ + 1, !.plan = FreshPlan]
          IN  Return(r, "dispatch") /\ SavePlan(r)
    /\ UNCHANGED <<loaded, cm, answer, issued, consumed, late, ck, crashes, history>>

\* assertActive at the top of dispatch and wait
Refused ==
    /\ pc \in {"dispatch", "wait"} /\ ~late /\ Aborted
    /\ Throw("other")
    /\ UNCHANGED <<loaded, cm, answer, issued, consumed, late, ck, plans, crashes, history>>

\* consumeStep
HasSteps(r) == r.used.steps < MaxSteps
Charged(r) == [r EXCEPT !.used.steps = @ + 1]

DispatchCall ==
    /\ pc = "dispatch" /\ ~late /\ ~Aborted
    /\ \/ Ready(run.plan) = {} /\ Return(Close(run, "completed", "complete"), "end")
       \/ /\ Ready(run.plan) # {}
          /\ HasSteps(run)
          /\ \E s \in First(Ready(run.plan)) : run' = [Charged(run) EXCEPT !.cur = s]
          /\ Await("dispatch_io")
       \/ Ready(run.plan) # {} /\ ~HasSteps(run) /\ Throw("budget")
    /\ UNCHANGED <<loaded, cm, answer, issued, consumed, late, ck, plans, crashes, history>>

\* An irreversible step is neither dispatched nor finished: it asks a human.
MayDispatch_Any(s) == TRUE
MayDispatch(s) == s \notin Irreversible
MayAsk(i, r, s) == s \in Irreversible => Binds(i, r, s)

SupervisorDecides ==
    /\ pc = "dispatch_io" /\ ~late /\ Current
    /\ LET s == run.cur
           r == [Mark(InPhase(run, "wait"), s, "running") EXCEPT !.decided = "dispatch"]
       IN  \/ Return(Fail(run), "end") /\ UNCHANGED plans
           \/ /\ MayDispatch(s)
              /\ Return(Close(run, "blocked", "blocked"), "end") /\ UNCHANGED plans
           \/ \E i \in Interrupts(run, s) :
                /\ MayAsk(i, run, s) /\ UNCHANGED plans
                /\ Return([Asking(run, i) EXCEPT !.decided = "none"], "gate")
           \/ MayDispatch(s) /\ Return(r, "wait") /\ SavePlan(r)
    /\ UNCHANGED <<loaded, cm, answer, issued, consumed, late, ck, crashes, history>>

\* The executor starts unless the dispatch decision was lost with a restart.
WaitCall ==
    /\ pc = "wait" /\ ~late /\ ~Aborted
    /\ \/ /\ run.decided = "none"
          /\ Return(Fail(run), "inspect") /\ UNCHANGED <<ran, everRan>>
       \/ /\ run.decided = "dispatch"
          /\ Await("wait_io") /\ UNCHANGED run
          /\ ran' = ran \cup {Key(run, run.cur)}
          /\ everRan' = everRan \cup {Key(run, run.cur)}
    /\ UNCHANGED <<loaded, cm, answer, issued, consumed, late, ck, plans, crashes,
                   approved, stopped>>

\* markStepPending counts the attempt; markStepCompleted makes it at least 1.
Retried_KeepsAttempt(r, s) == Mark(r, s, "pending")
Retried(r, s) == [Mark(r, s, "pending") EXCEPT !.plan[s].attempt = @ + 1]
Done(r, s) == [Mark(r, s, "completed") EXCEPT !.plan[s].attempt = IF @ = 0 THEN 1 ELSE @]
MayRetry(r, s) == r.plan[s].attempt + 1 < MaxAttempts

\* The executor answers; c tool calls are charged before its status is read.
ExecutorReturns ==
    /\ pc = "wait_io" /\ ~late /\ Current
    /\ \E c \in 0..1 :
         IF run.used.toolCalls + c > MaxToolCalls
         THEN Throw("budget") /\ UNCHANGED plans
         ELSE LET r == [run EXCEPT !.used.toolCalls = @ + c]
                  s == run.cur
                  done == [Done(r, s) EXCEPT !.phase = "inspect"]
                  stuck == Close(Mark(r, s, "blocked"), "blocked", "blocked")
                  again == [Retried(r, s) EXCEPT !.phase = "dispatch", !.used.retries = @ + 1]
              IN  \/ Return(Fail(r), "inspect") /\ UNCHANGED plans
                  \/ \E i \in Interrupts(r, s) :
                       /\ i.reason = "final_submit" => Binds(i, r, s)
                       /\ Return(Asking(r, i), "inspect") /\ UNCHANGED plans
                  \/ Return(done, "inspect") /\ SavePlan(done)
                  \/ Return(stuck, "inspect") /\ SavePlan(stuck)
                  \/ /\ MayRetry(r, s) /\ r.used.retries < MaxRetries
                     /\ Return(again, "inspect") /\ SavePlan(again)
                  \/ /\ MayRetry(r, s) /\ r.used.retries = MaxRetries
                     /\ pc' = "throw" /\ err' = "budget" /\ run' = r
                     /\ UNCHANGED <<next, plans>>
    /\ UNCHANGED <<loaded, cm, answer, issued, consumed, late, ck, crashes, history>>

Inspect ==
    /\ pc = "inspect" /\ ~late
    /\ \/ /\ run.status = "interrupted"
          /\ Return([run EXCEPT !.phase = "human_gate"], "gate")
       \/ run.status \in Terminal /\ Return(run, "end")
       \/ /\ run.status = "running" /\ Unfinished(run.plan)
          /\ Return([run EXCEPT !.phase = "dispatch"], "dispatch")
       \/ /\ run.status = "running" /\ ~Unfinished(run.plan)
          /\ Return(Close(run, "completed", "complete"), "end")
    /\ UNCHANGED <<loaded, cm, answer, issued, consumed, late, ck, plans, crashes, history>>

\* First entry of human_gate: interrupt() parks the graph, its invocation ends.
Park ==
    /\ pc = "gate" /\ ~late
    /\ LET r == [run EXCEPT !.phase = "human_gate"]
       IN  \/ run.status = "interrupted" /\ run' = r /\ Await("end")
           \/ run.status \in Terminal /\ Return(r, "end")
    /\ UNCHANGED <<loaded, cm, answer, issued, consumed, late, ck, plans, crashes, history>>

\* approvalGate.verify followed by consume
Verified(a, r) == /\ a \in Approvals \ consumed
                  /\ issued[a].step = r.cur /\ issued[a].epoch = r.epoch
Approves(r) == /\ r.cur # NoStep /\ Binds(r.pend, r, r.cur)
               /\ answer.action = "approve" /\ Verified(answer.approval, r)

\* The status is read again after interrupt() returns: cancel() may have won.
StillAsking_Assumed == TRUE
StillAsking == run.status = "interrupted"

\* Re-entry of human_gate with the human's answer.
GateClosed ==
    /\ pc = "resuming" /\ ~late
    /\ LET r == [run EXCEPT !.phase = "human_gate"]
       IN  \/ run.status \in Terminal /\ Return(r, "end")
           \/ /\ StillAsking /\ answer.action = "cancel"
              /\ Return(Close(run, "cancelled", "cancelled"), "end")
           \/ /\ StillAsking /\ answer.action = "reject"
              /\ Return(Close(run, "blocked", "blocked"), "end")
           \/ /\ StillAsking /\ answer.action \notin {"cancel", "reject"}
              /\ run.pend.reason = "final_submit" =>
                   answer.action = "approve" /\ Binds(run.pend, run, run.cur)
              /\ Return(Close(run, "expired", "fail"), "end")
           \/ \* an approval that is not current, issued, unused and bound to this action
              /\ StillAsking /\ answer.action \notin {"cancel", "reject"}
              /\ run.pend.reason = "final_submit"
              /\ Return(Fail(run), "end")
    /\ UNCHANGED <<loaded, cm, answer, issued, consumed, late, ck, plans, crashes, history>>

Answered == /\ pc = "resuming" /\ ~late /\ StillAsking
            /\ answer.action \notin {"cancel", "reject"}
NextEpoch_Same(r) == [r EXCEPT !.pend = NoInterrupt]
NextEpoch(r) == [r EXCEPT !.epoch = @ + 1, !.pend = NoInterrupt]

\* An accepted answer to an interrupt of a step re-enters wait for that step.
GateOpened ==
    /\ Answered /\ run.pend.reason \in {"final_submit", "other"}
    /\ run.pend.reason = "final_submit" => Approves(run)
    /\ LET r == [Mark(InPhase(NextEpoch(run), "wait"), run.cur, "running")
                   EXCEPT !.decided = "dispatch"]
       IN  Return(r, "wait") /\ SavePlan(r)
    /\ ran' = ran \ {Key(run, run.cur)}
    /\ IF run.pend.reason = "final_submit"
       THEN /\ consumed' = consumed \cup {answer.approval}
            /\ approved' = approved \cup {Key(run, run.cur)}
       ELSE UNCHANGED <<consumed, approved>>
    /\ UNCHANGED <<loaded, cm, answer, issued, late, ck, crashes, everRan, stopped>>

\* A clarified fact is charged to the replans and leads to a new plan.
Clarified ==
    /\ Answered /\ run.pend.reason = "ambiguous_fact"
    /\ LET r == NextEpoch(run)
           fits == [r EXCEPT !.used.replans = @ + 1]
       IN  \/ answer.action \notin {"confirm", "correct"} /\ Return(Fail(r), "end")
           \/ /\ answer.action \in {"confirm", "correct"} /\ r.used.replans < MaxReplans
              /\ \/ Return(Fail(fits), "end")
                 \/ Return(InPhase(fits, "plan"), "plan")
           \/ /\ answer.action \in {"confirm", "correct"} /\ r.used.replans = MaxReplans
              /\ pc' = "throw" /\ err' = "budget" /\ run' = r /\ UNCHANGED next
    /\ UNCHANGED <<loaded, cm, answer, issued, consumed, late, ck, plans, crashes, history>>

\* runNode: the checkpoint is written after the callback.
SaveState ==
    /\ pc = "save"
    /\ ck' = CheckpointOf(run) /\ pc' = next
    /\ UNCHANGED <<next, err, loaded, run, cm, answer, issued, consumed, late, plans,
                   crashes, history>>

\* runGraph's catch: cancellation wins over the error that surfaced.
Surfaced(r) ==
    IF cm.cancelled THEN Close(r, "cancelled", "cancelled")
    ELSE IF err = "budget" THEN Close(r, "blocked", "blocked")
    ELSE Fail(r)
Catch ==
    /\ pc = "throw"
    /\ run' = Surfaced(run)
    /\ ck' = CheckpointOf(run') /\ pc' = "end" /\ err' = "none"
    /\ UNCHANGED <<next, loaded, cm, answer, issued, consumed, late, plans, crashes, history>>

\* runGraph's last saveState, then schedule's cleanup.
Unload == loaded' = FALSE /\ cm' = NoEntry /\ run' = InitialRun
Finish ==
    /\ pc = "end"
    /\ ck' = CheckpointOf(run) /\ pc' = "idle" /\ next' = "end" /\ answer' = NoAnswer
    /\ IF run.status \in Terminal THEN Unload ELSE UNCHANGED <<loaded, cm, run>>
    /\ UNCHANGED <<err, issued, consumed, late, plans, crashes, history>>

-----------------------------------------------------------------------------
(* The operations of AgentRuntime, the process and its environment         *)

Start ==
    /\ pc = "idle" /\ ~loaded /\ ck.status = "none"
    /\ loaded' = TRUE /\ run' = InitialRun
    /\ cm' = [live |-> TRUE, epoch |-> 0, cancelled |-> FALSE]
    /\ Await("intent")
    /\ UNCHANGED <<answer, issued, consumed, late, ck, plans, crashes, history>>

\* resume(): accepted while the run is parked, under the run's lock.
Resume ==
    /\ pc = "idle" /\ loaded /\ run.status = "interrupted"
    /\ run.epoch < MaxEpoch
    /\ answer' \in [action : {"approve", "reject", "confirm", "correct", "cancel"},
                    approval : Approvals \cup {"none"}]
    /\ cm' = [live |-> TRUE, epoch |-> run.epoch + 1, cancelled |-> FALSE]
    /\ Await("resuming")
    /\ UNCHANGED <<loaded, run, issued, consumed, late, ck, plans, crashes, history>>

\* cancel(): it does not wait for the graph, which meets the cancelled entry.
Cancel ==
    /\ loaded /\ run.status \notin Terminal
    /\ LET r == Close(run, "cancelled", "cancelled")
       IN  /\ ck' = CheckpointOf(r)
           /\ IF pc = "idle" THEN Unload
              ELSE run' = r /\ cm' = [cm EXCEPT !.cancelled = TRUE] /\ UNCHANGED loaded
    /\ stopped' = TRUE
    /\ UNCHANGED <<pc, next, err, answer, issued, consumed, late, plans, crashes,
                   ran, everRan, approved>>

\* recover(): a restored run that was running continues at its phase.
Recover ==
    /\ pc = "idle" /\ loaded /\ run.status = "running"
    /\ cm' = IF Aborted THEN [live |-> TRUE, epoch |-> run.epoch, cancelled |-> FALSE] ELSE cm
    /\ Await(run.phase)
    /\ UNCHANGED <<loaded, run, answer, issued, consumed, late, ck, plans, crashes, history>>

\* The process dies: everything but the database is lost.
Crash ==
    /\ loaded /\ crashes < MaxCrashes
    /\ crashes' = crashes + 1
    /\ pc' = "idle" /\ next' = "end" /\ err' = "none" /\ Unload
    /\ answer' = NoAnswer /\ consumed' = {} /\ issued' = [a \in Approvals |-> Unissued]
    /\ UNCHANGED <<late, ck, plans, history>>

\* restore(): every operation on a run that is not in memory begins with it.
InFlight(p) == \E s \in Step : p[s].status = "running"
Uncertain == ck.status = "running" /\ InFlight(plans[ck.gen])
Restore ==
    /\ pc = "idle" /\ ~loaded /\ ck.status # "none"
    /\ loaded' = TRUE
    /\ LET invalid == ~ck.hashOk
           blocked == invalid \/ Uncertain
       IN  /\ run' = [InitialRun EXCEPT
                        !.status = IF blocked THEN "blocked" ELSE ck.status,
                        !.phase = IF invalid THEN "blocked" ELSE ck.phase,
                        !.epoch = ck.epoch, !.cur = ck.cur, !.pend = ck.pend,
                        !.gen = ck.gen, !.plan = plans[ck.gen], !.used = ck.used]
           /\ ck' = IF blocked
                    THEN [ck EXCEPT !.status = "blocked", !.phase = "blocked",
                                    !.pend = NoInterrupt,
                                    !.hashOk = invalid \/ ck.phase = "blocked"]
                    ELSE ck
    /\ UNCHANGED <<pc, next, err, cm, answer, issued, consumed, late, plans, crashes, history>>

\* A human issues an approval for the final_submit action that is pending.
IssueApproval ==
    /\ pc = "idle" /\ loaded /\ run.pend.reason = "final_submit"
    /\ \E a \in Approvals :
         /\ issued[a] = Unissued
         /\ issued' = [issued EXCEPT ![a] = [step |-> run.pend.step, epoch |-> run.pend.epoch]]
    /\ UNCHANGED <<pc, next, err, loaded, run, cm, answer, consumed, late, ck, plans,
                   crashes, history>>

\* The 15 minutes of the run have passed.
Tick == late' = TRUE /\ ~late /\ UNCHANGED <<memory, ck, plans, crashes, history>>

GraphStep ==
    \/ TimedOut \/ CallFails \/ Refused
    \/ IntentCall \/ IntentResolved \/ PlanCall \/ PlanCreated
    \/ DispatchCall \/ SupervisorDecides \/ WaitCall \/ ExecutorReturns
    \/ Inspect \/ Park \/ GateClosed \/ GateOpened \/ Clarified
    \/ SaveState \/ Catch \/ Finish

Next ==
    \/ GraphStep
    \/ Start \/ Resume \/ Cancel \/ Recover
    \/ Crash \/ Restore \/ IssueApproval \/ Tick

Spec == Init /\ [][Next]_vars

\* The event loop runs the graph's continuations, and awaited calls settle:
\* they are given a deadline signal, and the browser client bounds its requests.
FairSpec == Spec /\ WF_vars(GraphStep)

-----------------------------------------------------------------------------
(* Properties                                                              *)

PC == Node \cup Awaiting \cup {"idle", "resuming", "save", "throw", "end"}
KeySet == (0..(MaxReplans + 1)) \X Step \X Nat

TypeOK ==
    /\ pc \in PC /\ next \in Node \cup {"end"} /\ err \in {"none", "budget", "other"}
    /\ loaded \in BOOLEAN /\ run \in RunState /\ answer \in Answer
    /\ cm \in [live : BOOLEAN, epoch : Nat, cancelled : BOOLEAN]
    /\ issued \in [Approvals -> Binding] /\ consumed \subseteq Approvals
    /\ late \in BOOLEAN /\ crashes \in 0..MaxCrashes /\ stopped \in BOOLEAN
    /\ ck \in Checkpoint
    /\ plans \in [PlanId -> [Step -> StepState]]
    /\ ran \subseteq KeySet /\ everRan \subseteq KeySet /\ approved \subseteq KeySet

\* A run whose cancel() returned stays cancelled in the checkpoint store:
\* neither the graph that is still unwinding (catch, final saveState) nor a
\* restart writes another status over it.
CancelIsFinal == stopped => ck.status = "cancelled"

\* No attempt of an irreversible step is handed to the executor unless an
\* issued, unused approval bound to that step and epoch was consumed for that
\* very attempt: a retry or a restart needs a new one.
IrreversibleNeedsApproval ==
    \A k \in everRan : k[2] \in Irreversible => k \in approved

\* A checkpoint says "completed" only if every step of its plan completed: the
\* "no ready step" exit of dispatch never hides a step that was left behind.
CompletedMeansDone ==
    ck.status = "completed" => \A s \in Step : plans[ck.gen][s].status = "completed"

\* Every attempt the executor ever started is paid for in the durable budget,
\* so restarts cannot reset the step budget; and attempts stay within the limit.
ExecutionsAreMetered ==
    /\ Cardinality(everRan) <= ck.used.steps
    /\ \A k \in everRan : k[3] < MaxAttempts

\* While a result is awaited, the epoch registered with the cancellation
\* manager is that of the state: answering a human gate never orphans the
\* invocation that carries the answer.
EpochsAgree ==
    pc \in Awaiting /\ ~cm.cancelled
        => cm.live /\ cm.epoch = run.epoch

\* The executor is started for an attempt at most once between two human
\* answers for it, across retries, crashes, restores and recoveries.
NoBlindRerun ==
    [][pc = "wait" /\ pc' = "wait_io" => Key(run, run.cur) \notin ran]_vars

\* Cancellation prevents new side-effect actions from starting.
NoStartAfterCancel == [][pc = "wait" /\ pc' = "wait_io" => ~stopped]_vars

\* The checkpoints of a run follow the lifecycle that RunLifecycle states: a
\* closed run is never reopened, a waiting run goes on only with an answer and
\* in a new epoch, and the epoch never goes back, whatever interleaving of the
\* graph, cancel(), resume(), crashes and restores produced them.
Lifecycle == INSTANCE RunLifecycle WITH status <- ck.status, epoch <- ck.epoch
ImplementsLifecycle == Lifecycle!Spec

\* The graph always comes to rest with an outcome on disk or a question to a
\* human: every loop through it is bounded, every awaited call has a deadline.
Settles == pc # "idle" ~> pc = "idle" /\ (loaded => ck.status # "running")

\* The books of a run agree with one another: types, a completed plan, the
\* metered budget, the epoch the cancellation manager knows.
Consistent == TypeOK /\ CompletedMeansDone /\ ExecutionsAreMetered /\ EpochsAgree

\* A cancelled run stays cancelled and starts nothing more.
CancelHolds ==
    [][CancelIsFinal' /\ (pc = "wait" /\ pc' = "wait_io" => ~stopped)]_vars
=============================================================================
