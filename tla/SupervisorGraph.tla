---------------------------- MODULE SupervisorGraph ----------------------------
(***************************************************************************)
(* The supervisor graph (apps/api/src/agent/supervisor) and the policy     *)
(* engine, approval gate, invocation permits and capability catalog it     *)
(* executes through (agent/policy, agent/capabilities).                    *)
(*                                                                         *)
(* The graph is checkpointed after every node, and a crash starts the      *)
(* interrupted node again; approvals, permits, the answer of the human and *)
(* the results kept by idempotency key live in memory.  The plan is a      *)
(* chain of steps; an irreversible one runs final_submit through the       *)
(* catalog, the others go to their specialist or to another capability.    *)
(* One execution epoch: a graph has the epoch it was created with.         *)
(***************************************************************************)
EXTENDS Naturals, FiniteSets

CONSTANTS
  Steps,          \* number of steps of the plan
  Irreversible,   \* the steps that submit
  Tools,          \* the other steps that invoke a capability
  MaxAttempts,    \* of a step that is not irreversible
  MaxSteps, MaxRetries, MaxReplans, \* budget limits
  MaxIterations,
  MaxApprovals,   \* bound on the approvals a human issues
  MaxCrashes      \* bound on crashes

ASSUME ConstantsAssumption ==
  /\ Steps \in Nat \ {0}
  /\ Irreversible \subseteq 1..Steps /\ Tools \subseteq 1..Steps
  /\ Irreversible \cap Tools = {}
  /\ MaxAttempts \in Nat \ {0}
  /\ MaxSteps \in Nat /\ MaxRetries \in Nat /\ MaxReplans \in Nat
  /\ MaxIterations \in Nat /\ MaxApprovals \in Nat /\ MaxCrashes \in Nat

VARIABLES
  node,       \* the node to run next, or the point the executing node is at
  status,
  plan,       \* step -> [status, attempt]
  revision,
  binding,    \* what the irreversible step's approval must be bound to, 0 for none
  current,    \* currentStepId, 0 for none
  decision,   \* "none", "agent", "tool", "ask" or "finish"
  approved,   \* revision of the approval of the current step, 0 for none
  budget,     \* [steps, retries, replans, iteration]
  answer,     \* in memory: the approval in the human's resume, 0 for none
  issued,     \* in memory: approval -> what it is bound to
  consumed,   \* in memory: approvals consumed
  permit,     \* in memory: the approval the permit will consume, 0 for none
  kept,       \* in memory: idempotency keys whose operation was started
  shown,      \* what the human was asked to approve: [revision, binding]
  effects,    \* handlers and agents started: [step, revision, attempt, approval]
  repeats,    \* attempts that were started more than once
  crashes

state == <<status, plan, revision, binding, current, decision, approved, budget>>
memory == <<answer, issued, consumed, permit, kept>>
vars == <<node, state, memory, shown, effects, repeats, crashes>>

StepIds == 1..Steps
Terminal == {"completed", "blocked", "failed", "cancelled"}
Approvals == 1..MaxApprovals
Unbound == [revision |-> 0, binding |-> 0]

\* The planner's chain.
NewPlan == [s \in StepIds |-> [status |-> "pending", attempt |-> 0]]

Init ==
  /\ node = "planning" /\ status = "running"
  /\ plan = NewPlan
  /\ revision = 1 /\ binding = 0
  /\ current = 0 /\ decision = "none" /\ approved = 0
  /\ budget = [steps |-> 0, retries |-> 0, replans |-> 0, iteration |-> 0]
  /\ answer = 0 /\ issued = [a \in Approvals |-> Unbound] /\ consumed = {}
  /\ permit = 0 /\ kept = {}
  /\ shown = Unbound
  /\ effects = {} /\ repeats = {} /\ crashes = 0

-----------------------------------------------------------------------------
(* Ends of a node.                                                         *)

End(st) == node' = "end" /\ status' = st

\* failure(): the rest of the state stays as the last node left it.
Fail(st) ==
  /\ End(st)
  /\ UNCHANGED <<plan, revision, binding, current, decision, approved, budget>>

Exceeded(b) ==
  \/ b.steps > MaxSteps \/ b.retries > MaxRetries \/ b.replans > MaxReplans

\* The step is left: whoever runs next decides anew.
Forgets == current' = 0 /\ decision' = "none" /\ approved' = 0

-----------------------------------------------------------------------------
(* planning, supervising, routing, claiming.                               *)

\* PlanValidator.validate finds an error other than a missing approval binding.
PlanRefused == Fail("blocked")

\* The planner may fail too.
Planning ==
  /\ node = "planning"
  /\ \/ (node' = "supervising" /\ UNCHANGED state)
     \/ PlanRefused
     \/ Fail("failed")
  /\ UNCHANGED <<memory, shown, effects, repeats, crashes>>

Settled(s) == plan[s].status = "completed"

\* nextReadyStep of a chain.
Ready == {s \in StepIds : plan[s].status = "pending" /\ \A d \in 1..(s - 1) : Settled(d)}

Act(s) == IF s \in Irreversible \cup Tools THEN "tool" ELSE "agent"

\* A supervisor decides what decisionBindingError lets through; the one of the
\* repository asks the human for every irreversible step.
Proposals(s) == {"ask", Act(s)}

\* Once a step has been approved in this revision the graph decides for it.
Decisions(s) == IF current = s /\ approved = revision THEN {Act(s)} ELSE Proposals(s)

Supervising ==
  /\ node = "supervising"
  /\ \/ Fail("failed")                        \* an invalid answer, or one too many
     \/ Fail("blocked")                       \* not bound to the step, or out of time
     \/ /\ budget.iteration < MaxIterations
        /\ ~Exceeded(budget)
        /\ IF Ready # {}
           THEN LET s == CHOOSE r \in Ready : TRUE
                IN current' = s /\ decision' \in Decisions(s)
           ELSE /\ \A s \in StepIds : Settled(s)
                /\ decision' = "finish" /\ UNCHANGED current
        /\ node' = "routing"
        /\ budget' = [budget EXCEPT !.iteration = @ + 1]
        /\ UNCHANGED <<status, plan, revision, binding, approved>>
  /\ UNCHANGED <<memory, shown, effects, repeats, crashes>>

\* An irreversible step is bound to the page the human will be shown.
RoutesToHuman ==
  /\ decision = "ask"
  /\ IF current \in Irreversible
     THEN \E b \in {1, 2} :
            /\ binding' = b
            /\ shown' = [revision |-> revision, binding |-> b]
     ELSE shown' = Unbound /\ UNCHANGED binding
  /\ node' = "human_gate" /\ status' = "interrupted"
  /\ UNCHANGED <<plan, revision, current, decision, approved, budget>>

\* completionValidation: every completed step has evidence it registered, and
\* the store still knows it.
Finishes ==
  /\ decision = "finish"
  /\ (End("completed") \/ End("blocked"))
  /\ UNCHANGED <<plan, revision, binding, current, decision, approved, budget, shown>>

Routing ==
  /\ node = "routing"
  /\ \/ RoutesToHuman
     \/ (decision = "ask" /\ Fail("blocked") /\ UNCHANGED shown)
     \/ Finishes
     \/ /\ decision \in {"agent", "tool"}
        /\ node' = "claiming"
        /\ UNCHANGED <<state, shown>>
  /\ UNCHANGED <<memory, effects, repeats, crashes>>

Attempts(s) == IF s \in Irreversible THEN 1 ELSE MaxAttempts

Claimable(s) == plan[s].status = "pending" /\ plan[s].attempt < Attempts(s)

Claiming ==
  LET b == [budget EXCEPT !.steps = @ + 1]
  IN /\ node = "claiming"
     /\ IF Claimable(current) /\ ~Exceeded(b)
        THEN /\ plan' = [plan EXCEPT ![current] =
                  [status |-> "running", attempt |-> @.attempt + 1]]
             /\ budget' = b
             /\ node' = "executing"
             /\ UNCHANGED <<status, revision, binding, current, decision, approved>>
        ELSE Fail("blocked")
     /\ UNCHANGED <<memory, shown, effects, repeats, crashes>>

-----------------------------------------------------------------------------
(* human_gate.                                                             *)

\* The human issues an approval of what the interruption shows.
IssueApproval(a) ==
  /\ node = "human_gate" /\ shown # Unbound
  /\ issued[a] = Unbound
  /\ \A b \in Approvals : b < a => issued[b] # Unbound
  /\ issued' = [issued EXCEPT ![a] = shown]
  /\ UNCHANGED <<node, state, answer, consumed, permit, kept, shown, effects, repeats, crashes>>

\* The failed step and those not completed start over in a new revision.
Replan_SameRevision(b) ==
  /\ plan' = [t \in StepIds |->
       IF Settled(t) THEN plan[t] ELSE [status |-> "pending", attempt |-> 0]]
  /\ UNCHANGED revision
  /\ binding' = 0
  /\ Forgets
  /\ budget' = b
  /\ node' = "supervising" /\ status' = "running"

Replan(b) ==
  /\ plan' = [t \in StepIds |->
       IF Settled(t) THEN plan[t] ELSE [status |-> "pending", attempt |-> 0]]
  /\ revision' = revision + 1
  /\ binding' = 0
  /\ Forgets
  /\ budget' = b
  /\ node' = "supervising" /\ status' = "running"

\* A new plan, unless the replanner fails, its plan is refused or the budget is.
Corrects ==
  LET b == [budget EXCEPT !.replans = @ + 1]
  IN \/ (~Exceeded(b) /\ Replan(b))
     \/ Fail("blocked")

\* The answer brings no approval, or one the human has, an old one included.

Confirms ==
  /\ \E a \in {0} \cup {b \in Approvals : issued[b] # Unbound} : answer' = a
  /\ approved' = revision
  /\ node' = "supervising" /\ status' = "running"
  /\ UNCHANGED <<plan, revision, binding, current, decision, budget>>

\* An approval cannot be answered with a correction.
HumanGate ==
  /\ node = "human_gate"
  /\ \/ Confirms
     \/ (current \notin Irreversible /\ Corrects /\ UNCHANGED answer)
     \/ \E st \in {"cancelled", "blocked", "failed"} : Fail(st) /\ UNCHANGED answer
  /\ UNCHANGED <<issued, consumed, permit, kept, shown, effects, repeats, crashes>>

-----------------------------------------------------------------------------
(* executing.                                                              *)

Key == [step |-> current, revision |-> revision, attempt |-> plan[current].attempt]

\* ApprovalGate.verify against the binding of the step in this plan.
Verified_Any(a) == a # 0 /\ issued[a] # Unbound

Verified(a) ==
  /\ a # 0
  /\ issued[a] = [revision |-> revision, binding |-> binding]
  /\ a \notin consumed

\* PolicyEngine.authorize: a permit that will consume the approval.
Authorize ==
  /\ node = "executing" /\ decision = "tool"
  /\ \/ /\ current \in Irreversible => Verified(answer)
        /\ permit' = IF current \in Irreversible THEN answer ELSE 0
        /\ node' = "permitted"
        /\ UNCHANGED <<state, answer>>
     \/ Fail("blocked") /\ answer' = 0 /\ UNCHANGED permit
  /\ UNCHANGED <<issued, consumed, kept, shown, effects, repeats, crashes>>

Starts(a) ==
  /\ effects' = effects \cup {[step |-> current, revision |-> revision,
                               attempt |-> plan[current].attempt, approval |-> a,
                               asked |-> shown, granted |-> IF a = 0 THEN Unbound ELSE issued[a]]}
  /\ repeats' = IF \E e \in effects : e.step = current /\ e.revision = revision
                                      /\ e.attempt = plan[current].attempt
                THEN repeats \cup {Key} ELSE repeats

ConsumesApproval(a) == consumed' = consumed \cup ({a} \ {0})

\* CapabilityCatalog.invoke: the permit is consumed with its approval before the
\* handler starts; a known idempotency key joins the operation started before.
Invoke ==
  /\ node = "permitted"
  /\ \/ /\ permit \notin consumed
        /\ ConsumesApproval(permit)
        /\ IF Key \in kept
           THEN UNCHANGED <<kept, effects, repeats>>
           ELSE kept' = kept \cup {Key} /\ Starts(permit)
        /\ node' = "running"
        /\ UNCHANGED <<state, answer>>
     \/ Fail("failed") /\ answer' = 0 /\ UNCHANGED <<consumed, kept, effects, repeats>>
  /\ permit' = 0
  /\ UNCHANGED <<issued, shown, crashes>>

Dispatch ==
  /\ node = "executing" /\ decision = "agent"
  /\ Starts(0)
  /\ node' = "running"
  /\ UNCHANGED <<state, memory, shown, crashes>>

Completes ==
  /\ plan' = [plan EXCEPT ![current].status = "completed"]
  /\ Forgets
  /\ node' = "supervising"
  /\ UNCHANGED <<status, revision, binding, budget>>

Retries ==
  LET b == [budget EXCEPT !.retries = @ + 1]
  IN /\ plan[current].attempt < Attempts(current)
     /\ ~Exceeded(b)
     /\ plan' = [plan EXCEPT ![current].status = "pending"]
     /\ budget' = b
     /\ Forgets
     /\ node' = "supervising"
     /\ UNCHANGED <<status, revision, binding>>

\* What the agent or the handler answers, evidence refused or out of budget
\* included; the human's answer is used up.
Answered ==
  /\ node = "running"
  /\ \/ Completes
     \/ Retries
     \/ Corrects                               \* replanned, or the replanner failed
     \/ \E st \in {"blocked", "failed"} : Fail(st)
  /\ answer' = 0
  /\ UNCHANGED <<issued, consumed, permit, kept, shown, effects, repeats, crashes>>

-----------------------------------------------------------------------------
(* Crashes.                                                                *)

\* The node starts again from its checkpoint, with an empty memory.
Crash ==
  /\ node # "end"
  /\ crashes < MaxCrashes
  /\ crashes' = crashes + 1
  /\ node' = IF node \in {"permitted", "running"} THEN "executing" ELSE node
  /\ answer' = 0 /\ issued' = [a \in Approvals |->
       IF issued[a] = Unbound THEN Unbound ELSE [revision |-> 0, binding |-> 3]]
  /\ consumed' = {} /\ permit' = 0 /\ kept' = {}
  /\ UNCHANGED <<state, shown, effects, repeats>>

-----------------------------------------------------------------------------

Graph ==
  \/ Planning \/ Supervising \/ Routing \/ Claiming
  \/ Authorize \/ Invoke \/ Dispatch \/ Answered

Next ==
  \/ Graph
  \/ HumanGate
  \/ \E a \in Approvals : IssueApproval(a)
  \/ Crash

Spec == Init /\ [][Next]_vars

-----------------------------------------------------------------------------
(* Properties.                                                             *)

\* The variables have their types.
TypeOK ==
  /\ status \in {"running", "interrupted"} \cup Terminal
  /\ plan \in [StepIds -> [status : {"pending", "running", "completed"}, attempt : Nat]]
  /\ \A s \in StepIds : plan[s].attempt <= Attempts(s)
  /\ revision \in Nat \ {0} /\ binding \in 0..2
  /\ current \in 0..Steps /\ decision \in {"none", "agent", "tool", "ask", "finish"}
  /\ answer \in 0..MaxApprovals /\ permit \in 0..MaxApprovals
  /\ consumed \subseteq Approvals
  /\ (node = "end") <=> (status \in Terminal)
  /\ (node = "human_gate") <=> (status = "interrupted")

Submissions == {e \in effects : e.step \in Irreversible}

\* Every start of final_submit used an approval of its own, for what the human was
\* last shown, and none was started again, whatever was retried, replanned,
\* confirmed with an old approval or interrupted by a crash between (verify,
\* verifyAndConsume and the checkpoint of the graph).
EachSubmissionIsApproved ==
  /\ \A e \in Submissions : e.approval # 0 /\ e.granted = e.asked
  /\ \A e, f \in Submissions : e.approval = f.approval => e = f
  /\ \A k \in repeats : k.step \notin Irreversible

\* Without a crash no attempt is started twice; with one, an attempt of a step
\* that can be undone may be, once for every crash.
AttemptsRunOnce == Cardinality(repeats) <= crashes

\* A completed run ran every step in its last attempt.
CompletedRanEverything ==
  status = "completed" => \A s \in StepIds : \E e \in effects :
    e.step = s /\ e.attempt = plan[s].attempt

\* Types, attempts that run once but for a crash, and completed runs that ran every
\* step.
Consistent == TypeOK /\ AttemptsRunOnce /\ CompletedRanEverything
=============================================================================
