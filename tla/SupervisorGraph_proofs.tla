------------------------- MODULE SupervisorGraph_proofs -------------------------
(***************************************************************************)
(* Proofs about the supervisor graph: its approvals and its attempts.      *)
(*                                                                         *)
(* A submission is safe because of what must line up when the permit is    *)
(* consumed: the approval is bound to the binding of the step in this      *)
(* plan (PolicyEngine), that binding is what the human was last shown      *)
(* (the graph sets both in one node), and neither the approval nor the     *)
(* revision's attempt of the step was used before.  The last part is not   *)
(* an invariant of the durable state alone: after a crash the interrupted  *)
(* node runs again with the same attempt, and only the empty memory (no    *)
(* answer, no approval that verifies) keeps it from submitting again.      *)
(***************************************************************************)
EXTENDS SupervisorGraph, FiniteSetTheorems, TLAPS

Nodes == {"planning", "supervising", "routing", "claiming", "human_gate",
          "executing", "permitted", "running", "end"}
Busy == {"executing", "permitted", "running"}
Starting == {"executing", "permitted"}

Bindings == [revision : Nat, binding : 0..3]
Keys == [step : StepIds, revision : Nat, attempt : Nat]
Effects == [step : StepIds, revision : Nat, attempt : Nat, approval : 0..MaxApprovals,
            asked : Bindings, granted : Bindings]

TypeInv ==
  /\ TypeOK
  /\ node \in Nodes /\ approved \in Nat /\ crashes \in Nat
  /\ shown \in Bindings /\ issued \in [Approvals -> Bindings]
  /\ effects \subseteq Effects
  /\ kept \subseteq Keys
  /\ repeats \subseteq Keys /\ IsFiniteSet(repeats)

\* Which step each node is about, and what was decided of it.
PlaceInv ==
  /\ node = "planning" => current = 0
  /\ node = "supervising" => current = 0 \/ current \in Ready
  /\ node = "human_gate" => current \in Ready /\ decision = "ask"
  /\ node = "routing" =>
       \/ decision = "finish" /\ \A s \in StepIds : Settled(s)
       \/ decision \in {"ask", Act(current)} /\ current \in Ready
  /\ node = "claiming" => current \in Ready /\ decision = Act(current)
  /\ node \in Busy =>
       /\ current \in StepIds /\ decision = Act(current)
       /\ plan[current].status = "running" /\ plan[current].attempt > 0
  /\ node = "permitted" => decision = "tool"

\* The human's answer is about the current step, whose binding is what was shown.
AnswerInv ==
  /\ answer # 0 =>
       /\ node \notin {"planning", "human_gate"}
       /\ current \in StepIds /\ approved = revision
       /\ node = "routing" => decision = Act(current)
       /\ current \in Irreversible => shown = [revision |-> revision, binding |-> binding]
  /\ node = "human_gate" /\ current \in Irreversible =>
       shown = [revision |-> revision, binding |-> binding]
  /\ node = "permitted" /\ current \in Irreversible => permit = answer /\ Verified(answer)

\* An approval that no permit can consume again.
UsedUp(a) ==
  /\ a \in Approvals /\ issued[a] # Unbound
  /\ a \in consumed \/ issued[a].revision = 0

\* A submission used its approval up, and its attempt cannot be started again.
SubmissionInv ==
  /\ \A e \in Submissions :
       /\ e.granted = e.asked
       /\ UsedUp(e.approval)
       /\ e.revision = revision =>
            /\ plan[e.step].status # "pending"
            /\ current = e.step /\ node \in Starting => answer = 0
  /\ \A e, f \in Submissions : e.approval = f.approval => e = f
  /\ \A k \in repeats : k.step \notin Irreversible

Of(e, k) == e.step = k.step /\ e.revision = k.revision /\ e.attempt = k.attempt

\* The attempt about to be started was started before.
Again == node \in Starting /\ \E e \in effects : Of(e, Key)

\* What was started, by attempt, and how often.
AttemptInv ==
  /\ \A e \in effects :
       e.revision <= revision /\ (e.revision = revision => e.attempt <= plan[e.step].attempt)
  /\ \A k \in kept : \E e \in effects : Of(e, k)
  /\ node = "running" =>
       \E e \in effects : e.step = current /\ e.attempt = plan[current].attempt
  /\ \A s \in StepIds : Settled(s) =>
       \E e \in effects : e.step = s /\ e.attempt = plan[s].attempt
  /\ status = "completed" => \A s \in StepIds : Settled(s)
  /\ Cardinality(repeats) <= crashes
  /\ Again => Cardinality(repeats) < crashes

GraphInv == TypeInv /\ PlaceInv /\ AnswerInv /\ SubmissionInv /\ AttemptInv

-----------------------------------------------------------------------------
(* What a step does, case by case; the budget is left out.                 *)

record == <<effects, repeats>>
gate == <<issued, consumed, kept, shown>>

\* The graph stops where it is.
Stops ==
  /\ node' = "end" /\ status' \in Terminal
  /\ status' = "completed" => node = "routing" /\ decision = "finish"
  /\ UNCHANGED <<plan, revision, binding, current, decision, approved>>
  /\ answer' \in {answer, 0} /\ permit' \in {permit, 0}
  /\ UNCHANGED <<gate, record, crashes>>

Begins ==
  /\ node = "planning" /\ node' = "supervising"
  /\ UNCHANGED <<state, memory, shown, record, crashes>>

\* The supervisor decides on the ready step.
Decides ==
  /\ node = "supervising" /\ node' = "routing"
  /\ current' \in Ready /\ decision' \in Decisions(current')
  /\ UNCHANGED <<status, plan, revision, binding, approved>>
  /\ UNCHANGED <<memory, shown, record, crashes>>

Concludes ==
  /\ node = "supervising" /\ node' = "routing"
  /\ Ready = {} /\ \A s \in StepIds : Settled(s)
  /\ decision' = "finish"
  /\ UNCHANGED <<status, plan, revision, binding, current, approved>>
  /\ UNCHANGED <<memory, shown, record, crashes>>

Asks ==
  /\ node = "routing" /\ RoutesToHuman
  /\ UNCHANGED <<memory, record, crashes>>

Proceeds ==
  /\ node = "routing" /\ decision \in {"agent", "tool"} /\ node' = "claiming"
  /\ UNCHANGED <<state, memory, shown, record, crashes>>

Claims ==
  /\ node = "claiming" /\ node' = "executing"
  /\ plan[current].attempt < Attempts(current)
  /\ plan' = [plan EXCEPT ![current] = [status |-> "running", attempt |-> @.attempt + 1]]
  /\ UNCHANGED <<status, revision, binding, current, decision, approved>>
  /\ UNCHANGED <<memory, shown, record, crashes>>

Confirmed ==
  /\ node = "human_gate" /\ Confirms
  /\ UNCHANGED <<issued, consumed, permit, kept, shown, record, crashes>>

\* A new revision of the plan.
Replanned ==
  /\ node \in {"human_gate", "running"} /\ node' = "supervising" /\ status' = "running"
  /\ plan' = [t \in StepIds |->
       IF Settled(t) THEN plan[t] ELSE [status |-> "pending", attempt |-> 0]]
  /\ revision' = revision + 1
  /\ binding' = 0
  /\ Forgets
  /\ answer' = IF node = "running" THEN 0 ELSE answer
  /\ UNCHANGED <<gate, permit, record, crashes>>

Permits ==
  /\ node = "executing" /\ node' = "permitted" /\ decision = "tool"
  /\ current \in Irreversible => Verified(answer)
  /\ permit' = IF current \in Irreversible THEN answer ELSE 0
  /\ UNCHANGED <<state, answer, gate, record, crashes>>

\* The key is known: the call joins the operation started before.
Joins ==
  /\ node = "permitted" /\ node' = "running" /\ permit \notin consumed
  /\ ConsumesApproval(permit) /\ permit' = 0
  /\ Key \in kept
  /\ UNCHANGED <<state, answer, issued, kept, shown, record, crashes>>

StartsTool ==
  /\ node = "permitted" /\ node' = "running" /\ permit \notin consumed
  /\ ConsumesApproval(permit) /\ permit' = 0
  /\ kept' = kept \cup {Key} /\ Starts(permit)
  /\ UNCHANGED <<state, answer, issued, shown, crashes>>

StartsAgent ==
  /\ node = "executing" /\ node' = "running" /\ decision = "agent"
  /\ Starts(0)
  /\ UNCHANGED <<state, memory, shown, crashes>>

Completed ==
  /\ node = "running" /\ node' = "supervising"
  /\ plan' = [plan EXCEPT ![current].status = "completed"]
  /\ Forgets /\ answer' = 0
  /\ UNCHANGED <<status, revision, binding, permit, gate, record, crashes>>

Retried ==
  /\ node = "running" /\ node' = "supervising"
  /\ plan[current].attempt < Attempts(current)
  /\ plan' = [plan EXCEPT ![current].status = "pending"]
  /\ Forgets /\ answer' = 0
  /\ UNCHANGED <<status, revision, binding, permit, gate, record, crashes>>

Moves ==
  \/ Stops \/ Begins \/ Decides \/ Concludes \/ Asks \/ Proceeds \/ Claims
  \/ Confirmed \/ Replanned \/ Permits \/ Joins \/ StartsTool \/ StartsAgent
  \/ Completed \/ Retried \/ Crash \/ \E a \in Approvals : IssueApproval(a)

\* Every step of the graph is one of these cases.
LEMMA StepCases == ASSUME Next PROVE Moves
<1> USE DEF state, memory, record, gate, Fail, End, Terminal
<1>1. CASE Planning
  BY <1>1 DEF Planning, PlanRefused, Moves, Begins, Stops
<1>2. CASE Supervising
  <2>1. CASE Ready # {}
    BY <1>2, <2>1 DEF Supervising, Moves, Decides, Stops
  <2>2. CASE Ready = {}
    BY <1>2, <2>2 DEF Supervising, Moves, Concludes, Stops
  <2> QED
    BY <2>1, <2>2
<1>3. CASE Routing
  BY <1>3 DEF Routing, Finishes, Moves, Asks, Proceeds, Stops
<1>4. CASE Claiming
  BY <1>4 DEF Claiming, Claimable, Moves, Claims, Stops
<1>5. CASE Authorize
  BY <1>5 DEF Authorize, Moves, Permits, Stops
<1>6. CASE Invoke
  BY <1>6 DEF Invoke, Moves, Joins, StartsTool, Stops
<1>7. CASE Dispatch
  BY <1>7 DEF Dispatch, Moves, StartsAgent
<1>8. CASE Answered
  <2>1. CASE Completes
    BY <1>8, <2>1 DEF Answered, Completes, Moves, Completed
  <2>2. CASE Retries
    BY <1>8, <2>2 DEF Answered, Retries, Moves, Retried
  <2>3. CASE Corrects
    BY <1>8, <2>3 DEF Answered, Corrects, Replan, Moves, Replanned, Stops
  <2>4. CASE \E st \in {"blocked", "failed"} : Fail(st)
    BY <1>8, <2>4 DEF Answered, Moves, Stops
  <2> QED
    BY <1>8, <2>1, <2>2, <2>3, <2>4 DEF Answered
<1>9. CASE HumanGate
  <2>1. CASE Confirms
    BY <1>9, <2>1 DEF HumanGate, Moves, Confirmed
  <2>2. CASE Corrects /\ UNCHANGED answer
    BY <1>9, <2>2 DEF HumanGate, Corrects, Replan, Moves, Replanned, Stops
  <2>3. CASE \E st \in {"cancelled", "blocked", "failed"} : Fail(st) /\ UNCHANGED answer
    BY <1>9, <2>3 DEF HumanGate, Moves, Stops
  <2> QED
    BY <1>9, <2>1, <2>2, <2>3 DEF HumanGate
<1> QED
  BY <1>1, <1>2, <1>3, <1>4, <1>5, <1>6, <1>7, <1>8, <1>9 DEF Next, Graph, Moves

-----------------------------------------------------------------------------
(* Small facts.                                                            *)

\* A chain has at most one step that is ready.
LEMMA OneReady ==
  ASSUME NEW r \in Ready, NEW q \in Ready
  PROVE  r = q
<1>1. Steps \in Nat
  BY ConstantsAssumption
<1>2. ~(r < q) /\ ~(q < r)
  BY <1>1 DEF Ready, Settled, StepIds
<1> QED
  BY <1>1, <1>2 DEF Ready, StepIds

\* What the supervisor may decide of a ready step.
LEMMA WhatIsDecided ==
  ASSUME NEW s \in StepIds, NEW d \in Decisions(s)
  PROVE  /\ d \in {"ask", Act(s)}
         /\ current = s /\ approved = revision => d = Act(s)
BY DEF Decisions, Proposals

\* A decision to act names who acts.
LEMMA ActIsAgentOrTool == ASSUME NEW s PROVE Act(s) \in {"agent", "tool"}
BY DEF Act

\* A submission has one attempt, any other step at least one.
LEMMA AttemptsType ==
  ASSUME NEW s \in StepIds
  PROVE  Attempts(s) \in Nat \ {0} /\ (s \in Irreversible => Attempts(s) = 1)
BY ConstantsAssumption DEF Attempts

\* No approval is a binding of its own.
LEMMA UnboundType == Unbound \in Bindings
BY DEF Unbound, Bindings

\* The idempotency key of the current step.
LEMMA KeyType ==
  ASSUME TypeInv, current \in StepIds
  PROVE  Key \in Keys
BY DEF TypeInv, TypeOK, Key, Keys

\* The fields of a recorded start.
LEMMA EffectFields ==
  ASSUME TypeInv, NEW e \in effects
  PROVE  /\ e \in Effects
         /\ e.step \in StepIds /\ e.revision \in Nat /\ e.attempt \in Nat
         /\ e.approval \in 0..MaxApprovals /\ e.asked \in Bindings /\ e.granted \in Bindings
BY DEF TypeInv, Effects

\* The effect a start adds.
Started(a) ==
  [step |-> current, revision |-> revision, attempt |-> plan[current].attempt,
   approval |-> a, asked |-> shown, granted |-> IF a = 0 THEN Unbound ELSE issued[a]]

\* A start is recorded, and its key among the repeats if it was started before.
LEMMA StartsAdds ==
  ASSUME NEW a, Starts(a)
  PROVE  /\ effects' = effects \cup {Started(a)}
         /\ repeats' = IF \E e \in effects : Of(e, Key) THEN repeats \cup {Key} ELSE repeats
<1>1. (\E e \in effects : Of(e, Key))
        <=> \E e \in effects : e.step = current /\ e.revision = revision
                               /\ e.attempt = plan[current].attempt
  BY DEF Of, Key
<1> QED
  BY <1>1 DEF Starts, Started

\* The recorded start has its type.
LEMMA StartedType ==
  ASSUME TypeInv, current \in StepIds, NEW a \in 0..MaxApprovals
  PROVE  Started(a) \in Effects
<1>1. MaxApprovals \in Nat
  BY ConstantsAssumption
<1>2. a # 0 => issued[a] \in Bindings
  BY <1>1 DEF TypeInv, Approvals
<1> QED
  BY <1>2, UnboundType DEF TypeInv, TypeOK, Started, Effects

-----------------------------------------------------------------------------
(* Types.                                                                  *)

\* The crash makes every approval it forgets one that no step is bound to.
LEMMA CrashVoids ==
  ASSUME TypeInv, Crash
  PROVE  /\ issued' \in [Approvals -> Bindings]
         /\ \A a \in Approvals : issued'[a] = Unbound <=> issued[a] = Unbound
         /\ \A a \in Approvals : issued'[a].revision = 0
BY DEF TypeInv, Crash, Unbound, Bindings

\* Every step keeps the types.
LEMMA TypePreserved ==
  ASSUME TypeInv, PlaceInv, Moves
  PROVE  TypeInv'
<1> USE DEF record, gate, state, memory, Forgets
<1>0. /\ Steps \in Nat /\ MaxApprovals \in Nat
      /\ \A s \in StepIds : Attempts(s) \in Nat \ {0}
  BY ConstantsAssumption, AttemptsType
<1>1. /\ TypeOK /\ node \in Nodes /\ approved \in Nat /\ crashes \in Nat
      /\ shown \in Bindings /\ issued \in [Approvals -> Bindings]
      /\ effects \subseteq Effects /\ kept \subseteq Keys
      /\ repeats \subseteq Keys /\ IsFiniteSet(repeats)
  BY DEF TypeInv
<1>2. CASE Stops
  BY <1>0, <1>1, <1>2 DEF TypeInv, Stops, TypeOK, Nodes, Terminal, Attempts
<1>3. CASE Begins
  BY <1>0, <1>1, <1>3 DEF TypeInv, Begins, TypeOK, Nodes, Terminal, Attempts
<1>4. CASE Decides
  <2>1. current' \in StepIds /\ decision' \in {"ask", "agent", "tool"}
    BY <1>4, WhatIsDecided, ActIsAgentOrTool DEF Decides, Ready
  <2> QED
    BY <2>1, <1>0, <1>1, <1>4 DEF TypeInv, Decides, TypeOK, Nodes, Terminal, StepIds, Attempts
<1>5. CASE Concludes
  BY <1>0, <1>1, <1>5 DEF TypeInv, Concludes, TypeOK, Nodes, Terminal, Attempts
<1>6. CASE Asks
  BY <1>0, <1>1, <1>6, UnboundType
     DEF TypeInv, Asks, RoutesToHuman, TypeOK, Nodes, Terminal, Bindings, Attempts
<1>7. CASE Proceeds
  BY <1>0, <1>1, <1>7 DEF TypeInv, Proceeds, TypeOK, Nodes, Terminal, Attempts
<1>8. CASE Claims
  <2>1. /\ plan' \in [StepIds -> [status : {"pending", "running", "completed"}, attempt : Nat]]
        /\ \A s \in StepIds : plan'[s].attempt <= Attempts(s)
    BY <1>0, <1>1, <1>8 DEF Claims, TypeOK, PlaceInv, Ready
  <2> QED
    BY <2>1, <1>0, <1>1, <1>8 DEF TypeInv, Claims, TypeOK, Nodes, Terminal, Attempts
<1>9. CASE Confirmed
  BY <1>0, <1>1, <1>9
     DEF TypeInv, Confirmed, Confirms, TypeOK, Nodes, Terminal, Approvals, Attempts
<1>10. CASE Replanned
  <2>1. /\ plan' \in [StepIds -> [status : {"pending", "running", "completed"}, attempt : Nat]]
        /\ \A s \in StepIds : plan'[s].attempt <= Attempts(s)
    BY <1>0, <1>1, <1>10 DEF Replanned, TypeOK
  <2> QED
    BY <2>1, <1>0, <1>1, <1>10 DEF TypeInv, Replanned, TypeOK, Nodes, Terminal, Attempts
<1>11. CASE Permits
  BY <1>0, <1>1, <1>11 DEF TypeInv, Permits, TypeOK, Nodes, Terminal, Attempts
<1>12. CASE Joins
  BY <1>0, <1>1, <1>12
     DEF TypeInv, Joins, ConsumesApproval, TypeOK, Nodes, Terminal, Approvals, Attempts
<1>13. CASE StartsTool \/ StartsAgent
  <2>1. current \in StepIds
    BY <1>13 DEF StartsTool, StartsAgent, PlaceInv, Busy
  <2>2. PICK a \in 0..MaxApprovals : Starts(a)
    BY <1>0, <1>1, <1>13 DEF StartsTool, StartsAgent, TypeOK
  <2>3. effects' \subseteq Effects
    BY <2>1, <2>2, <1>1, StartsAdds, StartedType
  <2>4. repeats' \subseteq Keys /\ IsFiniteSet(repeats')
    BY <2>1, <2>2, <1>1, StartsAdds, KeyType, FS_AddElement
  <2>5. kept' \subseteq Keys
    BY <2>1, <1>1, <1>13, KeyType DEF StartsTool, StartsAgent
  <2>6. consumed' \subseteq Approvals /\ permit' \in 0..MaxApprovals
    <3>1. consumed \subseteq Approvals /\ permit \in 0..MaxApprovals
      BY <1>1 DEF TypeOK
    <3>2. CASE StartsTool
      BY <1>0, <3>1, <3>2 DEF StartsTool, ConsumesApproval, Approvals
    <3>3. CASE StartsAgent
      BY <3>1, <3>3 DEF StartsAgent
    <3> QED
      BY <1>13, <3>2, <3>3
  <2> QED
    BY <2>3, <2>4, <2>5, <2>6, <1>0, <1>1, <1>13
       DEF TypeInv, StartsTool, StartsAgent, TypeOK, Nodes, Terminal, Attempts
<1>14. CASE Completed \/ Retried
  <2>1. /\ plan' \in [StepIds -> [status : {"pending", "running", "completed"}, attempt : Nat]]
        /\ \A s \in StepIds : plan'[s].attempt <= Attempts(s)
    BY <1>0, <1>1, <1>14 DEF Completed, Retried, TypeOK
  <2> QED
    BY <2>1, <1>0, <1>1, <1>14
       DEF TypeInv, Completed, Retried, TypeOK, Nodes, Terminal, Attempts
<1>15. CASE Crash
  BY <1>0, <1>1, <1>15, CrashVoids DEF TypeInv, Crash, TypeOK, Nodes, Terminal, Attempts
<1>16. CASE \E a \in Approvals : IssueApproval(a)
  BY <1>0, <1>1, <1>16 DEF TypeInv, IssueApproval, TypeOK, Nodes, Terminal, Attempts
<1> QED
  BY <1>2, <1>3, <1>4, <1>5, <1>6, <1>7, <1>8, <1>9, <1>10, <1>11, <1>12, <1>13, <1>14,
     <1>15, <1>16 DEF Moves

-----------------------------------------------------------------------------
(* The step a node is about, and the human's answer to it.                 *)

\* A ready step stays ready while the plan stays.
LEMMA ReadyStays ==
  ASSUME UNCHANGED plan
  PROVE  Ready' = Ready /\ \A s \in StepIds : Settled(s)' <=> Settled(s)
BY DEF Ready, Settled

\* Every step leaves the next node with the step it is about.
LEMMA PlacePreserved ==
  ASSUME TypeInv, PlaceInv, Moves
  PROVE  PlaceInv'
<1> USE DEF record, gate, state, memory, Forgets
<1>0. /\ TypeOK /\ node \in Nodes
      /\ plan \in [StepIds -> [status : {"pending", "running", "completed"}, attempt : Nat]]
  BY DEF TypeInv, TypeOK
<1>1. \A s : Act(s)' = Act(s)
  BY DEF Act
<1>2. CASE Stops
  BY <1>2 DEF PlaceInv, Stops, Busy
<1>3. CASE Begins
  BY <1>3 DEF PlaceInv, Begins, Busy
<1>4. CASE Decides
  <2>1. current' \in StepIds /\ decision' \in {"ask", Act(current')}
    BY <1>4, WhatIsDecided DEF Decides, Ready
  <2>2. current' \in Ready'
    BY <1>4, ReadyStays DEF Decides
  <2> QED
    BY <2>1, <2>2, <1>1, <1>4 DEF PlaceInv, Decides, Busy
<1>5. CASE Concludes
  BY <1>5, ReadyStays DEF PlaceInv, Concludes, Busy
<1>6. CASE Asks
  <2>1. current \in Ready
    BY <1>6, ActIsAgentOrTool DEF PlaceInv, Asks, RoutesToHuman
  <2>2. current' \in Ready'
    BY <2>1, <1>6, ReadyStays DEF Asks, RoutesToHuman
  <2> QED
    BY <2>2, <1>6 DEF PlaceInv, Asks, RoutesToHuman, Busy
<1>7. CASE Proceeds
  <2>1. current \in Ready /\ decision = Act(current)
    BY <1>7 DEF PlaceInv, Proceeds
  <2>2. current' \in Ready'
    BY <2>1, <1>7, ReadyStays DEF Proceeds
  <2> QED
    BY <2>1, <2>2, <1>1, <1>7 DEF PlaceInv, Proceeds, Busy
<1>8. CASE Claims
  <2>1. current \in StepIds /\ decision = Act(current)
    BY <1>8 DEF PlaceInv, Claims, Ready
  <2>2. plan'[current].status = "running" /\ plan'[current].attempt > 0
    BY <2>1, <1>0, <1>8 DEF Claims
  <2> QED
    BY <2>1, <2>2, <1>1, <1>8 DEF PlaceInv, Claims, Busy
<1>9. CASE Confirmed
  <2>1. current' \in Ready'
    BY <1>9, ReadyStays DEF PlaceInv, Confirmed, Confirms
  <2> QED
    BY <2>1, <1>9 DEF PlaceInv, Confirmed, Confirms, Busy
<1>10. CASE Replanned
  BY <1>10 DEF PlaceInv, Replanned, Busy
<1>11. CASE Permits
  BY <1>1, <1>11 DEF PlaceInv, Permits, Busy
<1>12. CASE Joins
  BY <1>1, <1>12 DEF PlaceInv, Joins, Busy
<1>13. CASE StartsTool \/ StartsAgent
  BY <1>1, <1>13 DEF PlaceInv, StartsTool, StartsAgent, Busy
<1>14. CASE Completed \/ Retried
  BY <1>14 DEF PlaceInv, Completed, Retried, Busy
<1>15. CASE Crash
  <2>1. Ready' = Ready /\ (\A s \in StepIds : Settled(s)' <=> Settled(s))
    BY <1>15, ReadyStays DEF Crash
  <2> QED
    BY <2>1, <1>1, <1>15 DEF PlaceInv, Crash, Busy
<1>16. CASE \E a \in Approvals : IssueApproval(a)
  <2>1. Ready' = Ready
    BY <1>16, ReadyStays DEF IssueApproval
  <2> QED
    BY <2>1, <1>1, <1>16 DEF PlaceInv, IssueApproval, Busy
<1> QED
  BY <1>2, <1>3, <1>4, <1>5, <1>6, <1>7, <1>8, <1>9, <1>10, <1>11, <1>12, <1>13, <1>14,
     <1>15, <1>16 DEF Moves

\* The answer stays with the step it was given for, from the confirmation until the
\* operation it was given for has answered.
LEMMA AnswerPreserved ==
  ASSUME TypeInv, PlaceInv, AnswerInv, Moves
  PROVE  AnswerInv'
<1> USE DEF record, gate, state, memory, Forgets
<1>0. TypeOK /\ node \in Nodes
  BY DEF TypeInv
<1>1. \A s : Act(s)' = Act(s)
  BY DEF Act
<1>2. CASE Stops
  BY <1>2 DEF AnswerInv, Stops
<1>3. CASE Begins
  BY <1>3 DEF AnswerInv, Begins
<1>4. CASE Decides
  <2>1. SUFFICES ASSUME answer # 0
                 PROVE  current' = current /\ decision' = Act(current)
    BY <2>1, <1>1, <1>4 DEF AnswerInv, Decides
  <2>2. current \in StepIds /\ approved = revision
    BY <2>1 DEF AnswerInv
  <2>3. current \in Ready
    BY <2>2, <1>4 DEF PlaceInv, Decides, StepIds
  <2>4. current' = current
    BY <2>3, <1>4, OneReady DEF Decides
  <2> QED
    BY <2>2, <2>4, <1>4, WhatIsDecided DEF Decides
<1>5. CASE Concludes
  <2>1. answer = 0
    BY <1>5 DEF AnswerInv, PlaceInv, Concludes, StepIds
  <2> QED
    BY <2>1, <1>5 DEF AnswerInv, Concludes
<1>6. CASE Asks
  <2>1. answer = 0
    BY <1>6, ActIsAgentOrTool DEF AnswerInv, Asks, RoutesToHuman
  <2> QED
    BY <2>1, <1>6 DEF AnswerInv, Asks, RoutesToHuman
<1>7. CASE Proceeds
  BY <1>7 DEF AnswerInv, Proceeds
<1>8. CASE Claims
  BY <1>8 DEF AnswerInv, Claims
<1>9. CASE Confirmed
  BY <1>9 DEF AnswerInv, PlaceInv, Confirmed, Confirms, Ready
<1>10. CASE Replanned
  BY <1>10 DEF AnswerInv, Replanned
<1>11. CASE Permits
  BY <1>11 DEF AnswerInv, Permits, Verified
<1>12. CASE Joins
  BY <1>12 DEF AnswerInv, Joins
<1>13. CASE StartsTool \/ StartsAgent
  BY <1>13 DEF AnswerInv, StartsTool, StartsAgent
<1>14. CASE Completed \/ Retried
  BY <1>14 DEF AnswerInv, Completed, Retried
<1>15. CASE Crash
  BY <1>15 DEF AnswerInv, Crash
<1>16. CASE \E a \in Approvals : IssueApproval(a)
  BY <1>16 DEF AnswerInv, IssueApproval
<1> QED
  BY <1>2, <1>3, <1>4, <1>5, <1>6, <1>7, <1>8, <1>9, <1>10, <1>11, <1>12, <1>13, <1>14,
     <1>15, <1>16 DEF Moves

-----------------------------------------------------------------------------
(* Submissions.                                                            *)

\* A submission stays covered when no step of its revision becomes pending, no answer
\* appears where its attempt could be started again, and its approval stays used up.
Covered(e) ==
  /\ e.granted = e.asked
  /\ UsedUp(e.approval)
  /\ e.revision = revision =>
       /\ plan[e.step].status # "pending"
       /\ current = e.step /\ node \in Starting => answer = 0

\* Used-up approvals stay used up: nothing takes an approval out of consumed but a
\* crash, which voids it, and only an unissued approval is issued.
LEMMA UsedUpStays ==
  ASSUME TypeInv, Moves, NEW a, UsedUp(a)
  PROVE  UsedUp(a)'
<1> USE DEF record, gate, state, memory
<1>1. a \in Approvals /\ issued[a] # Unbound /\ (a \in consumed \/ issued[a].revision = 0)
  BY DEF UsedUp
<1>2. CASE Crash
  <2>1. issued'[a] # Unbound /\ issued'[a].revision = 0
    BY <1>1, <1>2, CrashVoids
  <2> QED
    BY <1>1, <2>1 DEF UsedUp, Approvals, Unbound
<1>3. CASE \E b \in Approvals : IssueApproval(b)
  <2>1. issued'[a] = issued[a] /\ consumed' = consumed
    BY <1>1, <1>3 DEF IssueApproval, TypeInv
  <2> QED
    BY <1>1, <2>1 DEF UsedUp, Approvals, Unbound
<1>4. CASE ~Crash /\ ~(\E b \in Approvals : IssueApproval(b))
  <2>1. issued' = issued /\ consumed \subseteq consumed'
    BY <1>4 DEF Moves, Stops, Begins, Decides, Concludes, Asks, RoutesToHuman, Proceeds, Claims,
                Confirmed, Confirms, Replanned, Permits, Joins, ConsumesApproval, StartsTool,
                StartsAgent, Completed, Retried
  <2> QED
    BY <1>1, <2>1 DEF UsedUp, Approvals, Unbound
<1> QED
  BY <1>2, <1>3, <1>4

\* An old submission stays covered.
LEMMA CoveredStays ==
  ASSUME TypeInv, PlaceInv, Moves, NEW e \in effects, e.step \in Irreversible,
         e.revision <= revision, Covered(e)
  PROVE  Covered(e)'
<1> USE DEF record, gate, state, memory, Forgets
<1>0. TypeOK /\ node \in Nodes /\ revision \in Nat
      /\ e.step \in StepIds /\ e.revision \in Nat
      /\ plan \in [StepIds -> [status : {"pending", "running", "completed"}, attempt : Nat]]
  BY EffectFields DEF TypeInv, TypeOK
<1>1. UsedUp(e.approval)' /\ e.granted = e.asked
  BY UsedUpStays DEF Covered
<1>2. SUFFICES ASSUME e.revision = revision'
               PROVE  /\ plan'[e.step].status # "pending"
                      /\ current' = e.step /\ node' \in Starting => answer' = 0
  BY <1>1, <1>2 DEF Covered
<1>3. CASE Replanned
  BY <1>0, <1>2, <1>3 DEF Replanned
<1>4. CASE ~Replanned
  <2>1. revision' = revision
    BY <1>4 DEF Moves, Stops, Begins, Decides, Concludes, Asks, RoutesToHuman, Proceeds, Claims,
                Confirmed, Confirms, Permits, Joins, StartsTool, StartsAgent, Completed,
                Retried, Crash, IssueApproval
  <2>2. /\ plan[e.step].status # "pending"
        /\ current = e.step /\ node \in Starting => answer = 0
    BY <1>2, <2>1 DEF Covered
  <2>3. CASE Claims
    <3>1. current \in StepIds /\ plan[current].status = "pending"
      BY <2>3 DEF Claims, PlaceInv, Ready
    <3> QED
      BY <1>0, <2>2, <2>3, <3>1 DEF Claims
  <2>4. CASE Completed
    BY <1>0, <2>2, <2>4 DEF Completed, Starting
  <2>5. CASE Retried
    <3>1. current \in StepIds /\ plan[current].attempt > 0
      BY <2>5 DEF Retried, PlaceInv, Busy
    <3>2. current # e.step
      BY <1>0, <2>5, <3>1, AttemptsType DEF Retried
    <3> QED
      BY <1>0, <2>2, <2>5, <3>1, <3>2 DEF Retried, Starting
  <2>6. CASE Crash
    BY <2>2, <2>6 DEF Crash
  <2>7. CASE ~Claims /\ ~Completed /\ ~Retried /\ ~Crash
    <3>1. plan' = plan
      BY <1>4, <2>7 DEF Moves, Stops, Begins, Decides, Concludes, Asks, RoutesToHuman, Proceeds,
                Confirmed, Confirms, Permits, Joins, StartsTool, StartsAgent, IssueApproval
    <3>2. node' \in Starting => node \in Starting /\ current' = current /\ answer' = answer
      BY <1>4, <2>7 DEF Moves, Stops, Begins, Decides, Concludes, Asks, RoutesToHuman, Proceeds,
                Confirmed, Confirms, Permits, Joins, StartsTool, StartsAgent, IssueApproval,
                Starting
    <3> QED
      BY <2>2, <3>1, <3>2
  <2> QED
    BY <2>3, <2>4, <2>5, <2>6, <2>7
<1> QED
  BY <1>3, <1>4

\* What a permitted submission uses: the approval of what was shown, not used before.
LEMMA SubmissionUses ==
  ASSUME TypeInv, PlaceInv, AnswerInv, StartsTool, current \in Irreversible
  PROVE  /\ permit \in Approvals /\ permit \notin consumed
         /\ issued[permit] = shown
         /\ issued[permit].revision # 0
         /\ permit = answer /\ answer # 0
         /\ consumed' = consumed \cup {permit}
<1>1. permit = answer /\ Verified(answer) /\ answer # 0
      /\ shown = [revision |-> revision, binding |-> binding]
  BY DEF AnswerInv, StartsTool, Verified
<1>2. permit \in Approvals /\ permit # 0
  BY <1>1, ConstantsAssumption DEF TypeInv, TypeOK, Approvals
<1> QED
  BY <1>1, <1>2 DEF Verified, TypeInv, TypeOK, StartsTool, ConsumesApproval

\* The steps that start nothing leave the record alone.
LEMMA RecordStays ==
  ASSUME Moves, ~StartsTool, ~StartsAgent
  PROVE  effects' = effects /\ repeats' = repeats
BY DEF Moves, Stops, Begins, Decides, Concludes, Asks, RoutesToHuman, Proceeds, Claims, Confirmed,
       Replanned, Permits, Joins, Completed, Retried, Crash, IssueApproval, record

\* Every step keeps the submissions covered and adds only one that is.
LEMMA SubmissionPreserved ==
  ASSUME TypeInv, PlaceInv, AnswerInv, SubmissionInv, Moves,
         \A e \in effects : e.revision <= revision
  PROVE  SubmissionInv'
<1>1. /\ \A e \in Submissions : Covered(e)
      /\ \A e, f \in Submissions : e.approval = f.approval => e = f
      /\ \A k \in repeats : k.step \notin Irreversible
  BY DEF SubmissionInv, Covered
<1>2. \A e \in Submissions : Covered(e)'
  BY <1>1, CoveredStays DEF Submissions
<1>3. SUFFICES /\ \A e \in Submissions' : Covered(e)'
               /\ \A e, f \in Submissions' : e.approval = f.approval => e = f
               /\ \A k \in repeats' : k.step \notin Irreversible
  BY <1>3 DEF SubmissionInv, Covered
<1>4. CASE ~StartsTool /\ ~StartsAgent
  <2>1. Submissions' = Submissions /\ repeats' = repeats
    BY <1>4, RecordStays DEF Submissions
  <2> QED
    BY <2>1, <1>1, <1>2
<1>5. CASE (StartsTool \/ StartsAgent) /\ current \notin Irreversible
  <2>1. PICK a : Starts(a)
    BY <1>5 DEF StartsTool, StartsAgent
  <2>2. effects' = effects \cup {Started(a)} /\ repeats' \subseteq repeats \cup {Key}
    BY <2>1, StartsAdds
  <2>3. Submissions' = Submissions
    BY <2>2, <1>5 DEF Submissions, Started
  <2>4. Key.step = current
    BY DEF Key
  <2> QED
    BY <2>2, <2>3, <2>4, <1>1, <1>2, <1>5
<1>6. CASE (StartsTool \/ StartsAgent) /\ current \in Irreversible
  <2>1. StartsTool
    BY <1>6 DEF StartsAgent, PlaceInv, Busy, Act
  <2>2. PICK a \in Approvals : a = permit
    BY <2>1, <1>6, SubmissionUses
  <2>3. /\ a \notin consumed /\ issued[a] = shown /\ issued[a].revision # 0
        /\ answer # 0
        /\ consumed' = consumed \cup {a}
    BY <2>1, <2>2, <1>6, SubmissionUses
  <2>4. PICK s : s = Started(a)
    OBVIOUS
  <2>5. /\ effects' = effects \cup {s}
        /\ repeats' = IF \E e \in effects : Of(e, Key) THEN repeats \cup {Key} ELSE repeats
    BY <2>1, <2>2, <2>4, StartsAdds DEF StartsTool
  <2>6. s.granted = s.asked /\ s.approval = a /\ s.step = current
    <3>1. a # 0
      BY ConstantsAssumption DEF Approvals
    <3> QED
      BY <2>3, <2>4, <3>1 DEF Started
  <2>7. Submissions' = Submissions \cup {s}
    BY <2>5, <2>6, <1>6 DEF Submissions
  <2>8. Covered(s)'
    <3>1. issued' = issued /\ plan' = plan /\ node' = "running"
      BY <2>1 DEF StartsTool, state
    <3>2. UsedUp(a)'
      BY <2>3, <3>1 DEF UsedUp, Approvals, Unbound
    <3>3. current \in StepIds /\ plan[current].status = "running"
      BY <2>1 DEF StartsTool, PlaceInv, Busy
    <3> QED
      BY <2>6, <3>1, <3>2, <3>3 DEF Covered, Starting
  <2>9. \A e \in Submissions : e.approval # a
    BY <1>1, <2>3 DEF Covered, UsedUp
  <2>10. ~\E e \in effects : Of(e, Key)
    <3>1. SUFFICES ASSUME NEW e \in effects, e.step = current, e.revision = revision
                   PROVE  FALSE
      BY <3>1 DEF Of, Key
    <3>2. e \in Submissions
      BY <3>1, <1>6 DEF Submissions
    <3> QED
      BY <1>1, <2>1, <2>3, <3>1, <3>2 DEF Covered, StartsTool, Starting
  <2> QED
    BY <1>1, <1>2, <2>5, <2>6, <2>7, <2>8, <2>9, <2>10
<1> QED
  BY <1>4, <1>5, <1>6

-----------------------------------------------------------------------------
(* Attempts.                                                               *)

\* A step of the plan has the evidence of the attempt it is at.
Ran(s) == \E e \in effects : e.step = s /\ e.attempt = plan[s].attempt

\* Nothing of an older attempt is ever ahead of the plan.
Behind(e) ==
  e.revision <= revision /\ (e.revision = revision => e.attempt <= plan[e.step].attempt)

\* No step puts a recorded start ahead of the plan.
LEMMA BehindStays ==
  ASSUME TypeInv, PlaceInv, Moves, NEW e \in effects, Behind(e)
  PROVE  Behind(e)'
<1> USE DEF record, gate, state, memory, Forgets
<1>0. /\ e.step \in StepIds /\ e.revision \in Nat /\ e.attempt \in Nat /\ revision \in Nat
      /\ plan \in [StepIds -> [status : {"pending", "running", "completed"}, attempt : Nat]]
  BY EffectFields DEF TypeInv, TypeOK
<1>1. CASE Replanned
  BY <1>0, <1>1 DEF Replanned, Behind
<1>2. CASE Claims
  <2>1. current \in StepIds
    BY <1>2 DEF Claims, PlaceInv, Ready
  <2>2. plan'[e.step].attempt >= plan[e.step].attempt
    BY <1>0, <1>2, <2>1 DEF Claims
  <2>3. revision' = revision /\ plan'[e.step].attempt \in Nat
    BY <1>0, <1>2, <2>1 DEF Claims
  <2> QED
    BY <1>0, <2>2, <2>3 DEF Behind
<1>3. CASE Completed \/ Retried
  <2>1. plan'[e.step].attempt = plan[e.step].attempt /\ revision' = revision
    BY <1>0, <1>3 DEF Completed, Retried
  <2> QED
    BY <2>1 DEF Behind
<1>4. CASE ~Replanned /\ ~Claims /\ ~Completed /\ ~Retried
  <2>1. plan' = plan /\ revision' = revision
    BY <1>4 DEF Moves, Stops, Begins, Decides, Concludes, Asks, RoutesToHuman, Proceeds, Confirmed,
                Confirms, Permits, Joins, StartsTool, StartsAgent, Crash, IssueApproval
  <2> QED
    BY <2>1 DEF Behind
<1> QED
  BY <1>1, <1>2, <1>3, <1>4

\* Settled steps stay settled, with the attempt they ran.
LEMMA SettledKeepsAttempt ==
  ASSUME TypeInv, PlaceInv, Moves, NEW s \in StepIds, Settled(s)'
  PROVE  /\ plan'[s].attempt = plan[s].attempt
         /\ Settled(s) \/ (Completed /\ s = current)
<1> USE DEF record, gate, state, memory, Forgets
<1>0. plan \in [StepIds -> [status : {"pending", "running", "completed"}, attempt : Nat]]
  BY DEF TypeInv, TypeOK
<1>1. CASE Replanned
  BY <1>0, <1>1 DEF Replanned, Settled
<1>2. CASE Claims
  <2>1. current \in StepIds
    BY <1>2 DEF Claims, PlaceInv, Ready
  <2> QED
    BY <1>0, <1>2, <2>1 DEF Claims, Settled
<1>3. CASE Completed
  BY <1>0, <1>3 DEF Completed, Settled
<1>4. CASE Retried
  BY <1>0, <1>4 DEF Retried, Settled
<1>5. CASE ~Replanned /\ ~Claims /\ ~Completed /\ ~Retried
  <2>1. plan' = plan
    BY <1>5 DEF Moves, Stops, Begins, Decides, Concludes, Asks, RoutesToHuman, Proceeds, Confirmed,
                Confirms, Permits, Joins, StartsTool, StartsAgent, Crash, IssueApproval
  <2> QED
    BY <2>1 DEF Settled
<1> QED
  BY <1>1, <1>2, <1>3, <1>4, <1>5

\* A start is never taken out of the record.
LEMMA EffectsGrow ==
  ASSUME Moves
  PROVE  effects \subseteq effects'
<1>1. CASE ~StartsTool /\ ~StartsAgent
  BY <1>1, RecordStays
<1>2. CASE StartsTool \/ StartsAgent
  BY <1>2 DEF StartsTool, StartsAgent, Starts
<1> QED
  BY <1>1, <1>2

\* A start makes the current attempt one that ran.
LEMMA StartsRuns ==
  ASSUME TypeInv, current \in StepIds, NEW a, Starts(a), plan' = plan, current' = current,
         revision' = revision
  PROVE  /\ Of(Started(a), Key) /\ Started(a) \in effects'
         /\ Ran(current)' /\ Behind(Started(a))
<1>1. Started(a) \in effects'
  BY StartsAdds
<1>2. Of(Started(a), Key) /\ Started(a).step = current
      /\ Started(a).attempt = plan[current].attempt /\ Started(a).revision = revision
  BY DEF Of, Key, Started
<1>3. Ran(current)'
  BY <1>1, <1>2 DEF Ran
<1>4. Behind(Started(a))
  BY <1>2 DEF Behind, TypeInv, TypeOK
<1> QED
  BY <1>1, <1>2, <1>3, <1>4

\* No effect is about the attempt a claim begins.
LEMMA ClaimsAnew ==
  ASSUME TypeInv, PlaceInv, Claims, \A e \in effects : Behind(e)
  PROVE  ~Again'
<1>1. current \in StepIds /\ plan[current].attempt \in Nat
  BY DEF Claims, PlaceInv, Ready, TypeInv, TypeOK
<1>2. effects' = effects /\ current' = current /\ revision' = revision
  BY DEF Claims, record
<1>3. plan'[current].attempt = plan[current].attempt + 1
  BY <1>1 DEF Claims, TypeInv, TypeOK
<1>4. Key'.step = current /\ Key'.revision = revision
      /\ Key'.attempt = plan[current].attempt + 1
  BY <1>2, <1>3 DEF Key
<1>5. SUFFICES ASSUME NEW e \in effects, Of(e, Key')
               PROVE  FALSE
  BY <1>2, <1>5 DEF Again, Of
<1>6. e.attempt = plan[current].attempt + 1 /\ e.step = current /\ e.revision = revision
  BY <1>4, <1>5 DEF Of
<1> QED
  BY <1>1, <1>6 DEF Behind

\* Whoever starts again what was started was interrupted by a crash in between.
LEMMA RepeatsAreCrashes ==
  ASSUME TypeInv, PlaceInv, Moves, \A e \in effects : Behind(e),
         Cardinality(repeats) <= crashes, Again => Cardinality(repeats) < crashes
  PROVE  /\ Cardinality(repeats') <= crashes'
         /\ Again' => Cardinality(repeats') < crashes'
<1> USE DEF record, gate, state, memory, Forgets
<1>0. /\ crashes \in Nat /\ IsFiniteSet(repeats) /\ Cardinality(repeats) \in Nat
  BY FS_CardinalityType DEF TypeInv
<1>1. CASE StartsTool \/ StartsAgent
  <2>1. PICK a : Starts(a)
    BY <1>1 DEF StartsTool, StartsAgent
  <2>2. repeats' = IF \E e \in effects : Of(e, Key) THEN repeats \cup {Key} ELSE repeats
    BY <2>1, StartsAdds
  <2>3. ~Again' /\ crashes' = crashes /\ node \in Starting
    BY <1>1 DEF StartsTool, StartsAgent, Again, Starting
  <2>4. Cardinality(repeats \cup {Key}) <= Cardinality(repeats) + 1
    BY <1>0, FS_AddElement
  <2>5. Cardinality(repeats \cup {Key}) \in Nat
    BY <1>0, FS_AddElement, FS_CardinalityType
  <2>6. CASE \E e \in effects : Of(e, Key)
    <3>1. Cardinality(repeats) < crashes
      BY <2>3, <2>6 DEF Again
    <3>2. Cardinality(repeats') = Cardinality(repeats \cup {Key})
      BY <2>2, <2>6
    <3>3. Cardinality(repeats \cup {Key}) <= crashes
      BY <1>0, <2>4, <2>5, <3>1
    <3> QED
      BY <2>3, <3>2, <3>3
  <2>7. CASE ~\E e \in effects : Of(e, Key)
    BY <2>2, <2>3, <2>7
  <2> QED
    BY <2>6, <2>7
<1>2. CASE Crash
  <2>1. repeats' = repeats /\ crashes' = crashes + 1
    BY <1>2 DEF Crash
  <2>2. DEFINE c == Cardinality(repeats)
  <2>3. Cardinality(repeats') = c /\ c \in Nat /\ c <= crashes
    BY <1>0, <2>1
  <2> HIDE DEF c
  <2> QED
    BY <1>0, <2>1, <2>3
<1>3. CASE ~StartsTool /\ ~StartsAgent /\ ~Crash
  <2>1. effects' = effects /\ repeats' = repeats
    BY <1>3, RecordStays
  <2>2. crashes' = crashes
    BY <1>3 DEF Moves, Stops, Begins, Decides, Concludes, Asks, Proceeds, Claims, Confirmed,
                Replanned, Permits, Joins, Completed, Retried, IssueApproval
  <2>3. Again' => Again
    <3>1. CASE Claims
      BY <3>1, ClaimsAnew
    <3>2. CASE ~Claims
      <4>1. node' \in Starting =>
              /\ node \in Starting
              /\ plan' = plan /\ current' = current /\ revision' = revision
        BY <1>3, <3>2 DEF Moves, Stops, Begins, Decides, Concludes, Asks, RoutesToHuman, Proceeds,
                Confirmed, Confirms, Replanned, Permits, Joins, Completed, Retried,
                IssueApproval, Starting
      <4>2. node' \in Starting => Key' = Key
        BY <4>1 DEF Key
      <4> QED
        BY <2>1, <4>1, <4>2 DEF Again, Of
    <3> QED
      BY <3>1, <3>2
  <2> QED
    BY <2>1, <2>2, <2>3
<1> QED
  BY <1>1, <1>2, <1>3

\* Every step keeps the record of attempts in line with the plan.
LEMMA AttemptPreserved ==
  ASSUME TypeInv, PlaceInv, AttemptInv, Moves
  PROVE  AttemptInv'
<1> USE DEF record, gate, state, memory, Forgets
<1>0. /\ \A e \in effects : Behind(e)
      /\ \A k \in kept : \E e \in effects : Of(e, k)
      /\ node = "running" => Ran(current)
      /\ \A s \in StepIds : Settled(s) => Ran(s)
      /\ status = "completed" => \A s \in StepIds : Settled(s)
      /\ Cardinality(repeats) <= crashes
      /\ Again => Cardinality(repeats) < crashes
  BY DEF AttemptInv, Behind, Ran
<1>1. effects \subseteq effects'
  BY EffectsGrow
<1>2. \A e \in effects' : Behind(e)'
  <2>1. \A e \in effects : Behind(e)'
    BY <1>0, BehindStays
  <2>2. CASE StartsTool \/ StartsAgent
    <3>1. PICK a : Starts(a)
      BY <2>2 DEF StartsTool, StartsAgent
    <3>2. current \in StepIds /\ plan' = plan /\ current' = current /\ revision' = revision
      BY <2>2 DEF StartsTool, StartsAgent, PlaceInv, Busy
    <3>3. PICK e : e = Started(a)
      OBVIOUS
    <3>4. Behind(e)
      BY <3>1, <3>2, <3>3, StartsRuns
    <3>5. Behind(e)'
      BY <3>2, <3>4 DEF Behind
    <3>6. effects' = effects \cup {e}
      BY <3>1, <3>3, StartsAdds
    <3> QED
      BY <2>1, <3>5, <3>6
  <2>3. CASE ~StartsTool /\ ~StartsAgent
    BY <2>1, <2>3, RecordStays
  <2> QED
    BY <2>2, <2>3
<1>3. \A k \in kept' : \E e \in effects' : Of(e, k)
  <2>1. CASE StartsTool
    <3>1. current \in StepIds /\ plan' = plan /\ current' = current /\ revision' = revision
      BY <2>1 DEF StartsTool, PlaceInv, Busy
    <3>2. Of(Started(permit), Key) /\ Started(permit) \in effects'
      BY <2>1, <3>1, StartsRuns DEF StartsTool
    <3> QED
      BY <1>0, <1>1, <2>1, <3>2 DEF StartsTool
  <2>2. CASE ~StartsTool
    <3>1. kept' \subseteq kept
      BY <2>2 DEF Moves, Stops, Begins, Decides, Concludes, Asks, Proceeds, Claims,
                Confirmed, Replanned, Permits, Joins, StartsAgent, Completed, Retried,
                Crash, IssueApproval
    <3> QED
      BY <1>0, <1>1, <3>1
  <2> QED
    BY <2>1, <2>2
<1>4. node' = "running" => Ran(current)'
  <2>1. CASE StartsTool \/ StartsAgent
    <3>1. PICK a : Starts(a)
      BY <2>1 DEF StartsTool, StartsAgent
    <3>2. current \in StepIds /\ plan' = plan /\ current' = current /\ revision' = revision
      BY <2>1 DEF StartsTool, StartsAgent, PlaceInv, Busy
    <3> QED
      BY <3>1, <3>2, StartsRuns
  <2>2. CASE Joins
    <3>1. PICK e \in effects : Of(e, Key)
      BY <1>0, <2>2 DEF Joins
    <3> QED
      BY <1>1, <2>2, <3>1 DEF Joins, Of, Key, Ran
  <2>3. CASE node' = "running" /\ ~StartsTool /\ ~StartsAgent /\ ~Joins
    <3>1. node = "running" /\ plan' = plan /\ current' = current
      BY <2>3 DEF Moves, Stops, Begins, Decides, Concludes, Asks, RoutesToHuman, Proceeds, Claims,
                Confirmed, Confirms, Replanned, Permits, Completed, Retried, Crash,
                IssueApproval
    <3> QED
      BY <1>0, <1>1, <3>1 DEF Ran
  <2> QED
    BY <2>1, <2>2, <2>3
<1>5. \A s \in StepIds : Settled(s)' => Ran(s)'
  <2>1. SUFFICES ASSUME NEW s \in StepIds, Settled(s)'
                 PROVE  Ran(s)'
    OBVIOUS
  <2>2. plan'[s].attempt = plan[s].attempt
    BY <2>1, SettledKeepsAttempt
  <2>3. Ran(s)
    BY <1>0, <2>1, SettledKeepsAttempt DEF Completed
  <2> QED
    BY <1>1, <2>2, <2>3 DEF Ran
<1>6. status' = "completed" => \A s \in StepIds : Settled(s)'
  <2>1. SUFFICES ASSUME status' = "completed"
                 PROVE  \A s \in StepIds : Settled(s)'
    OBVIOUS
  <2>2. TypeOK
    BY DEF TypeInv
  <2>3. status = "completed" => node = "end"
    BY <2>2 DEF TypeOK, Terminal
  <2>4. plan' = plan /\ (status = "completed" \/ Stops)
    BY <2>1, <2>3 DEF Moves, Stops, Begins, Decides, Concludes, Asks, RoutesToHuman, Proceeds,
              Claims, Confirmed, Confirms, Replanned, Permits, Joins, StartsTool, StartsAgent,
              Completed, Retried, Crash, IssueApproval
  <2>5. CASE Stops
    <3>1. node = "routing" /\ decision = "finish"
      BY <2>1, <2>5 DEF Stops
    <3>2. Act(current) # "finish"
      BY ActIsAgentOrTool
    <3> QED
      BY <2>4, <3>1, <3>2 DEF PlaceInv, Settled
  <2> QED
    BY <1>0, <2>4, <2>5 DEF Settled
<1>7. Cardinality(repeats') <= crashes' /\ (Again' => Cardinality(repeats') < crashes')
  BY <1>0, RepeatsAreCrashes
<1> QED
  BY <1>2, <1>3, <1>4, <1>5, <1>6, <1>7 DEF AttemptInv, Behind, Ran

-----------------------------------------------------------------------------
(* The theorems.                                                           *)

\* The graph begins in the invariant.
LEMMA InitGraphInv == Init => GraphInv
<1> SUFFICES ASSUME Init PROVE GraphInv
  OBVIOUS
<1>1. Steps \in Nat /\ MaxApprovals \in Nat
  BY ConstantsAssumption
<1>2. TypeInv
  BY <1>1, AttemptsType, UnboundType, FS_EmptySet
     DEF Init, TypeInv, TypeOK, Nodes, Terminal, NewPlan, Approvals
<1>3. PlaceInv /\ AnswerInv
  BY DEF Init, PlaceInv, AnswerInv, Busy
<1>4. SubmissionInv
  BY DEF Init, SubmissionInv, Submissions
<1>5. AttemptInv
  BY FS_EmptySet DEF Init, AttemptInv, Settled, NewPlan, Again, Starting
<1> QED
  BY <1>2, <1>3, <1>4, <1>5 DEF GraphInv

\* Every step keeps the invariant.
LEMMA StepGraphInv == GraphInv /\ [Next]_vars => GraphInv'
<1> SUFFICES ASSUME GraphInv, [Next]_vars PROVE GraphInv'
  OBVIOUS
<1>1. CASE Next
  <2>1. Moves
    BY <1>1, StepCases
  <2>2. \A e \in effects : e.revision <= revision
    BY DEF GraphInv, AttemptInv
  <2> QED
    BY <2>1, <2>2, TypePreserved, PlacePreserved, AnswerPreserved, SubmissionPreserved,
       AttemptPreserved DEF GraphInv
<1>2. CASE UNCHANGED vars
  BY <1>2 DEF vars, state, memory, GraphInv, TypeInv, TypeOK, PlaceInv, Ready, Settled, Act,
              AnswerInv, Verified, SubmissionInv, Submissions, UsedUp, AttemptInv, Of, Again, Key,
              Attempts
<1> QED
  BY <1>1, <1>2

\* The inductive invariant of the graph: where each node stands, what the human's answer
\* is about, which approvals are used up, and which attempts were started.
THEOREM GraphInvariant == Spec => []GraphInv
BY InitGraphInv, StepGraphInv, PTL DEF Spec

\* Every start of final_submit used an approval of its own, issued for what the human was
\* last shown, and no attempt of a submission is started twice, for every plan, budget
\* and number of crashes: PolicyEngine and ApprovalGate bind the approval to the plan's
\* revision, and a graph that runs a node again after a crash has forgotten the answer.
THEOREM SubmissionsApproved == Spec => []EachSubmissionIsApproved
<1>1. GraphInv => EachSubmissionIsApproved
  BY ConstantsAssumption
     DEF GraphInv, SubmissionInv, UsedUp, Approvals, EachSubmissionIsApproved
<1> QED
  BY <1>1, GraphInvariant, PTL

\* The graph starts no attempt again but after a crash, once for every crash, and a run it
\* calls completed started every step of the plan at the attempt the plan records.
THEOREM GraphConsistent == Spec => []Consistent
<1>1. GraphInv => Consistent
  BY DEF GraphInv, TypeInv, AttemptInv, Consistent, AttemptsRunOnce, CompletedRanEverything
<1> QED
  BY <1>1, GraphInvariant, PTL

=============================================================================
