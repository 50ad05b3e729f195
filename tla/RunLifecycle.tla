---------------------------- MODULE RunLifecycle ----------------------------
(***************************************************************************)
(* What the Agent Runtime promises to a reader of its checkpoints          *)
(* (RuntimeCheckpoint.status and .executionEpoch in                        *)
(* packages/contracts/src/agent-runtime.ts): which status may follow which *)
(* and when the execution epoch advances.  AgentRuntime implements it.     *)
(***************************************************************************)
EXTENDS Naturals

VARIABLES status, epoch
lifecycle == <<status, epoch>>

Open == {"running", "interrupted"}
Closed == {"completed", "blocked", "failed", "cancelled", "expired"}

Init == status = "none" /\ epoch = 0

\* The first checkpoint follows the first node of the graph, or its abort.
Begin ==
    /\ status = "none"
    /\ status' \in Open \cup {"blocked", "failed", "cancelled"}
    /\ UNCHANGED epoch

\* Work goes on, or stops to ask a human.
Work ==
    /\ status = "running" /\ status' \in Open
    /\ UNCHANGED epoch

\* Only a human answer takes a waiting run back to work, in a new epoch.
Proceed ==
    /\ status = "interrupted" /\ status' = "running"
    /\ epoch' = epoch + 1

Stop ==
    /\ status = "running" /\ status' \in Closed \ {"expired"}
    /\ UNCHANGED epoch

\* A waiting run is closed as it is, or by an answer that is not accepted.
Dismiss ==
    /\ status = "interrupted" /\ status' \in Closed \ {"completed"}
    /\ epoch' \in {epoch, epoch + 1}

\* A failed run whose duration runs out before the graph ends is reported
\* blocked: the only closed status that is ever replaced.
Reclassify ==
    /\ status = "failed" /\ status' = "blocked"
    /\ UNCHANGED epoch

Next == Begin \/ Work \/ Proceed \/ Stop \/ Dismiss \/ Reclassify
Spec == Init /\ [][Next]_lifecycle
=============================================================================
