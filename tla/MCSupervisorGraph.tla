---- MODULE MCSupervisorGraph ----
(* A plan of three steps: an agent's, a capability's and the submission. *)
EXTENDS SupervisorGraph

MCIrreversible == {3}
MCTools == {2}
====
