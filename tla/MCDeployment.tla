---------------------------- MODULE MCDeployment ----------------------------
(* Two releases, two workers and two commands that may overlap.            *)
EXTENDS Deployment
CONSTANTS r1, r2, w1, w2, c1, c2
InstalledOrEmpty == {"installed", "empty"}
Installed == {"installed"}
Absent == {"absent"}
BothBackends == {"systemd", "supervisor"}
=============================================================================
