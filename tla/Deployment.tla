----------------------------- MODULE Deployment -----------------------------
(***************************************************************************)
(* The remote deployment of the two model workers: install, rollback,      *)
(* start and stop as separate commands on one installation root, the       *)
(* releases they publish, the link `current' that they switch, and the     *)
(* controller (user systemd or Supervisor) that keeps the workers running. *)
(* A command may be killed between any two of its steps, the host may      *)
(* reboot, a worker or supervisord may die, and every step that calls      *)
(* another program may fail.                                               *)
(*                                                                         *)
(* A release is its id.  What is verified about its contents is reduced to *)
(* whether its published tree still passes (damaged).  systemd and         *)
(* supervisord are external: they are modelled as the code uses them.      *)
(***************************************************************************)
EXTENDS Integers, FiniteSets

CONSTANTS
    Releases,
    Workers,
    Commands,     \* processes of deployment.py that may run at the same time
    None,
    Backends,     \* controllers the host may have: "systemd", "supervisor"
    Roots,        \* what a root may start as: "absent", "empty", "installed"
    MaxCommands,  \* bound: commands given
    MaxFaults     \* bound: failures, kills, deaths and reboots

ASSUME ConstantsAssumption ==
    /\ None \notin Releases
    /\ Backends \subseteq {"systemd", "supervisor"} /\ Backends # {}
    /\ Roots \subseteq {"absent", "empty", "installed"} /\ Roots # {}
    /\ MaxCommands \in Nat /\ MaxFaults \in Nat

VARIABLES
    fs,       \* the root: whether it exists, releases, current, owner.json
    backend,  \* the controller persisted for the root
    keeper,   \* supervisord is up, or the systemd units are enabled
    wanted,   \* the workers the controller was told to keep running
    running,  \* the release each of them runs from, if it is up
    orphan,   \* workers that outlived their supervisord and hold the port
    cmd,      \* the commands in progress
    left      \* what remains of the bounds

vars == <<fs, backend, keeper, wanted, running, orphan, cmd, left>>
procs == <<keeper, wanted, running, orphan>>

Maybe == Releases \cup {None}
Idle == [op |-> "none", rel |-> None, pc |-> "idle", lock |-> "none",
         prev |-> None, was |-> None, result |-> "none"]

Down == [w \in Workers |-> None]
Off == [w \in Workers |-> FALSE]

\* An installed root has a release running from it; an empty one is what a first
\* install that failed leaves.
Root(kind, r) ==
    [exists |-> kind # "absent", owner |-> kind = "installed", damaged |-> {},
     published |-> IF kind = "installed" THEN {r} ELSE {},
     current |-> IF kind = "installed" THEN r ELSE None]
Init ==
    /\ fs \in {Root(kind, r) : kind \in Roots, r \in Releases}
    /\ backend \in Backends
    /\ keeper = (fs.current # None)
    /\ wanted = [w \in Workers |-> keeper]
    /\ running = [w \in Workers |-> fs.current]
    /\ orphan = Down
    /\ cmd = [c \in Commands |-> Idle]
    /\ left = [commands |-> MaxCommands, faults |-> MaxFaults]

Failing == left.faults > 0 /\ left' = [left EXCEPT !.faults = @ - 1]
At(c, pc) == cmd[c].pc = pc
Go(c, pc) == cmd' = [cmd EXCEPT ![c].pc = pc]

\* The command reports, and its lock is released.
End(c, result) ==
    cmd' = [cmd EXCEPT ![c].pc = "idle", ![c].lock = "none", ![c].result = result]

-----------------------------------------------------------------------------
(* The controller *)

\* systemctl enable --now, or supervisord: workers that are up stay as they are;
\* those that are started run what the link `services' leads to.  A running
\* supervisord is only waited for.
Launched(S) ==
    [w \in Workers |-> IF w \in S /\ running[w] = None THEN fs.current ELSE running[w]]
StartWorkers(S) ==
    /\ keeper' = TRUE
    /\ IF backend = "supervisor" /\ keeper
       THEN UNCHANGED <<wanted, running>>
       ELSE /\ wanted' = [w \in Workers |-> TRUE]
            /\ running' = Launched(S)
    /\ UNCHANGED orphan

\* Only what the controller keeps is stopped.  Supervisor without its daemon has
\* nothing to stop.
StopWorkers(S) ==
    /\ running' = [w \in Workers |-> IF w \in S THEN None ELSE running[w]]
    /\ wanted' = [w \in Workers |-> wanted[w] /\ w \notin S]
    /\ keeper' = IF backend = "systemd" \/ S # Workers THEN keeper ELSE FALSE
    /\ UNCHANGED orphan

\* Starting and stopping may reach some of the workers only; where the command
\* goes then.
Starting(c, next, otherwise) ==
    \/ /\ StartWorkers(Workers) /\ next /\ UNCHANGED left
       /\ \A w \in Workers : running'[w] # None
    \/ /\ \E S \in SUBSET Workers :
            /\ StartWorkers(S)
            /\ Failing \/ (UNCHANGED left /\ \E w \in Workers : running'[w] = None /\ S = Workers)
       /\ otherwise
\* systemd fails to stop units it was never given.
Stopping(c, next, otherwise) ==
    IF backend = "systemd" /\ ~keeper
    THEN otherwise /\ UNCHANGED <<procs, left>>
    ELSE \/ StopWorkers(Workers) /\ next /\ UNCHANGED left
         \/ \E S \in SUBSET Workers :
              S # Workers /\ StopWorkers(S) /\ Failing /\ otherwise

\* A check that fails when what it looks for is not so, or by itself.
Checking(holds, next, otherwise) ==
    /\ \/ holds /\ next /\ UNCHANGED left
       \/ ~holds /\ otherwise /\ UNCHANGED left
       \/ holds /\ Failing /\ otherwise
    /\ UNCHANGED procs

\* The controller reports both workers up.
AllUp == \A w \in Workers : running[w] # None
\* Whatever listens on the two ports answers with the pinned identities, the same
\* for every release.
AllAnswer == \A w \in Workers : running[w] # None \/ orphan[w] # None

-----------------------------------------------------------------------------
(* The world *)

\* A worker dies; the controller starts it again, from whatever is current.
WorkerDies(w) ==
    /\ running[w] # None /\ Failing
    /\ running' = [running EXCEPT ![w] = None]
    /\ UNCHANGED <<fs, backend, keeper, wanted, orphan, cmd>>

Restart(w) ==
    /\ wanted[w] /\ keeper /\ running[w] = None /\ fs.current # None
    /\ running' = [running EXCEPT ![w] = fs.current]
    /\ UNCHANGED <<fs, backend, keeper, wanted, orphan, cmd, left>>

\* supervisord is killed: its workers go on, and keep their ports.
DaemonDies ==
    /\ backend = "supervisor" /\ keeper /\ Failing
    /\ keeper' = FALSE /\ wanted' = Off /\ running' = Down
    /\ orphan' = [w \in Workers |-> IF running[w] = None THEN orphan[w] ELSE running[w]]
    /\ UNCHANGED <<fs, backend, cmd>>

\* A worker loads its model for longer than startsecs before it finds its port
\* taken.
PortTaken(w) ==
    /\ orphan[w] # None /\ running[w] # None
    /\ running' = [running EXCEPT ![w] = None]
    /\ UNCHANGED <<fs, backend, keeper, wanted, orphan, cmd, left>>

\* Commands and workers end; systemd starts its enabled units again.
Reboot ==
    /\ Failing
    /\ cmd' = [c \in Commands |-> [cmd[c] EXCEPT !.pc = "idle", !.lock = "none", !.result = "none"]]
    /\ running' = Down /\ orphan' = Down
    /\ keeper' = (keeper /\ backend = "systemd")
    /\ wanted' = [w \in Workers |-> keeper']
    /\ UNCHANGED <<fs, backend>>

\* The command's process is killed.
Kill(c) ==
    /\ ~At(c, "idle") /\ Failing
    /\ cmd' = [cmd EXCEPT ![c].pc = "idle", ![c].lock = "none", ![c].result = "none"]
    /\ UNCHANGED <<fs, backend, procs>>

\* Something outside changes a published tree (its permissions, its Python).
Damage(r) ==
    /\ r \in fs.published \ fs.damaged /\ Failing
    /\ fs' = [fs EXCEPT !.damaged = @ \cup {r}]
    /\ UNCHANGED <<backend, procs, cmd>>

-----------------------------------------------------------------------------
(* A command up to its transaction *)

Begin(c) ==
    /\ At(c, "idle") /\ left.commands > 0
    /\ \E op \in {"install", "rollback", "start", "stop"}, r \in Releases :
         cmd' = [cmd EXCEPT ![c] = [Idle EXCEPT !.op = op, !.rel = r, !.pc = "lock"]]
    /\ left' = [left EXCEPT !.commands = @ - 1]
    /\ UNCHANGED <<fs, backend, procs>>

\* The lock is on a directory: the root, or the nearest parent while there is no
\* root yet.
Inode(c) == IF fs.exists THEN "root" ELSE "parent"
Lock(c) ==
    /\ At(c, "lock")
    /\ IF \E b \in Commands \ {c} : cmd[b].lock = Inode(c)
       THEN End(c, "busy")
       ELSE cmd' = [cmd EXCEPT ![c].lock = Inode(c), ![c].was = fs.current,
                               ![c].pc = "preflight"]
    /\ UNCHANGED <<fs, backend, procs, left>>

\* A published tree still passes its inspection.
Sound(r) == r \in fs.published \ fs.damaged

\* Nothing is changed until everything managed was inspected.
Accepted(c) ==
    CASE cmd[c].op = "install" -> TRUE
      [] cmd[c].op = "rollback" -> /\ fs.current # None /\ fs.owner
                                   /\ Sound(cmd[c].rel)
      [] cmd[c].op = "start" -> fs.current # None /\ fs.owner
      [] cmd[c].op = "stop" -> fs.exists /\ fs.owner
First(c) ==
    CASE cmd[c].op = "install" -> "create"
      [] cmd[c].op = "rollback" -> "validate"
      [] OTHER -> cmd[c].op
Preflight(c) ==
    /\ At(c, "preflight")
    /\ IF Accepted(c) THEN Go(c, First(c)) ELSE End(c, "refused")
    /\ UNCHANGED <<fs, backend, procs, left>>

CreateDirectories(c) ==
    /\ At(c, "create")
    /\ fs' = [fs EXCEPT !.exists = TRUE]
    /\ Go(c, "build")
    /\ UNCHANGED <<backend, procs, left>>

\* A release is built and verified aside and published whole, or found published
\* and verified again.
Build(c) ==
    /\ At(c, "build")
    /\ \/ /\ cmd[c].rel \notin fs.damaged
          /\ fs' = [fs EXCEPT !.published = @ \cup {cmd[c].rel}]
          /\ Go(c, "persist")
          /\ UNCHANGED left
       \/ /\ cmd[c].rel \in fs.damaged \/ cmd[c].rel \notin fs.published
          /\ End(c, "failed")
          /\ IF cmd[c].rel \in fs.damaged THEN UNCHANGED left ELSE Failing
          /\ UNCHANGED fs
    /\ UNCHANGED <<backend, procs>>

Persist(c) ==
    /\ At(c, "persist")
    /\ fs' = [fs EXCEPT !.owner = TRUE]
    /\ Go(c, "validate")
    /\ UNCHANGED <<backend, procs, left>>

-----------------------------------------------------------------------------
(* transactional_activate *)

\* What is current now is what a failure returns to.
AfterValidate_Running(r) == "switch"
AfterValidate(r) ==
    CASE r = None -> "switch"
      [] r \in fs.damaged -> "undo_stop"
      [] OTHER -> "stop"
Validate(c) ==
    /\ At(c, "validate")
    /\ IF cmd[c].rel \in fs.damaged
       THEN End(c, "failed")
       ELSE cmd' = [cmd EXCEPT ![c].prev = fs.current,
                               ![c].pc = AfterValidate(fs.current)]
    /\ UNCHANGED <<fs, backend, procs, left>>

\* The link is replaced in one step.
Links(c, r) == fs' = [fs EXCEPT !.current = r]
Switch(c) ==
    /\ At(c, "switch")
    /\ \/ /\ Links(c, cmd[c].rel)
          /\ Go(c, "start")
          /\ UNCHANGED left
       \/ Go(c, "undo_stop") /\ Failing /\ UNCHANGED fs
    /\ UNCHANGED <<backend, procs>>

Transacting(c) == cmd[c].op \in {"install", "rollback"}
Stop(c) ==
    /\ At(c, "stop")
    /\ IF Transacting(c)
       THEN Stopping(c, Go(c, "switch"), Go(c, "undo_stop"))
       ELSE Stopping(c, End(c, "stopped"), End(c, "failed"))
    /\ UNCHANGED <<fs, backend>>

Otherwise(c) == IF Transacting(c) THEN Go(c, "undo_stop") ELSE End(c, "failed")
Start(c) ==
    /\ At(c, "start")
    /\ Starting(c, Go(c, IF Transacting(c) THEN "status" ELSE "verify"), Otherwise(c))
    /\ UNCHANGED <<fs, backend>>

Status(c) ==
    /\ At(c, "status")
    /\ Checking(AllUp, Go(c, "verify"), Otherwise(c))
    /\ UNCHANGED <<fs, backend>>

Verify(c) ==
    /\ At(c, "verify")
    /\ Checking(AllAnswer, End(c, "active"), Otherwise(c))
    /\ UNCHANGED <<fs, backend>>

\* The way back: nothing is switched back under processes that could not be
\* stopped.
StopFailed_Anyway(c) == Go(c, "undo_switch")
StopFailed(c) == End(c, "rollback_failed")
UndoStop(c) ==
    /\ At(c, "undo_stop")
    /\ Stopping(c, Go(c, "undo_switch"), StopFailed(c))
    /\ UNCHANGED <<fs, backend>>

UndoSwitch(c) ==
    /\ At(c, "undo_switch")
    /\ \/ /\ cmd[c].prev = None /\ End(c, "failed") /\ Links(c, None) /\ UNCHANGED left
       \/ /\ cmd[c].prev # None /\ Sound(cmd[c].prev)
          /\ Links(c, cmd[c].prev) /\ Go(c, "undo_start") /\ UNCHANGED left
       \/ /\ cmd[c].prev \in fs.damaged
          /\ End(c, "rollback_failed") /\ UNCHANGED <<fs, left>>
       \/ /\ cmd[c].prev # None /\ Failing
          /\ End(c, "rollback_failed") /\ UNCHANGED fs
    /\ UNCHANGED <<backend, procs>>

UndoStart(c) ==
    /\ At(c, "undo_start")
    /\ Starting(c, Go(c, "undo_status"), End(c, "rollback_failed"))
    /\ UNCHANGED <<fs, backend>>

UndoStatus(c) ==
    /\ At(c, "undo_status")
    /\ Checking(AllUp, Go(c, "undo_verify"), End(c, "rollback_failed"))
    /\ UNCHANGED <<fs, backend>>

UndoVerify(c) ==
    /\ At(c, "undo_verify")
    /\ Checking(AllAnswer, End(c, "restored"), End(c, "rollback_failed"))
    /\ UNCHANGED <<fs, backend>>

-----------------------------------------------------------------------------
Proceed(c) ==
    \/ Lock(c) \/ Preflight(c) \/ CreateDirectories(c) \/ Build(c) \/ Persist(c)
    \/ Validate(c) \/ Stop(c) \/ Switch(c) \/ Start(c) \/ Status(c) \/ Verify(c)
    \/ UndoStop(c) \/ UndoSwitch(c) \/ UndoStart(c) \/ UndoStatus(c) \/ UndoVerify(c)

Next ==
    \/ \E c \in Commands : Begin(c) \/ Proceed(c) \/ Kill(c)
    \/ \E w \in Workers : WorkerDies(w) \/ Restart(w) \/ PortTaken(w)
    \/ \E r \in Releases : Damage(r)
    \/ DaemonDies \/ Reboot

Spec == Init /\ [][Next]_vars

-----------------------------------------------------------------------------
(* Properties *)

Steps == {"idle", "lock", "preflight", "create", "build", "persist", "validate",
          "stop", "switch", "start", "status", "verify",
          "undo_stop", "undo_switch", "undo_start", "undo_status", "undo_verify"}
Results == {"none", "busy", "refused", "failed", "stopped", "active", "restored",
            "rollback_failed"}

\* Type correctness.  A controller exists only for a root whose owner was
\* persisted, and what it keeps running needs a current release that was published.
TypeOK ==
    /\ fs \in [exists : BOOLEAN, published : SUBSET Releases,
               damaged : SUBSET Releases, current : Maybe, owner : BOOLEAN]
    /\ fs.damaged \subseteq fs.published
    /\ fs.current # None => fs.current \in fs.published /\ fs.owner /\ fs.exists
    /\ backend \in Backends /\ keeper \in BOOLEAN /\ wanted \in [Workers -> BOOLEAN]
    /\ running \in [Workers -> Maybe] /\ orphan \in [Workers -> Maybe]
    /\ cmd \in [Commands ->
         [op : {"none", "install", "rollback", "start", "stop"}, rel : Maybe, pc : Steps,
          lock : {"none", "root", "parent"}, prev : Maybe, was : Maybe, result : Results]]
    /\ left \in [commands : 0..MaxCommands, faults : 0..MaxFaults]

\* Both workers run the release that is current, or none: a worker that dies and is
\* started again in the middle of a switch, a command killed between stopping,
\* switching and starting, and a way back that fails halfway never leave the two on
\* different releases or on one that is no longer current.
RunsCurrent == \A w \in Workers : running[w] \in {None, fs.current}

\* While one command works on an existing root every other one is refused
\* ("another installation is already running").
Working(c) == cmd[c].lock # "none"
OneAtATime == \A b, c \in Commands : Working(b) /\ Working(c) => b = c

\* What a command reports is so: "active" means that the release it was given is
\* current, "restored" that the one it found is, and that both workers run it, save
\* where a process that outlived its supervisord has the port.
Serving(r) ==
    fs.current = r /\ \A w \in Workers : running[w] = r \/ orphan[w] # None
Ends(c) == cmd[c].pc # "idle" /\ cmd'[c].pc = "idle"
SuccessIsTrue ==
    [][\A c \in Commands : Ends(c) /\ Transacting(c) =>
         /\ cmd'[c].result = "active" => Serving(cmd[c].rel)'
         /\ cmd'[c].result = "restored" => Serving(cmd[c].was)']_vars

\* "active" after a switch means that the new release answers ("starts both new
\* Workers, and verifies both /readyz responses and pinned model identities").
AnswersAreNew ==
    [][\A c \in Commands : Ends(c) /\ Transacting(c) /\ cmd'[c].result = "active" =>
         \A w \in Workers : orphan'[w] \in {None, cmd[c].rel}]_vars

\* A command that fails, or that restored, leaves current what it was when it took
\* the lock; only "active" and a failed way back change it.
FailureKeepsCurrent ==
    [][\A c \in Commands :
         Ends(c) /\ Working(c) /\ cmd'[c].result \in {"refused", "failed", "restored"}
           => fs'.current = cmd[c].was]_vars

\* Types, workers that run what is current, and commands that work one at a time.
Consistent == TypeOK /\ RunsCurrent /\ OneAtATime

\* What a command reports tells what became of the host, of success and of failure.
ReportsAreTrue == SuccessIsTrue /\ FailureKeepsCurrent
=============================================================================
