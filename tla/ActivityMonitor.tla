--------------------------- MODULE ActivityMonitor ---------------------------
(***************************************************************************)
(* How the Browser Worker notices what happens on the page: the script in  *)
(* the page reports changes and what the user does, the monitor tells the  *)
(* API of a change at once, and that the page is stable after two equal    *)
(* readings, or that it is not after five seconds; and the session that    *)
(* binds a monitor to the page it works on and starts it for a task.       *)
(*                                                                         *)
(* A reading of the page is awaited; changes, commands, another task and   *)
(* another page come in between.  A reading is the structure the page has  *)
(* then; times are left out but for their order.                           *)
(***************************************************************************)
EXTENDS Naturals, FiniteSets

CONSTANTS
    Tasks, Prints,      \* tasks, and the structures a page can have
    MaxSamples,         \* bound on the samples in progress
    None

VARIABLES
    page,           \* the structure of the page
    notices,        \* reports of the script that are on their way
    guard,          \* whether the page knows that an operation is running
    automation,     \* the operation: "none", "running" or "draining"
    task,           \* taskId
    waiting,        \* waitingSince: a change was announced; the cap timer runs
    timer,          \* changeTimer
    samples,        \* sample() calls in progress
    last, stable,   \* lastFingerprint, lastStableFingerprint
    force,          \* forceStableEmission
    events          \* the activities that this step reports

vars == <<page, notices, guard, automation, task, waiting, timer, samples, last, stable, force, events>>
pageVars == <<page, notices, guard, automation>>

Init ==
    /\ page \in Prints /\ notices = {} /\ guard = FALSE /\ automation = "none"
    /\ task = None /\ waiting = FALSE /\ timer = FALSE /\ samples = {}
    /\ last = None /\ stable = None /\ force = FALSE /\ events = {}

Event(type, print, calm) == [type |-> type, task |-> task, print |-> print, calm |-> calm]

-----------------------------------------------------------------------------
(* The page.                                                               *)

\* The script reports every mutation, and what the user does while no operation runs
\* as far as the page knows.
PageChanges(p) ==
    /\ p # page /\ page' = p
    /\ notices' = notices \cup {"mutation"} /\ events' = {}
    /\ UNCHANGED <<guard, automation, task, waiting, timer, samples, last, stable, force>>

UserActs ==
    /\ ~ guard /\ notices' = notices \cup {"user"} /\ events' = {}
    /\ UNCHANGED <<page, guard, automation, task, waiting, timer, samples, last, stable, force>>

\* A new document knows nothing of the operation.
Navigates ==
    /\ guard' = FALSE /\ notices' = notices \cup {"mutation"} /\ events' = {}
    /\ UNCHANGED <<page, automation, task, waiting, timer, samples, last, stable, force>>

\* runAutomation, and the events of the operation itself.
Begins ==
    /\ automation = "none" /\ automation' = "running" /\ guard' = TRUE /\ events' = {}
    /\ UNCHANGED <<page, notices, task, waiting, timer, samples, last, stable, force>>
Acts ==
    /\ automation = "running" /\ events' = {}
    /\ notices' = notices \cup (IF guard THEN {"mutation"} ELSE {"mutation", "user"})
    /\ UNCHANGED <<page, guard, automation, task, waiting, timer, samples, last, stable, force>>
Ends ==
    /\ automation # "none" /\ events' = {}
    /\ automation' = IF automation = "running" THEN "draining" ELSE "none"
    /\ guard' = (guard /\ automation = "running")
    /\ UNCHANGED <<page, notices, task, waiting, timer, samples, last, stable, force>>

-----------------------------------------------------------------------------
(* The monitor.                                                            *)

\* A sample belongs to a generation, and stops at the next one when it looks; calm is
\* what the model adds: nothing was noticed between the first reading and the second.
Outdated(s) == [s EXCEPT !.current = FALSE, !.calm = @ /\ s.at # "pause"]

\* markChanged begins the next generation.
MarkChanged ==
    /\ waiting' = TRUE /\ timer' = TRUE
    /\ samples' = {Outdated(s) : s \in samples}

Notice(n) ==
    /\ n \in notices /\ notices' = notices \ {n}
    /\ IF task = None \/ (n = "user" /\ automation # "none")
       THEN events' = {} /\ UNCHANGED <<waiting, timer, samples, force>>
       ELSE /\ MarkChanged
            /\ force' = (force \/ n = "user")
            /\ events' = (IF n = "user" THEN {Event("user_activity", None, TRUE)} ELSE {})
                         \cup (IF waiting THEN {} ELSE {Event("page_changed", None, TRUE)})
    /\ UNCHANGED <<page, guard, automation, task, last, stable>>

\* The timer fires: the first reading begins.
Sample ==
    /\ timer /\ Cardinality(samples) < MaxSamples
    /\ timer' = FALSE /\ events' = {}
    /\ samples' = samples \cup {[at |-> "first", print |-> None, current |-> TRUE, calm |-> TRUE]}
    /\ UNCHANGED <<pageVars, task, waiting, last, stable, force>>

FirstRead(s) ==
    /\ s.at = "first" /\ last' = page /\ events' = {}
    /\ samples' = (samples \ {s}) \cup {[s EXCEPT !.at = "pause", !.print = page]}
    /\ UNCHANGED <<pageVars, task, waiting, timer, stable, force>>

\* isCurrent, before the second reading.
IsCurrent_Waiting(s) == task # None /\ waiting
IsCurrent(s) == task # None /\ waiting /\ s.current
Paused(s) ==
    /\ s.at = "pause" /\ events' = {}
    /\ samples' = (samples \ {s}) \cup (IF IsCurrent(s) THEN {[s EXCEPT !.at = "second"]} ELSE {})
    /\ UNCHANGED <<pageVars, task, waiting, timer, last, stable, force>>

ClearWaiting == waiting' = FALSE /\ timer' = FALSE

\* scheduleNextSample; the cap may have passed meanwhile.
Again(s) ==
    /\ UNCHANGED <<stable, force>>
    /\ IF ~ IsCurrent(s) THEN events' = {} /\ UNCHANGED <<waiting, timer>>
       ELSE \/ timer' = TRUE /\ events' = {} /\ UNCHANGED waiting
            \/ ClearWaiting /\ events' = {Event("page_unstable", last', TRUE)}

\* The second reading is not followed by a look at the generation.
SecondRead(s) ==
    /\ s.at = "second" /\ last' = page /\ samples' = samples \ {s}
    /\ IF s.print # page THEN Again(s)
       ELSE /\ ClearWaiting
            /\ IF (force \/ page # stable) /\ task # None
               THEN /\ events' = {Event("page_stable", page, s.calm)}
                    /\ stable' = page /\ force' = FALSE
               ELSE events' = {} /\ UNCHANGED <<stable, force>>
    /\ UNCHANGED <<pageVars, task>>

\* A reading can fail when the page is navigating.
ReadFails(s) ==
    /\ s.at \in {"first", "second"} /\ samples' = samples \ {s}
    /\ UNCHANGED <<pageVars, task, last>>
    /\ Again(s)

\* emitUnstable
CapPasses ==
    /\ waiting /\ ClearWaiting /\ events' = {Event("page_unstable", last, TRUE)}
    /\ UNCHANGED <<pageVars, task, samples, last, stable, force>>

-----------------------------------------------------------------------------
(* The session; its commands come one after the other.                     *)

\* monitorTask: another task starts the monitor anew.
Start(t) ==
    /\ automation = "none" /\ t # task
    /\ task' = t /\ ClearWaiting /\ samples' = {Outdated(s) : s \in samples}
    /\ last' = None /\ stable' = None /\ force' = FALSE /\ events' = {}
    /\ UNCHANGED pageVars

\* bindPage makes a monitor for another page and starts it for the active task;
\* releaseTask leaves none.
Fresh ==
    /\ automation = "none" /\ ClearWaiting /\ samples' = {}
    /\ last' = None /\ stable' = None /\ force' = FALSE /\ events' = {}
    /\ UNCHANGED automation
Bind ==
    /\ Fresh /\ page' \in Prints /\ notices' = {} /\ guard' = FALSE
    /\ UNCHANGED task
Release ==
    /\ Fresh /\ task # None /\ task' = None
    /\ UNCHANGED <<page, notices, guard>>

Next ==
    \/ \E p \in Prints : PageChanges(p)
    \/ UserActs \/ Navigates \/ Begins \/ Acts \/ Ends
    \/ \E n \in notices : Notice(n)
    \/ Sample \/ CapPasses
    \/ \E s \in samples : FirstRead(s) \/ Paused(s) \/ SecondRead(s) \/ ReadFails(s)
    \/ \E t \in Tasks : Start(t)
    \/ Bind \/ Release

Spec == Init /\ [][Next]_vars

-----------------------------------------------------------------------------
\* Properties.

\* Whoever was told of a change hears the end of it: while one is announced, a timer or
\* a sample of the present generation will report, and none does without a task.
MonitorConsistent ==
    /\ waiting => task # None /\ (timer \/ \E s \in samples : s.current)
    /\ timer => waiting
    /\ \A e \in events : e.task \in Tasks

\* A page is called stable after two equal readings of it between which nothing was
\* noticed, also while samples of former changes are still reading.
ReportsCalmOnly ==
    \A e \in events' : e.type = "page_stable" =>
        e.calm /\ e.print = page /\ \E s \in samples : s.at = "second" /\ s.print = e.print
StableWasReadTwice == [][ReportsCalmOnly]_vars
=============================================================================
