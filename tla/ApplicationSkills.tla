--------------------------- MODULE ApplicationSkills ---------------------------
(***************************************************************************)
(* The versions of one site's application skill, the traffic they get, and *)
(* the executions that judge them (apps/api/src/application-skills).       *)
(*                                                                         *)
(* An execution resolves a version for its task, pins it, runs, records    *)
(* what happened, and in the same call decides about the challenger and    *)
(* may evolve a new candidate: all with awaits between, so that executions *)
(* interleave.  A registry operation is one transaction or one synchronous *)
(* call; a crash loses what the executions were doing.                     *)
(*                                                                         *)
(* A version is its patch number, its parent the number before.  The id of *)
(* an allocation is a function of its page, and active_status of a binding *)
(* one of the version's status, so neither is a variable.                  *)
(***************************************************************************)
EXTENDS Naturals, Bags, FiniteSets

CONSTANTS
  Executions,     \* slots of executions that run at a time
  Pages,          \* page fingerprints of the site
  Themes,         \* what an opportunity to evolve is about
  Contents,       \* contents a generator may write
  None,
  FirstContent,   \* the content of the bootstrapped version
  MinSamples,     \* challenger samples a promotion needs, 10 in the code
  MaxVersion,     \* bound on versions
  MaxTasks,       \* bound on executions
  MaxCrashes      \* bound on restarts

ASSUME ConstantsAssumption ==
  /\ FirstContent \in Contents
  /\ None \notin Executions \cup Pages \cup Themes \cup Contents \cup Nat
  /\ None \notin [champion : 0..MaxVersion, challenger : 0..MaxVersion \cup {None}, at : Nat]
  /\ MinSamples \in Nat \ {0}
  /\ MaxVersion \in Nat /\ MaxTasks \in Nat /\ MaxCrashes \in Nat

VARIABLES
  status,    \* version -> its status, "none" before it exists
  content,   \* version -> its content
  page,      \* version -> the page it is bound to
  alloc,     \* page -> its traffic allocation
  leases,    \* opportunities whose qualification began
  reports,   \* [opportunity, version, decision] of the qualifications that ended
  samples,   \* bag of the evaluated executions
  exec,      \* execution slot -> what it is doing
  clock,     \* stamps of the allocations and of the samples
  tasks,     \* executions started so far
  crashes,
  failed     \* versions that failed hard while they were on trial

registry == <<status, content, page, alloc>>
evolution == <<leases, reports>>
vars == <<registry, evolution, samples, exec, clock, tasks, crashes, failed>>

Versions == 0..MaxVersion
Statuses == {"none", "candidate", "replay_qualified", "challenger", "champion",
             "retired", "quarantined"}
Opportunities == Versions \X Themes

Idle == [at |-> "idle", page |-> None, version |-> None, cohort |-> None,
         alloc |-> None, sample |-> None, opportunity |-> None]

Init ==
  /\ status = [v \in Versions |-> IF v = 0 THEN "champion" ELSE "none"]
  /\ content = [v \in Versions |-> IF v = 0 THEN FirstContent ELSE None]
  /\ page = [v \in Versions |-> None]
  /\ alloc = [p \in Pages |-> None]
  /\ leases = {} /\ reports = {}
  /\ samples = EmptyBag
  /\ exec = [e \in Executions |-> Idle]
  /\ clock = 0 /\ tasks = 0 /\ crashes = 0 /\ failed = {}

-----------------------------------------------------------------------------
(* The registry.                                                           *)

Serving(v) == status[v] \in {"champion", "challenger"}

\* getChampionForSite: nothing when the site has several champions.
Champions == {v \in Versions : status[v] = "champion"}

\* bindPage: a version is bound to one page.
Bindable(v, p) == page[v] \in {None, p}

Allocation(champion, challenger, at) ==
  [champion |-> champion, challenger |-> challenger, at |-> at]

\* The page's traffic goes to one champion alone, as of now.
GiveAll(p, v) == alloc' = [alloc EXCEPT ![p] = Allocation(v, None, clock + 1)]

\* compareAndSetStatus: challenger to champion.
Promote(p, v) ==
  /\ status' = [w \in Versions |->
       IF w = v THEN "champion"
       ELSE IF status[w] = "champion" /\ page[w] = p THEN "retired" ELSE status[w]]
  /\ GiveAll(p, v)

Quarantine_KeepsTraffic(p, v) ==
  /\ status' = [status EXCEPT ![v] = "quarantined"]
  /\ UNCHANGED alloc

\* compareAndSetStatus: challenger to quarantined.
Quarantine(p, v) ==
  /\ status' = [status EXCEPT ![v] = "quarantined"]
  /\ GiveAll(p, alloc[p].champion)

\* retireChallenger.
Retire(p, v) ==
  /\ status' = [status EXCEPT ![v] = "retired"]
  /\ GiveAll(p, alloc[p].champion)

Activatable(p, parent, v) ==
  /\ status[parent] = "champion" /\ page[parent] = p
  /\ status[v] = "replay_qualified" /\ page[v] = p
  /\ alloc[p] # None /\ alloc[p].champion = parent /\ alloc[p].challenger = None

\* activateChallenger, stamped with the time the qualification began.
Activate(p, parent, v, at) ==
  IF Activatable(p, parent, v)
  THEN /\ status' = [status EXCEPT ![v] = "challenger"]
       /\ alloc' = [alloc EXCEPT ![p] = Allocation(parent, v, at)]
  ELSE UNCHANGED <<status, alloc>>

-----------------------------------------------------------------------------
(* Resolving the version of a task.                                        *)

Goto(e, at) == exec' = [exec EXCEPT ![e].at = at]

HandOff(e) == exec' = [exec EXCEPT ![e] = Idle]

Start(e, p) ==
  /\ exec[e].at = "idle" /\ tasks < MaxTasks
  /\ tasks' = tasks + 1
  /\ exec' = [exec EXCEPT ![e] = [Idle EXCEPT !.at = "place", !.page = p]]
  /\ UNCHANGED <<registry, evolution, samples, clock, crashes, failed>>

\* The first task of a page binds the site's champion to it and gives it the
\* page's traffic.  An ambiguous or unbindable champion hands the task over.
Place(e) ==
  LET p == exec[e].page
  IN /\ exec[e].at = "place"
     /\ IF Cardinality(Champions) # 1
        THEN HandOff(e) /\ UNCHANGED <<registry, clock>>
        ELSE LET v == CHOOSE w \in Champions : TRUE
             IN IF alloc[p] # None
                THEN Goto(e, "choose") /\ UNCHANGED <<registry, clock>>
                ELSE IF Bindable(v, p)
                THEN /\ page' = [page EXCEPT ![v] = p]
                     /\ GiveAll(p, v)
                     /\ clock' = clock + 1
                     /\ Goto(e, "choose")
                     /\ UNCHANGED <<status, content>>
                ELSE HandOff(e) /\ UNCHANGED <<registry, clock>>
     /\ UNCHANGED <<evolution, samples, tasks, crashes, failed>>

\* getPageAllocation of the selector.
Choose(e) ==
  /\ exec[e].at = "choose"
  /\ exec' = [exec EXCEPT ![e].at = "verify", ![e].alloc = alloc[exec[e].page]]
  /\ UNCHANGED <<registry, evolution, samples, clock, tasks, crashes, failed>>

\* The version of an allocation read before, for a task of either bucket: the
\* champion must still be one, the challenger is taken while it is one.
Selections(a) ==
  IF status[a.champion] # "champion" THEN {}
  ELSE {a.champion} \cup {v \in {a.challenger} \ {None} : status[v] = "challenger"}

Pin(e) ==
  /\ exec[e].at = "verify"
  /\ LET chosen == Selections(exec[e].alloc)
     IN IF chosen = {} THEN HandOff(e)
        ELSE \E v \in chosen :
          exec' = [exec EXCEPT ![e].at = "compile", ![e].version = v, ![e].alloc = None]
  /\ UNCHANGED <<registry, evolution, samples, clock, tasks, crashes, failed>>

\* compileSelection, of a new task and of one that resumes: the pinned version
\* must be serving.  The first cohort of a task stays with it.
Compile(e) ==
  LET v == exec[e].version
  IN /\ exec[e].at = "compile"
     /\ IF Serving(v)
        THEN exec' = [exec EXCEPT ![e].at = "running",
                                  ![e].cohort = IF @ = None THEN status[v] ELSE @]
        ELSE HandOff(e)
     /\ UNCHANGED <<registry, evolution, samples, clock, tasks, crashes, failed>>

\* A new page of the task is resolved with its pin.
Reobserve(e) ==
  /\ exec[e].at = "running"
  /\ ~Serving(exec[e].version)
  /\ HandOff(e)
  /\ UNCHANGED <<registry, evolution, samples, clock, tasks, crashes, failed>>

\* The execution ends and its record is stored; hard is a safety violation, an
\* incorrect write or an audit mismatch.
Finish(e, hard) ==
  /\ exec[e].at = "running"
  /\ exec' = [exec EXCEPT ![e].at = "decide",
       ![e].sample = [page |-> exec[e].page, version |-> exec[e].version,
                      cohort |-> exec[e].cohort, hard |-> hard, at |-> clock]]
  /\ UNCHANGED <<registry, evolution, samples, clock, tasks, crashes, failed>>

-----------------------------------------------------------------------------
(* Deciding about the challenger: PromotionEngine.recordAndDecide.         *)

Stored(s) == samples (+) SetToBag({s})

\* The samples of a cohort on a page since its allocation changed last, in the
\* bag that holds this one too: whatever version they ran.
Cohort(bag, p, cohort) ==
  {s \in BagToSet(bag) : s.page = p /\ s.cohort = cohort /\ s.at >= alloc[p].at}

Count(bag, S) ==
  LET F[T \in SUBSET S] ==
        IF T = {} THEN 0
        ELSE LET s == CHOOSE t \in T : TRUE IN bag[s] + F[T \ {s}]
  IN F[S]

OnTrial(s) ==
  /\ s.cohort = "challenger"
  /\ alloc[s.page] # None /\ alloc[s.page].challenger = s.version
  /\ status[s.version] = "challenger"

\* What stratifiedBootstrapComparison may answer: samples of both cohorts in
\* one stratum, enough of them, decide by their values.
Comparisons(bag, p) ==
  LET challenger == Cohort(bag, p, "challenger")
  IN IF \E s \in challenger : s.hard THEN {"rollback"}
     ELSE IF \/ Count(bag, challenger) < MinSamples
             \/ Cohort(bag, p, "champion") = {}
     THEN {"continue"}
     ELSE {"continue", "promote", "rollback", "stop-inconclusive"}

\* A hard failure of the challenger needs no comparison.
Verdicts(bag, s) ==
  IF ~OnTrial(s) THEN {"continue"}
  ELSE IF s.hard THEN {"rollback"}
  ELSE Comparisons(bag, s.page)

Apply(verdict, s) ==
  CASE verdict = "promote" -> Promote(s.page, s.version)
    [] verdict = "rollback" -> Quarantine(s.page, s.version)
    [] verdict = "stop-inconclusive" -> Retire(s.page, s.version)
    [] OTHER -> UNCHANGED <<status, alloc>>

Decide(e) ==
  LET s == exec[e].sample
  IN /\ exec[e].at = "decide"
     /\ samples' = Stored(s)
     /\ \E verdict \in Verdicts(Stored(s), s) :
          /\ Apply(verdict, s)
          /\ clock' = IF verdict = "continue" THEN clock ELSE clock + 1
     /\ failed' = IF OnTrial(s) /\ s.hard THEN failed \cup {s.version} ELSE failed
     /\ Goto(e, "evolve")
     /\ UNCHANGED <<content, page, evolution, tasks, crashes>>

-----------------------------------------------------------------------------
(* Evolving a candidate: AutomaticEvolutionLoop and EvolutionCoordinator.  *)

\* A sample of a champion without a challenger may show an opportunity.
MayEvolve(s) ==
  /\ s.cohort = "champion"
  /\ alloc[s.page] # None
  /\ alloc[s.page].champion = s.version /\ alloc[s.page].challenger = None
  /\ status[s.version] = "champion"

\* No opportunity, or one that somebody qualified or is qualifying.
EndWithoutEvolution(e) ==
  /\ exec[e].at = "evolve"
  /\ HandOff(e)
  /\ UNCHANGED <<registry, evolution, samples, clock, tasks, crashes, failed>>

\* The lease of an opportunity is never given back.
BeginQualification(e, theme) ==
  LET s == exec[e].sample
      o == <<s.version, theme>>
  IN /\ exec[e].at = "evolve"
     /\ MayEvolve(s)
     /\ o \notin leases
     /\ s.version < MaxVersion
     /\ leases' = leases \cup {o}
     /\ clock' = clock + 1
     /\ exec' = [exec EXCEPT ![e].at = "qualify", ![e].opportunity = o,
                             ![e].alloc = alloc[s.page], ![e].sample.at = clock + 1]
     /\ UNCHANGED <<registry, reports, samples, tasks, crashes, failed>>

Report_OncePerParent(o, v, decision) ==
  reports' = IF \E r \in reports : r.opportunity[1] = o[1] THEN reports
             ELSE reports \cup {[opportunity |-> o, version |-> v, decision |-> decision]}

Report(o, v, decision) ==
  reports' = reports \cup {[opportunity |-> o, version |-> v, decision |-> decision]}

\* A gate refuses what the generator wrote, or the generator wrote nothing.
RejectCandidate(e) ==
  /\ exec[e].at = "qualify"
  /\ Report(exec[e].opportunity, None, "rejected")
  /\ HandOff(e)
  /\ UNCHANGED <<registry, leases, samples, clock, tasks, crashes, failed>>

\* createVersion stores a version that nothing has the number or content of.
Creatable(v, c) ==
  /\ status[v] = "none"
  /\ \A w \in Versions : content[w] # c

Store(v, c, p, st) ==
  /\ status' = [status EXCEPT ![v] = st]
  /\ content' = [content EXCEPT ![v] = c]
  /\ page' = [page EXCEPT ![v] = p]

\* Every gate passed: the candidate is stored, bound and qualified, then the
\* page's allocation is compared with the one read before the first gate.
Qualify(e, c) ==
  LET o == exec[e].opportunity
      p == exec[e].page
      v == o[1] + 1
  IN /\ exec[e].at = "qualify"
     /\ IF Creatable(v, c)
        THEN /\ Store(v, c, p, "replay_qualified")
             /\ IF alloc[p] = exec[e].alloc
                THEN /\ Report(o, v, "qualified")
                     /\ exec' = [exec EXCEPT ![e].at = "activate", ![e].version = v]
                ELSE Report(o, v, "rejected") /\ HandOff(e)
        ELSE /\ Report(o, v, "rejected")
             /\ HandOff(e)
             /\ UNCHANGED <<status, content, page>>
     /\ UNCHANGED <<alloc, leases, samples, clock, tasks, crashes, failed>>

ActivateCandidate(e) ==
  LET s == exec[e].sample
  IN /\ exec[e].at = "activate"
     /\ Activate(exec[e].page, s.version, exec[e].version, s.at)
     /\ HandOff(e)
     /\ UNCHANGED <<content, page, evolution, samples, clock, tasks, crashes, failed>>

-----------------------------------------------------------------------------
(* Crashes.                                                                *)

\* Pinned executions that wrote no record resume; the rest is lost.  Execution
\* slots that lose a record keep it in the database, evaluated by nobody.
Restarted ==
  [e \in Executions |->
     IF exec[e].at \in {"compile", "running"}
     THEN [exec[e] EXCEPT !.at = "compile"] ELSE Idle]

Crash ==
  /\ crashes < MaxCrashes
  /\ crashes' = crashes + 1
  /\ exec' = Restarted
  /\ UNCHANGED <<registry, evolution, samples, clock, tasks, failed>>

\* The process dies between the statements that store a qualified candidate.
CrashWhileQualifying(e, c) ==
  LET v == exec[e].opportunity[1] + 1
  IN /\ crashes < MaxCrashes
     /\ exec[e].at = "qualify"
     /\ Creatable(v, c)
     /\ \E st \in {"candidate", "replay_qualified"} :
          \E p \in {exec[e].page} \cup (IF st = "candidate" THEN {None} ELSE {}) :
            Store(v, c, p, st)
     /\ crashes' = crashes + 1
     /\ exec' = Restarted
     /\ UNCHANGED <<alloc, evolution, samples, clock, tasks, failed>>

-----------------------------------------------------------------------------

Next ==
  \/ \E e \in Executions :
       \/ \E p \in Pages : Start(e, p)
       \/ Place(e)
       \/ Choose(e)
       \/ Pin(e)
       \/ Compile(e)
       \/ Reobserve(e)
       \/ \E hard \in BOOLEAN : Finish(e, hard)
       \/ Decide(e)
       \/ EndWithoutEvolution(e)
       \/ \E theme \in Themes : BeginQualification(e, theme)
       \/ RejectCandidate(e)
       \/ \E c \in Contents : Qualify(e, c)
       \/ ActivateCandidate(e)
       \/ \E c \in Contents : CrashWhileQualifying(e, c)
  \/ Crash

Spec == Init /\ [][Next]_vars

-----------------------------------------------------------------------------
(* Properties.                                                             *)

\* The variables have their types.
TypeOK ==
  /\ status \in [Versions -> Statuses]
  /\ content \in [Versions -> Contents \cup {None}]
  /\ page \in [Versions -> Pages \cup {None}]
  /\ DOMAIN alloc = Pages
  /\ leases \subseteq Opportunities
  /\ IsABag(samples)
  /\ DOMAIN exec = Executions
  /\ clock \in Nat /\ tasks \in 0..MaxTasks /\ crashes \in 0..MaxCrashes
  /\ failed \subseteq Versions
  /\ \A v \in Versions : (status[v] = "none") <=> (content[v] = None)

\* An allocation and the statuses agree whatever the executions that decide and
\* qualify at the same time do: traffic goes to the champion of the page and to
\* its challenger only, and a challenger is one exactly while it gets traffic
\* (compareAndSetStatus, activateChallenger and retireChallenger).
TrafficAgrees ==
  /\ \A p \in Pages : alloc[p] # None =>
       /\ status[alloc[p].champion] = "champion" /\ page[alloc[p].champion] = p
       /\ alloc[p].challenger # None =>
            status[alloc[p].challenger] = "challenger" /\ page[alloc[p].challenger] = p
  /\ \A v \in Versions : status[v] = "challenger" =>
       page[v] # None /\ alloc[page[v]] # None /\ alloc[page[v]].challenger = v

\* A version that failed hard on trial never gets traffic again: not when its
\* other samples favour it, not through the qualification of another opportunity
\* and not after a crash (recordAndDecide and createVersion).
FailedIsNeverServed == \A v \in failed : ~Serving(v)

\* Whatever version an execution is writing with passed qualification and its
\* report says so, crashes in the middle of a qualification included.
OnlyQualifiedRuns ==
  \A e \in Executions :
    exec[e].at = "running" /\ exec[e].version # 0 =>
      \E r \in reports : r.version = exec[e].version /\ r.decision = "qualified"

\* What gets traffic has earned it: by a qualification, and by no hard failure since.
ServedIsQualified == FailedIsNeverServed /\ OnlyQualifiedRuns

\* A promoted version had enough samples of its own: what the design says of
\* the challenger.  The comparison takes every sample of the cohort.
PromotedOnOwnSamples ==
  \A v \in Versions \ {0} : status[v] = "champion" =>
    Count(samples, {s \in BagToSet(samples) : s.version = v /\ s.cohort = "challenger"})
      >= MinSamples

\* Types, and allocations that agree with the statuses.
Consistent == TypeOK /\ TrafficAgrees
=============================================================================
