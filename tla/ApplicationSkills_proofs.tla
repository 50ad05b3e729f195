------------------------ MODULE ApplicationSkills_proofs ------------------------
(***************************************************************************)
(* Proofs about the versions of an application skill: who gets traffic.    *)
(*                                                                         *)
(* Executions that judge, qualify and activate interleave, and what each   *)
(* of them read before its await may be old when it writes.  The statuses  *)
(* and the allocations still agree because every write is one transaction  *)
(* that compares what it read: the verdict needs the version to be on      *)
(* trial now, an activation needs the page to have no challenger now.      *)
(***************************************************************************)
EXTENDS ApplicationSkills, FiniteSetTheorems, TLAPS

Allocations == [champion : Versions, challenger : Versions \cup {None}, at : Nat]
Cohorts == {"champion", "challenger"}
Samples == [page : Pages, version : Versions, cohort : Cohorts, hard : BOOLEAN, at : Nat]
Places == {"idle", "place", "choose", "verify", "compile", "running", "decide", "evolve",
           "qualify", "activate"}

\* An execution has what the place it is at needs.
SlotInv(x) ==
  /\ x.at \in Places
  /\ x.at # "idle" => x.page \in Pages
  /\ x.at = "choose" => alloc[x.page] # None
  /\ x.at = "verify" => x.alloc \in Allocations
  /\ x.at \in {"compile", "running"} => x.version \in Versions
  /\ x.at = "compile" => x.cohort \in Cohorts \cup {None}
  /\ x.at = "running" => x.cohort \in Cohorts
  /\ x.at \in {"decide", "evolve", "qualify", "activate"} => x.sample \in Samples
  /\ x.at = "qualify" => x.opportunity \in Opportunities /\ x.opportunity[1] < MaxVersion
  /\ x.at = "activate" => x.version \in Versions

Slots == [at : Places, page : Pages \cup {None}, version : Versions \cup {None},
          cohort : Cohorts \cup {None}, alloc : Allocations \cup {None},
          sample : Samples \cup {None}, opportunity : Opportunities \cup {None}]

TypeInv ==
  /\ TypeOK
  /\ alloc \in [Pages -> Allocations \cup {None}]
  /\ exec \in [Executions -> Slots]
  /\ \A e \in Executions : SlotInv(exec[e])

Qualified(v) == \E r \in reports : r.version = v /\ r.decision = "qualified"

\* Traffic, a trial and an execution rest on a qualification; a failure is for good.
EarnedInv ==
  /\ \A v \in Versions \ {0} : Serving(v) => Qualified(v)
  /\ \A e \in Executions :
       /\ exec[e].at = "activate" => Qualified(exec[e].version)
       /\ exec[e].at = "running" /\ exec[e].version # 0 => Qualified(exec[e].version)
  /\ \A v \in failed : status[v] = "quarantined"

SkillInv == TypeInv /\ TrafficAgrees /\ EarnedInv

-----------------------------------------------------------------------------
(* What a step does to the registry.                                       *)

\* The first task of a page binds the site's champion to it.
Placed(p, v) ==
  /\ p \in Pages /\ v \in Versions
  /\ alloc[p] = None /\ status[v] = "champion" /\ Bindable(v, p)
  /\ page' = [page EXCEPT ![v] = p]
  /\ GiveAll(p, v)
  /\ UNCHANGED <<status, content>>

\* The challenger that is on trial now is judged.
Judged(s) ==
  /\ s \in Samples /\ OnTrial(s)
  /\ Promote(s.page, s.version) \/ Quarantine(s.page, s.version) \/ Retire(s.page, s.version)
  /\ UNCHANGED <<content, page>>

\* A qualified version begins its trial.
Activated(p, parent, v, at) ==
  /\ p \in Pages /\ parent \in Versions /\ v \in Versions /\ at \in Nat
  /\ Activatable(p, parent, v)
  /\ Qualified(v)
  /\ status' = [status EXCEPT ![v] = "challenger"]
  /\ alloc' = [alloc EXCEPT ![p] = Allocation(parent, v, at)]
  /\ UNCHANGED <<content, page>>

\* A version is stored under a number that was free.
Created(v, c, p, st) ==
  /\ v \in Versions /\ c \in Contents /\ p \in Pages \cup {None}
  /\ st \in {"candidate", "replay_qualified"}
  /\ Creatable(v, c)
  /\ Store(v, c, p, st)
  /\ UNCHANGED alloc

RegistryStep ==
  \/ UNCHANGED registry
  \/ \E p \in Pages, v \in Versions : Placed(p, v)
  \/ \E s \in Samples : Judged(s)
  \/ \E p \in Pages, parent \in Versions, v \in Versions, at \in Nat : Activated(p, parent, v, at)
  \/ \E v \in Versions, c \in Contents, p \in Pages \cup {None},
        st \in {"candidate", "replay_qualified"} : Created(v, c, p, st)

\* What holds of an execution that does not idle.
LEMMA SlotType ==
  ASSUME TypeInv, NEW e \in Executions
  PROVE  exec[e] \in Slots /\ SlotInv(exec[e])
BY DEF TypeInv

\* The site's champion, when it has one.
LEMMA OneChampion ==
  ASSUME Cardinality(Champions) = 1
  PROVE  (CHOOSE w \in Champions : TRUE) \in Champions
<1>1. Champions # {}
  BY FS_EmptySet
<1> QED
  BY <1>1

\* Placing binds a champion to the page or changes nothing.
LEMMA PlaceStep ==
  ASSUME TypeInv, NEW e \in Executions, Place(e)
  PROVE  RegistryStep
<1>1. exec[e].page \in Pages
  BY SlotType DEF Place, SlotInv
<1>2. CASE UNCHANGED registry
  BY <1>2 DEF RegistryStep
<1>3. CASE ~UNCHANGED registry
  <2>1. /\ Cardinality(Champions) = 1 /\ alloc[exec[e].page] = None
    BY <1>3 DEF Place, registry
  <2>2. (CHOOSE w \in Champions : TRUE) \in Champions
    BY <2>1, OneChampion
  <2>3. PICK v : v = CHOOSE w \in Champions : TRUE
    OBVIOUS
  <2>4. v \in Versions /\ status[v] = "champion"
    BY <2>2, <2>3 DEF Champions
  <2>5. /\ Bindable(v, exec[e].page) /\ page' = [page EXCEPT ![v] = exec[e].page]
        /\ GiveAll(exec[e].page, v) /\ UNCHANGED <<status, content>>
    BY <1>3, <2>1, <2>3 DEF Place, registry
  <2> QED
    BY <1>1, <2>1, <2>4, <2>5 DEF Placed, RegistryStep
<1> QED
  BY <1>2, <1>3

\* A verdict other than to continue is about the challenger on trial now.
LEMMA DecideStep ==
  ASSUME TypeInv, NEW e \in Executions, Decide(e)
  PROVE  RegistryStep
<1>1. exec[e].sample \in Samples
  BY SlotType DEF Decide, SlotInv
<1>2. PICK s : s = exec[e].sample
  OBVIOUS
<1>3. PICK verdict \in Verdicts(Stored(s), s) : Apply(verdict, s)
  BY <1>2 DEF Decide
<1>4. UNCHANGED <<content, page>>
  BY DEF Decide
<1>5. CASE UNCHANGED <<status, alloc>>
  BY <1>4, <1>5 DEF RegistryStep, registry
<1>6. CASE ~UNCHANGED <<status, alloc>>
  <2>1. verdict # "continue"
    BY <1>3, <1>6 DEF Apply
  <2>2. OnTrial(s)
    BY <1>3, <2>1 DEF Verdicts
  <2>3. Promote(s.page, s.version) \/ Quarantine(s.page, s.version) \/ Retire(s.page, s.version)
    BY <1>3, <1>6 DEF Apply
  <2> QED
    BY <1>1, <1>2, <1>4, <2>2, <2>3 DEF Judged, RegistryStep
<1> QED
  BY <1>5, <1>6

\* An activation compares the registry, and its version was qualified.
LEMMA ActivateStep ==
  ASSUME TypeInv, EarnedInv, NEW e \in Executions, ActivateCandidate(e)
  PROVE  RegistryStep
<1>1. exec[e].page \in Pages /\ exec[e].sample \in Samples /\ exec[e].version \in Versions
  BY SlotType DEF ActivateCandidate, SlotInv
<1>2. Qualified(exec[e].version)
  BY DEF ActivateCandidate, EarnedInv
<1>3. exec[e].sample.version \in Versions /\ exec[e].sample.at \in Nat
  BY <1>1 DEF Samples
<1>4. CASE Activatable(exec[e].page, exec[e].sample.version, exec[e].version)
  BY <1>1, <1>2, <1>3, <1>4 DEF ActivateCandidate, Activate, Activated, RegistryStep
<1>5. CASE ~Activatable(exec[e].page, exec[e].sample.version, exec[e].version)
  BY <1>5 DEF ActivateCandidate, Activate, RegistryStep, registry
<1> QED
  BY <1>4, <1>5

\* The version a qualification stores.
LEMMA NextVersion ==
  ASSUME TypeInv, NEW e \in Executions, exec[e].at = "qualify"
  PROVE  /\ exec[e].opportunity \in Opportunities
         /\ exec[e].opportunity[1] + 1 \in Versions \ {0}
<1>1. exec[e].opportunity \in Opportunities /\ exec[e].opportunity[1] < MaxVersion
  BY SlotType DEF SlotInv
<1>2. exec[e].opportunity[1] \in Versions
  BY <1>1 DEF Opportunities
<1> QED
  BY <1>1, <1>2, ConstantsAssumption DEF Versions

\* A qualification, and one that dies in the middle, creates at most one version.
LEMMA QualifyStep ==
  ASSUME TypeInv, NEW e \in Executions, NEW c \in Contents,
         Qualify(e, c) \/ CrashWhileQualifying(e, c)
  PROVE  RegistryStep
<1>1. exec[e].at = "qualify" /\ exec[e].page \in Pages
  BY SlotType DEF Qualify, CrashWhileQualifying, SlotInv
<1>2. exec[e].opportunity[1] + 1 \in Versions
  BY <1>1, NextVersion
<1>3. CASE Qualify(e, c) /\ Creatable(exec[e].opportunity[1] + 1, c)
  BY <1>1, <1>2, <1>3 DEF Qualify, Created, RegistryStep
<1>4. CASE Qualify(e, c) /\ ~Creatable(exec[e].opportunity[1] + 1, c)
  BY <1>4 DEF Qualify, RegistryStep, registry
<1>5. CASE CrashWhileQualifying(e, c)
  <2>1. PICK st \in {"candidate", "replay_qualified"}, p \in {exec[e].page, None} :
               Store(exec[e].opportunity[1] + 1, c, p, st)
    BY <1>5 DEF CrashWhileQualifying
  <2>2. p \in Pages \cup {None}
    BY <1>1, <2>1
  <2>3. Creatable(exec[e].opportunity[1] + 1, c) /\ UNCHANGED alloc
    BY <1>5 DEF CrashWhileQualifying
  <2> QED
    BY <1>2, <2>1, <2>2, <2>3 DEF Created, RegistryStep
<1> QED
  BY <1>3, <1>4, <1>5

\* Every step leaves the registry alone or is one of these transactions.
LEMMA RegistrySteps == ASSUME TypeInv, EarnedInv, Next PROVE RegistryStep
<1>1. CASE Crash
  BY <1>1 DEF Crash, RegistryStep
<1>2. CASE ~Crash
  <2>1. PICK e \in Executions :
       \/ \E p \in Pages : Start(e, p)
       \/ Place(e) \/ Choose(e) \/ Pin(e) \/ Compile(e) \/ Reobserve(e)
       \/ \E hard \in BOOLEAN : Finish(e, hard)
       \/ Decide(e) \/ EndWithoutEvolution(e)
       \/ \E theme \in Themes : BeginQualification(e, theme)
       \/ RejectCandidate(e)
       \/ \E c \in Contents : Qualify(e, c)
       \/ ActivateCandidate(e)
       \/ \E c \in Contents : CrashWhileQualifying(e, c)
    BY <1>2 DEF Next
  <2>2. CASE Place(e) \/ Decide(e) \/ ActivateCandidate(e)
             \/ \E c \in Contents : Qualify(e, c) \/ CrashWhileQualifying(e, c)
    BY <2>2, PlaceStep, DecideStep, ActivateStep, QualifyStep
  <2>3. CASE ~(Place(e) \/ Decide(e) \/ ActivateCandidate(e)
               \/ \E c \in Contents : Qualify(e, c) \/ CrashWhileQualifying(e, c))
    BY <2>1, <2>3 DEF Start, Choose, Pin, Compile, Reobserve, Finish, EndWithoutEvolution,
                      BeginQualification, RejectCandidate, RegistryStep
  <2> QED
    BY <2>2, <2>3
<1> QED
  BY <1>1, <1>2

-----------------------------------------------------------------------------
(* The registry keeps its types.                                           *)

RegistryType ==
  /\ status \in [Versions -> Statuses]
  /\ content \in [Versions -> Contents \cup {None}]
  /\ page \in [Versions -> Pages \cup {None}]
  /\ alloc \in [Pages -> Allocations \cup {None}]
  /\ clock \in Nat
  /\ \A v \in Versions : (status[v] = "none") <=> (content[v] = None)

\* An allocation is a record, and none of its fields is left out.
LEMMA AllocationType ==
  ASSUME NEW c \in Versions, NEW d \in Versions \cup {None}, NEW at \in Nat
  PROVE  /\ Allocation(c, d, at) \in Allocations
         /\ Allocation(c, d, at) # None
         /\ Allocation(c, d, at).champion = c /\ Allocation(c, d, at).challenger = d
BY ConstantsAssumption DEF Allocation, Allocations, Versions

\* The fields of an allocation, which says more than that there is none.
LEMMA AllocationFields ==
  ASSUME NEW a \in Allocations
  PROVE  /\ a # None /\ a.champion \in Versions /\ a.challenger \in Versions \cup {None}
         /\ a.at \in Nat
BY ConstantsAssumption DEF Allocations, Versions

\* Nothing is not a version, a page or a content.
LEMMA NoneIsNoVersion == None \notin Versions /\ None \notin Pages /\ None \notin Contents
BY ConstantsAssumption DEF Versions

\* A registry step keeps the types, never takes a page's allocation away, and never
\* takes a version out of quarantine.
LEMMA RegistryKeepsTypes ==
  ASSUME RegistryType, TrafficAgrees, RegistryStep, clock' \in Nat
  PROVE  /\ RegistryType'
         /\ \A p \in Pages : alloc[p] # None => alloc'[p] # None
         /\ \A v \in Versions : status[v] = "quarantined" => status'[v] = "quarantined"
<1> USE NoneIsNoVersion DEF RegistryType, Statuses
<1>1. CASE UNCHANGED registry
  BY <1>1 DEF registry
<1>2. ASSUME NEW p \in Pages, NEW v \in Versions, Placed(p, v)
      PROVE  /\ RegistryType'
             /\ \A q \in Pages : alloc[q] # None => alloc'[q] # None
             /\ \A w \in Versions : status[w] = "quarantined" => status'[w] = "quarantined"
  <2>1. /\ Allocation(v, None, clock + 1) \in Allocations
        /\ Allocation(v, None, clock + 1) # None
    BY AllocationType
  <2> QED
    BY <1>2, <2>1 DEF Placed, GiveAll
<1>3. ASSUME NEW s \in Samples, Judged(s)
      PROVE  /\ RegistryType'
             /\ \A q \in Pages : alloc[q] # None => alloc'[q] # None
             /\ \A w \in Versions : status[w] = "quarantined" => status'[w] = "quarantined"
  <2>1. s.page \in Pages /\ s.version \in Versions
    BY DEF Samples
  <2>2. /\ alloc[s.page] # None /\ alloc[s.page] \in Allocations
        /\ alloc[s.page].champion \in Versions
        /\ status[s.version] = "challenger"
        /\ UNCHANGED <<content, page>>
    BY <1>3, <2>1, AllocationFields DEF Judged, OnTrial
  <2>3. PICK c \in Versions : alloc' = [alloc EXCEPT ![s.page] = Allocation(c, None, clock + 1)]
    BY <1>3, <2>1, <2>2 DEF Judged, Promote, Quarantine, Retire, GiveAll
  <2>4. /\ Allocation(c, None, clock + 1) \in Allocations
        /\ Allocation(c, None, clock + 1) # None
    BY AllocationType
  <2>5. /\ status' \in [Versions -> Statuses]
        /\ \A w \in Versions : status'[w] = "none" <=> status[w] = "none"
        /\ \A w \in Versions : status[w] = "quarantined" => status'[w] = "quarantined"
    BY <1>3, <2>1, <2>2 DEF Judged, Promote, Quarantine, Retire
  <2> QED
    BY <2>1, <2>2, <2>3, <2>4, <2>5
<1>4. ASSUME NEW p \in Pages, NEW parent \in Versions, NEW v \in Versions, NEW at \in Nat,
             Activated(p, parent, v, at)
      PROVE  /\ RegistryType'
             /\ \A q \in Pages : alloc[q] # None => alloc'[q] # None
             /\ \A w \in Versions : status[w] = "quarantined" => status'[w] = "quarantined"
  <2>1. Allocation(parent, v, at) \in Allocations /\ Allocation(parent, v, at) # None
    BY AllocationType
  <2> QED
    BY <1>4, <2>1 DEF Activated, Activatable
<1>5. ASSUME NEW v \in Versions, NEW c \in Contents, NEW p \in Pages \cup {None},
             NEW st \in {"candidate", "replay_qualified"}, Created(v, c, p, st)
      PROVE  /\ RegistryType'
             /\ \A q \in Pages : alloc[q] # None => alloc'[q] # None
             /\ \A w \in Versions : status[w] = "quarantined" => status'[w] = "quarantined"
  BY <1>5 DEF Created, Creatable, Store
<1> QED
  BY <1>1, <1>2, <1>3, <1>4, <1>5 DEF RegistryStep

-----------------------------------------------------------------------------
(* Traffic and statuses agree.                                             *)

\* Every registry step keeps the allocations and the statuses in agreement.
LEMMA TrafficPreserved ==
  ASSUME RegistryType, TrafficAgrees, RegistryStep, clock' \in Nat
  PROVE  TrafficAgrees'
<1> USE NoneIsNoVersion
<1>0. /\ status \in [Versions -> Statuses] /\ page \in [Versions -> Pages \cup {None}]
      /\ alloc \in [Pages -> Allocations \cup {None}]
      /\ \A p \in Pages : alloc[p] # None =>
           alloc[p].champion \in Versions /\ alloc[p].challenger \in Versions \cup {None}
      /\ clock \in Nat
  BY AllocationFields DEF RegistryType
<1>1. CASE UNCHANGED registry
  BY <1>1 DEF registry, TrafficAgrees
<1>2. ASSUME NEW p \in Pages, NEW v \in Versions, Placed(p, v)
      PROVE  TrafficAgrees'
  <2>1. /\ Allocation(v, None, clock + 1) # None
        /\ Allocation(v, None, clock + 1).champion = v
        /\ Allocation(v, None, clock + 1).challenger = None
    BY <1>0, AllocationType
  <2>2. /\ alloc' = [alloc EXCEPT ![p] = Allocation(v, None, clock + 1)]
        /\ alloc[p] = None /\ status[v] = "champion" /\ page[v] \in {None, p}
        /\ page' = [page EXCEPT ![v] = p] /\ status' = status
    BY <1>2 DEF Placed, GiveAll, Bindable
  <2>3. \A q \in Pages : alloc'[q] # None =>
           /\ status'[alloc'[q].champion] = "champion" /\ page'[alloc'[q].champion] = q
           /\ alloc'[q].challenger # None =>
                status'[alloc'[q].challenger] = "challenger" /\ page'[alloc'[q].challenger] = q
    <3>1. SUFFICES ASSUME NEW q \in Pages, q # p, alloc[q] # None
                   PROVE  /\ page'[alloc[q].champion] = q
                          /\ alloc[q].challenger # None => page'[alloc[q].challenger] = q
      BY <1>0, <2>1, <2>2, <3>1 DEF TrafficAgrees
    <3>2. alloc[q].champion # v /\ alloc[q].challenger # v
      BY <2>2, <3>1 DEF TrafficAgrees
    <3> QED
      BY <1>0, <2>2, <3>1, <3>2 DEF TrafficAgrees
  <2>4. \A w \in Versions : status'[w] = "challenger" =>
           page'[w] # None /\ alloc'[page'[w]] # None /\ alloc'[page'[w]].challenger = w
    <3>1. SUFFICES ASSUME NEW w \in Versions, status[w] = "challenger"
                   PROVE  page'[w] = page[w] /\ page[w] \in Pages /\ page[w] # p
      BY <1>0, <2>2, <3>1 DEF TrafficAgrees
    <3> QED
      BY <1>0, <2>2, <3>1 DEF TrafficAgrees
  <2> QED
    BY <2>3, <2>4 DEF TrafficAgrees
<1>3. ASSUME NEW s \in Samples, Judged(s)
      PROVE  TrafficAgrees'
  <2>1. s.page \in Pages /\ s.version \in Versions
    BY DEF Samples
  <2>2. /\ alloc[s.page] # None /\ alloc[s.page].challenger = s.version
        /\ status[s.version] = "challenger" /\ page' = page
        /\ page[s.version] = s.page
    BY <1>3, <2>1, <1>0 DEF Judged, OnTrial, TrafficAgrees
  <2>3. alloc[s.page].champion \in Versions /\ status[alloc[s.page].champion] = "champion"
        /\ page[alloc[s.page].champion] = s.page
    BY <1>0, <2>1, <2>2 DEF TrafficAgrees
  <2>4. PICK c \in Versions :
          /\ alloc' = [alloc EXCEPT ![s.page] = Allocation(c, None, clock + 1)]
          /\ status'[c] = "champion" /\ page[c] = s.page
    BY <1>0, <1>3, <2>1, <2>2, <2>3 DEF Judged, Promote, Quarantine, Retire, GiveAll
  <2>5. /\ Allocation(c, None, clock + 1) # None
        /\ Allocation(c, None, clock + 1).champion = c
        /\ Allocation(c, None, clock + 1).challenger = None
    <3>1. c \in Versions /\ None \in Versions \cup {None} /\ clock + 1 \in Nat
      BY <1>0, <2>4
    <3> QED
      BY <3>1, AllocationType
  <2>6. /\ status'[s.version] # "challenger"
        /\ \A w \in Versions \ {s.version} : page[w] # s.page => status'[w] = status[w]
        /\ \A w \in Versions \ {s.version} : status[w] = "challenger" => status'[w] = "challenger"
        /\ \A w \in Versions \ {s.version} : status'[w] = "challenger" => status[w] = "challenger"
    BY <1>0, <1>3, <2>1, <2>2 DEF Judged, Promote, Quarantine, Retire
  <2>7. \A q \in Pages \ {s.page} : alloc'[q] = alloc[q]
    BY <1>0, <2>4
  <2>8. alloc'[s.page].champion = c /\ alloc'[s.page].challenger = None
        /\ alloc'[s.page] # None
    BY <1>0, <2>1, <2>4, <2>5
  <2>9. \A q \in Pages : alloc'[q] # None =>
           /\ status'[alloc'[q].champion] = "champion" /\ page'[alloc'[q].champion] = q
           /\ alloc'[q].challenger # None =>
                status'[alloc'[q].challenger] = "challenger" /\ page'[alloc'[q].challenger] = q
    <3>1. SUFFICES ASSUME NEW q \in Pages, q # s.page, alloc[q] # None
                   PROVE  /\ status'[alloc[q].champion] = "champion" /\ page[alloc[q].champion] = q
                          /\ alloc[q].challenger # None =>
                               /\ status'[alloc[q].challenger] = "challenger"
                               /\ page[alloc[q].challenger] = q
      BY <2>1, <2>2, <2>4, <2>7, <2>8, <3>1
    <3>2. /\ status[alloc[q].champion] = "champion" /\ page[alloc[q].champion] = q
          /\ alloc[q].challenger # None =>
               status[alloc[q].challenger] = "challenger" /\ page[alloc[q].challenger] = q
      BY <3>1 DEF TrafficAgrees
    <3> QED
      BY <1>0, <2>2, <2>6, <3>1, <3>2
  <2>10. \A w \in Versions : status'[w] = "challenger" =>
           page'[w] # None /\ alloc'[page'[w]] # None /\ alloc'[page'[w]].challenger = w
    <3>1. SUFFICES ASSUME NEW w \in Versions, status[w] = "challenger", w # s.version
                   PROVE  /\ page[w] \in Pages \ {s.page} /\ alloc[page[w]] # None
                          /\ alloc[page[w]].challenger = w
      BY <2>2, <2>6, <2>7, <3>1
    <3> QED
      BY <1>0, <2>2, <3>1 DEF TrafficAgrees
  <2> QED
    BY <2>9, <2>10 DEF TrafficAgrees
<1>4. ASSUME NEW p \in Pages, NEW parent \in Versions, NEW v \in Versions, NEW at \in Nat,
             Activated(p, parent, v, at)
      PROVE  TrafficAgrees'
  <2>1. /\ Allocation(parent, v, at) # None
        /\ Allocation(parent, v, at).champion = parent
        /\ Allocation(parent, v, at).challenger = v
    BY AllocationType
  <2>2. /\ status[parent] = "champion" /\ page[parent] = p
        /\ status[v] = "replay_qualified" /\ page[v] = p
        /\ alloc[p] # None /\ alloc[p].challenger = None
        /\ status' = [status EXCEPT ![v] = "challenger"] /\ page' = page
        /\ alloc' = [alloc EXCEPT ![p] = Allocation(parent, v, at)]
    BY <1>4 DEF Activated, Activatable
  <2>3. \A q \in Pages : alloc'[q] # None =>
           /\ status'[alloc'[q].champion] = "champion" /\ page'[alloc'[q].champion] = q
           /\ alloc'[q].challenger # None =>
                status'[alloc'[q].challenger] = "challenger" /\ page'[alloc'[q].challenger] = q
    BY <1>0, <2>1, <2>2 DEF TrafficAgrees
  <2>4. \A w \in Versions : status'[w] = "challenger" =>
           page'[w] # None /\ alloc'[page'[w]] # None /\ alloc'[page'[w]].challenger = w
    BY <1>0, <2>1, <2>2 DEF TrafficAgrees
  <2> QED
    BY <2>3, <2>4 DEF TrafficAgrees
<1>5. ASSUME NEW v \in Versions, NEW c \in Contents, NEW p \in Pages \cup {None},
             NEW st \in {"candidate", "replay_qualified"}, Created(v, c, p, st)
      PROVE  TrafficAgrees'
  <2>1. /\ status[v] = "none" /\ alloc' = alloc
        /\ status' = [status EXCEPT ![v] = st] /\ page' = [page EXCEPT ![v] = p]
    BY <1>5 DEF Created, Creatable, Store
  <2> QED
    BY <1>0, <2>1 DEF TrafficAgrees
<1> QED
  BY <1>1, <1>2, <1>3, <1>4, <1>5 DEF RegistryStep

-----------------------------------------------------------------------------
(* Executions.                                                             *)

\* A version an execution activates, or writes with, is qualified.
Earned(x) ==
  /\ x.at = "activate" => Qualified(x.version)
  /\ x.at = "running" /\ x.version # 0 => Qualified(x.version)

\* An execution becomes x.
Becomes(e, x) ==
  /\ exec' = [exec EXCEPT ![e] = x]
  /\ x \in Slots /\ SlotInv(x)' /\ Earned(x)'

AllocationsStay == \A p \in Pages : alloc[p] # None => alloc'[p] # None

\* An idle execution owes nothing.
LEMMA IdleSlot == Idle \in Slots /\ SlotInv(Idle)' /\ Earned(Idle)'
BY DEF Idle, Slots, Places, SlotInv, Earned

\* An execution that hands its task over or gives up is idle again.
LEMMA HandOffMoves ==
  ASSUME NEW e \in Executions, HandOff(e)
  PROVE  \E x \in Slots : Becomes(e, x)
<1>1. Becomes(e, Idle)
  BY IdleSlot DEF HandOff, Becomes
<1> QED
  BY <1>1, IdleSlot

\* A task that starts has its page.
LEMMA StartMoves ==
  ASSUME TypeInv, NEW e \in Executions, NEW p \in Pages, Start(e, p)
  PROVE  \E x \in Slots : Becomes(e, x)
<1> DEFINE x == [Idle EXCEPT !.at = "place", !.page = p]
<1>1. x \in Slots /\ SlotInv(x)' /\ Earned(x)'
  BY DEF Idle, Slots, Places, SlotInv, Earned
<1>2. exec' = [exec EXCEPT ![e] = x]
  BY DEF Start
<1> QED
  BY <1>1, <1>2 DEF Becomes

\* An execution chooses only on a page with an allocation.
LEMMA PlaceMoves ==
  ASSUME TypeInv, AllocationsStay, RegistryType', NEW e \in Executions, Place(e)
  PROVE  \E x \in Slots : Becomes(e, x)
<1>1. CASE HandOff(e)
  BY <1>1, HandOffMoves
<1>2. CASE ~HandOff(e)
  <2> DEFINE x == [exec[e] EXCEPT !.at = "choose"]
  <2>1. exec[e] \in Slots /\ exec[e].page \in Pages
    BY SlotType DEF Place, SlotInv
  <2>2. Goto(e, "choose")
    BY <1>2 DEF Place
  <2>3. exec' = [exec EXCEPT ![e] = x]
    BY <2>2 DEF Goto
  <2>4. alloc'[exec[e].page] # None
    <3>1. CASE alloc[exec[e].page] # None
      BY <2>1, <3>1 DEF AllocationsStay
    <3>2. CASE alloc[exec[e].page] = None
      <4>1. Cardinality(Champions) = 1
        BY <1>2 DEF Place
      <4>2. PICK v : v = CHOOSE w \in Champions : TRUE
        OBVIOUS
      <4>3. v \in Versions /\ v \in Champions
        BY <4>1, <4>2, OneChampion DEF Champions
      <4>4. GiveAll(exec[e].page, v)
        BY <1>2, <3>2, <4>1, <4>2 DEF Place
      <4>5. Allocation(v, None, clock + 1) # None
        <5>1. clock + 1 \in Nat /\ None \in Versions \cup {None}
          BY DEF TypeInv, TypeOK
        <5> QED
          BY <4>3, <5>1, AllocationType
      <4> QED
        BY <2>1, <4>4, <4>5 DEF GiveAll, TypeInv
    <3> QED
      BY <3>1, <3>2
  <2>5. x \in Slots /\ x.at = "choose" /\ x.page = exec[e].page
    BY <2>1 DEF Slots, Places
  <2> HIDE DEF x
  <2>6. PICK y \in Slots : y = x
    BY <2>5
  <2>7. SlotInv(y)' /\ Earned(y)'
    BY <2>1, <2>4, <2>5, <2>6 DEF SlotInv, Earned, Places
  <2> QED
    BY <2>3, <2>6, <2>7 DEF Becomes
<1> QED
  BY <1>1, <1>2

\* The selector takes the allocation of the page with it.
LEMMA ChooseMoves ==
  ASSUME TypeInv, AllocationsStay, NEW e \in Executions, Choose(e)
  PROVE  \E x \in Slots : Becomes(e, x)
<1>1. exec[e] \in Slots /\ exec[e].page \in Pages /\ alloc[exec[e].page] # None
      /\ alloc[exec[e].page] \in Allocations
  BY SlotType DEF Choose, SlotInv, TypeInv
<1>2. PICK y : y = [exec[e] EXCEPT !.at = "verify", !.alloc = alloc[exec[e].page]]
  OBVIOUS
<1>3. y \in Slots /\ y.at = "verify" /\ y.page \in Pages /\ y.alloc \in Allocations
  BY <1>1, <1>2 DEF Slots, Places
<1>4. exec' = [exec EXCEPT ![e] = y]
  BY <1>2 DEF Choose, TypeInv
<1>5. SlotInv(y)' /\ Earned(y)'
  BY <1>3 DEF SlotInv, Earned, Places
<1> QED
  BY <1>3, <1>4, <1>5 DEF Becomes

\* What is pinned is a version of the allocation.
LEMMA PinMoves ==
  ASSUME TypeInv, NEW e \in Executions, Pin(e)
  PROVE  \E x \in Slots : Becomes(e, x)
<1>1. CASE HandOff(e)
  BY <1>1, HandOffMoves
<1>2. CASE ~HandOff(e)
  <2>1. exec[e] \in Slots /\ exec[e].page \in Pages /\ exec[e].alloc \in Allocations
    BY SlotType DEF Pin, SlotInv
  <2>2. Selections(exec[e].alloc) \subseteq Versions
    BY <2>1, AllocationFields DEF Selections
  <2>3. PICK v \in Versions :
          exec' = [exec EXCEPT ![e].at = "compile", ![e].version = v, ![e].alloc = None]
    BY <1>2, <2>2 DEF Pin
  <2>4. PICK y : y = [exec[e] EXCEPT !.at = "compile", !.version = v, !.alloc = None]
    OBVIOUS
  <2>5. y \in Slots /\ y.at = "compile" /\ y.page \in Pages /\ y.version \in Versions
    BY <2>1, <2>4 DEF Slots, Places
  <2>6. exec' = [exec EXCEPT ![e] = y]
    BY <2>3, <2>4 DEF TypeInv
  <2>7. SlotInv(y)' /\ Earned(y)'
    BY <2>5 DEF SlotInv, Earned, Places, Slots
  <2> QED
    BY <2>5, <2>6, <2>7 DEF Becomes
<1> QED
  BY <1>1, <1>2

\* Only a version that serves, so a qualified one, is compiled to run.
LEMMA CompileMoves ==
  ASSUME TypeInv, EarnedInv, NEW e \in Executions, Compile(e)
  PROVE  \E x \in Slots : Becomes(e, x)
<1>1. CASE HandOff(e)
  BY <1>1, HandOffMoves
<1>2. CASE ~HandOff(e)
  <2>1. exec[e] \in Slots /\ exec[e].page \in Pages /\ exec[e].version \in Versions
        /\ exec[e].cohort \in Cohorts \cup {None}
    BY SlotType DEF Compile, SlotInv
  <2>2. Serving(exec[e].version) /\ status[exec[e].version] \in Cohorts
    BY <1>2 DEF Compile, Serving, Cohorts
  <2>3. PICK c \in Cohorts :
          exec' = [exec EXCEPT ![e].at = "running", ![e].cohort = c]
    BY <1>2, <2>1, <2>2 DEF Compile, TypeInv
  <2>4. PICK y : y = [exec[e] EXCEPT !.at = "running", !.cohort = c]
    OBVIOUS
  <2>5. y \in Slots /\ y.at = "running" /\ y.page \in Pages /\ y.version = exec[e].version
        /\ y.cohort \in Cohorts
    BY <2>1, <2>3, <2>4 DEF Slots, Places
  <2>6. exec' = [exec EXCEPT ![e] = y]
    BY <2>3, <2>4 DEF TypeInv
  <2>7. y.version # 0 => Qualified(y.version)
    BY <2>1, <2>2, <2>5 DEF EarnedInv
  <2>8. reports' = reports
    BY DEF Compile, evolution
  <2>9. SlotInv(y)' /\ Earned(y)'
    BY <2>1, <2>5, <2>7, <2>8 DEF SlotInv, Earned, Places, Qualified
  <2> QED
    BY <2>5, <2>6, <2>9 DEF Becomes
<1> QED
  BY <1>1, <1>2

\* The record of an execution names its page, version and cohort.
LEMMA FinishMoves ==
  ASSUME TypeInv, NEW e \in Executions, NEW hard \in BOOLEAN, Finish(e, hard)
  PROVE  \E x \in Slots : Becomes(e, x)
<1>1. exec[e] \in Slots /\ exec[e].page \in Pages /\ exec[e].version \in Versions
      /\ exec[e].cohort \in Cohorts
  BY SlotType DEF Finish, SlotInv
<1>2. PICK s : s = [page |-> exec[e].page, version |-> exec[e].version,
                    cohort |-> exec[e].cohort, hard |-> hard, at |-> clock]
  OBVIOUS
<1>3. s \in Samples
  BY <1>1, <1>2 DEF Samples, TypeInv, TypeOK
<1>4. PICK y : y = [exec[e] EXCEPT !.at = "decide", !.sample = s]
  OBVIOUS
<1>5. y \in Slots /\ y.at = "decide" /\ y.page \in Pages /\ y.sample \in Samples
  BY <1>1, <1>3, <1>4 DEF Slots, Places
<1>6. exec' = [exec EXCEPT ![e] = y]
  BY <1>2, <1>4 DEF Finish, TypeInv
<1>7. SlotInv(y)' /\ Earned(y)'
  BY <1>5 DEF SlotInv, Earned, Places
<1> QED
  BY <1>5, <1>6, <1>7 DEF Becomes

\* The record outlives the verdict.
LEMMA DecideMoves ==
  ASSUME TypeInv, NEW e \in Executions, Decide(e)
  PROVE  \E x \in Slots : Becomes(e, x)
<1>1. exec[e] \in Slots /\ exec[e].page \in Pages /\ exec[e].sample \in Samples
  BY SlotType DEF Decide, SlotInv
<1>2. PICK y : y = [exec[e] EXCEPT !.at = "evolve"]
  OBVIOUS
<1>3. y \in Slots /\ y.at = "evolve" /\ y.page \in Pages /\ y.sample \in Samples
  BY <1>1, <1>2 DEF Slots, Places
<1>4. exec' = [exec EXCEPT ![e] = y]
  BY <1>2 DEF Decide, Goto, TypeInv
<1>5. SlotInv(y)' /\ Earned(y)'
  BY <1>3 DEF SlotInv, Earned, Places
<1> QED
  BY <1>3, <1>4, <1>5 DEF Becomes

\* A qualification is about a version whose successor has a number.
LEMMA BeginQualificationMoves ==
  ASSUME TypeInv, NEW e \in Executions, NEW theme \in Themes, BeginQualification(e, theme)
  PROVE  \E x \in Slots : Becomes(e, x)
<1>1. exec[e] \in Slots /\ exec[e].page \in Pages /\ exec[e].sample \in Samples
  BY SlotType DEF BeginQualification, SlotInv
<1>2. PICK s : s = exec[e].sample
  OBVIOUS
<1>3. s.page \in Pages /\ s.version \in Versions /\ s.version < MaxVersion
  BY <1>1, <1>2 DEF Samples, BeginQualification
<1>4. <<s.version, theme>> \in Opportunities /\ alloc[s.page] \in Allocations \cup {None}
      /\ clock + 1 \in Nat
  BY <1>3 DEF Opportunities, TypeInv, TypeOK
<1>5. PICK y : y = [exec[e] EXCEPT !.at = "qualify", !.opportunity = <<s.version, theme>>,
                                   !.alloc = alloc[s.page], !.sample.at = clock + 1]
  OBVIOUS
<1>6. PICK t : t = [s EXCEPT !.at = clock + 1]
  OBVIOUS
<1>7. t \in Samples
  BY <1>1, <1>2, <1>4, <1>6 DEF Samples
<1>8. y = [exec[e] EXCEPT !.at = "qualify", !.opportunity = <<s.version, theme>>,
                          !.alloc = alloc[s.page], !.sample = t]
  BY <1>1, <1>2, <1>5, <1>6 DEF Slots
<1>9. y \in Slots /\ y.at = "qualify" /\ y.page \in Pages /\ y.sample \in Samples
      /\ y.opportunity = <<s.version, theme>>
  BY <1>1, <1>4, <1>7, <1>8 DEF Slots, Places
<1>10. exec' = [exec EXCEPT ![e] = y]
  <2>1. exec' = [exec EXCEPT ![e].at = "qualify", ![e].opportunity = <<s.version, theme>>,
                             ![e].alloc = alloc[s.page], ![e].sample.at = clock + 1]
    BY <1>2 DEF BeginQualification
  <2>2. exec \in [Executions -> Slots]
    BY DEF TypeInv
  <2>3. exec'[e] = [exec[e] EXCEPT !.at = "qualify", !.opportunity = <<s.version, theme>>,
                                   !.alloc = alloc[s.page], !.sample.at = clock + 1]
    BY <2>1, <2>2
  <2>4. exec' = [exec EXCEPT ![e] = exec'[e]]
    BY <2>1, <2>2
  <2> QED
    BY <1>5, <2>3, <2>4
<1>11. SlotInv(y)' /\ Earned(y)'
  BY <1>3, <1>4, <1>9 DEF SlotInv, Earned, Places
<1> QED
  BY <1>9, <1>10, <1>11 DEF Becomes

\* A candidate that passed the gates is reported before anybody may activate it.
LEMMA QualifyMoves ==
  ASSUME TypeInv, NEW e \in Executions, NEW c \in Contents, Qualify(e, c)
  PROVE  \E x \in Slots : Becomes(e, x)
<1>1. CASE HandOff(e)
  BY <1>1, HandOffMoves
<1>2. CASE ~HandOff(e)
  <2>1. exec[e] \in Slots /\ exec[e].page \in Pages /\ exec[e].sample \in Samples
        /\ exec[e].at = "qualify"
    BY SlotType DEF Qualify, SlotInv
  <2>2. PICK v : v = exec[e].opportunity[1] + 1
    OBVIOUS
  <2>3. v \in Versions
    BY <2>1, <2>2, NextVersion
  <2>4. /\ Report(exec[e].opportunity, v, "qualified")
        /\ exec' = [exec EXCEPT ![e].at = "activate", ![e].version = v]
    BY <1>2, <2>2 DEF Qualify
  <2>5. PICK y : y = [exec[e] EXCEPT !.at = "activate", !.version = v]
    OBVIOUS
  <2>6. y \in Slots /\ y.at = "activate" /\ y.page \in Pages /\ y.sample \in Samples
        /\ y.version = v
    BY <2>1, <2>3, <2>5 DEF Slots, Places
  <2>7. exec' = [exec EXCEPT ![e] = y]
    BY <2>4, <2>5 DEF TypeInv
  <2>8. PICK r : r = [opportunity |-> exec[e].opportunity, version |-> v,
                      decision |-> "qualified"]
    OBVIOUS
  <2>9. r \in reports' /\ r.version = v /\ r.decision = "qualified"
    BY <2>4, <2>8 DEF Report
  <2>10. SlotInv(y)' /\ Earned(y)'
    BY <2>3, <2>6, <2>9 DEF SlotInv, Earned, Places, Qualified
  <2> QED
    BY <2>6, <2>7, <2>10 DEF Becomes
<1> QED
  BY <1>1, <1>2

\* Every step makes at most one execution something it may be, or is a restart.
LEMMA ExecSteps ==
  ASSUME TypeInv, EarnedInv, AllocationsStay, RegistryType', Next
  PROVE  \/ \E e \in Executions : \E x \in Slots : Becomes(e, x)
         \/ exec' = Restarted /\ UNCHANGED reports
<1>1. CASE Crash
  BY <1>1 DEF Crash, evolution
<1>2. CASE \E e \in Executions, c \in Contents : CrashWhileQualifying(e, c)
  BY <1>2 DEF CrashWhileQualifying, evolution
<1>3. CASE ~Crash /\ ~\E e \in Executions, c \in Contents : CrashWhileQualifying(e, c)
  <2>1. PICK e \in Executions :
       \/ \E p \in Pages : Start(e, p)
       \/ Place(e) \/ Choose(e) \/ Pin(e) \/ Compile(e) \/ Reobserve(e)
       \/ \E hard \in BOOLEAN : Finish(e, hard)
       \/ Decide(e) \/ EndWithoutEvolution(e)
       \/ \E theme \in Themes : BeginQualification(e, theme)
       \/ RejectCandidate(e)
       \/ \E c \in Contents : Qualify(e, c)
       \/ ActivateCandidate(e)
    BY <1>3 DEF Next
  <2>2. CASE Reobserve(e) \/ EndWithoutEvolution(e) \/ RejectCandidate(e) \/ ActivateCandidate(e)
    BY <2>2, HandOffMoves
       DEF Reobserve, EndWithoutEvolution, RejectCandidate, ActivateCandidate
  <2>3. CASE ~(Reobserve(e) \/ EndWithoutEvolution(e) \/ RejectCandidate(e)
               \/ ActivateCandidate(e))
    BY <2>1, <2>3, StartMoves, PlaceMoves, ChooseMoves, PinMoves, CompileMoves, FinishMoves,
       DecideMoves, BeginQualificationMoves, QualifyMoves
  <2> QED
    BY <2>2, <2>3
<1> QED
  BY <1>1, <1>2, <1>3

\* Reports are kept for good.
LEMMA ReportsGrow ==
  ASSUME Next
  PROVE  reports \subseteq reports'
BY DEF Next, Start, Place, Choose, Pin, Compile, Reobserve, Finish, Decide, EndWithoutEvolution,
       BeginQualification, RejectCandidate, Qualify, ActivateCandidate, CrashWhileQualifying, Crash,
       Report, evolution

\* What an execution has stays true while allocations and reports stay.
LEMMA SlotStays ==
  ASSUME AllocationsStay, reports \subseteq reports', NEW x, SlotInv(x), Earned(x)
  PROVE  SlotInv(x)' /\ Earned(x)'
<1>1. x.at = "choose" => x.page \in Pages
  BY DEF SlotInv
<1>2. SlotInv(x)'
  BY <1>1 DEF SlotInv, AllocationsStay
<1>3. \A v : Qualified(v) => Qualified(v)'
  BY DEF Qualified
<1>4. Earned(x)'
  BY <1>3 DEF Earned
<1> QED
  BY <1>2, <1>4

\* Every step leaves each execution with what its place needs.
LEMMA ExecutionsPreserved ==
  ASSUME TypeInv, EarnedInv, AllocationsStay, RegistryType', Next
  PROVE  /\ exec' \in [Executions -> Slots]
         /\ \A e \in Executions : SlotInv(exec[e])' /\ Earned(exec[e])'
<1>1. reports \subseteq reports'
  BY ReportsGrow
<1>2. exec \in [Executions -> Slots] /\ \A e \in Executions : SlotInv(exec[e]) /\ Earned(exec[e])
  BY DEF TypeInv, EarnedInv, Earned
<1>3. ASSUME NEW e \in Executions, NEW x \in Slots, Becomes(e, x)
      PROVE  /\ exec' \in [Executions -> Slots]
             /\ \A f \in Executions : SlotInv(exec[f])' /\ Earned(exec[f])'
  <2>1. exec' = [exec EXCEPT ![e] = x] /\ SlotInv(x)' /\ Earned(x)'
    BY <1>3 DEF Becomes
  <2>2. exec' \in [Executions -> Slots] /\ exec'[e] = x
    BY <1>2, <2>1
  <2>3. ASSUME NEW f \in Executions
        PROVE  SlotInv(exec[f])' /\ Earned(exec[f])'
    <3>1. CASE f = e
      BY <2>1, <2>2, <3>1 DEF SlotInv, Earned
    <3>2. CASE f # e
      <4>1. PICK y : y = exec[f]
        OBVIOUS
      <4>2. exec'[f] = y
        BY <1>2, <2>1, <3>2, <4>1
      <4>3. SlotInv(y)' /\ Earned(y)'
        BY <1>1, <1>2, <4>1, SlotStays
      <4> QED
        BY <4>2, <4>3 DEF SlotInv, Earned
    <3> QED
      BY <3>1, <3>2
  <2> QED
    BY <2>2, <2>3
<1>4. CASE exec' = Restarted
  <2>1. ASSUME NEW e \in Executions
        PROVE  exec'[e] \in Slots /\ SlotInv(exec[e])' /\ Earned(exec[e])'
    <3>1. CASE exec[e].at \in {"compile", "running"}
      <4>1. PICK y : y = [exec[e] EXCEPT !.at = "compile"]
        OBVIOUS
      <4>2. exec'[e] = y
        BY <1>4, <3>1, <4>1 DEF Restarted
      <4>3. exec[e] \in Slots /\ SlotInv(exec[e])
        BY <1>2
      <4>4. /\ y \in Slots /\ y.at = "compile" /\ y.page \in Pages /\ y.version \in Versions
            /\ y.cohort \in Cohorts \cup {None}
        BY <3>1, <4>1, <4>3 DEF Slots, Places, SlotInv
      <4>5. SlotInv(y)' /\ Earned(y)'
        BY <4>4 DEF SlotInv, Earned, Places
      <4> QED
        BY <4>2, <4>4, <4>5 DEF SlotInv, Earned
    <3>2. CASE exec[e].at \notin {"compile", "running"}
      <4>1. exec'[e] = Idle
        BY <1>4, <3>2 DEF Restarted
      <4> QED
        BY <4>1, IdleSlot DEF SlotInv, Earned
    <3> QED
      BY <3>1, <3>2
  <2>2. exec' \in [Executions -> Slots]
    BY <1>4, <2>1 DEF Restarted
  <2> QED
    BY <2>1, <2>2
<1> QED
  BY <1>3, <1>4, ExecSteps

-----------------------------------------------------------------------------
(* The invariant.                                                          *)

\* The clock runs, and the counters stay within their bounds.
LEMMA CountersKeepTypes ==
  ASSUME TypeInv, Next
  PROVE  clock' \in Nat /\ tasks' \in 0..MaxTasks /\ crashes' \in 0..MaxCrashes
<1>1. clock \in Nat /\ tasks \in 0..MaxTasks /\ crashes \in 0..MaxCrashes
      /\ MaxTasks \in Nat /\ MaxCrashes \in Nat
  BY ConstantsAssumption DEF TypeInv, TypeOK
<1>2. clock' \in {clock, clock + 1}
  BY DEF Next, Start, Place, Choose, Pin, Compile, Reobserve, Finish, Decide, EndWithoutEvolution,
       BeginQualification, RejectCandidate, Qualify, ActivateCandidate, CrashWhileQualifying, Crash
<1>3. tasks' = tasks \/ (tasks' = tasks + 1 /\ tasks < MaxTasks)
  BY DEF Next, Start, Place, Choose, Pin, Compile, Reobserve, Finish, Decide, EndWithoutEvolution,
       BeginQualification, RejectCandidate, Qualify, ActivateCandidate, CrashWhileQualifying, Crash
<1>4. crashes' = crashes \/ (crashes' = crashes + 1 /\ crashes < MaxCrashes)
  BY DEF Next, Start, Place, Choose, Pin, Compile, Reobserve, Finish, Decide, EndWithoutEvolution,
       BeginQualification, RejectCandidate, Qualify, ActivateCandidate, CrashWhileQualifying, Crash
<1> QED
  BY <1>1, <1>2, <1>3, <1>4

\* Storing a sample keeps the evaluations a bag.
LEMMA StoredIsABag ==
  ASSUME IsABag(samples), NEW s
  PROVE  IsABag(Stored(s))
<1>1. samples \in [DOMAIN samples -> {n \in Nat : n > 0}]
  BY DEF IsABag
<1>2. PICK b : b = [e \in (DOMAIN samples) \cup {s} |->
        (IF e \in DOMAIN samples THEN samples[e] ELSE 0) + (IF e \in {s} THEN 1 ELSE 0)]
  OBVIOUS
<1>3. Stored(s) = b
  BY <1>2 DEF Stored, (+), SetToBag
<1>4. b \in [DOMAIN b -> {n \in Nat : n > 0}]
  BY <1>1, <1>2
<1> QED
  BY <1>3, <1>4 DEF IsABag

\* Leases, samples and failures keep their types.
LEMMA RecordsKeepTypes ==
  ASSUME TypeInv, Next
  PROVE  leases' \subseteq Opportunities /\ IsABag(samples') /\ failed' \subseteq Versions
<1>1. leases \subseteq Opportunities /\ IsABag(samples) /\ failed \subseteq Versions
  BY DEF TypeInv, TypeOK
<1>2. CASE \E e \in Executions : Decide(e)
  <2>1. PICK e \in Executions : Decide(e)
    BY <1>2
  <2>2. exec[e].sample.version \in Versions
    BY <2>1, SlotType DEF Decide, SlotInv, Samples
  <2>3. leases' = leases /\ samples' = Stored(exec[e].sample)
        /\ failed' \subseteq failed \cup {exec[e].sample.version}
    BY <2>1 DEF Decide, evolution
  <2> QED
    BY <1>1, <2>2, <2>3, StoredIsABag
<1>3. CASE \E e \in Executions, theme \in Themes : BeginQualification(e, theme)
  <2>1. PICK e \in Executions, theme \in Themes : BeginQualification(e, theme)
    BY <1>3
  <2>2. exec[e].sample.version \in Versions
    BY <2>1, SlotType DEF BeginQualification, SlotInv, Samples
  <2>3. samples' = samples /\ failed' = failed
        /\ leases' = leases \cup {<<exec[e].sample.version, theme>>}
    BY <2>1 DEF BeginQualification
  <2> QED
    BY <1>1, <2>2, <2>3 DEF Opportunities
<1>4. CASE /\ ~\E e \in Executions : Decide(e)
           /\ ~\E e \in Executions, theme \in Themes : BeginQualification(e, theme)
  <2>1. leases' = leases /\ samples' = samples /\ failed' = failed
    BY <1>4 DEF Next, Start, Place, Choose, Pin, Compile, Reobserve, Finish, EndWithoutEvolution,
       RejectCandidate, Qualify, ActivateCandidate, CrashWhileQualifying, Crash, evolution
  <2> QED
    BY <1>1, <2>1
<1> QED
  BY <1>2, <1>3, <1>4

\* A version serves only after a qualification.
LEMMA ServingIsEarned ==
  ASSUME TypeInv, EarnedInv, RegistryStep, reports \subseteq reports',
         NEW v \in Versions \ {0}, Serving(v)'
  PROVE  Qualified(v)'
<1>0. /\ status \in [Versions -> Statuses]
      /\ Qualified(v) => Qualified(v)'
      /\ Serving(v) => Qualified(v)
  BY DEF TypeInv, TypeOK, Qualified, EarnedInv
<1>1. CASE UNCHANGED registry
  BY <1>0, <1>1 DEF registry, Serving
<1>2. ASSUME NEW p \in Pages, NEW w \in Versions, Placed(p, w)
      PROVE  Qualified(v)'
  BY <1>0, <1>2 DEF Placed, Serving
<1>3. ASSUME NEW s \in Samples, Judged(s)
      PROVE  Qualified(v)'
  <2>1. s.version \in Versions /\ status[s.version] = "challenger"
    BY <1>3 DEF Judged, OnTrial, Samples
  <2>2. Serving(v)
    BY <1>0, <1>3, <2>1 DEF Judged, Promote, Quarantine, Retire, Serving
  <2> QED
    BY <1>0, <2>2
<1>4. ASSUME NEW p \in Pages, NEW parent \in Versions, NEW w \in Versions, NEW at \in Nat,
             Activated(p, parent, w, at)
      PROVE  Qualified(v)'
  BY <1>0, <1>4 DEF Activated, Serving
<1>5. ASSUME NEW w \in Versions, NEW c \in Contents, NEW p \in Pages \cup {None},
             NEW st \in {"candidate", "replay_qualified"}, Created(w, c, p, st)
      PROVE  Qualified(v)'
  BY <1>0, <1>5 DEF Created, Store, Serving
<1> QED
  BY <1>1, <1>2, <1>3, <1>4, <1>5 DEF RegistryStep

\* A version that fails hard on trial is quarantined in the same transaction.
LEMMA FailedIsQuarantined ==
  ASSUME TypeInv, EarnedInv, Next, NEW v \in failed',
         \A w \in Versions : status[w] = "quarantined" => status'[w] = "quarantined"
  PROVE  status'[v] = "quarantined"
<1>1. status \in [Versions -> Statuses] /\ failed \subseteq Versions
      /\ \A w \in failed : status[w] = "quarantined"
  BY DEF TypeInv, TypeOK, EarnedInv
<1>2. CASE v \in failed
  BY <1>1, <1>2
<1>3. CASE v \notin failed
  <2>1. PICK e \in Executions : Decide(e)
    BY <1>3 DEF Next, Start, Place, Choose, Pin, Compile, Reobserve, Finish, EndWithoutEvolution,
       BeginQualification, RejectCandidate, Qualify, ActivateCandidate, CrashWhileQualifying, Crash
  <2>2. PICK s : s = exec[e].sample
    OBVIOUS
  <2>3. OnTrial(s) /\ s.hard /\ v = s.version /\ s.version \in Versions
    BY <1>3, <2>1, <2>2, SlotType DEF Decide, SlotInv, Samples
  <2>4. Verdicts(Stored(s), s) = {"rollback"}
    BY <2>3 DEF Verdicts
  <2>5. Apply("rollback", s)
    BY <2>1, <2>2, <2>4 DEF Decide
  <2>6. Quarantine(s.page, s.version)
    BY <2>5 DEF Apply
  <2> QED
    BY <1>1, <2>3, <2>6 DEF Quarantine
<1> QED
  BY <1>2, <1>3

\* The registry begins in the invariant.
LEMMA InitSkillInv == Init => SkillInv
<1> SUFFICES ASSUME Init PROVE SkillInv
  OBVIOUS
<1>1. TypeOK
  BY ConstantsAssumption, NoneIsNoVersion
     DEF Init, TypeOK, Versions, Statuses, IsABag, EmptyBag, SetToBag
<1>2. /\ alloc \in [Pages -> Allocations \cup {None}] /\ exec \in [Executions -> Slots]
      /\ \A e \in Executions : exec[e] = Idle
  BY DEF Init, Idle, Slots, Places
<1>3. TypeInv
  BY <1>1, <1>2 DEF TypeInv, SlotInv, Idle, Places
<1>4. TrafficAgrees
  BY DEF Init, TrafficAgrees
<1>5. EarnedInv
  BY <1>2 DEF Init, EarnedInv, Serving, Idle
<1> QED
  BY <1>3, <1>4, <1>5 DEF SkillInv

\* Every step keeps the invariant.
LEMMA StepSkillInv == SkillInv /\ [Next]_vars => SkillInv'
<1> SUFFICES ASSUME SkillInv, [Next]_vars PROVE SkillInv'
  OBVIOUS
<1>1. CASE Next
  <2>1. TypeInv /\ TrafficAgrees /\ EarnedInv /\ RegistryType
    BY DEF SkillInv, TypeInv, TypeOK, RegistryType
  <2>2. RegistryStep
    BY <1>1, <2>1, RegistrySteps
  <2>3. clock' \in Nat /\ tasks' \in 0..MaxTasks /\ crashes' \in 0..MaxCrashes
    BY <1>1, <2>1, CountersKeepTypes
  <2>4. /\ RegistryType' /\ AllocationsStay
        /\ \A v \in Versions : status[v] = "quarantined" => status'[v] = "quarantined"
    BY <2>1, <2>2, <2>3, RegistryKeepsTypes DEF AllocationsStay
  <2>5. TrafficAgrees'
    BY <2>1, <2>2, <2>3, TrafficPreserved
  <2>6. /\ exec' \in [Executions -> Slots]
        /\ \A e \in Executions : SlotInv(exec[e])' /\ Earned(exec[e])'
    BY <1>1, <2>1, <2>4, ExecutionsPreserved
  <2>7. leases' \subseteq Opportunities /\ IsABag(samples') /\ failed' \subseteq Versions
    BY <1>1, <2>1, RecordsKeepTypes
  <2>8. TypeInv'
    BY <2>3, <2>4, <2>6, <2>7 DEF TypeInv, TypeOK, RegistryType
  <2>9. reports \subseteq reports'
    BY <1>1, ReportsGrow
  <2>10. \A v \in Versions \ {0} : Serving(v)' => Qualified(v)'
    BY <2>1, <2>2, <2>9, ServingIsEarned
  <2>11. \A v \in failed' : status'[v] = "quarantined"
    BY <1>1, <2>1, <2>4, FailedIsQuarantined
  <2>12. EarnedInv'
    BY <2>6, <2>10, <2>11 DEF EarnedInv, Earned
  <2> QED
    BY <2>5, <2>8, <2>12 DEF SkillInv
<1>2. CASE UNCHANGED vars
  BY <1>2 DEF vars, registry, evolution, SkillInv, TypeInv, TypeOK, SlotInv, TrafficAgrees,
              EarnedInv, Serving, Qualified
<1> QED
  BY <1>1, <1>2

\* The inductive invariant of a skill's versions.
THEOREM SkillInvariant == Spec => []SkillInv
BY InitSkillInv, StepSkillInv, PTL DEF Spec

\* Traffic goes to the champion of the page and its challenger only, and a challenger is
\* one exactly while it gets traffic, however verdicts, qualifications and activations of
\* any number of executions, pages and versions interleave.
THEOREM TrafficIsConsistent == Spec => []Consistent
<1>1. SkillInv => Consistent
  BY DEF SkillInv, TypeInv, Consistent
<1> QED
  BY <1>1, SkillInvariant, PTL

\* A version that failed hard on trial never serves again, and an execution writes with
\* no version but the bootstrapped one or one whose qualification is reported, crashes in
\* the middle of a qualification included.
THEOREM ServedVersionsAreQualified == Spec => []ServedIsQualified
<1>1. SkillInv => ServedIsQualified
  <2>1. SkillInv => FailedIsNeverServed
    BY DEF SkillInv, EarnedInv, FailedIsNeverServed, Serving
  <2>2. SkillInv => OnlyQualifiedRuns
    BY DEF SkillInv, EarnedInv, OnlyQualifiedRuns, Qualified
  <2> QED
    BY <2>1, <2>2 DEF ServedIsQualified
<1> QED
  BY <1>1, SkillInvariant, PTL

=============================================================================
