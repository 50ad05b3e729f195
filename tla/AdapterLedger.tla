--------------------------- MODULE AdapterLedger ----------------------------
(***************************************************************************)
(* The certification of ATS mappings (apps/api/src/ats-adapters and the    *)
(* hint-pack registry of packages/form-semantics).  A page whose certified *)
(* pack no longer fits its fingerprint retires that pack and asks a model  *)
(* for a new proposal.  A proposal is replayed against synthetic fixtures, *)
(* reviewed by a model, decided by a person and certified; every step is a *)
(* transaction of its own, and the model, the replay browser and the       *)
(* person work between them, several of them at once.                      *)
(*                                                                         *)
(* One pack name is modelled, with versions; version 0 is built in and is  *)
(* known to the ledger only through its retirement.                        *)
(***************************************************************************)
EXTENDS Naturals, Sequences, FiniteSets, SequencesExt

CONSTANTS
    Calls,          \* requests that can be in progress at once
    Tasks,          \* applications that observe pages
    Pages,          \* fingerprints of the form they may meet
    Fixtures,       \* what every definition names as its fixtures
    Paused,         \* the fixtures that show a boundary or a challenge
    Definitions,    \* what the model and the reviewer may write
    BuiltIn,        \* the fingerprints the built-in pack names, {} for any
    MaxProposals,   \* bound on the proposals
    MaxVersion,     \* bound on the versions of the pack
    MaxReports,     \* bound on the reports a proposal has when a replay of it starts
    None

VARIABLES
    proposals,      \* ats_adapter_proposals, in the order of their creation
    reports,        \* ats_adapter_replay_reports: proposal -> sequence
    reviews,        \* ats_adapter_ai_reviews: proposal -> report reviewed
    humans,         \* ats_adapter_human_reviews: proposal -> decision
    packs,          \* ats_adapter_certified_packs: version -> pack
    retirements,    \* ats_adapter_pack_retirements: set of versions
    calls,          \* the requests in progress
    serving         \* the pack each application's snapshot was annotated with

vars == <<proposals, reports, reviews, humans, packs, retirements, calls, serving>>
tables == <<proposals, reports, reviews, humans, packs, retirements>>

Ids == 1..MaxProposals
Created == DOMAIN proposals
Idle == [op |-> "none"]
Texts == {"plain", "artifact", "reference"}
Decisions == {"certify", "reject", "revise"}

Init ==
    /\ proposals = <<>>
    /\ reports = [p \in Ids |-> <<>>]
    /\ reviews = [p \in Ids |-> None] /\ humans = [p \in Ids |-> None]
    /\ packs = [v \in 1..MaxVersion |-> None]
    /\ retirements = {}
    /\ calls = [c \in Calls |-> Idle]
    /\ serving = [t \in Tasks |-> None]

Begin(c, call) == calls[c] = Idle /\ calls' = [calls EXCEPT ![c] = call]
End(c) == calls' = [calls EXCEPT ![c] = Idle]
Status(p) == proposals[p].status

\* What is stored is free of credentials, values and commands: matching texts
\* become references, free texts a fixed wording; a text that looks like an
\* artifact, or like a reference already, is refused before any of it.
Safe(text) == text = "plain"

\* UPDATE ... WHERE lifecycle_status = from.
Move(p, to) == proposals' = [proposals EXCEPT ![p].status = to]

-----------------------------------------------------------------------------
(* Proposals.                                                              *)

\* findActiveByFingerprint.  A revision hashes its parent and its definition, so
\* no observation finds it.
Active(t, page) ==
    {p \in Created : proposals[p].task = t /\ proposals[p].input = page
                     /\ Status(p) \notin {"rejected", "retired"}}

\* createProposal.
Create(proposal) ==
    /\ Len(proposals) < MaxProposals
    /\ proposals' = Append(proposals, proposal)

Proposal(t, page, parent, version, d) ==
    [task |-> t, input |-> page, parent |-> parent, version |-> version, def |-> d,
     status |-> "candidate"]

\* prepare, once the execution of the task has been invalidated: the newest active
\* proposal is the answer, else the model is asked.
Prepare(c) ==
    /\ calls[c].op = "prepare" /\ ~ calls[c].asked
    /\ calls' = [calls EXCEPT ![c] =
           IF Active(@.task, @.page) = {} THEN [@ EXCEPT !.asked = TRUE] ELSE Idle]
    /\ UNCHANGED <<tables, serving>>

\* The model answers the request for a definition, or fails; it chooses the
\* version.  What another request has created meanwhile is not looked at again.
Propose(c) ==
    /\ calls[c].op = "prepare" /\ calls[c].asked
    /\ \/ \E d \in Definitions, v \in 1..MaxVersion :
              /\ Safe(d.text)
              /\ Create(Proposal(calls[c].task, calls[c].page, None, v, d))
       \/ UNCHANGED proposals
    /\ End(c)
    /\ UNCHANGED <<reports, reviews, humans, packs, retirements, serving>>

\* A reviewer writes the next patch version of a proposal, whatever its state.
Revise(p, d) ==
    /\ p \in Created /\ Safe(d.text)
    /\ proposals[p].version < MaxVersion
    /\ Create(Proposal(proposals[p].task, None, p, proposals[p].version + 1, d))
    /\ UNCHANGED <<reports, reviews, humans, packs, retirements, calls, serving>>

-----------------------------------------------------------------------------
(* Replays on the synthetic site.                                          *)

\* The hard gate: rules are declarative, one path and label per rule, of a type
\* and in a section the ontology knows.
HardGate(d) == d.sound

\* The target of a fixture is written when the rules of the definition find it
\* there, unless the page shows a boundary or a challenge.
Writes(d, f) == IF f \in Paused THEN {} ELSE {f} \cap d.finds

\* The assertions of a fixture.  site says what the page did with the writes.
Passed(d, f, site) ==
    /\ f \in Paused => Writes(d, f) = {}
    /\ f \notin Paused => Writes(d, f) = {f} /\ site.kept
    /\ ~ site.unrelated /\ ~ site.submitted

\* What the synthetic page may do: only a click or a write has effects.
Outcomes == [kept : BOOLEAN, unrelated : BOOLEAN, submitted : BOOLEAN]
Sites(d, f) ==
    {site \in Outcomes : Writes(d, f) = {} => site.kept /\ ~ site.unrelated /\ ~ site.submitted}

\* The hard gate first; then a browser and a site of this run alone.
StartReplay(c, p) ==
    /\ p \in Created /\ HardGate(proposals[p].def)
    /\ Len(reports[p]) <= MaxReports
    /\ Begin(c, [op |-> "replay", p |-> p])
    /\ UNCHANGED <<tables, serving>>

\* Every report ever stored has passed, and every fixture has one.
AllPassed(stored) ==
    /\ \A i \in DOMAIN stored : stored[i].passed
    /\ \A f \in Fixtures : \E i \in DOMAIN stored : stored[i].fixture = f

MayReplay_Open(p) == Status(p) \in {"candidate", "replay_verified", "ai_reviewed", "human_reviewed"}
MayReplay(p) == Status(p) = "candidate"

\* recordReplay, in one transaction; refused unless the proposal is a candidate
\* still.
RecordReplay(p, got) ==
    IF MayReplay(p)
    THEN LET stored == reports[p] \o got
         IN  /\ reports' = [reports EXCEPT ![p] = stored]
             /\ IF AllPassed(stored) THEN Move(p, "replay_verified") ELSE UNCHANGED proposals
    ELSE UNCHANGED <<reports, proposals>>

\* Fixture after fixture has been run, and the browser and the site are closed. A
\* run that submitted anything, or whose browser failed, throws and records
\* nothing; else the reports are recorded together.
EndReplay(c) ==
    /\ calls[c].op = "replay"
    /\ LET p == calls[c].p
           d == proposals[p].def
       IN  \/ \E site \in [Fixtures -> Outcomes] :
                  /\ \A f \in Fixtures : site[f] \in Sites(d, f) /\ ~ site[f].submitted
                  /\ RecordReplay(p, SetToSeq({[fixture |-> f, passed |-> Passed(d, f, site[f])] : f \in Fixtures}))
           \/ UNCHANGED <<reports, proposals>>
    /\ End(c)
    /\ UNCHANGED <<reviews, humans, packs, retirements, serving>>

-----------------------------------------------------------------------------
(* The model's review of a replay.                                         *)

PassedReports(p) == {i \in DOMAIN reports[p] : reports[p][i].passed}

StartReview(c, p) ==
    /\ p \in Created /\ reviews[p] = None
    /\ PassedReports(p) # {}
    /\ Begin(c, [op |-> "review", p |-> p,
                 report |-> CHOOSE i \in PassedReports(p) : \A j \in PassedReports(p) : j <= i])
    /\ UNCHANGED <<tables, serving>>

MayReview(p) == Status(p) = "replay_verified"

\* recordAiReview, in one transaction.
RecordReview(c) ==
    /\ calls[c].op = "review"
    /\ LET p == calls[c].p
       IN  IF MayReview(p) /\ reviews[p] = None
           THEN /\ reviews' = [reviews EXCEPT ![p] = calls[c].report]
                /\ Move(p, "ai_reviewed")
           ELSE UNCHANGED <<reviews, proposals>>
    /\ End(c)
    /\ UNCHANGED <<reports, humans, packs, retirements, serving>>

\* The provider fails: nothing is stored.
ReviewUnavailable(c) ==
    /\ calls[c].op = "review"
    /\ End(c)
    /\ UNCHANGED <<tables, serving>>

-----------------------------------------------------------------------------
(* The person's decision and the certification.                            *)

\* A decision follows the model's review; without one it says that there is none
\* and that the person accepts this.
MayDecide(p, without, acknowledged) ==
    \/ Status(p) = "ai_reviewed" /\ ~ without
    \/ Status(p) = "replay_verified" /\ without /\ acknowledged

\* A version is certified once (the table's key) and never after its retirement.
MayCertify(p) ==
    proposals[p].version \notin retirements /\ packs[proposals[p].version] = None

\* decide records the decision; "certify" certifies in a second transaction, and
\* when that is refused the decision stands alone.
Decide(p, decision, without, acknowledged, text) ==
    /\ p \in Created /\ humans[p] = None
    /\ Safe(text) /\ MayDecide(p, without, acknowledged)
    /\ humans' = [humans EXCEPT ![p] = decision]
    /\ \/ /\ decision # "certify"
          /\ Move(p, "rejected") /\ UNCHANGED packs
       \/ /\ decision = "certify" /\ ~ MayCertify(p)
          /\ Move(p, "human_reviewed") /\ UNCHANGED packs
       \/ /\ decision = "certify" /\ MayCertify(p)
          /\ Move(p, "certified")
          /\ packs' = [packs EXCEPT ![proposals[p].version] =
                 [by |-> p, def |-> proposals[p].def, status |-> "certified"]]
    /\ UNCHANGED <<reports, reviews, retirements, calls, serving>>

\* retire, for any version at all, in one transaction.
Retired(V) ==
    /\ retirements' = retirements \cup V
    /\ packs' = [v \in DOMAIN packs |->
           IF v \in V /\ packs[v] # None THEN [packs[v] EXCEPT !.status = "retired"] ELSE packs[v]]
    /\ proposals' = [p \in Created |->
           IF proposals[p].version \in V /\ Status(p) = "certified"
           THEN [proposals[p] EXCEPT !.status = "retired"] ELSE proposals[p]]

Retire(v) ==
    /\ Retired({v})
    /\ UNCHANGED <<reports, reviews, humans, calls, serving>>

-----------------------------------------------------------------------------
(* What applications are served.                                           *)

\* The registry's packs: the built-in one and the certified ones, without the
\* retired.
Offered ==
    {v \in {0} \cup {v \in DOMAIN packs : packs[v] # None /\ packs[v].status = "certified"} :
        v \notin retirements}

Prints(v) == IF v = 0 THEN BuiltIn ELSE packs[v].def.prints
Fits(v, page) == Prints(v) = {} \/ page \in Prints(v)

\* An application observes a page: the first pack that fits annotates it.
ObserveServed(t, page) ==
    /\ \E v \in Offered : Fits(v, page) /\ serving' = [serving EXCEPT ![t] = v]
    /\ UNCHANGED <<tables, calls>>

\* No pack of the site fits: all of them are retired, and a proposal is made
\* unless the observation has one.
ObserveDrifted(c, t, page) ==
    /\ Offered # {} /\ \A v \in Offered : ~ Fits(v, page)
    /\ Retired(Offered)
    /\ serving' = [serving EXCEPT ![t] = None]
    /\ Begin(c, [op |-> "prepare", task |-> t, page |-> page, asked |-> FALSE])
    /\ UNCHANGED <<reports, reviews, humans>>

\* The pack in use has filled something wrong: it is retired on the spot.
Quarantine(c, t, page) ==
    /\ serving[t] # None
    /\ Retired({serving[t]})
    /\ serving' = [serving EXCEPT ![t] = None]
    /\ Begin(c, [op |-> "prepare", task |-> t, page |-> page, asked |-> FALSE])
    /\ UNCHANGED <<reports, reviews, humans>>

\* There is no pack of the site: nothing is retired.  A task that the application
\* service drives itself waits for a review all the same; one of the Runtime goes
\* on with what it observed.
ObserveUnknown(c, t, page) ==
    /\ Offered = {}
    /\ serving' = [serving EXCEPT ![t] = None]
    /\ \/ Begin(c, [op |-> "prepare", task |-> t, page |-> page, asked |-> FALSE])
       \/ UNCHANGED calls
    /\ UNCHANGED tables

\* The process dies: the tables stay.
Restart ==
    /\ calls' = [c \in Calls |-> Idle]
    /\ serving' = [t \in Tasks |-> None]

Die == Restart /\ UNCHANGED tables

\* ... also between the decision and the certification: nothing certifies the
\* proposal later, and it stays active for its page.
DieDeciding(p, without, acknowledged) ==
    /\ humans[p] = None /\ MayDecide(p, without, acknowledged)
    /\ humans' = [humans EXCEPT ![p] = "certify"]
    /\ Move(p, "human_reviewed")
    /\ UNCHANGED <<reports, reviews, packs, retirements>>
    /\ Restart

Next ==
    \/ \E c \in Calls : Prepare(c) \/ Propose(c) \/ EndReplay(c)
                        \/ RecordReview(c) \/ ReviewUnavailable(c)
    \/ \E c \in Calls, p \in Created : StartReplay(c, p) \/ StartReview(c, p)
    \/ \E p \in Created, d \in Definitions : Revise(p, d)
    \/ \E p \in Created, decision \in Decisions, without, acknowledged \in BOOLEAN, text \in Texts :
           Decide(p, decision, without, acknowledged, text)
    \/ \E v \in 0..MaxVersion : Retire(v)
    \/ \E t \in Tasks, page \in Pages : ObserveServed(t, page)
    \/ \E c \in Calls, t \in Tasks, page \in Pages :
           ObserveDrifted(c, t, page) \/ Quarantine(c, t, page) \/ ObserveUnknown(c, t, page)
    \/ Die
    \/ \E p \in Created, without, acknowledged \in BOOLEAN : DieDeciding(p, without, acknowledged)

Spec == Init /\ [][Next]_vars

-----------------------------------------------------------------------------
\* Properties.

TypeOK ==
    /\ \A p \in Created : /\ proposals[p].version \in 1..MaxVersion
                          /\ proposals[p].def \in Definitions
    /\ retirements \subseteq 0..MaxVersion
    /\ \A c \in Calls : calls[c].op \in {"replay", "review"} => calls[c].p \in Created

\* What a proposal's state claims has happened to it: the replay of every fixture
\* passed and none failed, the model's review is of one of those replays, the
\* person decided as the state says, and a pack is certified or retired exactly
\* as its proposal is.
EvidenceComplete ==
    \A p \in Created :
        LET clean == /\ PassedReports(p) = DOMAIN reports[p]
                     /\ {reports[p][i].fixture : i \in PassedReports(p)} = Fixtures
        IN  /\ Status(p) # "candidate" <=> clean
            /\ Status(p) = "ai_reviewed" => reviews[p] # None
            /\ reviews[p] # None => reviews[p] \in PassedReports(p)
            /\ humans[p] = None <=> Status(p) \in {"candidate", "replay_verified", "ai_reviewed"}
            /\ humans[p] \in {"reject", "revise"} <=> Status(p) = "rejected"
            /\ LET pack == packs[proposals[p].version]
               IN  Status(p) \in {"certified", "retired"} <=>
                       pack # None /\ pack.by = p /\ pack.status = Status(p)
                       /\ pack.def = proposals[p].def

LedgerConsistent == TypeOK /\ EvidenceComplete

\* Whatever is still in flight when the person decides, the evidence the decision
\* was about stands from then on: no replay, review or second decision is added.  And
\* no application is given a pack that was retired, the built-in one included.
KeepsEvidence ==
    /\ \A p \in Created : humans[p] # None =>
           /\ reports'[p] = reports[p] /\ reviews'[p] = reviews[p] /\ humans'[p] = humans[p]
           /\ proposals'[p].def = proposals[p].def
    /\ \A t \in Tasks : serving'[t] # serving[t] => serving'[t] \notin retirements'
EvidenceStands == [][KeepsEvidence]_vars
=============================================================================
