---------------------------- MODULE JobRetrieval -----------------------------
(***************************************************************************)
(* One match of a job session (apps/api/src/agent/subgraphs/job-matching.ts *)
(* behind the match coordinator), the client of the LightRAG worker, and   *)
(* the worker's versioned indexes (services/lightrag-worker).              *)
(*                                                                         *)
(* A match reads the profile's facts once, decides the hard conditions,    *)
(* and then asks, requirement by requirement, for evidence: the worker, or *)
(* a local search when the worker cannot be used.  Between two answers the *)
(* profile changes, indexes are built, promoted and retired, the worker    *)
(* restarts, and another match of the same session runs.  Scores are those *)
(* of JobScoring and left out; what a requirement's outcome rests on is    *)
(* the subject here.                                                       *)
(***************************************************************************)
EXTENDS Naturals, Sequences, FiniteSets, SequencesExt, FiniteSetsExt

CONSTANTS
    Calls,          \* matches that can be in progress at once
    Sessions,       \* what the session may have extracted
    Adapters,       \* the adapters this build has
    FactsAt,        \* revision of the profile -> its facts
    Versions,       \* the index versions the worker may be given
    Indexes,        \* what the worker may hold when the session begins
    JobRecords,     \* sets of postings an index of postings may be built from
    Limit,          \* ADVISORY_EVIDENCE_LIMIT
    Retained,       \* versions the worker keeps beside the active one
    MaxBuilds,      \* bound on the index builds
    MaxMatches,     \* bound on the matches
    None

VARIABLES
    session,        \* the job session: its postings, state, version and revision
    profile,        \* the current revision of the profile
    results,        \* stored results: <<posting, revision>> -> result
    index,          \* the worker's memory: kind of index -> active, retired
    building,       \* the snapshot being built under the worker's lock
    builds, matches,\* how many there have been
    calls,          \* the matches in progress
    built           \* every snapshot whose build has succeeded

worker == <<index, building, builds, built>>
vars == <<session, profile, results, worker, matches, calls>>

Kinds == {"profile", "job"}
Empty == [active |-> None, retired |-> <<>>]
Idle == [phase |-> "none"]
Revisions == DOMAIN FactsAt

Init ==
    /\ session \in {[postings |-> s.postings, adapter |-> s.adapter, state |-> "matching_jobs",
                     version |-> 0, revision |-> 1] : s \in Sessions}
    /\ profile = 1 /\ matches = 0 /\ builds = 0
    /\ results = <<>>
    /\ index \in Indexes /\ building = None
    /\ built = UNION {({index[k].active} \ {None}) \cup ToSet(index[k].retired) : k \in Kinds}
    /\ calls = [c \in Calls |-> Idle]

-----------------------------------------------------------------------------
(* Facts, requirements and outcomes.                                       *)

\* Only facts of the profile itself that the user confirmed or corrected count.
Eligible(facts) == {f \in facts : f.confirmed}

\* hardConditionEvidence: a required condition on the education, the major or the
\* years is decided by the facts of its field, a supporting one first.
Compared(need, facts) == {f \in facts : f.field = need.field}
HardEvidence(need, facts) ==
    LET supports == {f \in Compared(need, facts) : f.rank >= need.rank}
        cited == IF supports # {} THEN supports ELSE Compared(need, facts)
    IN  IF ~ need.hard \/ ~ need.required \/ cited = {} THEN {}
        ELSE {[need |-> need.id, fact |-> CHOOSE f \in cited : TRUE, by |-> None,
               relation |-> IF supports # {} THEN "supports" ELSE "contradicts"]}

\* assessRequirement.  need.wish says what the user's expectation makes of the
\* requirement.
Outcome(need, evidence) ==
    LET says(relation) == \E e \in evidence : e.need = need.id /\ e.relation = relation
    IN  IF need.wish = "conflict" \/ (need.required /\ says("contradicts")) THEN "conflict"
        ELSE IF need.wish = "satisfied" \/ says("supports") THEN "satisfied"
        ELSE "unknown"

HasConflict(posting, evidence) ==
    \E i \in DOMAIN posting.needs : Outcome(posting.needs[i], evidence) = "conflict"

\* scoringEvidence: a candidate with the value that is asked for is a confirmed fact,
\* any other is only related.
Evidence(need, candidate) ==
    [need |-> need.id, fact |-> candidate.fact, by |-> candidate.by,
     relation |-> IF candidate.fact.field = need.field /\ candidate.fact.rank = need.rank
                  THEN "supports" ELSE "related"]

\* The requirements evidence is searched for, in order: not the hard ones, and of
\* postings without a conflict those that are unknown.
Open(postings, plans) ==
    FlattenSeq([p \in DOMAIN postings |->
        IF HasConflict(postings[p], plans[p]) THEN <<>>
        ELSE SelectSeq([i \in DOMAIN postings[p].needs |-> <<p, i>>],
                 LAMBDA at : LET need == postings[p].needs[at[2]]
                             IN  ~ need.hard /\ Outcome(need, plans[p]) = "unknown")])

-----------------------------------------------------------------------------
(* The worker's indexes.                                                   *)

RecordsOf(k) == IF k = "profile" THEN {Eligible(FactsAt[r]) : r \in Revisions} ELSE JobRecords

\* Records of the profile's index carry the revision they were made for.
Records(k, content, r) ==
    IF k = "profile" THEN {[fact |-> f, revision |-> r] : f \in content}
    ELSE {[posting |-> p] : p \in content}

\* upsert, under the lock: records are added to the active snapshot of the same
\* version, replacing those with the same evidence id; another version starts empty.
SameId(a, b) == IF "fact" \in DOMAIN a THEN a.fact.id = b.fact.id ELSE a.posting = b.posting
Merged(k, v, records) ==
    LET active == index[k].active
        kept == IF active # None /\ active.version = v
                THEN {a \in active.records : \A b \in records : ~ SameId(a, b)} ELSE {}
    IN  [kind |-> k, version |-> v, records |-> kept \cup records]

StartBuild(snapshot) ==
    /\ building = None /\ builds < MaxBuilds
    /\ index[snapshot.kind].active # snapshot
    /\ building' = snapshot /\ builds' = builds + 1
    /\ UNCHANGED <<session, profile, results, index, built, matches, calls>>

StartUpsert(k, v, r) ==
    \E content \in IF k = "profile" THEN {Eligible(FactsAt[r])} ELSE JobRecords :
        StartBuild(Merged(k, v, Records(k, content, r)))

\* delete: of the active version, and of none other.
StartDelete(k, gone) ==
    /\ index[k].active # None /\ gone \in index[k].active.records
    /\ StartBuild([index[k].active EXCEPT !.records = @ \ {gone}])

\* _promote: the previous version is retired, and the oldest retired one forgotten;
\* a rebuilt version replaces what was retired under its name.
Promoted(entry, snapshot) ==
    LET previous == entry.active
        others(v) == SelectSeq(entry.retired, LAMBDA s : s.version # v)
        retired == Append(others(previous.version), previous)
    IN  [active |-> snapshot,
         retired |-> IF previous = None THEN entry.retired
                     ELSE IF previous.version = snapshot.version THEN others(snapshot.version)
                     ELSE SubSeq(retired, Max({1, Len(retired) - Retained + 1}), Len(retired))]

\* The build ends: only a successful one is promoted.
Built ==
    \/ /\ index' = [index EXCEPT ![building.kind] = Promoted(@, building)]
       /\ built' = built \cup {building}
    \/ UNCHANGED <<index, built>>

FinishBuild ==
    /\ building # None
    /\ Built
    /\ building' = None
    /\ UNCHANGED <<session, profile, results, builds, matches, calls>>

\* The worker restarts with no index at all.
WorkerRestarts ==
    /\ index' = [k \in Kinds |-> Empty] /\ building' = None
    /\ index # index' \/ building # None
    /\ UNCHANGED <<session, profile, results, builds, built, matches, calls>>

\* _resolve_snapshot: the active snapshot, or for a revision it has no records of
\* the newest retired one that has some.
Has(snapshot, r) == {x \in snapshot.records : x.revision = r}
Resolve(k, r) ==
    LET entry == index[k]
        older == {i \in DOMAIN entry.retired : Has(entry.retired[i], r) # {}}
    IN  IF k = "job" \/ Has(entry.active, r) # {} \/ older = {}
        THEN entry.active ELSE entry.retired[Max(older)]
Allowed(k, snapshot, r) == IF k = "job" THEN snapshot.records ELSE Has(snapshot, r)

-----------------------------------------------------------------------------
(* A match.                                                                *)

\* selectAdapter and normalizePostings: the adapter of the session, of every
\* posting, and neither postings nor requirements twice.
Usable(s) ==
    /\ s.adapter \in Adapters
    /\ \A p \in DOMAIN s.postings :
           /\ s.postings[p].adapter = s.adapter
           /\ IsInjective([i \in DOMAIN s.postings[p].needs |-> s.postings[p].needs[i].id])
    /\ IsInjective([p \in DOMAIN s.postings |-> s.postings[p].id])

\* What a match of the session with these facts starts from.
Plans(postings, facts) ==
    [p \in DOMAIN postings |->
        UNION {HardEvidence(postings[p].needs[i], facts) : i \in DOMAIN postings[p].needs}]

Started(op, facts) ==
    LET plans == Plans(session.postings, facts)
        todo == Open(session.postings, plans)
    IN  [phase |-> "discover", op |-> op, version |-> session.version, label |-> session.revision,
         from |-> profile, facts |-> facts, plans |-> plans, todo |-> todo, attempt |-> 1,
         query |-> None, used |-> FALSE, fallback |-> FALSE]

\* extractAndMatch and rematch: a rematch marks what is stored as stale first.  A
\* session whose postings cannot be used fails.
Start(c, op) ==
    /\ calls[c] = Idle /\ matches < MaxMatches /\ Usable(session)
    /\ op = "finalize" => session.state = "matching_jobs"
    /\ matches' = matches + 1
    /\ calls' = [calls EXCEPT ![c] = Started(op, Eligible(FactsAt[profile]))]
    /\ results' = IF op = "rematch" THEN [k \in DOMAIN results |-> [results[k] EXCEPT !.stale = TRUE]] ELSE results
    /\ UNCHANGED <<session, profile, worker>>

\* The worker is asked: about the postings with a summary of the facts, when there
\* are any and a posting without a conflict; then about each open requirement.
Asking(c) ==
    IF calls[c].phase = "discover"
    THEN /\ calls[c].facts # {}
         /\ \E p \in DOMAIN session.postings : ~ HasConflict(session.postings[p], calls[c].plans[p])
    ELSE calls[c].phase = "search"

\* A request about postings names no revision, one about the profile the session's.
Request(c) ==
    IF calls[c].phase = "discover" THEN [kind |-> "job", revision |-> None]
    ELSE [kind |-> "profile", revision |-> calls[c].label]

\* A missing index, or one without a record of the revision, is refused.
Found(c) == Resolve(Request(c).kind, Request(c).revision)
Within(c) == Allowed(Request(c).kind, Found(c), Request(c).revision)
Answerable(c) ==
    /\ index[Request(c).kind].active # None
    /\ Request(c).kind = "profile" => Within(c) # {}

Ask(c) ==
    /\ Asking(c) /\ calls[c].query = None /\ Answerable(c)
    /\ calls' = [calls EXCEPT ![c].query = [snapshot |-> Found(c), allowed |-> Within(c)]]
    /\ UNCHANGED <<session, profile, results, worker, matches>>

\* validatedJobDiscovery: any posting that is not open for discussion voids it.
DiscoveryValid(c, hits) ==
    \A h \in hits : \E p \in DOMAIN session.postings :
        /\ session.postings[p].id = h.posting
        /\ ~ HasConflict(session.postings[p], calls[c].plans[p])

\* validatedLightRagCandidates: every hit is one of the facts read at the start, with
\* the same text.
HitsValid(c, hits) == \A h \in hits : h.fact \in calls[c].facts

\* The next requirement, with the candidates of this one as evidence.
Searched(call, candidates) ==
    LET at == Head(call.todo)
        need == session.postings[at[1]].needs[at[2]]
        rest == Tail(call.todo)
    IN  [call EXCEPT !.plans[at[1]] = @ \cup {Evidence(need, x) : x \in candidates},
                     !.todo = rest, !.attempt = 1, !.query = None,
                     !.phase = IF rest = <<>> THEN "score"
                               ELSE IF call.phase = "local" /\ ~ call.used THEN "local" ELSE "search"]

\* Without a discovery by the worker every search of this match is local.
Discovered(call, used) ==
    [call EXCEPT !.used = used, !.fallback = @ \/ ~ used, !.attempt = 1, !.query = None,
                 !.phase = IF call.todo = <<>> THEN "score" ELSE IF used THEN "search" ELSE "local"]

FallBack(call) ==
    IF call.phase = "discover" THEN Discovered(call, FALSE)
    ELSE [call EXCEPT !.phase = "local", !.fallback = TRUE, !.attempt = 1, !.query = None]

\* What LightRAG finds for a query, in whatever order: at most so many records, none
\* twice, and of those only the allowed ones.
Hits(c) == {hits \in SUBSET calls[c].query.allowed : Cardinality(hits) <= Limit}

\* The worker answers from the snapshot it resolved, whatever is active by now.
Answer(c) ==
    /\ calls[c].phase \in {"discover", "search"} /\ calls[c].query # None
    /\ \E hits \in Hits(c) :
          calls' = [calls EXCEPT ![c] =
              IF @.phase = "discover"
              THEN Discovered(@, DiscoveryValid(c, hits))
              ELSE IF HitsValid(c, hits)
              THEN Searched(@, {[fact |-> h.fact, by |-> @.query.snapshot] : h \in hits})
              ELSE FallBack(@)]
    /\ UNCHANGED <<session, profile, results, worker, matches>>

\* The request fails: a timeout, the network or an error of the worker is tried once
\* more, a missing index or a scope mismatch is not.  A match that has nothing to
\* ask the worker comes here too.
Fail(c) ==
    /\ calls[c].phase \in {"discover", "search"}
    /\ calls' = [calls EXCEPT ![c] =
           IF Asking(c) /\ @.attempt = 1 THEN [@ EXCEPT !.attempt = 2, !.query = None]
           ELSE FallBack(@)]
    /\ UNCHANGED <<session, profile, results, worker, matches>>

Refuse(c) ==
    /\ Asking(c) /\ calls[c].query = None /\ ~ Answerable(c)
    /\ calls' = [calls EXCEPT ![c] = FallBack(@)]
    /\ UNCHANGED <<session, profile, results, worker, matches>>

\* deterministicCandidates: the similar ones of the facts read at the start, and what
\* the embedding search finds in the profile as it is now, unless it fails.
Dense(facts) == Eligible(facts)
Similar(need, facts) == {f \in facts : f.field = need.field}

\* The best ones, a fact once, whichever of its versions was the better match.
BestOf(facts) ==
    {found \in SUBSET facts :
        /\ \A f, g \in found : f.id = g.id => f = g
        /\ Cardinality(found) = Min({Limit, Cardinality({f.id : f \in facts})})}

Local(c) ==
    /\ calls[c].phase = "local"
    /\ LET at == Head(calls[c].todo)
           need == session.postings[at[1]].needs[at[2]]
       IN  \E dense \in {{}, Dense(FactsAt[profile])} :
           \E found \in BestOf(Similar(need, calls[c].facts) \cup dense) :
              calls' = [calls EXCEPT ![c] = Searched(@, {[fact |-> f, by |-> None] : f \in found})]
    /\ UNCHANGED <<session, profile, results, worker, matches>>

\* A match is healthy when the worker was used and nothing fell back.
Healthy(call) == call.used /\ ~ call.fallback

\* The drafts are scored and stored under the revision the session had, in one
\* transaction, before the advisor is asked.
Key(p, call) == <<p, call.label>>
Stored(c) ==
    LET call == calls[c]
    IN  [k \in {Key(p, call) : p \in DOMAIN call.plans} |->
            [cited |-> call.plans[k[1]], conflict |-> HasConflict(session.postings[k[1]], call.plans[k[1]]),
             healthy |-> Healthy(call), from |-> call.from, stale |-> FALSE]]

Save(c) ==
    /\ calls[c].phase = "score"
    /\ results' = Stored(c) @@ results
    /\ calls' = [calls EXCEPT ![c].phase = "advise"]
    /\ UNCHANGED <<session, profile, worker, matches>>

\* The advisor has been asked about what is still unknown; its answers are returned and
\* change nothing.  finalizeMatching reads the version again, rematch uses the one
\* it was asked for.  Either way the session now has the current revision.
Return(c) ==
    /\ calls[c].phase = "advise"
    /\ session' = IF calls[c].op = "rematch" /\ session.version # calls[c].version THEN session
                  ELSE [session EXCEPT !.state = "awaiting_job_selection", !.version = @ + 1,
                                       !.revision = profile]
    /\ calls' = [calls EXCEPT ![c] = Idle]
    /\ UNCHANGED <<profile, results, worker, matches>>

\* get: what the session has for another revision than the current one is stale.
Get ==
    /\ session.revision # profile
    /\ results' = [k \in DOMAIN results |-> [results[k] EXCEPT !.stale = TRUE]]
    /\ results' # results
    /\ UNCHANGED <<session, profile, worker, matches, calls>>

ChangeProfile ==
    /\ profile + 1 \in Revisions
    /\ profile' = profile + 1
    /\ UNCHANGED <<session, results, worker, matches, calls>>

Next ==
    \/ \E k \in Kinds, v \in Versions, r \in 1..profile : StartUpsert(k, v, r)
    \/ \E k \in Kinds : \E gone \in IF index[k].active = None THEN {} ELSE index[k].active.records :
           StartDelete(k, gone)
    \/ FinishBuild
    \/ WorkerRestarts
    \/ \E c \in Calls, op \in {"finalize", "rematch"} : Start(c, op)
    \/ \E c \in Calls : Ask(c) \/ Answer(c) \/ Fail(c) \/ Refuse(c) \/ Local(c) \/ Save(c) \/ Return(c)
    \/ Get
    \/ ChangeProfile

Spec == Init /\ [][Next]_vars

-----------------------------------------------------------------------------
\* Properties.

\* What a stored result rests on: facts the user confirmed, of the profile as it was
\* when the match began or has become since, however old the index was that found
\* them; and a match that claims to have used the worker throughout has all that it
\* searched for from snapshots that hold it for the revision it is labelled with.
EvidenceIsGrounded ==
    \A k \in DOMAIN results : \A e \in results[k].cited :
        /\ \E r \in results[k].from..profile : e.fact \in Eligible(FactsAt[r])
        /\ LET need == CHOOSE n \in ToSet(session.postings[k[1]].needs) : n.id = e.need
           IN  results[k].healthy /\ ~ need.hard =>
                   e.by \in built /\ [fact |-> e.fact, revision |-> k[2]] \in e.by.records

\* Whatever fails or is restarted, the worker answers only from snapshots whose build
\* succeeded, and keeps no more of them than it should, one for a version.
ServedIsBuilt ==
    \A k \in Kinds :
        LET entry == index[k]
        IN  /\ entry.active # None => entry.active \in built
            /\ ToSet(entry.retired) \subseteq built
            /\ Len(entry.retired) <= Retained
            /\ IsInjective([i \in DOMAIN entry.retired |-> entry.retired[i].version])
=============================================================================
