----------------------------- MODULE MCServices -----------------------------
(***************************************************************************)
(* The parts that share neither state nor calls with each other, checked   *)
(* in one run: an initial state chooses the part that its behaviours are   *)
(* about, and v1 to v12 are the variables of that part.  So the states are *)
(* the sum of those of the parts.                                          *)
(***************************************************************************)
EXTENDS Naturals, Sequences, FiniteSets, TLC

CONSTANTS
    Calls,          \* requests in progress; the flushers of the outbox
    None,
    Match           \* the job matching, as an owner of the browser

VARIABLES part, v1, v2, v3, v4, v5, v6, v7, v8, v9, v10, v11, v12

vars == <<part, v1, v2, v3, v4, v5, v6, v7, v8, v9, v10, v11, v12>>

Symmetry == Permutations(Calls)

\* Adapter proposals.
Fixtures == {"basic", "login"}
definition(sound, finds, prints, text) == [sound |-> sound, finds |-> finds, prints |-> prints, text |-> text]
Definitions == {definition(TRUE, Fixtures, {2}, "plain"), definition(TRUE, Fixtures, {}, "artifact")}
Ledger == INSTANCE AdapterLedger WITH
    Tasks <- {"t1"}, Pages <- {1, 2}, Paused <- {"login"}, BuiltIn <- {1},
    MaxProposals <- 2, MaxVersion <- 2, MaxReports <- 1,
    proposals <- v1, reports <- v2, reviews <- v3, humans <- v4, packs <- v5,
    retirements <- v6, calls <- v7, serving <- v8

\* Scores.
kind(o, q) == [outcome |-> o, quality |-> q]
TheKinds == [project |-> {kind("unknown", 0), kind("unknown", 6), kind("satisfied", 10)},
             qualification |-> {kind("unknown", 0), kind("satisfied", 10), kind("conflict", 10)},
             preference |-> {kind("unknown", 0), kind("unknown", 6), kind("satisfied", 0),
                             kind("satisfied", 10), kind("conflict", 0)}]
Scoring == INSTANCE JobScoring WITH
    Dimensions <- <<"project", "qualification", "preference">>,
    Weight <- [project |-> 20, qualification |-> 10, preference |-> 10],
    KindsOf <- TheKinds, MaxNeeds <- 2,
    tally <- v1

\* Retrieval.  The second revision corrects the skill, and has one that nobody has
\* confirmed.
fact(id, field, rank, confirmed) == [id |-> id, field |-> field, rank |-> rank, confirmed |-> confirmed]
TheFacts == <<{fact(1, "degree", 2, TRUE), fact(2, "skill", 1, TRUE)},
              {fact(1, "degree", 2, TRUE), fact(2, "skill", 2, TRUE), fact(3, "skill", 2, FALSE)}>>
need(id, field, rank, hard, wish) ==
    [id |-> id, field |-> field, rank |-> rank, hard |-> hard, required |-> TRUE, wish |-> wish]
posting(id, needs) == [id |-> id, adapter |-> "boss", needs |-> needs]
TheSessions ==
    {[adapter |-> "boss", postings |-> <<posting("p1", <<need(1, "degree", 2, TRUE, "unknown"), need(2, "skill", 2, FALSE, "unknown")>>),
                                         posting("p2", <<need(1, "degree", 3, TRUE, "unknown"), need(2, "place", 0, FALSE, "satisfied")>>)>>],
     [adapter |-> "boss", postings |-> <<posting("p1", <<need(1, "skill", 1, FALSE, "unknown"), need(1, "skill", 2, FALSE, "unknown")>>)>>]}
Snapshot(v, r) == [kind |-> "profile", version |-> v,
                   records |-> {[fact |-> f, revision |-> r] : f \in {g \in TheFacts[r] : g.confirmed}}]
TheIndexes == {[profile |-> [active |-> Snapshot(1, 1), retired |-> <<Snapshot(2, 1)>>],
                job |-> [active |-> None, retired |-> <<>>]]}
Retrieval == INSTANCE JobRetrieval WITH
    Sessions <- TheSessions, Adapters <- {"boss"}, FactsAt <- TheFacts, Indexes <- TheIndexes,
    JobRecords <- {{"p1", "p2"}}, Versions <- {1, 2}, Limit <- 1, Retained <- 2,
    MaxBuilds <- 2, MaxMatches <- 1,
    session <- v1, profile <- v2, results <- v3, index <- v4, building <- v5,
    builds <- v6, matches <- v7, calls <- v8, built <- v9

\* Resume ingestion.
candidate(id, path, value, sound) == [id |-> id, path |-> path, value |-> value, sound |-> sound]
TheExtractions ==
    {<<candidate(1, "phone", "a", TRUE), candidate(2, "mobile", "b", TRUE)>>,
     <<candidate(1, "phone", "b", TRUE), candidate(2, "phone", "a", TRUE), candidate(3, "unknown", "a", FALSE)>>,
     <<candidate(1, "mobile", "a", TRUE), candidate(2, "phone", "a", FALSE)>>}
Ingestion == INSTANCE ResumeGraph WITH
    Ids <- {1, 2, 3}, NewIds <- {3}, Paths <- {"phone", "mobile"}, Values <- {"a", "b"},
    Meaning <- [phone |-> "phone", mobile |-> "phone"], Edits <- {<<"phone", "b">>},
    Extractions <- TheExtractions, Required <- {"phone"},
    facts <- v1, thread <- v2, calls <- v3

\* The application service over a graph.
Graph == INSTANCE GraphApplication WITH
    Tasks <- {"t1"}, Kinds <- {"content", "challenge"}, MaxInterrupts <- 1,
    lease <- v1, exists <- v2, cached <- v3, fallback <- v4, active <- v5,
    saved <- v6, reviews <- v7, orphans <- v8, calls <- v9

\* The start of the API on the databases of former releases.
Migration == INSTANCE DatabaseMigration WITH
    Ids <- {1, 2}, Converted <- {2},
    phase <- v1, step <- v2, shape <- v3, rows <- v4, stale <- v5, status <- v6,
    current <- v7, cleanup <- v8, guards <- v9

\* The services that compute for the API.
Remotes == INSTANCE RemoteWorkers WITH
    Workers <- {"ocr"}, MaxRetries <- [ocr |-> 1, embedding |-> 2, deepseek |-> 1],
    calls <- v1, requests <- v2, serving <- v3, status <- v4, fresh <- v5,
    probe <- v6, closed <- v7

\* The outbox of the traces.
Outbox == INSTANCE TraceOutbox WITH
    Runs <- {1}, MaxEvents <- 3, Flushers <- Calls, BatchSize <- 2, MaxAttempts <- 2,
    events <- v1, outbox <- v2, flushers <- v3, remote <- v4, withdrawn <- v5

\* What the user does on the page.
Monitor == INSTANCE ActivityMonitor WITH
    Tasks <- {"t1", "t2"}, Prints <- {"a", "b"}, MaxSamples <- 2,
    page <- v1, notices <- v2, guard <- v3, automation <- v4, task <- v5,
    waiting <- v6, timer <- v7, samples <- v8, last <- v9, stable <- v10,
    force <- v11, events <- v12

\* Variables that a part does not have.
Free10 == v10 = None /\ v11 = None /\ v12 = None
Free8 == v8 = None /\ v9 = None /\ Free10
Free6 == v6 = None /\ v7 = None /\ Free8
Free4 == v4 = None /\ v5 = None /\ Free6
Free2 == v2 = None /\ v3 = None /\ Free4

Init ==
    \/ part = "adapters" /\ Ledger!Init /\ v9 = None /\ Free10
    \/ part = "scoring" /\ Scoring!Init /\ Free2
    \/ part = "retrieval" /\ Retrieval!Init /\ Free10
    \/ part = "ingestion" /\ Ingestion!Init /\ Free4
    \/ part = "graph" /\ Graph!Init /\ Free10
    \/ part = "migration" /\ Migration!Init /\ Free10
    \/ part = "remotes" /\ Remotes!Init /\ Free8
    \/ part = "outbox" /\ Outbox!Init /\ Free6
    \/ part = "monitor" /\ Monitor!Init

LedgerStep == part = "adapters" /\ Ledger!Next /\ UNCHANGED <<part, v9, v10, v11, v12>>
ScoringStep == part = "scoring" /\ Scoring!Next /\ UNCHANGED <<part, v2, v3, v4, v5, v6, v7, v8, v9, v10, v11, v12>>
RetrievalStep == part = "retrieval" /\ Retrieval!Next /\ UNCHANGED <<part, v10, v11, v12>>
IngestionStep == part = "ingestion" /\ Ingestion!Next /\ UNCHANGED <<part, v4, v5, v6, v7, v8, v9, v10, v11, v12>>
GraphStep == part = "graph" /\ Graph!Next /\ UNCHANGED <<part, v10, v11, v12>>
MigrationStep == part = "migration" /\ Migration!Next /\ UNCHANGED <<part, v10, v11, v12>>
RemotesStep == part = "remotes" /\ Remotes!Next /\ UNCHANGED <<part, v8, v9, v10, v11, v12>>
OutboxStep == part = "outbox" /\ Outbox!Next /\ UNCHANGED <<part, v6, v7, v8, v9, v10, v11, v12>>
MonitorStep == part = "monitor" /\ Monitor!Next /\ UNCHANGED <<part>>

Next ==
    \/ LedgerStep \/ ScoringStep \/ RetrievalStep \/ IngestionStep \/ GraphStep
    \/ MigrationStep \/ RemotesStep \/ OutboxStep \/ MonitorStep

Spec == Init /\ [][Next]_vars

-----------------------------------------------------------------------------
\* Properties; the modules say what each of them is about.

\* What holds of the state of each part: a proposal has the evidence that its state
\* claims; the dimensions of a card add up; results and answers rest on what was
\* built and confirmed; a profile has what its documents say; an approved text is
\* the one the graph was answered with; every former database becomes the present
\* one; workers compute for one request at a time; an event is sent by one flusher at
\* a time; and an announced change of the page gets its end.
Consistent ==
    /\ part = "adapters" => Ledger!LedgerConsistent
    /\ part = "scoring" => Scoring!PartsAddUp
    /\ part = "retrieval" => Retrieval!EvidenceIsGrounded /\ Retrieval!ServedIsBuilt
    /\ part = "ingestion" => Ingestion!IngestionConsistent
    /\ part = "graph" => Graph!GraphServiceConsistent
    /\ part = "migration" => Migration!SchemaConsistent
    /\ part = "remotes" => Remotes!RemoteConsistent
    /\ part = "outbox" => Outbox!OutboxConsistent
    /\ part = "monitor" => Monitor!MonitorConsistent

\* The evidence a person decided a proposal on stands, and a retired pack is not served.
EvidenceStands == [][part = "adapters" => Ledger!KeepsEvidence]_vars

\* Evidence never costs a posting anything.
EvidenceNeverLowers == [][part = "scoring" => Scoring!LowersNothing]_vars

\* Facts are reviewed on the user's answer to a question about them, and only then.
AnswersAreAsked == [][part = "ingestion" => Ingestion!ReviewsTheAsked]_vars

\* Late results never take the browser from another task.
NeverTakesAnothersBrowser == [][part = "graph" => Graph!TakesOwnBrowser]_vars


\* What was sent or given up stays so.
SettledStays == [][part = "outbox" => Outbox!KeepsSettled]_vars

\* A page is called stable after two equal readings with nothing noticed in between.
StableWasReadTwice == [][part = "monitor" => Monitor!ReportsCalmOnly]_vars
=============================================================================
