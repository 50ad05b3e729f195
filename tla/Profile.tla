------------------------------- MODULE Profile -------------------------------
(***************************************************************************)
(* The user's profile: the resume documents and which of them is current,  *)
(* the facts extracted from them or stated by the user, the reviews of a   *)
(* tailored self-evaluation, and the index of embeddings that field        *)
(* resolution searches.  Requests upload and parse documents, tailor a     *)
(* self-evaluation and resolve a field, each over several awaits; the      *)
(* user's commands on facts and reviews are SQLite transactions between    *)
(* them.  Embedding calls form one queue.                                  *)
(*                                                                         *)
(* A path stands for a field and its legacy names (semanticLookupPaths).   *)
(* The value of a fact is named by its id and revision: every write of a   *)
(* value increments the revision, and only confirm leaves both as they     *)
(* are.  A vector is the revision it was computed from.                    *)
(***************************************************************************)
EXTENDS Integers, FiniteSets, Sequences

CONSTANTS
    Docs,            \* fingerprints of PDF files
    Paths,           \* fields
    Self,            \* the path of the self-evaluation
    Content,         \* the paths of the facts that a document yields
    Stated,          \* paths that the user has stated a fact for at first
    Requests,
    Models,          \* embedding configurations the service may start with
    Limits,          \* how many facts a search may be asked for
    None,
    MaxFacts,        \* bound: rows of profile_facts
    MaxRetries,      \* of an embedding call
    MaxOps,          \* bound: requests
    MaxWrites,       \* bound: commands on facts and answers
    MaxFaults        \* bound: failed writes and restarts

ASSUME ConstantsAssumption ==
    /\ Self \in Paths /\ Stated \subseteq Paths /\ Content \in [Docs -> SUBSET Paths]
    /\ None \notin Docs \cup Paths \cup Models
    /\ Limits \subseteq Nat \ {0} /\ MaxFacts \in Nat /\ MaxRetries \in Nat
    /\ MaxOps \in Nat /\ MaxWrites \in Nat /\ MaxFaults \in Nat

VARIABLES
    docs,      \* documents: import status
    current,   \* the document with is_current = 1
    files,     \* retained originals
    facts,     \* profile_facts
    answers,   \* paths that the task has an answer of its own for
    review,    \* the task's self-evaluation review
    revision,  \* profile_metadata.revision
    model,     \* the configuration of this process
    active,    \* the active embedding index
    builds,    \* rebuilds in flight, one per set of facts
    calls,     \* the queue of embedding calls, and the retries of its head
    req,       \* requests in progress
    left       \* what remains of the bounds

documents == <<docs, current, files>>
profile == <<facts, answers, review, revision>>
index == <<active, builds, calls>>
vars == <<documents, profile, model, index, req, left>>

Ids == 1..MaxFacts
Reviewed == {"user_confirmed", "user_corrected"}
NoFact == [path |-> None, status |-> "none", rev |-> 0, from |-> None]
NoVectors == [f \in Ids |-> 0]
NoIndex == [model |-> None, vecs |-> NoVectors]
Idle == [pc |-> "idle", doc |-> None, parses |-> FALSE, created |-> FALSE,
         path |-> None, base |-> <<0, 0>>, keyword |-> {}, start |-> NoVectors,
         index |-> NoIndex, limit |-> 0, found |-> {}]

\* The lowest free ids, one for each path of P, in some order.
Free == {f \in Ids : facts[f] = NoFact}
Lowest(n) == {f \in Free : Cardinality({g \in Free : g < f}) < n}

ByUser(p) == [path |-> p, status |-> "user_corrected", rev |-> 1, from |-> None]
Numbering(P) == CHOOSE m \in [P -> 1..Cardinality(P)] : \A p, q \in P : m[p] = m[q] => p = q

\* A document may have been uploaded before, and facts stated.
Init ==
    /\ current \in Docs \cup {None}
    /\ docs = [d \in Docs |-> IF d = current THEN "retained" ELSE "absent"]
    /\ files = {d \in Docs : d = current}
    /\ facts = [f \in Ids |-> IF \E p \in Stated : Numbering(Stated)[p] = f
                              THEN ByUser(CHOOSE p \in Stated : Numbering(Stated)[p] = f)
                              ELSE NoFact]
    /\ answers = {} /\ revision = Cardinality(Stated)
    /\ review = [status |-> "none", base |-> <<0, 0>>]
    /\ model \in Models /\ active = NoIndex /\ builds = {}
    /\ calls = [queue |-> <<>>, tries |-> 0]
    /\ req = [r \in Requests |-> Idle]
    /\ left = [ops |-> MaxOps, writes |-> MaxWrites, faults |-> MaxFaults]

At(r, pc) == req[r].pc = pc
Go(r, pc) == req' = [req EXCEPT ![r].pc = pc]
End(r) == req' = [req EXCEPT ![r] = Idle]
Starting(r) == At(r, "idle") /\ left.ops > 0 /\ left' = [left EXCEPT !.ops = @ - 1]
Writing == left.writes > 0 /\ left' = [left EXCEPT !.writes = @ - 1]
Failing == left.faults > 0 /\ left' = [left EXCEPT !.faults = @ - 1]

-----------------------------------------------------------------------------
(* Retaining a document and making it current.                             *)

Retained(r) == IF req[r].parses THEN Go(r, "parse") ELSE End(r)

\* A known document becomes current at once; another one is stored first.
Upload(r, d, parses) ==
    /\ Starting(r)
    /\ IF docs[d] # "absent"
       THEN /\ current' = d
            /\ req' = IF parses THEN [req EXCEPT ![r].pc = "parse", ![r].doc = d, ![r].parses = TRUE]
                                ELSE req
       ELSE /\ req' = [req EXCEPT ![r].pc = "retain", ![r].doc = d, ![r].parses = parses]
            /\ UNCHANGED current
    /\ UNCHANGED <<docs, files, profile, model, index>>

\* An original that is there already was not created by this request.
RetainReads(r) ==
    /\ At(r, "retain")
    /\ Go(r, IF req[r].doc \in files THEN "insert" ELSE "write")
    /\ UNCHANGED <<documents, profile, model, index, left>>

\* The rename puts the file in place, over one that a concurrent upload put there.
RetainWrites(r) ==
    /\ At(r, "write")
    /\ \/ /\ files' = files \cup {req[r].doc}
          /\ req' = [req EXCEPT ![r].pc = "insert", ![r].created = TRUE]
          /\ UNCHANGED left
       \/ Failing /\ End(r) /\ UNCHANGED files
    /\ UNCHANGED <<docs, current, profile, model, index>>

\* The row is inserted and made current.  When the insert fails, the document of
\* another upload is used if there is one, and the original discarded if not.
Insert(r) ==
    LET d == req[r].doc IN
    /\ At(r, "insert")
    /\ \/ /\ docs' = [docs EXCEPT ![d] = IF @ = "absent" THEN "retained" ELSE @]
          /\ current' = d
          /\ Retained(r)
          /\ UNCHANGED left
       \/ /\ docs[d] = "absent" /\ Failing
          /\ IF req[r].created THEN Go(r, "discard") ELSE End(r)
          /\ UNCHANGED <<docs, current>>
    /\ UNCHANGED <<files, profile, model, index>>

Discard(r) ==
    /\ At(r, "discard")
    /\ files' = files \ {req[r].doc}
    /\ End(r)
    /\ UNCHANGED <<docs, current, profile, model, index, left>>

-----------------------------------------------------------------------------
(* Parsing the current document.                                           *)

ParseArrives(r, d) ==
    /\ Starting(r)
    /\ req' = [req EXCEPT ![r].pc = "parse", ![r].doc = d]
    /\ UNCHANGED <<documents, profile, model, index>>

\* What may be claimed (claimImport).
Claimable_Importing(d) == docs[d] \in {"retained", "failed", "importing"}
Claimable(d) == docs[d] \in {"retained", "failed"}

\* Only the current document is parsed, and only by one request at a time.
Parse(r) ==
    LET d == req[r].doc IN
    /\ At(r, "parse")
    /\ IF current = d /\ Claimable(d)
       THEN /\ docs' = [docs EXCEPT ![d] = "importing"]
            /\ Go(r, IF req[r].parses THEN "pdf" ELSE "read")
       ELSE End(r) /\ UNCHANGED docs
    /\ UNCHANGED <<current, files, profile, model, index, left>>

\* The original is read after the claim and outside of the handlers that give it
\* back: when it cannot be read the document stays importing.
Read(r) ==
    /\ At(r, "read")
    /\ \/ req[r].doc \in files /\ Go(r, "pdf") /\ UNCHANGED left
       \/ End(r) /\ IF req[r].doc \in files THEN Failing ELSE UNCHANGED left
    /\ UNCHANGED <<documents, profile, model, index>>

FailImportClaim(d) ==
    docs' = [docs EXCEPT ![d] = IF current = d THEN "failed" ELSE "retained"]

Pdf(r) ==
    /\ At(r, "pdf")
    /\ \/ Go(r, "extract") /\ UNCHANGED docs
       \/ FailImportClaim(req[r].doc) /\ End(r)
    /\ UNCHANGED <<current, files, profile, model, index, left>>

\* Rows for the facts of a document, one for each of its paths.
Extracted(p, d) == [path |-> p, status |-> "extracted", rev |-> 1, from |-> d]
CreateExtracted(d) ==
    LET P == Content[d]
        ids == Lowest(Cardinality(P)) IN
    /\ Cardinality(ids) = Cardinality(P)
    /\ \E row \in [ids -> P] :
         /\ \A f, g \in ids : row[f] = row[g] => f = g
         /\ facts' = [f \in Ids |-> IF f \in ids THEN Extracted(row[f], d) ELSE facts[f]]

\* What may be completed (completeCurrentImport).
Completable(d) == current = d /\ docs[d] = "importing"

\* The status, the pages and the facts are written in one transaction, if the
\* document is still current; otherwise the claim is given back.
Complete(r) ==
    LET d == req[r].doc IN
    /\ At(r, "extract")
    /\ End(r)
    /\ \/ /\ Completable(d)
          /\ docs' = [docs EXCEPT ![d] = "completed"]
          /\ CreateExtracted(d)
          /\ UNCHANGED left
       \/ /\ ~Completable(d)
          /\ docs' = [docs EXCEPT ![d] = IF @ = "importing" THEN "retained" ELSE @]
          /\ UNCHANGED <<facts, left>>
       \/ Failing /\ FailImportClaim(d) /\ UNCHANGED facts      \* the transaction
       \/ FailImportClaim(d) /\ UNCHANGED <<facts, left>>       \* extractFacts
    /\ UNCHANGED <<current, files, answers, review, revision, model, index>>

-----------------------------------------------------------------------------
(* The user's commands on facts: one transaction each.                     *)

Bump == revision' = revision + 1

\* The fact is written, and the other reviewed facts of its path are superseded.
Alternatives(f) ==
    {g \in Ids \ {f} : facts[g].path = facts[f].path /\ facts[g].status \in Reviewed}
Superseding(f, fact) ==
    facts' = [g \in Ids |->
        CASE g = f -> fact
          [] g \in Alternatives(f) -> [facts[g] EXCEPT !.status = "superseded", !.rev = @ + 1]
          [] OTHER -> facts[g]]

Corrected(f) == [facts[f] EXCEPT !.status = "user_corrected", !.rev = @ + 1]
CorrectStored(f) ==
    /\ facts[f].status \notin {"none", "superseded"}
    /\ Superseding(f, Corrected(f))
    /\ Bump

Confirm(f) ==
    /\ facts[f].status = "extracted"
    /\ Writing
    /\ Superseding(f, [facts[f] EXCEPT !.status = "user_confirmed"])
    /\ Bump
    /\ UNCHANGED <<documents, answers, review, model, index, req>>

Correct(f) ==
    /\ Writing
    /\ CorrectStored(f)
    /\ UNCHANGED <<documents, answers, review, model, index, req>>

ReviewedAt(p) == {f \in Ids : facts[f].path = p /\ facts[f].status \in Reviewed}

\* A user's value corrects the reviewed fact of its path, or is a fact of its own.
Upsert(p) ==
    /\ Writing
    /\ \/ \E f \in ReviewedAt(p) : CorrectStored(f)
       \/ /\ ReviewedAt(p) = {}
          /\ \E f \in Lowest(1) : facts' = [facts EXCEPT ![f] = ByUser(p)]
          /\ Bump
    /\ UNCHANGED <<documents, answers, review, model, index, req>>

Remove(p) ==
    LET matches == {f \in Ids : facts[f].path = p /\ facts[f].status # "superseded"} IN
    /\ matches # {}
    /\ Writing
    /\ facts' = [f \in Ids |-> IF f \in matches
                   THEN [facts[f] EXCEPT !.status = "superseded", !.rev = @ + 1] ELSE facts[f]]
    /\ Bump
    /\ UNCHANGED <<documents, answers, review, model, index, req>>

PutTaskAnswer(p) ==
    /\ p \notin answers
    /\ Writing
    /\ answers' = answers \cup {p}
    /\ UNCHANGED <<documents, facts, review, revision, model, index, req>>

-----------------------------------------------------------------------------
(* The review of a tailored self-evaluation.                               *)

\* The draft is written from the reviewed fact as it is when the request arrives.
Tailor(r) ==
    \E f \in ReviewedAt(Self) :
        /\ Starting(r)
        /\ req' = [req EXCEPT ![r].pc = "tailor", ![r].base = <<f, facts[f].rev>>]
        /\ UNCHANGED <<documents, profile, model, index>>

\* A draft that passed is saved, unless the review is settled already.
TailorSaves(r) ==
    /\ At(r, "tailor")
    /\ \/ /\ review.status \in {"none", "needs_review"}
          /\ review' = [status |-> "needs_review", base |-> req[r].base]
       \/ UNCHANGED review
    /\ End(r)
    /\ UNCHANGED <<documents, facts, answers, revision, model, index, left>>

\* The fact is what it was when the draft was written.
BaseStillCurrent ==
    LET f == review.base[1] IN
    /\ f \in Ids
    /\ facts[f].path = Self /\ facts[f].status \in Reviewed
    /\ facts[f].rev = review.base[2]

Approve ==
    /\ review.status = "needs_review" /\ BaseStillCurrent
    /\ review' = [review EXCEPT !.status = "approved"]
    /\ answers' = answers \cup {Self}
    /\ UNCHANGED <<documents, facts, revision, model, index, req, left>>

\* The stored status `promoted' reads as approved, but the transition does not
\* find it: the second promotion is rolled back.
Promote ==
    /\ review.status = "approved" /\ BaseStillCurrent
    /\ review' = [review EXCEPT !.status = "promoted"]
    /\ CorrectStored(review.base[1])
    /\ UNCHANGED <<documents, answers, model, index, req, left>>

-----------------------------------------------------------------------------
(* Resolving a field: the exact fact, keywords, then the embeddings.       *)

\* A field with a reviewed fact or an answer is resolved at once.  Otherwise the
\* keyword search reads the active facts (one service has no keyword search).
Resolve(r, p) ==
    /\ Starting(r)
    /\ IF ReviewedAt(p) # {} \/ p \in answers
       THEN UNCHANGED req
       ELSE \E kw \in {{}, {<<f, facts[f].status, facts[f].rev>> :
                              f \in {g \in Ids : facts[g].path = p /\ facts[g].status = "extracted"}}} :
              req' = [req EXCEPT ![r].pc = "health", ![r].path = p, ![r].keyword = kw]
    /\ UNCHANGED <<documents, profile, model, index>>

Snapshot == [f \in Ids |-> IF facts[f].status \in Reviewed THEN facts[f].rev ELSE 0]
HasVectors(v) == \E f \in Ids : v[f] # 0

\* An index is used as it is only if it is of this configuration.
MatchesConfig == active.model = model

\* Facts whose stored vector is of their revision.
Unchanged(S) == [f \in Ids |-> IF MatchesConfig /\ active.vecs[f] = S[f] THEN S[f] ELSE 0]

\* Two searches share a rebuild only when they saw the same facts.
BuildKey_Any(S) == {f \in Ids : S[f] # 0}
BuildKey(S) == S

Call(c) == calls' = [calls EXCEPT !.queue = Append(@, c)]
BuildCall(key) == [kind |-> "documents", build |-> key, by |-> None]
QueryCall(r) == [kind |-> "query", build |-> {}, by |-> r]

\* The index is at hand: without vectors the search finds nothing.
Query(r, i) ==
    req' = [req EXCEPT ![r].pc = IF HasVectors(i.vecs) THEN "query" ELSE "decide",
                       ![r].start = Snapshot, ![r].index = i]

\* synchronize: the active index serves when it holds just the facts of now; a
\* rebuild with nothing to embed is activated in the same breath.
Synchronize(r) ==
    LET S == Snapshot
        kept == Unchanged(S)
        key == BuildKey(S)
        fresh == [model |-> model, vecs |-> S] IN
    CASE MatchesConfig /\ active.vecs = S ->
           /\ Query(r, active)
           /\ IF HasVectors(S) THEN Call(QueryCall(r)) ELSE UNCHANGED calls
           /\ UNCHANGED <<active, builds>>
      [] ~(MatchesConfig /\ active.vecs = S) /\ \E b \in builds : b.key = key ->
           /\ req' = [req EXCEPT ![r].pc = "build", ![r].start = S]
           /\ UNCHANGED index
      [] ~(MatchesConfig /\ active.vecs = S) /\ ~(\E b \in builds : b.key = key) /\ kept = S ->
           /\ active' = fresh
           /\ Query(r, fresh)
           /\ IF HasVectors(S) THEN Call(QueryCall(r)) ELSE UNCHANGED calls
           /\ UNCHANGED builds
      [] OTHER ->
           /\ builds' = builds \cup {[key |-> key, facts |-> S, vecs |-> kept]}
           /\ Call(BuildCall(key))
           /\ req' = [req EXCEPT ![r].pc = "build", ![r].start = S]
           /\ UNCHANGED active

\* The worker is asked whether it is ready; if it is not the field is blocked.
Health(r) ==
    /\ At(r, "health")
    /\ \/ Synchronize(r)
       \/ End(r) /\ UNCHANGED index
    /\ UNCHANGED <<documents, profile, model, left>>

\* What the search may return: of the stored facts that are visible and as they
\* were, the n that come first; which ones, the scores say.
Standing(r) == {f \in Ids : /\ facts[f].status \in Reviewed
                            /\ facts[f].rev = req[r].index.vecs[f]}
Results(r, n) ==
    {F \in SUBSET Standing(r) :
        Cardinality(F) = IF Cardinality(Standing(r)) <= n THEN Cardinality(Standing(r)) ELSE n}

\* Candidates with one id and two contents block the field, others are offered.
Decide(r) ==
    /\ At(r, "decide")
    /\ End(r)
    /\ UNCHANGED <<documents, profile, model, index, left>>

-----------------------------------------------------------------------------
(* The embedding worker: one call at a time, with retries.                 *)

Busy == calls.queue # <<>>
HeadCall == Head(calls.queue)
\* The head of the queue ends, however it ends.
Served_Stays == calls' = [calls EXCEPT !.tries = 0]
Served == calls' = [queue |-> Tail(calls.queue), tries |-> 0]
ServedThen(c) == calls' = [queue |-> Append(Tail(calls.queue), c), tries |-> 0]

Waiting(b) == {r \in Requests : At(r, "build") /\ BuildKey(req[r].start) = b.key}

\* A batch is stored; the last one activates the index and its searches go on.
DocumentsEmbedded(b) ==
    LET f == CHOOSE g \in Ids : b.vecs[g] # b.facts[g]
        vecs == [b.vecs EXCEPT ![f] = b.facts[f]]
        ready == [model |-> model, vecs |-> vecs] IN
    IF vecs # b.facts
    THEN /\ builds' = (builds \ {b}) \cup {[b EXCEPT !.vecs = vecs]}
         /\ ServedThen(BuildCall(b.key))
         /\ UNCHANGED <<active, req>>
    ELSE /\ active' = ready
         /\ builds' = builds \ {b}
         /\ req' = [r \in Requests |-> IF r \in Waiting(b)
                      THEN [req[r] EXCEPT !.pc = "ask", !.index = ready] ELSE req[r]]
         /\ Served

\* A search that waited for the index asks for the vector of its query.
Ask(r) ==
    /\ At(r, "ask")
    /\ Go(r, "query")
    /\ Call(QueryCall(r))
    /\ UNCHANGED <<documents, profile, model, active, builds, left>>

QueryEmbedded(r) ==
    /\ \E n \in Limits : \E F \in Results(r, n) :
           req' = [req EXCEPT ![r].pc = "decide", ![r].limit = n,
                              ![r].found = {<<f, facts[f].status, facts[f].rev>> : f \in F}]
    /\ Served
    /\ UNCHANGED <<active, builds>>

Embedded ==
    /\ Busy
    /\ \/ \E b \in builds : HeadCall = BuildCall(b.key) /\ DocumentsEmbedded(b)
       \/ \E r \in Requests : HeadCall = QueryCall(r) /\ QueryEmbedded(r)
    /\ UNCHANGED <<documents, profile, model, left>>

EmbedRetries ==
    /\ Busy /\ calls.tries < MaxRetries
    /\ calls' = [calls EXCEPT !.tries = @ + 1]
    /\ UNCHANGED <<documents, profile, model, active, builds, req, left>>

\* A call that fails ends its search, or its build and all that wait for it.
EmbedFails ==
    /\ Busy
    /\ Served
    /\ \/ \E b \in builds :
            /\ HeadCall = BuildCall(b.key)
            /\ builds' = builds \ {b}
            /\ req' = [r \in Requests |-> IF r \in Waiting(b) THEN Idle ELSE req[r]]
       \/ \E r \in Requests : HeadCall = QueryCall(r) /\ End(r) /\ UNCHANGED builds
    /\ UNCHANGED <<documents, profile, model, active, left>>

-----------------------------------------------------------------------------

\* A restart: claims are given back (migrate), memory is lost, and the embedding
\* model may be another one.
Crash ==
    /\ Failing
    /\ docs' = [d \in Docs |-> IF docs[d] = "importing" THEN "retained" ELSE docs[d]]
    /\ req' = [r \in Requests |-> Idle]
    /\ builds' = {} /\ calls' = [queue |-> <<>>, tries |-> 0]
    /\ model' \in Models
    /\ UNCHANGED <<current, files, profile, active>>

Step(r) ==
    \/ RetainReads(r) \/ RetainWrites(r) \/ Insert(r) \/ Discard(r)
    \/ Parse(r) \/ Read(r) \/ Pdf(r) \/ Complete(r)
    \/ TailorSaves(r) \/ Health(r) \/ Ask(r) \/ Decide(r)
Embedding == Embedded \/ EmbedFails

Next ==
    \/ \E r \in Requests :
         \/ \E d \in Docs, parses \in BOOLEAN : Upload(r, d, parses)
         \/ \E d \in Docs : ParseArrives(r, d)
         \/ \E p \in Paths : Resolve(r, p)
         \/ Tailor(r) \/ Step(r)
    \/ \E f \in Ids : Confirm(f) \/ Correct(f)
    \/ \E p \in Paths : Upsert(p) \/ Remove(p) \/ PutTaskAnswer(p)
    \/ Approve \/ Promote
    \/ Embedding \/ EmbedRetries
    \/ Crash

Spec == Init /\ [][Next]_vars

\* Every awaited call answers or fails; the worker's retries are counted.
FairSpec ==
    /\ Spec
    /\ \A r \in Requests : WF_vars(Step(r))
    /\ WF_vars(Embedding)
-----------------------------------------------------------------------------
(* Properties.                                                             *)

Statuses == {"none", "extracted", "superseded"} \cup Reviewed
TypeOK ==
    /\ docs \in [Docs -> {"absent", "retained", "importing", "completed", "failed"}]
    /\ current \in {d \in Docs : docs[d] # "absent"} \cup {None} /\ files \subseteq Docs
    /\ facts \in [Ids -> [path : Paths \cup {None}, status : Statuses, rev : Nat,
                          from : Docs \cup {None}]]
    /\ answers \subseteq Paths /\ revision \in Nat
    /\ review.status \in {"none", "needs_review", "approved", "promoted"}
    /\ model \in Models /\ active.model \in Models \cup {None}
    /\ \A b, c \in builds : b.key = c.key => b = c
    /\ calls.tries \in 0..MaxRetries /\ Len(calls.queue) <= Cardinality(Requests)
    /\ \A r \in Requests : req[r].pc \in
         {"idle", "retain", "write", "insert", "discard", "parse", "read", "pdf",
          "extract", "tailor", "health", "build", "ask", "query", "decide"}

\* A field has one reviewed fact at most, however confirmations, corrections and
\* promotions of facts from several documents follow one another.
OneReviewed == \A p \in Paths : Cardinality(ReviewedAt(p)) <= 1

\* A document is parsed by one request at a time, which holds its claim until it
\* ends, though the current document changes meanwhile and the claims of failed
\* ones are given back.
Importing(r) == req[r].pc \in {"read", "pdf", "extract"}
ClaimsAreExclusive ==
    /\ \A r \in Requests : Importing(r) => docs[req[r].doc] = "importing"
    /\ \A q, r \in Requests : Importing(q) /\ Importing(r) /\ req[q].doc = req[r].doc => q = r

\* The facts of a document are there once if its import is completed, and none
\* of them if it is not: an import that fails, loses its claim or crashes has
\* written nothing.
FactsOf(d) == {f \in Ids : facts[f].from = d}
FactsOfCompleted ==
    \A d \in Docs :
        /\ {facts[f].path : f \in FactsOf(d)} = IF docs[d] = "completed" THEN Content[d] ELSE {}
        /\ Cardinality(FactsOf(d)) <= Cardinality(Content[d])

\* Unless a write failed: every document has its original, and every claim a
\* request that will give it back.
Intact ==
    left.faults = MaxFaults => \A d \in Docs :
        /\ docs[d] # "absent" => d \in files
        /\ docs[d] = "importing" => \E r \in Requests : Importing(r) /\ req[r].doc = d

\* Types, and what holds of documents and facts between transactions.
Consistent == TypeOK /\ OneReviewed /\ ClaimsAreExclusive /\ FactsOfCompleted /\ Intact

\* What is written after an await is based on what still is: an import completes
\* only for the document that is current, a promotion overwrites the very
\* revision that its draft was written from, and an approved review keeps the
\* draft that was approved.  The profile's revision tells every change of what is
\* reviewed.
WritesAreCurrent ==
    [][/\ \A d \in Docs : docs[d] # "completed" /\ docs'[d] = "completed" => current = d
       /\ review.status # "promoted" /\ review'.status = "promoted" =>
            Snapshot[review.base[1]] = review.base[2] /\ review'.base = review.base
       /\ review.status \in {"approved", "promoted"} => review'.base = review.base
       /\ Snapshot' # Snapshot => revision' > revision]_vars

\* A search returns what it can stand for, up to the number of facts it is asked
\* for: every fact it returns is reviewed and as it is now, compared by vectors of
\* the model that embedded the query; and unless the answer is full, a fact that was
\* eligible when it began, and has not changed since, is in it, whoever built the
\* index.
SearchesAreExact ==
    [][\A r \in Requests : At(r, "query") /\ req'[r].pc = "decide" =>
         LET ids == {k[1] : k \in req'[r].found} IN
         /\ req[r].index.model = model
         /\ \A k \in req'[r].found : Snapshot[k[1]] = k[3] /\ req[r].index.vecs[k[1]] = k[3]
         /\ Cardinality(ids) <= req'[r].limit
         /\ \/ Cardinality(ids) = req'[r].limit
            \/ \A f \in Ids : req[r].start[f] # 0 /\ Snapshot[f] = req[r].start[f] => f \in ids]_vars

\* What is written and what is found agree with what is current.
UsesTheCurrent == WritesAreCurrent /\ SearchesAreExact

\* Every request is answered: a build or a call that fails lets go of all that
\* wait behind it.
RequestsEnd == \A r \in Requests : ~At(r, "idle") ~> At(r, "idle")

-----------------------------------------------------------------------------
(* What the documents promise and the code does not keep (see README.md).  *)

\* "A parse that fails marks the document failed", which can be parsed again.
FailedImportsCanBeRepeated ==
    \A d \in Docs : docs[d] = "importing" =>
        \E r \in Requests : Importing(r) /\ req[r].doc = d

\* What a resolved field offers is still a fact of the profile.
Conflicting(r) == \E k \in req[r].keyword, h \in req[r].found : k[1] = h[1] /\ k # h
OffersAreCurrent ==
    [][\A r \in Requests : At(r, "decide") /\ ~Conflicting(r) =>
         \A k \in req[r].keyword : facts[k[1]].status # "superseded"]_vars
=============================================================================
