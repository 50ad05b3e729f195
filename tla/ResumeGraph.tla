----------------------------- MODULE ResumeGraph -----------------------------
(***************************************************************************)
(* The ingestion of a resume as a thread of the main graph: the graph      *)
(* service of apps/api/src/agent, its checkpoints, and the subgraph        *)
(* resume-ingestion with the profile it writes to.                         *)
(*                                                                         *)
(* A document is read and a model proposes facts; those whose evidence the *)
(* document holds become candidates, and the user is asked about the ones  *)
(* that contradict the profile and about what is required and missing.     *)
(* Every request reads the last checkpoint, works on it and writes the     *)
(* next one; requests overlap, the user edits the profile meanwhile, and   *)
(* the process may die before the checkpoint is written.  The revision     *)
(* number of the profile is left out.                                      *)
(***************************************************************************)
EXTENDS Naturals, Sequences, FiniteSets, SequencesExt

CONSTANTS
    Calls,          \* requests that can be in progress at once
    Ids,            \* the facts there can be
    NewIds,         \* those of them that the profile itself gives out
    Paths,          \* the field paths; "unknown" is none of them
    Meaning,        \* path -> what it means: lookups see all paths of one meaning
    Values,
    Edits,          \* what the user may write into the profile: <<path, value>>
    Extractions,    \* what the model may propose, as sequences of candidates
    Required,       \* the paths that a profile must have
    None

VARIABLES
    facts,          \* profile_facts: id -> fact
    thread,         \* the last checkpoint of the thread
    calls           \* the requests in progress

vars == <<facts, thread, calls>>

Idle == [op |-> "none"]
Same(p, q) == Meaning[p] = Meaning[q]
Fact(path, value, status, sound) == [path |-> path, value |-> value, status |-> status, sound |-> sound]

Init ==
    /\ facts = [i \in Ids |-> None]
    /\ thread = None
    /\ calls = [c \in Calls |-> Idle]

-----------------------------------------------------------------------------
(* The profile: each operation is one transaction.                         *)

Is(f, i, statuses) == f[i] # None /\ f[i].status \in statuses
Reviewed(f, path) == {i \in Ids : Is(f, i, {"confirmed", "corrected"}) /\ Same(f[i].path, path)}
Extracted(f, i) == Is(f, i, {"extracted"})

\* The reviewed facts of the same meaning give way to the fact i.
Reviewing(f, i, fact) ==
    [j \in Ids |-> IF j = i THEN fact
                   ELSE IF j \in Reviewed(f, fact.path) THEN [f[j] EXCEPT !.status = "superseded"]
                   ELSE f[j]]
Confirmed(f, i) == Reviewing(f, i, [f[i] EXCEPT !.status = "confirmed"])
Corrected(f, i, v) == Reviewing(f, i, [f[i] EXCEPT !.status = "corrected", !.value = v])

\* upsertUserFact corrects the reviewed fact, or creates one.
Upserted(f, path, v) ==
    IF Reviewed(f, path) # {} THEN Corrected(f, CHOOSE i \in Reviewed(f, path) : TRUE, v)
    ELSE Reviewing(f, CHOOSE i \in NewIds : f[i] = None, Fact(path, v, "corrected", TRUE))
CanUpsert(f) == \E i \in NewIds : f[i] = None

UserWrites(path, v) ==
    /\ Reviewed(facts, path) # {} \/ CanUpsert(facts)
    /\ facts' = Upserted(facts, path, v) /\ facts' # facts
    /\ UNCHANGED <<thread, calls>>

UserConfirms(i) ==
    /\ Extracted(facts, i)
    /\ facts' = Confirmed(facts, i)
    /\ UNCHANGED <<thread, calls>>

UserRemoves(path) ==
    /\ facts' = [i \in Ids |-> IF facts[i] # None /\ Same(facts[i].path, path)
                               THEN [facts[i] EXCEPT !.status = "superseded"] ELSE facts[i]]
    /\ facts' # facts
    /\ UNCHANGED <<thread, calls>>

-----------------------------------------------------------------------------
(* Candidates.                                                             *)

\* hasValidEvidence: every passage is on the page it names, of this document.
Sound(x) == x.path \in Paths /\ x.sound

\* validateCandidates, in order: neither an id nor a path twice, but for the same
\* value of the path.  What fails is remembered by its path.
Checked(extraction) ==
    FoldLeft(LAMBDA got, x :
        IF Sound(x) /\ \A k \in DOMAIN got.valid :
               got.valid[k].id # x.id /\ (got.valid[k].path = x.path => got.valid[k].value = x.value)
        THEN [got EXCEPT !.valid = Append(@, x)]
        ELSE [got EXCEPT !.invalid = @ \cup {x.path}],
        [valid |-> <<>>, invalid |-> {}], extraction)

\* persistCandidates: one by one.  A fact that is there already must be the same
\* candidate; else those before it have been stored.
Persisted(valid) ==
    FoldLeft(LAMBDA got, x :
        IF got.error THEN got
        ELSE IF got.facts[x.id] = None
        THEN [got EXCEPT !.facts[x.id] = Fact(x.path, x.value, "extracted", x.sound)]
        ELSE [got EXCEPT !.error = got.facts[x.id] # Fact(x.path, x.value, "extracted", x.sound)],
        [facts |-> facts, error |-> FALSE], valid)

-----------------------------------------------------------------------------
(* Completeness.                                                           *)

FactQuestion(i) == <<"fact", i>>
FieldQuestion(path) == <<"field", path>>

\* The hash of an interrupt's content is its id: asking the same again is the same
\* interrupt.
Interrupt(reason, questions) == [reason |-> reason, questions |-> questions]
Ingestion(candidates, accepted) == [candidates |-> candidates, accepted |-> accepted]
Result(status, pending, ingestion) ==
    [status |-> status, pending |-> pending, ingestion |-> ingestion]
FailedWith(ingestion) == Result("failed", None, ingestion)

\* findCandidateConflicts: the profile says something else.
Conflicts(f, candidates) ==
    {i \in ToSet(candidates) :
        Extracted(f, i) /\ \E j \in Reviewed(f, f[i].path) : f[j].value # f[i].value}

\* A missing path is asked for by its first candidate, if it has one.
MissingQuestion(f, candidates, path) ==
    LET fitting == {k \in DOMAIN candidates :
                       Extracted(f, candidates[k]) /\ Same(f[candidates[k]].path, path)}
    IN  IF fitting = {} THEN FieldQuestion(path)
        ELSE FactQuestion(candidates[CHOOSE k \in fitting : \A l \in fitting : k <= l])
Missing(f, candidates) ==
    {MissingQuestion(f, candidates, path) : path \in {p \in Required : Reviewed(f, p) = {}}}

\* evaluateCompleteness.
Evaluated(f, ingestion) ==
    LET conflicts == Conflicts(f, ingestion.candidates)
        missing == Missing(f, ingestion.candidates)
    IN  IF conflicts # {}
        THEN Result("interrupted", Interrupt("conflict", {FactQuestion(i) : i \in conflicts}), ingestion)
        ELSE IF missing # {} THEN Result("interrupted", Interrupt("missing", missing), ingestion)
        ELSE Result("completed", None, ingestion)

-----------------------------------------------------------------------------
(* Answers.                                                                *)

AskedFacts(pending) == {q[2] : q \in {q \in pending.questions : q[1] = "fact"}}

\* confirmCandidates, one by one: the first that is no candidate still to be confirmed
\* ends it, and those before it stay confirmed.
ConfirmAll(ids, ingestion, pending) ==
    FoldLeft(LAMBDA got, i :
        IF got.error THEN got
        ELSE IF i \in ToSet(ingestion.candidates) /\ Extracted(got.facts, i)
        THEN [got EXCEPT !.facts = Confirmed(@, i), !.accepted = @ \cup {i}]
        ELSE [got EXCEPT !.error = TRUE],
        [facts |-> facts, accepted |-> {}, error |-> ~ (ToSet(ids) \subseteq AskedFacts(pending))], ids)

\* correctQuestions: a value for every question, or none is taken.  A fact that is
\* gone ends it half-way; no one can answer for an unknown path.
CorrectAll(values, pending) ==
    FoldLeft(LAMBDA got, q :
        IF got.error THEN got
        ELSE IF q[1] = "field"
        THEN [got EXCEPT !.facts = Upserted(@, q[2], values[q])]
        ELSE IF Is(got.facts, q[2], {"extracted", "confirmed", "corrected"})
        THEN [got EXCEPT !.facts = Corrected(@, q[2], values[q]), !.accepted = @ \cup {q[2]}]
        ELSE [got EXCEPT !.error = TRUE],
        [facts |-> facts, accepted |-> {},
         error |-> \E q \in pending.questions : q \notin DOMAIN values \/ q = FieldQuestion("unknown")],
        SetToSeq(pending.questions))

\* The answer is for the interrupt that is pending now.
Matches_Any(answer, pending) == TRUE
Matches(answer, pending) == answer.interrupt = pending

\* resumeIngestion, without an await: what becomes of the facts, and the result.
Applied(answer, base) ==
    LET refused == [facts |-> facts, accepted |-> {}, error |-> TRUE]
        got == IF answer.action = "confirm" THEN ConfirmAll(answer.ids, base.ingestion, base.pending)
               ELSE IF answer.action = "correct" THEN CorrectAll(answer.values, base.pending)
               ELSE refused
        next == [base.ingestion EXCEPT !.accepted = @ \cup got.accepted]
    IN  IF ~ Matches(answer, base.pending)
        THEN [facts |-> facts, result |-> FailedWith(base.ingestion)]
        ELSE IF answer.action = "cancel"
        THEN [facts |-> facts, result |-> Result("cancelled", None, base.ingestion)]
        ELSE [facts |-> got.facts,
              result |-> IF got.error THEN FailedWith(base.ingestion) ELSE Evaluated(got.facts, next)]

-----------------------------------------------------------------------------
(* The graph service.                                                      *)

Begin(c, call) == calls[c] = Idle /\ calls' = [calls EXCEPT ![c] = call]

\* start: the input is a checkpoint of its own.
Start(c) ==
    /\ thread = None
    /\ thread' = Result("running", None, None)
    /\ Begin(c, [op |-> "work", base |-> thread'])
    /\ UNCHANGED facts

\* run and resume read the state and refuse what it does not allow; so does cancel.
Run(c) ==
    /\ thread # None /\ thread.status = "running"
    /\ Begin(c, [op |-> "run"])
    /\ UNCHANGED <<facts, thread>>

Resume(c, answer) ==
    /\ thread # None /\ thread.status = "interrupted" /\ thread.pending = answer.interrupt
    /\ Begin(c, [op |-> "resume", answer |-> answer])
    /\ UNCHANGED <<facts, thread>>

\* updateState as the node that waits for the user.
Cancelled(base) == [base EXCEPT !.status = "cancelled", !.pending = None]
Cancel(c) ==
    /\ thread # None
    /\ Begin(c, [op |-> "save", next |-> Cancelled(thread)])
    /\ UNCHANGED <<facts, thread>>

\* The graph reads the checkpoint again.  A run starts over from it, whatever has
\* become of it.
Rerun(c) ==
    /\ calls[c].op = "run"
    /\ calls' = [calls EXCEPT ![c] = [op |-> "work", base |-> thread]]
    /\ UNCHANGED <<facts, thread>>

\* A resume goes to the interrupt that is pending, and to none otherwise.
Apply(c) ==
    /\ calls[c].op = "resume" /\ thread.status = "interrupted"
    /\ calls[c].answer.action = "correct" => CanUpsert(facts)
    /\ LET applied == Applied(calls[c].answer, thread)
       IN  /\ facts' = applied.facts
           /\ calls' = [calls EXCEPT ![c] = [op |-> "save", next |-> applied.result]]
    /\ UNCHANGED thread

NothingToResume(c) ==
    /\ calls[c].op = "resume" /\ thread.status # "interrupted"
    /\ calls' = [calls EXCEPT ![c] = Idle]
    /\ UNCHANGED <<facts, thread>>

\* The subgraph without an answer.  A thread that has candidates is evaluated again.
Reevaluate(c) ==
    /\ calls[c].op = "work" /\ calls[c].base.ingestion # None
    /\ calls' = [calls EXCEPT ![c] = [op |-> "save", next |-> Evaluated(facts, @.base.ingestion)]]
    /\ UNCHANGED <<facts, thread>>

\* ingestDocument fails before it has candidates: the document, its hash, its pages
\* or the model.
FailDocument(c) ==
    /\ calls[c].op = "work" /\ calls[c].base.ingestion = None
    /\ calls' = [calls EXCEPT ![c] = [op |-> "save", next |-> FailedWith(None)]]
    /\ UNCHANGED <<facts, thread>>

\* ... or has read the document.  A single invalid candidate stops it: the paths are
\* asked for, and no candidate is stored.
Ingest(c, extraction) ==
    /\ calls[c].op = "work" /\ calls[c].base.ingestion = None
    /\ LET checked == Checked(extraction)
           ids == [k \in DOMAIN checked.valid |-> checked.valid[k].id]
           ingestion == Ingestion(ids, {})
           got == Persisted(checked.valid)
           asked == {FieldQuestion(path) : path \in checked.invalid}
       IN  \/ /\ checked.invalid # {}
              /\ calls' = [calls EXCEPT ![c] = [op |-> "save",
                     next |-> Result("interrupted", Interrupt("evidence", asked), ingestion)]]
              /\ UNCHANGED facts
           \/ /\ checked.invalid = {}
              /\ facts' = got.facts
              /\ calls' = [calls EXCEPT ![c] = [op |-> "save",
                     next |-> IF got.error THEN FailedWith(ingestion) ELSE Evaluated(facts', ingestion)]]
    /\ UNCHANGED thread

\* The checkpoint is written over whatever was saved meanwhile.
Save(c) ==
    /\ calls[c].op = "save"
    /\ thread' = calls[c].next
    /\ calls' = [calls EXCEPT ![c] = Idle]
    /\ UNCHANGED facts

\* The process dies; profile and checkpoint stay.
Die ==
    /\ calls' = [c \in Calls |-> Idle]
    /\ UNCHANGED <<facts, thread>>

\* What a client may answer: confirmations name facts in some order, corrections give
\* values for some questions.
Orders(S) == {s \in UNION {[1..n -> S] : n \in 1..Cardinality(S)} : IsInjective(s)}
Answer(interrupt, action, ids, values) ==
    [interrupt |-> interrupt, action |-> action, ids |-> ids, values |-> values]
Answers(interrupt) ==
    {Answer(interrupt, "confirm", ids, <<>>) : ids \in Orders({i \in Ids : facts[i] # None})}
    \cup UNION {{Answer(interrupt, "correct", <<>>, values) : values \in [S -> Values]} :
                   S \in {interrupt.questions, {}}}
    \cup {Answer(interrupt, action, <<>>, <<>>) : action \in {"approve", "cancel"}}

Next ==
    \/ \E c \in Calls : Start(c) \/ Run(c) \/ Cancel(c) \/ Rerun(c) \/ Apply(c) \/ NothingToResume(c)
                        \/ Reevaluate(c) \/ FailDocument(c) \/ Save(c)
    \/ \E c \in Calls, extraction \in Extractions : Ingest(c, extraction)
    \/ thread # None /\ thread.pending # None
       /\ \E c \in Calls, answer \in Answers(thread.pending) : Resume(c, answer)
    \/ \E edit \in Edits : UserWrites(edit[1], edit[2])
    \/ \E i \in Ids : UserConfirms(i)
    \/ \E path \in Paths : UserRemoves(path)
    \/ Die

Spec == Init /\ [][Next]_vars

-----------------------------------------------------------------------------
\* Properties.

TypeOK ==
    /\ \A i \in Ids : facts[i] # None =>
           /\ facts[i].path \in Paths /\ facts[i].value \in Values
           /\ facts[i].status \in {"extracted", "confirmed", "corrected", "superseded"}
    /\ thread # None => (thread.status = "interrupted" <=> thread.pending # None)

\* Nothing of a document is in the profile that the document does not say, and of one
\* meaning the profile has one reviewed fact, whoever reviewed it; the user is
\* only asked about facts that are there.
ProfileIsGrounded ==
    /\ \A i \in Ids : facts[i] # None => facts[i].sound
    /\ \A path \in Paths : Cardinality(Reviewed(facts, path)) <= 1
    /\ thread # None /\ thread.pending # None => \A i \in AskedFacts(thread.pending) : facts[i] # None

IngestionConsistent == TypeOK /\ ProfileIsGrounded

\* Ingestion adds facts nobody has reviewed.  It reviews or replaces one only on the
\* user's answer to a question about that very fact or meaning, even when two
\* answers overlap and the interrupt has changed in between.
ReviewsTheAsked ==
    calls' # calls => \A i \in Ids : facts'[i] # facts[i] =>
        \/ facts[i] = None /\ facts'[i].status = "extracted"
        \/ \E c \in Calls : calls[c].op = "resume" /\ calls'[c] # calls[c]
              /\ LET asked == calls[c].answer.interrupt.questions
                 IN  \/ facts'[i].status = "confirmed" /\ FactQuestion(i) \in asked
                        /\ i \in ToSet(calls[c].answer.ids)
                     \/ facts'[i].status = "corrected"
                        /\ (FactQuestion(i) \in asked
                            \/ \E p \in Paths : FieldQuestion(p) \in asked /\ Same(p, facts'[i].path))
                     \/ facts'[i].status = "superseded"
                        /\ \E j \in Ids : facts'[j] # facts[j] /\ j \in Reviewed(facts', facts[i].path)
AnswersAreAsked == [][ReviewsTheAsked]_vars
=============================================================================
