-------------------------- MODULE DatabaseMigration --------------------------
(***************************************************************************)
(* migrateDatabase: the statements that bring the database of any former   *)
(* release to the present schema when the API starts, some of them in a    *)
(* transaction and the others committed one by one, with the death of the  *)
(* process between any two; and what the running API relies on of it, the  *)
(* life of a document and the removal of a task.                           *)
(*                                                                         *)
(* Of a table the model keeps the features in which former releases        *)
(* differ, and of its rows their keys: row i of a table refers to row i of *)
(* the tables that it references.  Columns that never changed, indexes and *)
(* checks of single values are left out.                                   *)
(***************************************************************************)
EXTENDS Naturals, Sequences, FiniteSets, SequencesExt, FiniteSetsExt

CONSTANTS
    Ids,            \* keys of the rows; documents are numbered by age
    Converted,      \* tasks that a job session refers to
    None

VARIABLES
    phase,          \* of the process: down, migrating, up, or it refused to start
    step,           \* the statement that is next
    shape,          \* table -> its features; the domain is the tables there are
    rows,           \* table -> keys of its rows
    stale,          \* <<table, key>> of the rows with a content of a former release
    status,         \* document -> import_status
    current,        \* documents with is_current = 1
    cleanup,        \* whether the trigger that cleans up after a task is there
    guards          \* tables whose triggers on scope and task are there

vars == <<phase, step, shape, rows, stale, status, current, cleanup, guards>>

-----------------------------------------------------------------------------
(* The present schema.                                                     *)

ProfileTables == <<"documents", "document_chunks", "profile_facts", "fact_revisions", "application_answers">>
TaskTables == <<"application_tasks", "agent_application_reviews", "profile_metadata">>
JobTables ==
    <<"job_match_sessions", "job_match_expectation_snapshots", "job_postings", "job_match_results",
      "job_extraction_cursors", "job_match_events">>
EventTables == <<"application_task_events", "application_task_event_cursors", "self_evaluation_reviews">>
AdapterTables ==
    <<"ats_adapter_proposals", "ats_adapter_replay_reports", "ats_adapter_ai_reviews",
      "ats_adapter_human_reviews", "ats_adapter_certified_packs", "ats_adapter_pack_retirements",
      "ats_adapter_debug_responses", "ats_adapter_debug_accesses">>
CheckpointTables == <<"application_checkpoints">>
EmbeddingTables == <<"embeddings", "embedding_indexes", "fact_embeddings">>
AgentTables ==
    <<"agent_trace_events", "agent_events", "agent_runtime_request_contexts", "agent_evidence_records",
      "langsmith_trace_outbox", "agent_checkpoints", "agent_checkpoint_writes",
      "agent_runtime_application_states">>
ConversationTables ==
    <<"conversation_sessions", "conversation_job_match_sessions", "conversation_messages",
      "conversation_contexts", "conversation_turns", "conversation_confirmations",
      "conversation_process_events", "conversation_process_event_cursors">>
SkillTables ==
    {"skill_versions", "skill_page_bindings", "skill_traffic_allocations", "skill_execution_records",
     "skill_evaluations", "skill_evolution_runs", "skill_replay_samples", "skill_replay_run_samples"}

\* Columns that ALTER TABLE adds, in its order.
TaskColumns ==
    <<"name", "profile_revision_applied", "profile_sync_status", "profile_sync_error", "orchestrator">>
CheckpointColumns == <<"snapshot_json", "content_review_json", "field_coverage_json", "adapter_review_json">>
DocumentColumns == <<"source_path", "import_status">>

Pauses == {"'awaiting_challenge'", "'awaiting_adapter_review'"}
Columns(t) ==
    CASE t = "application_tasks" -> ToSet(TaskColumns)
      [] t = "application_checkpoints" -> ToSet(CheckpointColumns)
      [] t = "documents" -> ToSet(DocumentColumns)
      [] t = "agent_checkpoints" -> {"metadata_type"}
      [] t = "conversation_process_events" -> {"turn_sequence"}
      [] OTHER -> {}

\* What else a table has by now: constraints, or a column that no ALTER TABLE adds.
Constraints(t) ==
    CASE t = "application_tasks" -> {"orchestrator = 'agent-runtime'"}
      [] t \in {"application_checkpoints", "application_task_events"} -> Pauses
      [] t = "documents" -> {"'failed'", "is_current"}
      [] t \in {"fact_revisions", "fact_embeddings"} -> {"cascade"}
      [] t \in {"job_match_sessions", "job_postings"} -> {"'baidu'"}
      [] OTHER -> {}
Features(t) == Columns(t) \cup Constraints(t)

Tables == DOMAIN shape
Has(t, f) == t \in Tables /\ f \in shape[t]

\* Foreign keys, <<from, to>>: a row goes with the one it refers to, or forbids its
\* removal.
Cascading ==
    {<<"agent_application_reviews", "application_tasks">>, <<"job_postings", "job_match_sessions">>,
     <<"job_match_results", "job_postings">>, <<"conversation_job_match_sessions", "job_match_sessions">>}
    \cup {<<t, "profile_facts">> : t \in {u \in {"fact_revisions", "fact_embeddings"} : Has(u, "cascade")}}
Forbidding ==
    {<<"document_chunks", "documents">>, <<"job_match_sessions", "application_tasks">>}
    \cup {<<t, "profile_facts">> : t \in {u \in {"fact_revisions", "fact_embeddings"} : ~ Has(u, "cascade")}}

\* The rows that go when those of keys K in tables ts do, two references deep, and those
\* that forbid it.
Taken(ts, K) ==
    LET children(S) == {r[1] : r \in {r \in Cascading : r[2] \in S}}
        gone == ts \cup children(ts) \cup children(children(ts))
    IN  [t \in Tables |-> IF t \in gone THEN rows[t] \ K ELSE rows[t]]
Forbidden(ts, K) ==
    \E r \in Forbidding : /\ r[2] \in ts /\ r[1] \in Tables \ ts
                          /\ rows[r[1]] \cap K \cap (IF r[2] = "application_tasks" THEN Converted ELSE Ids) # {}

-----------------------------------------------------------------------------
(* The statements, in their order.                                         *)

Create(tables) == [i \in DOMAIN tables |-> <<"create", tables[i]>>]
Add(t, columns) == [i \in DOMAIN columns |-> <<"add", t, columns[i]>>]

OwnTasks == <<"rebuild", {"application_tasks"}>>
AllowPauses == <<"rebuild", {"application_task_events", "application_checkpoints"}>>
CascadeFacts == << <<"rebuild", {"fact_revisions"}>>, <<"rebuild", {"fact_embeddings"}>> >>
AllowSources == <<"rebuild", {"job_match_sessions", "job_postings"}>>
DocumentLifecycle == <<"rebuild", {"documents"}>>

Script ==
    << <<"drop", "conversation_process_event_cursors">>, <<"drop", "conversation_process_events">> >>
    \o Create(ProfileTables \o TaskTables \o JobTables \o EventTables \o AdapterTables \o CheckpointTables)
    \o << <<"drop cleanup">>, <<"create cleanup">> >>
    \o Create(EmbeddingTables \o AgentTables \o ConversationTables)
    \o << <<"titles">> >>
    \o Add("agent_checkpoints", <<"metadata_type">>) \o Add("application_tasks", TaskColumns)
    \o <<OwnTasks>> \o Add("application_checkpoints", CheckpointColumns)
    \o <<AllowPauses>> \o CascadeFacts \o <<AllowSources>>
    \o Add("documents", DocumentColumns)
    \o <<DocumentLifecycle, <<"choose">>, <<"release">>, <<"guard", "profile_facts">>,
          <<"guard", "fact_revisions">>, <<"skills">> >>

At(kind) == phase = "migrating" /\ Script[step][1] = kind
Done == step' = step + 1 /\ phase' = IF step = Len(Script) THEN "up" ELSE phase
Statement(kind) == At(kind) /\ Done
On == Script[step][2]

\* Process events of a release that did not tell whose they are.
DropUnowned ==
    /\ Statement("drop")
    /\ LET unowned == "conversation_process_events" \in Tables
                      /\ ~ Has("conversation_process_events", "turn_sequence")
           left == Tables \ (IF unowned THEN {On} ELSE {})
       IN  /\ shape' = [t \in left |-> shape[t]]
           /\ rows' = [t \in left |-> rows[t]]
    /\ UNCHANGED <<stale, status, current, cleanup, guards>>

Created(ts) ==
    /\ shape' = [t \in Tables \cup ts |-> IF t \in Tables THEN shape[t] ELSE Features(t)]
    /\ rows' = [t \in Tables \cup ts |-> IF t \in Tables THEN rows[t] ELSE {}]

CreateTable ==
    /\ Statement("create") /\ Created({On})
    /\ UNCHANGED <<stale, status, current, cleanup, guards>>

ReplaceCleanup ==
    /\ \/ Statement("drop cleanup") /\ cleanup' = FALSE
       \/ Statement("create cleanup") /\ cleanup' = TRUE
    /\ UNCHANGED <<shape, rows, stale, status, current, guards>>

\* backfillConversationTitles
Of(t) == {<<t, i>> : i \in Ids}
BackfillTitles ==
    /\ Statement("titles") /\ stale' = stale \ Of("conversation_sessions")
    /\ UNCHANGED <<shape, rows, status, current, cleanup, guards>>

\* A document of a release that knew no import is taken for completed; the column for
\* the orchestrator brings its constraint.
AddColumn ==
    /\ Statement("add")
    /\ shape' = [shape EXCEPT ![On] =
           IF Script[step][3] = "orchestrator" /\ "orchestrator" \notin @ THEN @ \cup Features(On)
           ELSE @ \cup {Script[step][3]}]
    /\ status' = IF Script[step][3] = "import_status" /\ ~ Has("documents", "import_status")
                 THEN [i \in Ids |-> IF i \in rows["documents"] THEN "completed" ELSE status[i]]
                 ELSE status
    /\ UNCHANGED <<rows, stale, current, cleanup, guards>>

\* Whether a table has to be written anew.
Lacks(t) == ~ (Constraints(t) \subseteq shape[t])

Suspended == {{"application_tasks"}, {"job_match_sessions", "job_postings"}, {"documents"}}

\* A transaction: the rows are copied, the old tables are dropped, with what the foreign
\* keys say when they are enforced, and the copies take their names.  A column that
\* is not there, or a row that forbids the drop, undoes it and ends the start.
Rebuild ==
    /\ At("rebuild")
    /\ LET lacking == {t \in On : Lacks(t)}
           kept == IF On \in Suspended THEN rows ELSE Taken(lacking, Ids)
           fails == \/ \E t \in lacking : ~ (Columns(t) \subseteq shape[t])
                    \/ On \notin Suspended /\ Forbidden(lacking, Ids)
           imports == {i \in Ids : "documents" \in lacking /\ status[i] = "importing"}
       IN  IF fails
           THEN phase' = "refused" /\ UNCHANGED <<step, shape, rows, stale, status, cleanup, guards>>
           ELSE /\ Done
                /\ shape' = [t \in Tables |-> IF t \in lacking THEN Features(t) ELSE shape[t]]
                /\ rows' = [t \in Tables |-> IF t \in lacking THEN rows[t] ELSE kept[t]]
                /\ stale' = stale \ UNION {Of(t) : t \in lacking}
                /\ status' = [i \in Ids |-> IF i \in imports THEN "retained" ELSE status[i]]
                /\ guards' = guards \ lacking
                /\ cleanup' = TRUE
    /\ UNCHANGED current

Completed == {d \in rows["documents"] : status[d] = "completed"}
ChooseCurrent ==
    /\ Statement("choose")
    /\ current' = IF current = {} /\ Completed # {} THEN {Max(Completed)} ELSE current
    /\ UNCHANGED <<shape, rows, stale, status, cleanup, guards>>

\* An import that the former process did not end.
ReleaseImports ==
    /\ Statement("release")
    /\ status' = [d \in Ids |-> IF status[d] = "importing" THEN "retained" ELSE status[d]]
    /\ UNCHANGED <<shape, rows, stale, current, cleanup, guards>>

GuardScope ==
    /\ Statement("guard") /\ guards' = guards \cup {On}
    /\ UNCHANGED <<shape, rows, stale, status, current, cleanup>>

\* migrateApplicationSkillSchema, one transaction.
CreateSkills ==
    /\ Statement("skills") /\ Created(SkillTables)
    /\ UNCHANGED <<stale, status, current, cleanup, guards>>

-----------------------------------------------------------------------------
(* The process.                                                            *)

Start ==
    /\ phase \in {"down", "refused"} /\ phase' = "migrating" /\ step' = 1
    /\ UNCHANGED <<shape, rows, stale, status, current, cleanup, guards>>

Die ==
    /\ phase \in {"migrating", "up"} /\ phase' = "down"
    /\ UNCHANGED <<step, shape, rows, stale, status, current, cleanup, guards>>

-----------------------------------------------------------------------------
(* The document repository.                                                *)

Running == phase = "up" /\ UNCHANGED <<phase, step, shape, stale, cleanup, guards>>

CreateRetained(d) ==
    /\ Running /\ d \notin rows["documents"]
    /\ rows' = [rows EXCEPT !["documents"] = @ \cup {d}]
    /\ status' = [status EXCEPT ![d] = "retained"] /\ UNCHANGED current
SetCurrent(d) ==
    /\ Running /\ d \in rows["documents"]
    /\ current' = {d} /\ UNCHANGED <<rows, status>>
Becomes(d, from, to) ==
    /\ Running /\ status[d] \in from
    /\ status' = [status EXCEPT ![d] = to] /\ UNCHANGED <<rows, current>>
ClaimImport(d) == d \in current /\ Becomes(d, {"retained", "failed"}, "importing")
CompleteImport(d) == d \in current /\ Becomes(d, {"importing"}, "completed")
MarkFailed(d) == Becomes(d, {"importing"}, "failed")
ReleaseImport(d) == Becomes(d, {"importing"}, "retained")

-----------------------------------------------------------------------------
(* Tasks.                                                                  *)

\* The trace of the runs and the adapter proposals name the task too; nothing removes
\* them with it.
TaskRecords == {"agent_trace_events", "ats_adapter_proposals"}

\* Tables whose rows say which task they are of, or hang on one that does.
TaskData ==
    {"application_task_events", "application_task_event_cursors", "application_checkpoints",
     "application_answers", "self_evaluation_reviews", "agent_application_reviews", "profile_facts",
     "fact_revisions", "fact_embeddings", "agent_runtime_application_states"} \cup TaskRecords

\* What application_tasks_cleanup deletes; foreign keys take the rest.
CleanedUp ==
    {"application_task_events", "application_task_event_cursors", "application_checkpoints",
     "application_answers", "self_evaluation_reviews", "agent_application_reviews", "profile_facts",
     "agent_runtime_application_states"}

\* A task comes with everything that may be stored about it.
CreateTask(i) ==
    /\ Running /\ i \notin rows["application_tasks"]
    /\ rows' = [t \in Tables |-> IF t \in TaskData \cup {"application_tasks"} THEN rows[t] \cup {i} ELSE rows[t]]
    /\ UNCHANGED <<status, current>>

\* The trigger runs in the statement, which a row that refers to the task undoes.
RemoveTask(i) ==
    LET ts == {"application_tasks"} \cup (IF cleanup THEN CleanedUp ELSE {})
    IN  /\ Running /\ i \in rows["application_tasks"] /\ ~ Forbidden(ts, {i})
        /\ rows' = Taken(ts, {i})
        /\ UNCHANGED <<status, current>>

-----------------------------------------------------------------------------
(* The databases there may be: an empty one, those of this release, and    *)
(* those in which some tables are as a former release made them.           *)

Present == {"application_tasks"} \cup SkillTables
           \cup {Script[i][2] : i \in {j \in DOMAIN Script : Script[j][1] = "create"}}

Changed == {t \in Present : Features(t) # {}}
Formerly(t) ==
    {{}} \cup {Columns(t) \cup c : c \in {{}, Constraints(t)} \cup {{x} : x \in Constraints(t)}}
Referred ==
    TaskData \cup {"documents", "document_chunks", "application_tasks", "job_match_sessions",
                  "job_postings", "job_match_results", "conversation_process_events",
                  "conversation_process_event_cursors"}

\* Tables as former has them, the others as they are now, and those in absent not there;
\* the second of the documents is current and being imported.
History(former, absent) ==
    LET there == Present \ absent
        features(t) == IF t \in DOMAIN former THEN former[t] ELSE Features(t)
        documents(f) == "documents" \in there /\ f \in features("documents")
    IN  [shape |-> [t \in there |-> features(t)],
         rows |-> [t \in there |-> IF t \in Referred THEN Ids ELSE {}],
         stale |-> {<<t, 1>> : t \in {u \in {"conversation_sessions", "application_tasks"} \cap there :
                        u = "application_tasks" => "orchestrator" \in features(u) /\ features(u) # Features(u)}},
         status |-> [d \in Ids |-> IF ~ documents("import_status") THEN None
                                   ELSE IF d = 2 THEN "importing" ELSE "completed"],
         current |-> IF documents("is_current") THEN {2} ELSE {}]
Histories ==
    {History(<<>>, absent) : absent \in {{}, SkillTables, ToSet(ConversationTables) \cup SkillTables, Present}}
    \cup {History([t \in Changed |-> {}], SkillTables), History([t \in Changed |-> Columns(t)], {})}
    \cup {History([u \in {c[1], d[1]} |-> IF u = c[1] THEN c[2] ELSE d[2]], {}) :
             c, d \in UNION {{<<t, f>> : f \in Formerly(t)} : t \in Changed}}

Init ==
    \E h \in Histories :
        /\ phase = "down" /\ step = 1 /\ shape = h.shape /\ rows = h.rows /\ stale = h.stale
        /\ status = h.status /\ current = h.current
        /\ cleanup = ("application_tasks" \in DOMAIN h.shape)
        /\ guards = {"profile_facts", "fact_revisions"} \cap DOMAIN h.shape

Next ==
    \/ DropUnowned \/ CreateTable \/ ReplaceCleanup \/ BackfillTitles \/ AddColumn \/ Rebuild
    \/ ChooseCurrent \/ ReleaseImports \/ GuardScope \/ CreateSkills \/ Start \/ Die
    \/ \E i \in Ids : \/ CreateRetained(i) \/ SetCurrent(i) \/ ClaimImport(i) \/ CompleteImport(i)
                      \/ MarkFailed(i) \/ ReleaseImport(i) \/ CreateTask(i) \/ RemoveTask(i)

Spec == Init /\ [][Next]_vars

-----------------------------------------------------------------------------
\* Properties.

\* Whatever the former release was and wherever earlier starts have died, no start is
\* refused, and the API runs on the whole of the present schema: nothing is left of
\* the former content, its triggers are there, and one document is current, if there
\* is one that could be.
Migrated ==
    /\ phase # "refused"
    /\ phase = "up" =>
           /\ \A t \in Present : t \in Tables /\ Features(t) \subseteq shape[t]
           /\ stale = {} /\ cleanup /\ guards = {"profile_facts", "fact_revisions"}
           /\ Cardinality(current) <= 1 /\ (Completed # {} => current # {})

\* No row refers to one that is gone.
ReferencesHold ==
    \A r \in Cascading \cup Forbidding : r[1] \in Tables /\ r[2] \in Tables =>
        rows[r[1]] \cap (IF r[2] = "application_tasks" /\ r[1] = "job_match_sessions" THEN Converted ELSE Ids)
            \subseteq rows[r[2]]

SchemaConsistent == Migrated /\ ReferencesHold

\* A start loses no row but those of process events that do not tell whose they are,
\* forgets no completed import, and leaves the user's choice of a document alone; and
\* on every schema a start has arrived at, the trigger and the foreign keys together
\* leave nothing of a removed task but its trace and its adapter proposals.
LosesNothing ==
    /\ phase = "migrating" =>
           /\ \A t \in Tables : \/ t \in DOMAIN shape' /\ rows'[t] = rows[t]
                                \/ /\ t \in {"conversation_process_events", "conversation_process_event_cursors"}
                                   /\ ~ Has("conversation_process_events", "turn_sequence")
           /\ \A d \in Ids : status[d] = "completed" => status'[d] = "completed"
           /\ current # {} => current' = current
    /\ phase = "up" =>
           \A i \in rows["application_tasks"] \ rows'["application_tasks"] :
               \A t \in TaskData \ TaskRecords : i \notin rows'[t]

\* Not checked, since it does not hold: nothing that names a task outlives its removal.
NothingOutlivesItsTask ==
    [][phase = "up" =>
           \A i \in rows["application_tasks"] \ rows'["application_tasks"] :
               \A t \in TaskData : i \notin rows'[t]]_vars
=============================================================================
