---------------------------- MODULE Conversation ----------------------------
(***************************************************************************)
(* One conversation: apps/api/src/conversations.  The service serialises   *)
(* turns with a promise chain, the graph asks for confirmations and acts   *)
(* on them, the repository appends a turn when neither its messages nor    *)
(* its context have moved.  The job-match actions of the same conversation *)
(* have a lock of their own, and deletion has none, so both run between    *)
(* the awaits of a turn.  A step is the code between two awaits.           *)
(*                                                                         *)
(* Conversations share nothing (rows, locks and task identities are keyed  *)
(* by conversation), so one is modelled.  What a message says is abstracted *)
(* to what the graph tells apart once the model has classified it.         *)
(***************************************************************************)
EXTENDS Naturals, Sequences, FiniteSets

CONSTANTS
  Requests,   \* HTTP requests that can be in flight at once
  Confs,      \* confirmation ids that randomUUID can draw
  Sites,      \* recruitment sites
  Keys,       \* idempotency keys that clients send
  None,
  MaxTurns,   \* bound on stored turns and requests in flight
  MaxVersion, \* bound on changes of the job-match session
  MaxCrashes  \* bound on restarts of the process

ASSUME ConstantsAssumption ==
  /\ None \notin Requests \cup Confs \cup Sites \cup Keys
  /\ IsFiniteSet(Confs) /\ IsFiniteSet(Requests)
  /\ MaxTurns \in Nat
  /\ MaxVersion \in Nat
  /\ MaxCrashes \in Nat

VARIABLES
  exists,     \* the conversation's row is there
  turns,      \* conversation_turns with the sequence of their user message
  context,    \* conversation_contexts
  conf,       \* conversation_confirmations, kept as history after a deletion
  lock,       \* the service's chain of promises: waiting requests in order
  actions,    \* the same chain in the job-match action service
  req,        \* the requests in flight and what they captured
  effects,    \* how often a confirmation created a task or a session
  sessions,   \* job-match sessions created for a confirmation: <<conf, site>>
  linked,     \* the conversation owns a job-match session
  aggregate,  \* the version of the session that the actions name
  told,       \* answers given: <<request id, stored answer, session's version>>
  crashes

vars == <<exists, turns, context, conf, lock, actions, req, effects, sessions,
          linked, aggregate, told, crashes>>

\* What the graph distinguishes in a message after classify_intent.  Small
\* talk does what "recommend" does before a site is known.
Texts == {"discover", "recommend", "apply_url", "apply_posting"}

\* What a confirmation asks for: choices of a site, recommendations for a
\* site, or an application at a URL or of a recommended posting.
Asked == {"choose", "recommend", "apply_url", "apply_posting"}

ConfRow == [status : {"unused", "pending", "approved", "declined"},
            action : Asked \cup {None}, target : SUBSET Sites]

ContextRow == [version : Nat, site : Sites \cup {None}, session : BOOLEAN]

\* What a turn stores of its answer: its place, what it asks for, and the
\* version of the session that its message and cards show.
Answers == [by : Requests, seq : Nat, asks : Confs \cup {None}, shows : Nat]

RequestIds ==
       [from : {"header", "action"}, key : Keys]
  \cup [from : {"message"}, key : Nat]
  \cup [from : {"confirm"}, key : Confs, approved : BOOLEAN,
        selected : Sites \cup {None}]

Inputs == Texts \cup {"confirm", "action"}

Turns == [id : RequestIds, input : Inputs, seq : Nat, answer : Answers]

NoContext == [version |-> 0, site |-> None, session |-> FALSE]

Idle == [pc |-> "idle", input |-> "recommend", key |-> None, conf |-> None,
         approved |-> FALSE, selected |-> None, seq |-> 0,
         context |-> NoContext, asks |-> None]

Init ==
  /\ exists = TRUE
  /\ turns = <<>>
  /\ context = NoContext
  /\ conf = [k \in Confs |-> [status |-> "unused", action |-> None, target |-> {}]]
  /\ lock = <<>>
  /\ actions = <<>>
  /\ req = [r \in Requests |-> Idle]
  /\ effects = [k \in Confs |-> 0]
  /\ sessions = {}
  /\ linked = FALSE
  /\ aggregate = 0
  /\ told = {}
  /\ crashes = 0

-----------------------------------------------------------------------------
(* The repository.                                                         *)

LastSequence == IF turns = <<>> THEN 0 ELSE turns[Len(turns)].seq + 1

\* getTurn
Stored(id) == {i \in 1..Len(turns) : turns[i].id = id}

\* peekConfirmation
Pending(k) == exists /\ conf[k].status = "pending"

Unused == {k \in Confs : conf[k].status = "unused"}

\* putConfirmation with a fresh id, which needs the conversation's row.
Put(k, action, target) ==
  /\ exists
  /\ conf[k].status = "unused"
  /\ conf' = [conf EXCEPT ![k] = [status |-> "pending", action |-> action,
                                  target |-> target]]

Consume_Reads(k, approved) == UNCHANGED conf

\* consumeConfirmation; the decision is kept beside the status.
Consume(k, approved) ==
  conf' = [conf EXCEPT ![k].status = IF approved THEN "approved" ELSE "declined"]

Fits_VersionOnly(seq, version) == version = context.version

\* The checks of appendTurn on what the turn was computed from.
Fits(seq, version) == seq = LastSequence /\ version = context.version

-----------------------------------------------------------------------------
(* Requests, their ids and their locks.                                    *)

\* The id a turn is stored under: the client's key, or the message's place.
RequestId(r, seq) ==
  CASE req[r].input = "confirm" ->
         [from |-> "confirm", key |-> req[r].conf, approved |-> req[r].approved,
          selected |-> req[r].selected]
    [] req[r].input = "action" -> [from |-> "action", key |-> req[r].key]
    [] req[r].input \in Texts /\ req[r].key # None ->
         [from |-> "header", key |-> req[r].key]
    [] OTHER -> [from |-> "message", key |-> seq + 1]

\* The version of the session that an answer to the request speaks of.
Speaks(from) == IF from = "action" THEN aggregate ELSE 0

Answer(r) == [by |-> r, seq |-> req[r].seq + 1, asks |-> req[r].asks,
              shows |-> Speaks(req[r].input)]

At(r, pc) == req[r].pc = pc

Goes(r, pc) == req' = [req EXCEPT ![r].pc = pc]

\* A promise that has resolved runs on before any other input is looked at:
\* what follows appendTurn is in the same tick.
Quiet == \A r \in Requests : req[r].pc # "finish"

InFlight == {r \in Requests : req[r].pc # "idle"}

MayArrive(r) ==
  /\ Quiet
  /\ At(r, "idle")
  /\ Len(turns) + Cardinality(InFlight) < MaxTurns

\* Requests that may put a confirmation; the bound on Confs refuses to have
\* more of them in flight than there are ids left.
Asking ==
  {r \in InFlight : \/ req[r].input \in Texts
                    \/ (req[r].conf # None /\ conf[req[r].conf].action = "choose")}

IdsLeft == Cardinality(Asking) < Cardinality(Unused)

Unlock_Leaks(r) == UNCHANGED <<lock, actions>>

\* The finally of withConversationLock.
Unlock(r) ==
  IF req[r].input = "action"
  THEN actions' = Tail(actions) /\ UNCHANGED lock
  ELSE lock' = Tail(lock) /\ UNCHANGED actions

Ends(r) == req' = [req EXCEPT ![r] = Idle] /\ Unlock(r)

\* The request fails: its caller gets an error, nothing was stored.
Fails(r) ==
  /\ Ends(r)
  /\ UNCHANGED told

\* Answers given under an id that a client can send again.  To the stored part
\* an action's answer adds the state, the version and the application task that
\* its session has by now.
Told(id, answers) ==
  IF id.from = "message" THEN {} ELSE {id} \X answers \X {Speaks(id.from)}

\* The request is answered with what is stored under its id.
Replays(r, id) ==
  /\ Ends(r)
  /\ told' = told \cup Told(id, {turns[i].answer : i \in Stored(id)})

-----------------------------------------------------------------------------
(* Arrival.                                                                *)

SendArrives(r) ==
  /\ MayArrive(r)
  /\ IdsLeft
  /\ \E text \in Texts, key \in Keys \cup {None} :
       req' = [req EXCEPT ![r] = [Idle EXCEPT !.pc = "queued", !.input = text,
                                              !.key = key]]
  /\ lock' = Append(lock, r)
  /\ UNCHANGED <<exists, turns, context, conf, actions, effects, sessions,
                 linked, told, aggregate, crashes>>

\* Any confirmation the client was ever shown, with either decision; a site is
\* selected among the choices only.
ConfirmArrives(r) ==
  /\ MayArrive(r)
  /\ \E k \in Confs \ Unused, approved \in BOOLEAN, selected \in Sites \cup {None} :
       /\ conf[k].action = "choose" => IdsLeft
       /\ selected # None => approved /\ conf[k].action = "choose"
       /\ req' = [req EXCEPT ![r] = [Idle EXCEPT !.pc = "queued",
            !.input = "confirm", !.conf = k, !.approved = approved,
            !.selected = selected]]
  /\ lock' = Append(lock, r)
  /\ UNCHANGED <<exists, turns, context, conf, actions, effects, sessions,
                 linked, told, aggregate, crashes>>

ActionArrives(r) ==
  /\ MayArrive(r)
  /\ \E key \in Keys :
       req' = [req EXCEPT ![r] = [Idle EXCEPT !.pc = "queued", !.input = "action",
                                              !.key = key]]
  /\ actions' = Append(actions, r)
  /\ UNCHANGED <<exists, turns, context, conf, lock, effects, sessions, linked,
                 told, aggregate, crashes>>

-----------------------------------------------------------------------------
(* conversation-service.ts: from the lock to the graph.                    *)

Captured(r) == [req[r] EXCEPT !.pc = "graph", !.seq = LastSequence,
                              !.context = context]

\* withConversationLock: the promises before this request's have settled.
HasLock(r) == lock # <<>> /\ Head(lock) = r

SendEnters(r) ==
  /\ Quiet
  /\ At(r, "queued") /\ HasLock(r) /\ req[r].input \in Texts
  /\ LET id == RequestId(r, LastSequence)
         same == \A i \in Stored(id) : turns[i].input = req[r].input
     IN \/ /\ exists /\ Stored(id) = {}
           /\ req' = [req EXCEPT ![r] = Captured(r)]
           /\ UNCHANGED <<lock, actions, told>>
        \/ /\ exists /\ Stored(id) # {} /\ same
           /\ Replays(r, id)
        \/ /\ ~exists \/ ~same
           /\ Fails(r)
  /\ UNCHANGED <<exists, turns, context, conf, effects, sessions, linked, aggregate, crashes>>

ConfirmEnters(r) ==
  /\ Quiet
  /\ At(r, "queued") /\ HasLock(r) /\ req[r].input = "confirm"
  /\ IF Pending(req[r].conf)
     THEN req' = [req EXCEPT ![r] = Captured(r)] /\ UNCHANGED <<lock, actions, told>>
     ELSE Fails(r)
  /\ UNCHANGED <<exists, turns, context, conf, effects, sessions, linked, aggregate, crashes>>

-----------------------------------------------------------------------------
(* conversation-graph.ts: resolve_target, policy_gate, execute_read and    *)
(* prepare_side_effect, up to their await.  What they leave in the request *)
(* is the patched context and the confirmation the turn asks for.          *)

\* The turn asks for a new confirmation; the row it needs may be gone.
AsksFor(r, action, target, site) ==
  IF exists
  THEN /\ \E k \in Unused :
            /\ Put(k, action, target)
            /\ req' = [req EXCEPT ![r].pc = "append", ![r].asks = k,
                                  ![r].context.site = site]
       /\ UNCHANGED <<lock, actions, told>>
  ELSE Fails(r) /\ UNCHANGED conf

Composes(r, site) ==
  /\ req' = [req EXCEPT ![r].pc = "append", ![r].context.site = site]
  /\ UNCHANGED <<lock, actions, told>>

MessagePrepared(r) ==
  /\ Quiet
  /\ At(r, "graph") /\ req[r].input \in Texts
  /\ LET site == req[r].context.site
     IN CASE req[r].input = "discover" ->
               Goes(r, "search") /\ UNCHANGED <<conf, lock, actions, told>>
          [] req[r].input = "apply_url" ->
               Goes(r, "validate") /\ UNCHANGED <<conf, lock, actions, told>>
          [] req[r].input = "recommend" /\ site # None ->
               AsksFor(r, "recommend", {site}, site)
          [] req[r].input = "apply_posting" /\ req[r].context.session ->
               \/ AsksFor(r, "apply_posting", {}, site)
               \/ Composes(r, site) /\ UNCHANGED conf  \* missing or stale
          [] OTHER -> Composes(r, site) /\ UNCHANGED conf
  /\ UNCHANGED <<exists, turns, context, effects, sessions, linked, aggregate, crashes>>

\* discover_recruitment_site has answered, or the user's own link was checked.
Searched(r) ==
  /\ Quiet
  /\ At(r, "search")
  /\ \/ \E found \in SUBSET Sites \ {{}} : AsksFor(r, "choose", found, None)
     \/ Composes(r, None) /\ UNCHANGED conf
  /\ UNCHANGED <<exists, turns, context, effects, sessions, linked, aggregate, crashes>>

\* validatePublicHttpsUrl has answered.
Validated(r) ==
  /\ Quiet
  /\ At(r, "validate")
  /\ \/ AsksFor(r, "apply_url", {}, req[r].context.site)
     \/ Composes(r, req[r].context.site) /\ UNCHANGED conf
  /\ UNCHANGED <<exists, turns, context, effects, sessions, linked, aggregate, crashes>>

\* An application is decided: the confirmation is consumed before the tool is
\* called, unless its posting can no longer be resolved.
ApplicationDecided(r) ==
  LET k == req[r].conf IN
  /\ conf[k].action \in {"apply_url", "apply_posting"}
  /\ \/ /\ Consume(k, req[r].approved)
        /\ Goes(r, IF req[r].approved THEN "tool" ELSE "append")
     \/ /\ conf[k].action = "apply_posting"
        /\ Goes(r, "append")
        /\ UNCHANGED conf
  /\ UNCHANGED <<lock, actions, told>>

RecommendationDecided(r) ==
  LET k == req[r].conf IN
  /\ conf[k].action = "recommend"
  /\ Consume(k, req[r].approved)
  /\ IF req[r].approved
     THEN Goes(r, "tool") /\ UNCHANGED <<lock, actions, told>>
     ELSE \E site \in conf[k].target : Composes(r, site)

\* A site is chosen: the next confirmation, for recommendations, is put.
SiteDecided(r) ==
  LET k == req[r].conf
      chosen == req[r].selected
  IN
  /\ conf[k].action = "choose"
  /\ IF req[r].approved /\ chosen \in conf[k].target
     THEN \E next \in Unused :
            /\ conf' = [conf EXCEPT ![k].status = "approved",
                   ![next] = [status |-> "pending", action |-> "recommend",
                              target |-> {chosen}]]
            /\ req' = [req EXCEPT ![r].pc = "append", ![r].asks = next,
                                  ![r].context.site = chosen]
            /\ UNCHANGED <<lock, actions, told>>
     ELSE /\ Consume(k, req[r].approved)
          /\ Composes(r, IF req[r].approved THEN req[r].context.site ELSE None)

ConfirmPrepared(r) ==
  /\ Quiet
  /\ At(r, "graph") /\ req[r].input = "confirm"
  /\ IF Pending(req[r].conf)
     THEN ApplicationDecided(r) \/ RecommendationDecided(r) \/ SiteDecided(r)
     ELSE Fails(r) /\ UNCHANGED conf
  /\ UNCHANGED <<exists, turns, context, effects, sessions, linked, aggregate, crashes>>

\* create_application_task or create_job_match_session has answered.  The
\* session is opened at the site of the context the turn started from.
ToolEnds(r) ==
  /\ Quiet
  /\ At(r, "tool")
  /\ LET k == req[r].conf
         site == req[r].context.site
     IN \/ /\ Goes(r, "append")  \* failed, or the task existed already
           /\ UNCHANGED <<effects, sessions, linked>>
        \/ /\ conf[k].action # "recommend"
           /\ effects' = [effects EXCEPT ![k] = @ + 1]
           /\ req' = [req EXCEPT ![r].pc = "append"]
           /\ UNCHANGED <<sessions, linked>>
        \/ /\ conf[k].action = "recommend" /\ site # None
           /\ effects' = [effects EXCEPT ![k] = @ + 1]
           /\ sessions' = sessions \cup {<<k, site>>}
           /\ linked' = (exists \/ linked)
           /\ \E confirmed \in conf[k].target :
                req' = [req EXCEPT ![r].pc = "append",
                  ![r].context.site = IF exists THEN confirmed ELSE @,
                  ![r].context.session = exists \/ @]
  /\ UNCHANGED <<exists, turns, context, conf, lock, actions, told, aggregate, crashes>>

-----------------------------------------------------------------------------
(* Storing the turn.                                                       *)

\* appendTurn stores the turn, or finds it stored, or refuses it.
AppendTurn(r) ==
  /\ Quiet
  /\ At(r, "append")
  /\ LET id == RequestId(r, req[r].seq)
         same == \A i \in Stored(id) : turns[i].input = req[r].input
     IN \/ /\ exists /\ Stored(id) = {}
           /\ Fits(req[r].seq, req[r].context.version)
           /\ turns' = Append(turns, [id |-> id, input |-> req[r].input,
                                      seq |-> req[r].seq + 1, answer |-> Answer(r)])
           /\ context' = [req[r].context EXCEPT !.version = @ + 1]
           /\ told' = told \cup Told(id, {Answer(r)})
           /\ Goes(r, "finish")
           /\ UNCHANGED <<lock, actions>>
        \/ /\ exists /\ Stored(id) # {} /\ same
           /\ told' = told \cup Told(id, {turns[i].answer : i \in Stored(id)})
           /\ Goes(r, "finish")
           /\ UNCHANGED <<turns, context, lock, actions>>
        \/ /\ \/ ~exists
              \/ ~same
              \/ (Stored(id) = {} /\ ~Fits(req[r].seq, req[r].context.version))
           /\ Fails(r)
           /\ UNCHANGED <<turns, context>>
  /\ UNCHANGED <<exists, conf, effects, sessions, linked, aggregate, crashes>>

\* persistConfirmation finds its row already there; a confirmation that the
\* graph left pending is consumed now.
Finish(r) ==
  /\ At(r, "finish")
  /\ IF req[r].input = "confirm" /\ Pending(req[r].conf)
     THEN Consume(req[r].conf, req[r].approved)
     ELSE UNCHANGED conf
  /\ Ends(r)
  /\ UNCHANGED <<exists, turns, context, effects, sessions, linked, told, aggregate, crashes>>

-----------------------------------------------------------------------------
(* conversation-job-match-service.ts                                       *)

\* The session changes: by the action that is dispatched, by the matcher, or by
\* the routes that name the session itself.  Each change raises its version.
SessionChanges ==
  /\ Quiet
  /\ linked
  /\ aggregate < MaxVersion
  /\ aggregate' = aggregate + 1
  /\ UNCHANGED <<exists, turns, context, conf, lock, actions, req, effects,
                 sessions, linked, told, crashes>>

\* A key that was used before is answered at once: with the stored turn beside
\* the session as it is now, or with a conflict when the payload differs.
ActionEnters(r) ==
  /\ Quiet
  /\ At(r, "queued") /\ req[r].input = "action"
  /\ actions # <<>> /\ Head(actions) = r
  /\ LET id == RequestId(r, LastSequence)
     IN \/ /\ exists /\ Stored(id) = {} /\ linked
           /\ req' = [req EXCEPT ![r].pc = "dispatch", ![r].seq = LastSequence]
           /\ UNCHANGED <<lock, actions, told>>
        \/ /\ exists /\ Stored(id) # {}  \* the same payload
           /\ Replays(r, id)
        \/ /\ ~exists \/ Stored(id) # {} \/ ~linked  \* another payload
           /\ Fails(r)
  /\ UNCHANGED <<exists, turns, context, conf, effects, sessions, linked, aggregate, crashes>>

\* The job-match command has answered.  The messages were read before it, the
\* context and the session are read now.
ActionEnds(r) ==
  /\ Quiet
  /\ At(r, "dispatch")
  /\ LET id == RequestId(r, req[r].seq)
     IN \/ /\ exists /\ Fits(req[r].seq, context.version)
           /\ turns' = Append(turns, [id |-> id, input |-> "action",
                                      seq |-> req[r].seq + 1, answer |-> Answer(r)])
           /\ context' = [context EXCEPT !.version = @ + 1, !.session = TRUE]
           /\ told' = told \cup Told(id, {Answer(r)})
           /\ Ends(r)
        \/ Fails(r) /\ UNCHANGED <<turns, context>>  \* refused, or overtaken
  /\ UNCHANGED <<exists, conf, effects, sessions, linked, aggregate, crashes>>

-----------------------------------------------------------------------------
(* Deletion and restart.                                                   *)

\* delete, which takes no lock; the rows of the conversation go with it.
Delete ==
  /\ Quiet
  /\ exists
  /\ exists' = FALSE
  /\ turns' = <<>>
  /\ context' = NoContext
  /\ linked' = FALSE
  /\ UNCHANGED <<conf, lock, actions, req, effects, sessions, told, aggregate, crashes>>

Crash ==
  /\ crashes < MaxCrashes
  /\ crashes' = crashes + 1
  /\ req' = [r \in Requests |-> Idle]
  /\ lock' = <<>>
  /\ actions' = <<>>
  /\ UNCHANGED <<exists, turns, context, conf, effects, sessions, linked, aggregate, told>>

Step(r) ==
  \/ SendEnters(r) \/ ConfirmEnters(r) \/ ActionEnters(r)
  \/ MessagePrepared(r) \/ Searched(r) \/ Validated(r)
  \/ ConfirmPrepared(r) \/ ToolEnds(r)
  \/ AppendTurn(r) \/ Finish(r) \/ ActionEnds(r)

Next ==
  \/ \E r \in Requests :
       SendArrives(r) \/ ConfirmArrives(r) \/ ActionArrives(r) \/ Step(r)
  \/ SessionChanges
  \/ Delete
  \/ Crash

Spec == Init /\ [][Next]_vars

\* Every await of a turn is a call that answers or fails; the event loop runs
\* what follows.
FairSpec == Spec /\ \A r \in Requests : WF_vars(Step(r))

-----------------------------------------------------------------------------
(* Properties.                                                             *)

\* Types; a request that has passed its lock is the head of its chain.
TypeOK ==
  /\ exists \in BOOLEAN
  /\ turns \in Seq(Turns)
  /\ context \in ContextRow
  /\ conf \in [Confs -> ConfRow]
  /\ lock \in Seq(Requests)
  /\ actions \in Seq(Requests)
  /\ req \in [Requests ->
       [pc : {"idle", "queued", "graph", "search", "validate", "tool", "append",
              "finish", "dispatch"},
        input : Inputs, key : Keys \cup {None}, conf : Confs \cup {None},
        approved : BOOLEAN, selected : Sites \cup {None}, seq : Nat,
        context : ContextRow, asks : Confs \cup {None}]]
  /\ effects \in [Confs -> Nat]
  /\ sessions \subseteq Confs \X Sites
  /\ linked \in BOOLEAN
  /\ aggregate \in Nat
  /\ told \subseteq RequestIds \X Answers \X Nat
  /\ crashes \in 0..MaxCrashes
  /\ \A r \in Requests : req[r].pc \notin {"idle", "queued"} =>
       IF req[r].input = "action" THEN actions # <<>> /\ Head(actions) = r
                                  ELSE lock # <<>> /\ Head(lock) = r

\* A confirmation has at most one effect, and only if it was approved: however
\* confirmations are repeated, retried after a restart or raced by a deletion,
\* no second application task or job-match session comes of one approval
\* (prepareSideEffect consumes before it calls the tool).
ConfirmedOnce ==
  \A k \in Confs :
    /\ effects[k] <= 1
    /\ effects[k] = 1 => conf[k].status = "approved"

\* The messages of a conversation are numbered without a gap or a repetition
\* and its context counts the turns, though two services append turns under
\* different locks (appendTurn).
TurnsAreContiguous ==
  /\ \A i \in 1..Len(turns) : turns[i].seq = 2 * i - 1
  /\ context.version = Len(turns)

\* All answers given under one request id carry the same stored turn: its
\* message, its cards, its context and what it asks for, though the first try
\* may have been stored while the retry was computed (appendTurn, getTurn).
OneTurnPerRequest ==
  \A a, b \in told : a[1] = b[1] => a[2] = b[2]

\* The session that an action's answer tells of is never older than the one its
\* message and cards show: what was computed before the command's await is read
\* again after it, and a retry reads it once more (replayActionResult).
AnswersKeepUp ==
  \A a \in told : a[2].shows <= a[3]

\* A retry is told exactly what the first try was told.  (Refuted for actions:
\* a retry tells the state, the version and the task that the session has then.)
OneAnswerPerRequest ==
  \A a, b \in told : a[1] = b[1] => a = b

\* The job-match session that an approved confirmation opens is at the site
\* the confirmation named.  (Refuted: the tool takes the site of the context.)
SessionsOpenConfirmedSite ==
  \A s \in sessions : s[2] \in conf[s[1]].target

\* Every request is answered or fails, whatever is deleted under it.
RequestsEnd ==
  \A r \in Requests : req[r].pc # "idle" ~> req[r].pc = "idle"

\* Types, the chain of locks, the numbering of the turns, and the answers to retries.
Consistent == TypeOK /\ TurnsAreContiguous /\ OneTurnPerRequest /\ AnswersKeepUp
=============================================================================
