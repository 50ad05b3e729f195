-------------------------- MODULE LegacyApplication --------------------------
(***************************************************************************)
(* The application service that drives one task's form itself              *)
(* (createApplicationService), with its state machine, its progress        *)
(* coordinator, its challenge coordinator and its checkpoints.             *)
(*                                                                         *)
(* A call is a request, an activity of the browser or the run it has       *)
(* started; it runs from one await to the next without interruption.  Its  *)
(* handler is therefore a function from states of the service to states:   *)
(* s.m is the memory of the task, s.p its progress, s.d what is stored,    *)
(* s.q the worker's queue and s.a the calls.                               *)
(*                                                                         *)
(* The page is one form of two parts: the first has the fields and leads   *)
(* on to the second, the second can only be submitted.                     *)
(***************************************************************************)
EXTENDS Integers, FiniteSets, Sequences

CONSTANTS
    Calls,
    Fields,         \* 1..n, in the order of the page; all are required
    Forms,          \* of each field: what the resolver knows, and whether it has a hint
    None,
    MaxAttempts,    \* automatic attempts per operation key
    AuditInterval,  \* fields applied between two periodic audits
    MaxOps,         \* bound: requests and activities
    MaxChanges,     \* bound: changes of the page by the user or the site
    MaxFaults       \* bound: failing calls, refused results and restarts

ASSUME ConstantsAssumption ==
    /\ None \notin Calls /\ Fields \subseteq Nat \ {0} /\ IsFiniteSet(Fields)
    /\ MaxAttempts \in Nat /\ AuditInterval \in Nat /\ MaxOps \in Nat
    /\ MaxChanges \in Nat /\ MaxFaults \in Nat

VARIABLES
    mem,     \* the maps of the service
    prog,    \* the task's progress
    disk,    \* checkpoint, stored progress, answers, certified pack
    queue,   \* requests at the browser worker
    calls,
    page,    \* what the browser shows
    worker,  \* the epoch below which the worker refuses commands
    form,    \* what the resolver knows
    sent,    \* commands sent per operation key
    left     \* what remains of the bounds

vars == <<mem, prog, disk, queue, calls, page, worker, form, sent, left>>

\* Operation keys: the fields, the button that leads on, the page and a section.
Next1 == 0
Whole == -1
Section == -2
Keys == Fields \cup {Next1}
Commands == {"section", "upload", "fill", "refill", "click"}
NoPage == [stage |-> "none", part |-> 1, sections |-> FALSE, challenge |-> FALSE,
           errors |-> FALSE, filled |-> {}]
Idle == [op |-> None, pc |-> "idle", then |-> None, gen |-> 0, snap |-> NoPage, phase |-> None,
         seen |-> NoPage, todo |-> {}, field |-> None, dec |-> [f \in Fields |-> None],
         failed |-> {}, round |-> 0, tries |-> 0, retry |-> FALSE]
NoProgress == [status |-> "idle", active |-> None, recovery |-> {}, stalled |-> None,
               last |-> None, attempts |-> [k \in Keys |-> 0]]
Started == [state |-> "observing", gen |-> 0, epoch |-> 0, snap |-> NoPage, reached |-> FALSE,
            recovering |-> None, retrying |-> FALSE, review |-> None, pack |-> FALSE,
            ledger |-> {}, since |-> 0, run |-> None, stable |-> None, forgot |-> FALSE]

Init ==
    /\ mem = Started /\ prog = NoProgress /\ queue = <<>> /\ worker = 0
    /\ disk = [cp |-> None, prog |-> NoProgress, answered |-> {}, certified |-> TRUE]
    /\ calls = [c \in Calls |-> Idle]
    /\ page \in [stage : {"login", "form"}, part : {1}, sections : BOOLEAN,
                 challenge : {FALSE}, errors : {FALSE}, filled : {{}}]
    /\ form \in Forms
    /\ sent = [k \in Keys |-> 0]
    /\ left = [ops |-> MaxOps, changes |-> MaxChanges, faults |-> MaxFaults]

Now == [m |-> mem, p |-> prog, d |-> disk, q |-> queue, a |-> calls, w |-> worker]
NewCommands(s) == {i \in DOMAIN s.q : s.q[i].op \in Commands /\ s.q[i].epoch > mem.epoch}
Become(s) ==
    /\ mem' = s.m /\ prog' = s.p /\ disk' = s.d
    /\ queue' = s.q /\ calls' = s.a /\ worker' = s.w
    /\ sent' = [k \in Keys |->
                  sent[k] + Cardinality({i \in NewCommands(s) : s.q[i].key = k})]

-----------------------------------------------------------------------------
(* The state machine of a task.                                            *)

Working == {"observing", "filling", "validating", "navigating"}
From == [READY_TO_FILL |-> {"observing"}, PAGE_FILLED |-> {"filling"},
         PAGE_VALID |-> {"validating"}, PAGE_INVALID |-> {"validating"},
         PAGE_NAVIGATED |-> {"navigating"}, LOGIN_REQUIRED |-> {"observing"},
         QUESTIONS_REQUIRED |-> {"observing", "filling"},
         CONTENT_REVIEW_REQUIRED |-> {"observing", "filling"},
         REVIEW_REACHED |-> Working, FAIL |-> Working, RECOVER |-> Working \cup {"failed"},
         RESUME |-> {"awaiting_login"}, ANSWERS_PROVIDED |-> {"needs_questions"},
         PROFILE_UPDATED |-> {"needs_questions"},
         CONTENT_APPROVED |-> {"awaiting_content_review"},
         CONTENT_REJECTED |-> {"awaiting_content_review"},
         USER_RESUME_CHALLENGE |-> {"awaiting_challenge"},
         ADAPTER_CERTIFIED |-> {"awaiting_adapter_review"},
         ADAPTER_REVIEW_REQUIRED |->
            Working \cup {"awaiting_login", "needs_questions", "awaiting_content_review"},
         CHALLENGE_DETECTED |-> Working \cup {"awaiting_login", "needs_questions",
                                  "awaiting_content_review", "awaiting_adapter_review"},
         CANCEL |-> Working \cup {"awaiting_login", "needs_questions", "awaiting_content_review",
                      "awaiting_challenge", "awaiting_adapter_review", "cancelled", "failed"}]
To == [READY_TO_FILL |-> "filling", PAGE_FILLED |-> "validating", PAGE_VALID |-> "navigating",
       PAGE_INVALID |-> "needs_questions", PAGE_NAVIGATED |-> "observing",
       LOGIN_REQUIRED |-> "awaiting_login", QUESTIONS_REQUIRED |-> "needs_questions",
       CONTENT_REVIEW_REQUIRED |-> "awaiting_content_review",
       REVIEW_REACHED |-> "review_locked", FAIL |-> "failed", RECOVER |-> "observing",
       RESUME |-> "observing", ANSWERS_PROVIDED |-> "observing",
       PROFILE_UPDATED |-> "observing", CONTENT_APPROVED |-> "filling",
       CONTENT_REJECTED |-> "failed", USER_RESUME_CHALLENGE |-> "observing",
       ADAPTER_CERTIFIED |-> "observing", ADAPTER_REVIEW_REQUIRED |-> "awaiting_adapter_review",
       CHALLENGE_DETECTED |-> "awaiting_challenge", CANCEL |-> "cancelled"]

Can(s, e) == s.m.state \in From[e]
Send(s, e) == [s EXCEPT !.m.state = To[e]]

-----------------------------------------------------------------------------
(* Progress, checkpoints and the end of calls.                             *)

\* What restore makes of the snapshot that is stored.
Stored(p) == [p EXCEPT !.active = None,
                       !.status = IF p.active = None THEN @ ELSE "paused",
                       !.stalled = IF p.active = None THEN @ ELSE p.active.field,
                       !.recovery = IF p.active = None THEN @ ELSE {"retry_current", "manual_done"}]
Save(s) == [s EXCEPT !.d.prog = Stored(s.p)]
Persist(s, snap) == [s EXCEPT !.d.cp = [state |-> s.m.state, snap |-> snap, review |-> s.m.review]]

CanStart(s) == s.p.active = None /\ s.p.status # "paused"
StartOp(s, c, field) ==
    Save([s EXCEPT !.p.active = [by |-> c, field |-> field], !.p.status = "running",
                   !.p.stalled = None, !.p.recovery = {}])
Active(s, c) == s.p.active # None /\ s.p.active.by = c
Settled(s, mode) ==
    Save([s EXCEPT !.p.active = None,
                   !.p.status = IF mode = "pause" THEN "paused" ELSE "idle",
                   !.p.stalled = IF mode = "pause" THEN s.p.active.field ELSE None,
                   !.p.recovery = IF mode = "pause" THEN {"retry_current", "manual_done"} ELSE {},
                   !.p.last = s.p.active.field])
Complete(s, c) ==
    IF Active(s, c)
    THEN Save([s EXCEPT !.p.active = None, !.p.status = "idle", !.p.stalled = None,
                        !.p.recovery = {}, !.p.last = None])
    ELSE s
FailOp(s, c, mode) == IF Active(s, c) THEN Settled(s, mode) ELSE s
RecordFailure(s, field, mode) ==
    IF s.p.active # None THEN Settled(s, mode)
    ELSE Save([s EXCEPT !.p.status = IF mode = "pause" THEN "paused" ELSE "idle",
                        !.p.stalled = IF mode = "pause" THEN field ELSE None,
                        !.p.recovery = IF mode = "pause" THEN {"retry_current"} ELSE {},
                        !.p.last = field])

MayReserve(s, k) == s.p.attempts[k] < MaxAttempts
Reserve(s, k) == Save([s EXCEPT !.p.attempts[k] = @ + 1])

Ignorable(s) == s.m.state \in {"cancelled", "review_locked"}
NextGeneration(s) == [s EXCEPT !.m.gen = @ + 1]
\* invalidateExecution goes past the worker's queue.
NextEpoch(s) == [s EXCEPT !.m.epoch = @ + 1, !.w = s.m.epoch + 1]
\* A reply that nobody waits for any more.
Forget(q, C) == [i \in DOMAIN q |-> IF q[i].by \in C THEN [q[i] EXCEPT !.by = None] ELSE q[i]]

Ending_Alone(s, c) == {c}
\* The calls that end with c: those that joined its run.
Ending(s, c) == {c} \cup {x \in Calls : s.a[x].pc = "join" /\ s.m.run = c}
Done(s, c) ==
    LET E == Ending(s, c)
    IN  [s EXCEPT !.a = [x \in Calls |-> IF x \in E THEN Idle ELSE s.a[x]],
                  !.q = Forget(s.q, {c}),
                  !.m.run = IF s.m.run = c THEN None ELSE @,
                  !.m.stable = IF @ \in E THEN None ELSE @,
                  !.m.retrying = IF s.a[c].retry THEN FALSE ELSE @]
\* An error that reaches the listener of activities stops the run and pauses the task.
Throw(s, c) ==
    IF (\E x \in Ending(s, c) : s.a[x].op = "stable") /\ ~ Ignorable(s)
    THEN RecordFailure(NextEpoch(NextGeneration(Done(s, c))), Whole, "pause")
    ELSE Done(s, c)
Try(s, c, e, K(_)) == IF Can(s, e) THEN K(Send(s, e)) ELSE Throw(s, c)

\* pause and cancel reject the operation in progress, whose call then returns.
Rejected(s) == IF s.p.active = None THEN s ELSE Done(s, s.p.active.by)
Pause(s, field) ==
    LET stalled == IF s.p.active # None THEN s.p.active.field
                   ELSE IF field # None THEN field ELSE s.p.stalled
    IN  Save([Rejected(s) EXCEPT !.p.active = None, !.p.status = "paused", !.p.stalled = stalled,
                                 !.p.recovery = {"retry_current", "manual_done"}])
Unpaused(s) == Save([s EXCEPT !.p.status = "idle", !.p.recovery = {}])

-----------------------------------------------------------------------------
(* Waiting for the worker and for other services.                          *)

Go(s, c, pc) == [s EXCEPT !.a[c].pc = pc]
Ask(s, c, pc) ==
    [Go(s, c, pc) EXCEPT !.q = Append(@, [by |-> c, op |-> "observe", key |-> None, epoch |-> 0])]
Command(s, c, op, key) ==
    [Go(s, c, op) EXCEPT !.a[c].field = key, !.m.epoch = @ + 1,
        !.q = Append(@, [by |-> c, op |-> op, key |-> key, epoch |-> s.m.epoch + 1])]
Invalidate(s, c, then) == [NextEpoch(Go(s, c, "invalidated")) EXCEPT !.a[c].then = then]

Live_AnyRun(s, c) ==
    s.m.state \notin {"cancelled", "awaiting_challenge", "awaiting_adapter_review"}
Live(s, c) ==
    /\ s.m.gen = s.a[c].gen
    /\ s.m.state \notin {"cancelled", "awaiting_challenge", "awaiting_adapter_review"}
Current(s, c) == Live(s, c) /\ s.p.status # "paused"

\* prepareObservedSnapshot: a challenge or an unknown form stops the caller; K goes on.
Unmapped(s, snap) == snap.stage = "form" /\ ~ s.d.certified
Prepare(s, c, snap, K(_)) ==
    LET t == [s EXCEPT !.m.snap = snap, !.a[c].seen = snap]
    IN  IF snap.challenge THEN Invalidate(t, c, "challenge")
        ELSE IF Unmapped(t, snap) THEN Invalidate([t EXCEPT !.m.pack = FALSE], c, "unmapped")
        ELSE K([t EXCEPT !.m.pack = IF snap.stage = "form" THEN TRUE ELSE @])
\* quarantineActivePack
Quarantine(s, c, K(_)) ==
    IF s.m.pack THEN Invalidate([s EXCEPT !.d.certified = FALSE, !.m.pack = FALSE], c, "unmapped")
    ELSE K(s)

-----------------------------------------------------------------------------
(* One run, from the observation of a page to the next pause.              *)

OnPage(snap) == IF snap.stage = "form" /\ snap.part = 1 THEN Fields ELSE {}
Empty(snap) == OnPage(snap) \ snap.filled
Least(S) == CHOOSE f \in S : \A g \in S : f <= g
SameStructure(a, b) == a.stage = b.stage /\ a.part = b.part

Decision(s, f, phase) ==
    IF s.m.review = [field |-> f, status |-> "approved"] THEN "verified"
    ELSE CASE form[f].kind = "plain" -> "verified"
           [] form[f].kind = "semantic" -> IF phase = "deterministic" THEN "deferred" ELSE "verified"
           [] form[f].kind = "asked" -> IF f \in s.d.answered THEN "verified" ELSE "question"
           [] form[f].kind \in {"reviewed", "blocked"} -> form[f].kind
           [] OTHER -> "deferred"
Legal(f) == form[f].kind = "legal"

\* The end of a handler: an event of the machine, a checkpoint, the end of the call.
Stops(s, c, e) == Try(s, c, e, LAMBDA t : Done(Persist(t, t.a[c].snap), c))
EndsPersisted(s, c) == Done(Persist(s, s.a[c].snap), c)

Resolve(s, c, phase, F) ==
    [Go(s, c, "resolve") EXCEPT !.a[c].phase = phase, !.a[c].todo = F]

AfterObserve(s, c) ==
    LET snap == s.a[c].seen
        t == Persist([s EXCEPT !.a[c].snap = snap], snap)
        r == [t EXCEPT !.m.reached = TRUE]
        uploads == {f \in Empty(snap) : form[f].kind = "upload"}
    IN  IF ~ Current(s, c) THEN Done(s, c)
        ELSE IF snap.stage = "review" THEN Stops(t, c, "REVIEW_REACHED")
        ELSE IF snap.stage = "login"
             THEN IF s.m.state = "awaiting_login" THEN EndsPersisted(t, c)
                  ELSE Stops(t, c, "LOGIN_REQUIRED")
        ELSE IF ~ s.m.reached /\ snap.stage # "form" THEN Done(t, c)
        ELSE IF snap.sections
             THEN IF CanStart(r) THEN Command(StartOp(r, c, Section), c, "section", None)
                  ELSE Throw(r, c)
        ELSE IF uploads # {}
             THEN LET f == Least(uploads)
                  IN  IF MayReserve(r, f) /\ CanStart(r)
                      THEN Command(StartOp(Reserve(r, f), c, f), c, "upload", f)
                      ELSE Throw(r, c)
        ELSE Resolve(r, c, "deterministic", {f \in Empty(snap) : ~ Legal(f)})

MayEnter(s) ==
    /\ s.m.state \notin {"review_locked", "awaiting_challenge", "awaiting_adapter_review"}
    /\ s.p.status # "paused"
Entered(s, c) == [NextGeneration(s) EXCEPT !.a[c].gen = s.m.gen + 1]
\* runUntilPauseInternal on an observation, and on none.
Enter(s, c, snap) ==
    IF MayEnter(s) THEN Prepare(Entered(s, c), c, snap, LAMBDA t : AfterObserve(t, c))
    ELSE Done(s, c)
EnterFresh(s, c) ==
    IF ~ MayEnter(s) THEN Done(s, c)
    ELSE IF CanStart(s) THEN Ask(StartOp(Entered(s, c), c, Whole), c, "observe")
    ELSE Throw(Entered(s, c), c)
\* runUntilPause joins the run in progress.
RunWith(s, c, snap) ==
    IF s.m.run # None THEN Go(s, c, "join") ELSE Enter([s EXCEPT !.m.run = c], c, snap)
RunFresh(s, c) ==
    IF s.m.run # None THEN Go(s, c, "join") ELSE EnterFresh([s EXCEPT !.m.run = c], c)

PauseAfterFailure(s, c, result) ==
    IF result = "unsafe" THEN Stops(s, c, "FAIL")
    ELSE LET t == RecordFailure(s, s.a[c].field, "pause")
         IN  EndsPersisted(IF t.m.state \in {"filling", "validating", "navigating", "failed"}
                           THEN Send(t, "RECOVER") ELSE t, c)

\* Every answer of a command is prepared; one that shows a regression retires the pack.
Answer(s, c, snap, result, K(_)) ==
    LET t == Complete(s, c)
    IN  IF ~ Current(t, c) THEN Done(t, c)
        ELSE Prepare(t, c, snap,
                     LAMBDA u : IF result = "regression" THEN Quarantine(u, c, K) ELSE K(u))
Adopt(s, c) == [s EXCEPT !.a[c].snap = s.a[c].seen]

SectionAnswered(s, c, snap, result) ==
    Answer(s, c, snap, result,
        LAMBDA t : LET u == Persist(Adopt(t, c), t.a[c].seen)
                   IN  IF result # "applied"
                       THEN PauseAfterFailure([u EXCEPT !.a[c].field = Section], c, result)
                       ELSE IF CanStart(u) THEN Ask(StartOp(u, c, Whole), c, "sectionObserve")
                       ELSE Throw(u, c))
SectionObserved(s, c, snap) ==
    LET t == Complete(s, c)
    IN  IF ~ Current(t, c) THEN Done(t, c)
        ELSE Prepare(t, c, snap,
                 LAMBDA u : LET v == Persist(Adopt(u, c), snap)
                            IN  IF snap.sections
                                THEN Done(Persist(RecordFailure(v, Section, "pause"), snap), c)
                                ELSE Enter(v, c, snap))
UploadAnswered(s, c, snap, result) ==
    Answer(s, c, snap, result,
        LAMBDA t : LET u == Persist(Adopt(t, c), snap)
                   IN  IF result # "applied" THEN PauseAfterFailure(Adopt(t, c), c, result)
                       ELSE IF snap.sections THEN Enter(u, c, snap)
                       ELSE Resolve(u, c, "deterministic", {f \in Empty(snap) : ~ Legal(f)}))

-----------------------------------------------------------------------------
(* After the fields: audit, questions, review, validation, the way on.     *)

Audit(s, c, then, K(_)) ==
    IF s.m.ledger = {} \/ s.a[c].snap.stage # "form"
    THEN IF Current(s, c) THEN K(s) ELSE Done(s, c)
    ELSE [Ask(s, c, "audit") EXCEPT !.a[c].then = then]

\* The review stays for the user: the service submits nothing.
Lock(s, c) == Stops(s, c, "REVIEW_REACHED")

Validated(s, c) ==
    LET snap == s.a[c].snap
        t == Persist(Send(s, "PAGE_FILLED"), snap)
        u == Persist(Send(t, "PAGE_VALID"), snap)
    IN  IF ~ CanStart(t) THEN Throw(t, c)
        ELSE IF snap.errors
             THEN Stops(Settled(StartOp(t, c, Whole), "pause"), c, "PAGE_INVALID")
        ELSE IF snap.stage # "form" THEN Stops(u, c, "FAIL")
        ELSE IF snap.part = 2 THEN Audit(u, c, "lock", LAMBDA v : Lock(v, c))
        ELSE IF MayReserve(u, Next1)
             THEN Command(StartOp(Reserve(u, Next1), c, Next1), c, "click", Next1)
        ELSE Throw(u, c)

Finish(s, c) ==
    LET snap == s.a[c].snap
        dec == s.a[c].dec
        open == Empty(snap) \cap {f \in Fields :
                    dec[f] \in {"question", "reviewed", "blocked"} \/ f \in s.a[c].failed}
        reviewed == {f \in open : dec[f] = "reviewed"}
        t == IF s.m.state = "observing" THEN Send(s, "READY_TO_FILL") ELSE s
    IN  IF \E f \in open : dec[f] = "question" \/ f \in s.a[c].failed
        THEN Stops(s, c, "QUESTIONS_REQUIRED")
        ELSE IF \E f \in open : dec[f] = "blocked" THEN Stops(s, c, "FAIL")
        ELSE IF reviewed # {}
             THEN Stops([s EXCEPT !.m.review = [field |-> Least(reviewed), status |-> "needed"]],
                        c, "CONTENT_REVIEW_REQUIRED")
        ELSE IF \E f \in Empty(snap) : Legal(f)
             THEN Audit(s, c, "lock", LAMBDA u : Lock(u, c))
        ELSE IF t.m.state # "filling" THEN Throw(s, c)
        ELSE IF Empty(snap) # {} THEN Stops(t, c, "FAIL")
        ELSE Validated(t, c)

\* The fields of the next semantic pass: two passes at most.
Semantic(s, c) ==
    IF s.a[c].round = 2 THEN {}
    ELSE {f \in Empty(s.a[c].snap) : ~ Legal(f) /\ s.a[c].dec[f] \in {None, "deferred"}}
StartSemantic(s, c) ==
    Resolve([s EXCEPT !.a[c].round = @ + 1], c, "semantic", Semantic(s, c))
PhaseDone(s, c) ==
    IF Semantic(s, c) # {}
    THEN IF s.a[c].round = 0 THEN Audit(s, c, "semantic", LAMBDA t : StartSemantic(t, c))
         ELSE StartSemantic(s, c)
    ELSE IF s.a[c].round = 0 THEN Finish(s, c)
    ELSE Audit(s, c, "finish", LAMBDA t : Finish(t, c))

-----------------------------------------------------------------------------
(* Filling the verified fields of a pass, one after the other.             *)

SendFill(s, c, op, f) ==
    LET t == Reserve(s, f)
    IN  Command(StartOp([t EXCEPT !.a[c].tries = t.p.attempts[f]], c, f), c, op, f)

\* A field whose attempts are used up fails in the semantic pass and ends the other.
Fill(s, c) ==
    LET snap == s.a[c].snap
        rest == s.a[c].todo \ snap.filled
        spent == {f \in rest : ~ MayReserve(s, f)}
        before == {f \in spent : \A g \in rest \ spent : f < g}
        t == Persist([s EXCEPT !.a[c].failed = @ \cup before, !.a[c].todo = rest \ before], snap)
        u == IF before = {} THEN s ELSE t
    IN  IF rest = {} THEN PhaseDone(s, c)
        ELSE IF ~ Current(s, c) THEN Done(s, c)
        ELSE IF OnPage(snap) = {} THEN Enter(Persist(s, snap), c, snap)
        ELSE IF before # {} /\ s.a[c].phase = "deterministic" THEN Throw(s, c)
        ELSE IF rest = before THEN PhaseDone(u, c)
        ELSE IF CanStart(u) THEN SendFill(u, c, "fill", Least(rest \ spent))
        ELSE Throw(u, c)
Onward(s, c) == Fill([s EXCEPT !.a[c].todo = @ \ {s.a[c].field}], c)

Resolved(s, c) ==
    LET A == s.a[c].todo
        dec == [f \in Fields |-> IF f \in A THEN Decision(s, f, s.a[c].phase) ELSE s.a[c].dec[f]]
        fillable == {f \in A : dec[f] = "verified"}
        t == [s EXCEPT !.a[c].dec = dec, !.a[c].todo = fillable]
    IN  IF ~ Current(s, c) THEN Done(s, c)
        ELSE IF fillable = {} THEN PhaseDone(t, c)
        ELSE IF Can(s, "READY_TO_FILL") THEN Fill(Send(t, "READY_TO_FILL"), c)
        ELSE IF s.m.state = "filling" THEN Fill(t, c)
        ELSE Throw(t, c)

FailField(s, c) ==
    Onward(Persist([s EXCEPT !.a[c].failed = @ \cup {s.a[c].field}], s.a[c].snap), c)
Defer(s, c) == FailField(RecordFailure(s, s.a[c].field, "defer"), c)
GiveUp(s, c) ==
    IF s.p.status = "paused" THEN Done(s, c)
    ELSE IF s.a[c].phase = "semantic" THEN FailField(s, c)
    ELSE Throw(s, c)
FinalMode(s, c) == IF s.a[c].phase = "semantic" THEN "defer" ELSE "pause"
\* publishDeferredFailure, when no second attempt may follow.
Unretried(s, c) ==
    LET t == [s EXCEPT !.m.retrying = FALSE, !.a[c].retry = FALSE]
    IN  GiveUp(IF FinalMode(s, c) = "pause" /\ s.p.last # None
               THEN Save([t EXCEPT !.p.status = "paused", !.p.stalled = s.p.last,
                                   !.p.recovery = {"retry_current", "manual_done"}])
               ELSE t, c)
\* The caller of a paused observation returns; a second attempt is given up.
Leave(s, c) == IF s.a[c].retry THEN Unretried(s, c) ELSE Done(s, c)
LeaveBy(s, c, e) ==
    IF Can(s, e) THEN Leave(Persist(Send(s, e), s.a[c].seen), c)
    ELSE IF s.a[c].retry THEN Unretried(s, c) ELSE Throw(s, c)
Challenged(s, c) == LeaveBy(s, c, "CHALLENGE_DETECTED")
Reviewed(s, c) ==
    IF s.m.state = "awaiting_adapter_review" THEN Leave(Persist(s, s.a[c].seen), c)
    ELSE LeaveBy(s, c, "ADAPTER_REVIEW_REQUIRED")

FillFails(s, c) ==
    IF s.a[c].pc = "fill" /\ s.a[c].tries < MaxAttempts
    THEN LET t == [FailOp(s, c, "defer") EXCEPT !.m.retrying = TRUE, !.a[c].retry = TRUE]
         IN  IF Live(t, c) THEN Invalidate(t, c, "retry") ELSE Unretried(t, c)
    ELSE GiveUp(FailOp(s, c, FinalMode(s, c)), c)
RetryObserved(s, c, snap) ==
    IF ~ Live(s, c) THEN Unretried(s, c)
    ELSE Prepare(s, c, snap,
             LAMBDA t : LET u == [t EXCEPT !.m.retrying = FALSE, !.a[c].retry = FALSE]
                            f == s.a[c].field
                        IN  IF snap # s.a[c].snap \/ f \in snap.filled THEN Unretried(t, c)
                            ELSE IF MayReserve(u, f) /\ CanStart(u) THEN SendFill(u, c, "fill", f)
                            ELSE GiveUp(u, c))

\* recordSuccessfulApply: the audits read a field again only if it has a hint.
Recorded(s, f) ==
    IF form[f].hinted THEN [s EXCEPT !.m.ledger = @ \cup {f}, !.m.since = @ + 1] ELSE s
Applied(s, c) ==
    LET f == s.a[c].field
        consumed == s.m.review = [field |-> f, status |-> "approved"]
        t == [Recorded(s, f) EXCEPT !.m.review = IF consumed THEN None ELSE @]
        u == Persist(t, t.a[c].snap)
    IN  IF t.m.since >= AuditInterval THEN Audit(u, c, "field", LAMBDA v : Onward(v, c))
        ELSE IF Current(u, c) THEN Onward(u, c) ELSE Done(u, c)
FillAnswered(s, c, snap, result) ==
    Answer(s, c, snap, result,
        LAMBDA t : LET u == Adopt(t, c)
                   IN  IF result = "applied" THEN Applied(u, c)
                       ELSE IF result = "unsafe" THEN PauseAfterFailure(u, c, result)
                       ELSE IF s.a[c].pc = "fill" THEN Invalidate(u, c, "reread")
                       ELSE Defer(u, c))
Reread(s, c, snap) ==
    IF ~ Current(s, c) THEN Done(s, c)
    ELSE Prepare(s, c, snap,
             LAMBDA t : IF SameStructure(snap, s.a[c].snap) /\ s.a[c].field \in Empty(snap)
                        THEN Go(t, c, "reresolve") ELSE Defer(t, c))
Reresolved(s, c) ==
    LET f == s.a[c].field
    IN  IF ~ Current(s, c) THEN Done(s, c)
        ELSE IF Decision(s, f, "semantic") # "verified" THEN Defer(s, c)
        ELSE IF MayReserve(s, f) /\ CanStart(s) THEN SendFill(s, c, "refill", f)
        ELSE GiveUp(s, c)

Audited(s, c, snap) ==
    Prepare(s, c, snap,
        LAMBDA t : LET u == [t EXCEPT !.m.since = 0, !.a[c].snap = snap, !.a[c].then = None]
                       v == Persist(u, snap)
                       then == s.a[c].then
                       failing == RecordFailure(t, Least(t.m.ledger \ snap.filled), "pause")
                   IN  IF ~ (t.m.ledger \subseteq snap.filled)
                       THEN Quarantine(failing, c, LAMBDA x : Done(Persist(x, snap), c))
                       ELSE IF ~ Current(v, c) THEN Done(v, c)
                       ELSE CASE then = "field" -> Onward(v, c)
                              [] then = "semantic" -> StartSemantic(v, c)
                              [] then = "finish" -> Finish(v, c)
                              [] then = "lock" -> Lock(v, c))

ClickAnswered(s, c, snap, result) ==
    LET before == s.a[c].snap
    IN  Answer(s, c, snap, result,
            LAMBDA t : LET u == Adopt(t, c)
                       IN  IF result # "applied" THEN PauseAfterFailure(u, c, result)
                           ELSE IF snap = before THEN Stops(u, c, "FAIL")
                           ELSE IF snap.stage = "review" THEN Lock(u, c)
                           ELSE Try(u, c, "PAGE_NAVIGATED",
                                    LAMBDA v : Enter(Persist(v, snap), c, snap)))

-----------------------------------------------------------------------------
(* Requests and activities.                                                *)

\* requireActor: a task of an earlier process goes on from its checkpoint.
Restored(s) ==
    IF s.m.state # "absent" \/ s.d.cp = None THEN s
    ELSE LET cp == s.d.cp
         IN  [s EXCEPT !.m.state = IF cp.state \in Working THEN "observing" ELSE cp.state,
                       !.m.recovering = IF cp.state \in Working THEN cp ELSE None,
                       !.m.snap = cp.snap, !.m.reached = @ \/ cp.snap.stage = "form",
                       !.m.review = cp.review, !.p = s.d.prog]
Refused(s, c) == Done(s, c)

RetryCurrent(s, c) ==
    IF "retry_current" \in s.p.recovery THEN Invalidate(s, c, "retryCurrent") ELSE Refused(s, c)
ManualDone(s, c) ==
    IF "manual_done" \in s.p.recovery THEN Invalidate(s, c, "manualDone") ELSE Refused(s, c)
ResumeWithProfile(s, c) ==
    IF s.m.state = "needs_questions" THEN Ask(s, c, "profile") ELSE Refused(s, c)
SyncFromProfile(s, c) ==
    IF s.m.state \in {"review_locked", "cancelled", "awaiting_login"} THEN Refused(s, c)
    ELSE IF s.m.state = "needs_questions" THEN ResumeWithProfile(s, c)
    ELSE RunFresh(IF s.m.state = "failed" THEN Send(s, "RECOVER") ELSE s, c)
AnswerQuestions(s, c) ==
    IF s.m.state = "needs_questions" /\ s.m.snap # NoPage
    THEN [Go(s, c, "answers") EXCEPT !.a[c].snap = s.m.snap] ELSE Refused(s, c)
ApproveReview(s, c) ==
    IF s.m.state = "awaiting_content_review" /\ s.m.review # None /\ s.m.snap # NoPage
    THEN [Go(s, c, "approval") EXCEPT !.a[c].snap = s.m.snap, !.a[c].field = s.m.review.field]
    ELSE Refused(s, c)
RejectReview(s, c) ==
    IF s.m.state = "awaiting_content_review" /\ s.m.review # None
    THEN LET t == [Send(s, "CONTENT_REJECTED") EXCEPT !.m.review = None]
         IN  Done(Persist(t, s.m.snap), c)
    ELSE Refused(s, c)
ResumeAfterChallenge(s, c) ==
    IF s.m.state = "awaiting_challenge" THEN Invalidate(s, c, "resumed") ELSE Refused(s, c)
ResumeAfterCertification(s, c) ==
    IF s.m.state = "awaiting_adapter_review" THEN Ask(s, c, "certified") ELSE Refused(s, c)
\* cancel: a new generation, the operation in progress rejected, the worker told.
Cancel(s, c) ==
    LET t == Rejected(NextGeneration(s))
        u == Save([t EXCEPT !.p.active = None, !.p.status = "idle", !.p.stalled = None,
                            !.p.recovery = {}, !.m.recovering = None])
    IN  Invalidate(u, c, "cancel")
\* resume restores a task that is not in memory itself, and not its progress.
Resume(s, c) ==
    IF s.m.state = "absent"
    THEN IF s.d.cp = None \/ s.d.cp.state = "awaiting_challenge" THEN Refused(s, c)
         ELSE Ask([s EXCEPT !.m.state = Restored(s).m.state, !.m.forgot = TRUE], c, "restored")
    ELSE IF s.m.recovering # None THEN Ask(s, c, "recovered")
    ELSE IF s.m.state = "awaiting_login" THEN Ask(s, c, "loggedIn")
    ELSE Refused(s, c)

NotYetReached(s) ==
    s.m.state = "observing" /\ s.m.snap \notin {NoPage} /\ ~ s.m.reached /\ s.m.snap.stage # "form"
Heard(s) == s.m.state # "awaiting_challenge"
Invalidated(s) == NextEpoch(NextGeneration(s))
UserActive(s, c, f) ==
    IF ~ Heard(s) \/ NotYetReached(s) THEN Done(s, c)
    ELSE Done(IF s.m.snap # NoPage THEN Pause(Invalidated(s), f) ELSE Invalidated(s), c)
Disconnected(s, c) == Done(IF Heard(s) THEN Pause(Invalidated(s), None) ELSE s, c)
Unstable(s, c) ==
    IF ~ Heard(s) \/ NotYetReached(s) \/ (s.p.active = None /\ ~ s.m.retrying) THEN Done(s, c)
    ELSE Done(Pause(Invalidated(s), None), c)
Stable(s, c) ==
    IF Heard(s) /\ s.m.stable = None THEN Ask([s EXCEPT !.m.stable = c], c, "stable")
    ELSE Done(s, c)

StableObserved(s, c, snap) ==
    LET login == s.m.state = "awaiting_login"
        field == s.p.stalled \in Empty(snap) \cup snap.filled
        readback == IF field THEN s.p.stalled \in snap.filled /\ ~ snap.errors
                    ELSE s.d.cp # None /\ SameStructure(snap, s.d.cp.snap)
        runs(t) == RunWith(Persist(t, snap), c, snap)
        goes(t) ==
            IF login
            THEN IF snap.stage = "login" THEN Done(Persist(t, snap), c)
                 ELSE runs(IF t.p.status = "paused" THEN Unpaused(t) ELSE t)
            ELSE IF ~ t.m.reached THEN runs(t)
            ELSE IF t.p.status = "paused" /\ "manual_done" \in t.p.recovery /\ readback
                 THEN runs(Unpaused(t))
            ELSE Done(t, c)
    IN  IF login /\ snap.stage # "login"
        THEN Prepare(Send(s, "RESUME"), c, snap, goes) ELSE Prepare(s, c, snap, goes)

\* The three ways of resume, by what is known of the task.
RestoredObserved(s, c, snap) ==
    LET cp == s.d.cp
        t == IF cp.state = "awaiting_login" /\ s.m.state = "awaiting_login" /\ snap.stage # "login"
             THEN Send(s, "RESUME") ELSE s
    IN  Prepare(t, c, snap,
            LAMBDA u : IF cp.state # "awaiting_login" /\ snap # cp.snap
                       THEN Throw([u EXCEPT !.m.state = "absent"], c)
                       ELSE LET v == IF cp.state = "awaiting_login" /\ u.m.state = "awaiting_login"
                                     THEN Send(u, "RESUME") ELSE u
                            IN  Done(Persist(v, snap), c))
RecoveredObserved(s, c, snap) ==
    Prepare(s, c, snap,
        LAMBDA t : LET u == [t EXCEPT !.m.recovering = None]
                   IN  IF snap.stage # "login" /\ t.m.recovering # None /\ snap # t.m.recovering.snap
                       THEN Throw([u EXCEPT !.m.state = "absent"], c)
                       ELSE IF snap.stage = "login"
                            THEN Try(u, c, "LOGIN_REQUIRED", LAMBDA v : Done(Persist(v, snap), c))
                       ELSE Done(Persist(u, snap), c))
LoginObserved(s, c, snap) ==
    LET goes(t) == Prepare(t, c, snap, LAMBDA u : Done(Persist(u, snap), c))
    IN  IF snap.stage = "login" THEN goes(s) ELSE Try(s, c, "RESUME", goes)
RetryCurrentObserved(s, c, snap) ==
    LET matches == s.p.last = Whole \/ (s.d.cp # None /\ SameStructure(snap, s.d.cp.snap))
    IN  Prepare(s, c, snap,
            LAMBDA t : IF matches /\ t.p.status = "paused" THEN RunWith(Unpaused(t), c, snap)
                       ELSE Throw(t, c))
ManualObserved(s, c, snap) ==
    Prepare(s, c, snap,
        LAMBDA t : IF t.p.stalled \notin snap.filled \/ snap.errors THEN Throw(t, c)
                   ELSE RunWith(IF t.p.status = "paused" THEN Unpaused(t) ELSE t, c, snap))
ProfileObserved(s, c, snap) ==
    Prepare(s, c, snap,
        LAMBDA t : Try(t, c, "PROFILE_UPDATED", LAMBDA u : RunWith(Persist(u, snap), c, snap)))

-----------------------------------------------------------------------------
(* Answers to calls.                                                       *)

Observed(s, c, snap) ==
    LET pc == calls[c].pc
    IN  CASE pc = "observe" -> Prepare(Complete(s, c), c, snap, LAMBDA t : AfterObserve(t, c))
          [] pc = "sectionObserve" -> SectionObserved(s, c, snap)
          [] pc = "retryObserve" -> RetryObserved(s, c, snap)
          [] pc = "reread" -> Reread(s, c, snap)
          [] pc = "audit" -> Audited(s, c, snap)
          [] pc = "stable" -> StableObserved(s, c, snap)
          [] pc = "restored" -> RestoredObserved(s, c, snap)
          [] pc = "recovered" -> RecoveredObserved(s, c, snap)
          [] pc = "loggedIn" -> LoginObserved(s, c, snap)
          [] pc = "retryCurrent" -> RetryCurrentObserved(s, c, snap)
          [] pc = "manualDone" -> ManualObserved(s, c, snap)
          [] pc = "profile" -> ProfileObserved(s, c, snap)
          [] pc = "certified" ->
                Prepare(s, c, snap, LAMBDA t : Invalidate(NextGeneration(t), c, "certified"))
          [] pc = "unchallenged" ->
                IF snap.challenge THEN Invalidate([s EXCEPT !.a[c].seen = snap], c, "challenge")
                ELSE Enter(s, c, snap)
          [] pc = "release" ->
                Try(s, c, "CANCEL",
                    LAMBDA t : Done(IF t.m.snap = NoPage THEN t ELSE Persist(t, t.m.snap), c))

Executed(s, c, snap, result) ==
    LET pc == calls[c].pc
    IN  CASE pc = "section" -> SectionAnswered(s, c, snap, result)
          [] pc = "upload" -> UploadAnswered(s, c, snap, result)
          [] pc \in {"fill", "refill"} -> FillAnswered(s, c, snap, result)
          [] pc = "click" -> ClickAnswered(s, c, snap, result)

\* A request to the worker that fails or is not answered in time.
Failed(s, c) ==
    LET pc == calls[c].pc
        t == FailOp(s, c, "pause")
    IN  CASE pc \in {"fill", "refill"} -> FillFails(s, c)
          [] pc = "retryObserve" -> Unretried(s, c)
          [] pc = "click" -> IF t.p.status = "paused" THEN Done(t, c) ELSE Throw(t, c)
          [] pc = "release" -> Observed(s, c, NoPage)
          [] OTHER -> Throw(t, c)

\* A call goes on after an invalidation, a lookup or a write of its own process.
Continued(s, c) ==
    LET pc == calls[c].pc
        then == calls[c].then
        snap == calls[c].seen
    IN  CASE pc = "resolve" -> Resolved(s, c)
          [] pc = "reresolve" -> Reresolved(s, c)
          [] pc = "prepare" -> Reviewed(s, c)
          [] pc = "answers" ->
                Try([s EXCEPT !.d.answered = Fields], c, "ANSWERS_PROVIDED",
                    LAMBDA t : EndsPersisted(t, c))
          [] pc = "approval" ->
                Try([s EXCEPT !.d.answered = @ \cup {s.a[c].field},
                              !.m.review = [field |-> s.a[c].field, status |-> "approved"]],
                    c, "CONTENT_APPROVED", LAMBDA t : EndsPersisted(t, c))
          [] pc = "invalidated" ->
               CASE then = "challenge" -> Challenged(s, c)
                 [] then = "unmapped" -> Go(NextGeneration(s), c, "prepare")
                 [] then = "retry" -> IF Live(s, c) THEN Ask(s, c, "retryObserve")
                                      ELSE Unretried(s, c)
                 [] then = "reread" -> IF Current(s, c) THEN Ask(s, c, "reread") ELSE Done(s, c)
                 [] then = "certified" ->
                       Try(s, c, "ADAPTER_CERTIFIED",
                           LAMBDA t : RunWith(Persist(t, snap), c, snap))
                 [] then = "resumed" ->
                       Try(s, c, "USER_RESUME_CHALLENGE", LAMBDA t : Ask(t, c, "unchallenged"))
                 [] then = "cancel" ->
                       [Go(s, c, "release") EXCEPT !.q = Append(@,
                           [by |-> c, op |-> "release", key |-> None, epoch |-> 0])]
                 [] then \in {"retryCurrent", "manualDone"} -> Ask(s, c, then)

-----------------------------------------------------------------------------
(* Actions.                                                                *)

Ops == {"run", "resume", "challenge", "certified", "answers", "approve", "reject", "profile",
        "sync", "cancel", "retry", "manual", "stable", "unstable", "disconnected", "user"}

Handler(s, c, op) ==
    CASE op = "run" -> RunFresh(s, c)
      [] op = "resume" -> Resume(s, c)
      [] op = "challenge" -> ResumeAfterChallenge(s, c)
      [] op = "certified" -> ResumeAfterCertification(s, c)
      [] op = "answers" -> AnswerQuestions(s, c)
      [] op = "approve" -> ApproveReview(s, c)
      [] op = "reject" -> RejectReview(s, c)
      [] op = "profile" -> ResumeWithProfile(s, c)
      [] op = "sync" -> SyncFromProfile(s, c)
      [] op = "cancel" -> Cancel(s, c)
      [] op = "retry" -> RetryCurrent(s, c)
      [] op = "manual" -> ManualDone(s, c)
      [] op = "stable" -> Stable(s, c)
      [] op = "unstable" -> Unstable(s, c)
      [] op = "disconnected" -> Disconnected(s, c)
      [] op = "user" -> UserActive(s, c, Least(Fields))

\* A task that no checkpoint tells of is not found.
Request(c, op) ==
    /\ calls[c] = Idle /\ left.ops > 0
    /\ mem.state # "absent" \/ disk.cp # None
    /\ LET s == IF op = "resume" THEN Now ELSE Restored(Now)
       IN  /\ Become(Handler([s EXCEPT !.a[c].op = op], c, op))
           /\ Handler([s EXCEPT !.a[c].op = op], c, op) # s
    /\ left' = [left EXCEPT !.ops = @ - 1]
    /\ UNCHANGED <<page, form>>

Head1 == queue[1]
Served == [Now EXCEPT !.q = Tail(queue)]
\* Nothing is written for an epoch that has been invalidated.
Admitted(r) == r.epoch >= worker

Observe ==
    /\ queue # <<>> /\ Head1.op = "observe"
    /\ Become(IF Head1.by = None THEN Served ELSE Observed(Served, Head1.by, page))
    /\ UNCHANGED <<page, form, left>>

Release ==
    /\ queue # <<>> /\ Head1.op = "release"
    /\ LET s == [Served EXCEPT !.w = 0]
       IN  Become(IF Head1.by = None THEN s ELSE Observed(s, Head1.by, NoPage))
    /\ UNCHANGED <<page, form, left>>

\* What a command that is carried out makes of the page.
Pages(r) ==
    IF r.op \in {"fill", "refill", "upload"} THEN {[page EXCEPT !.filled = @ \cup {r.key}]}
    ELSE IF r.op = "section" THEN {page, [page EXCEPT !.sections = FALSE]}
    ELSE {page, [page EXCEPT !.part = 2, !.filled = {}], [page EXCEPT !.stage = "review", !.filled = {}]}

Reply(r, p, result) ==
    /\ page' = p
    /\ LET s == [Served EXCEPT !.w = IF Admitted(r) THEN r.epoch ELSE @]
       IN  Become(IF r.by = None THEN s ELSE Executed(s, r.by, p, result))

Execute ==
    /\ queue # <<>> /\ Head1.op \in Commands /\ Admitted(Head1)
    /\ page.stage = "form"
    /\ \E p \in Pages(Head1) : Reply(Head1, p, "applied")
    /\ UNCHANGED <<form, left>>

\* The page is not what the command was made for, or the site refuses it.
Block ==
    /\ queue # <<>> /\ Head1.op \in Commands
    /\ \/ /\ ~ Admitted(Head1) \/ page.stage # "form"
          /\ Reply(Head1, page, "blocked")
          /\ UNCHANGED left
       \/ /\ Admitted(Head1) /\ left.faults > 0
          /\ \E result \in {"blocked", "unsafe", "regression"} : Reply(Head1, page, result)
          /\ left' = [left EXCEPT !.faults = @ - 1]
    /\ UNCHANGED form

\* A timeout leaves the request in the queue.
Fails(c, answered) ==
    /\ left.faults > 0
    /\ \E i \in DOMAIN queue :
        /\ queue[i].by = c
        /\ answered => i = 1
        /\ LET s == [Now EXCEPT !.q = IF answered THEN Tail(queue) ELSE Forget(queue, {c})]
           IN  Become(Failed(s, c))
    /\ left' = [left EXCEPT !.faults = @ - 1]
    /\ UNCHANGED <<page, form>>

Waits == {"invalidated", "prepare", "resolve", "reresolve", "answers", "approval"}
Continue(c) ==
    /\ calls[c].pc \in Waits
    /\ Become(Continued(Now, c))
    /\ UNCHANGED <<page, form, left>>

\* The user and the site, while nothing or anything is in progress.
Change ==
    /\ left.changes > 0
    /\ \/ page' = [page EXCEPT !.challenge = ~ @]
       \/ page.stage = "login" /\ page' = [page EXCEPT !.stage = "form"]
       \/ page.stage = "form" /\ page' = [page EXCEPT !.stage = "login", !.filled = {}]
       \/ \E f \in Empty(page) : page' = [page EXCEPT !.filled = @ \cup {f}]
       \/ \E f \in page.filled : page' = [page EXCEPT !.filled = @ \ {f}]
       \/ page.stage = "form" /\ page' = [page EXCEPT !.errors = ~ @]
    /\ left' = [left EXCEPT !.changes = @ - 1]
    /\ UNCHANGED <<mem, prog, disk, queue, calls, worker, form, sent>>

\* The certified pack stops matching the form, or a new one is certified.
Certify ==
    /\ left.changes > 0
    /\ disk' = [disk EXCEPT !.certified = ~ @]
    /\ left' = [left EXCEPT !.changes = @ - 1]
    /\ UNCHANGED <<mem, prog, queue, calls, page, worker, form, sent>>

Restart ==
    /\ left.faults > 0
    /\ mem' = [Started EXCEPT !.state = "absent", !.forgot = mem.forgot]
    /\ prog' = NoProgress /\ queue' = <<>> /\ worker' = 0
    /\ calls' = [c \in Calls |-> Idle]
    /\ left' = [left EXCEPT !.faults = @ - 1]
    /\ UNCHANGED <<disk, page, form, sent>>

Next ==
    \/ \E c \in Calls, op \in Ops : Request(c, op)
    \/ \E c \in Calls, answered \in BOOLEAN : Fails(c, answered)
    \/ \E c \in Calls : Continue(c)
    \/ Observe \/ Release \/ Execute \/ Block \/ Change \/ Certify \/ Restart

Spec == Init /\ [][Next]_vars

-----------------------------------------------------------------------------
\* Properties.

\* The values the variables take; who is in progress has not returned.
TypeOK ==
    /\ mem.state \in Working \cup {"absent", "awaiting_login", "needs_questions", "failed",
           "awaiting_content_review", "awaiting_challenge", "awaiting_adapter_review",
           "review_locked", "cancelled"}
    /\ prog.status \in {"idle", "running", "paused"}
    /\ prog.active # None => calls[prog.active.by].pc # "idle"
    /\ mem.run # None => calls[mem.run] # Idle
    /\ prog.attempts \in [Keys -> 0..MaxAttempts]
    /\ \A i \in DOMAIN queue : queue[i].by # None => calls[queue[i].by] # Idle

\* The limit of automatic attempts holds per operation over the whole life of the
\* task, failed, repeated and timed out attempts and restarts included (the
\* reservation is stored before the command is sent), except where resume has
\* brought the task into a new process without its stored progress.
AttemptsBounded == mem.forgot \/ \A k \in Keys : sent[k] <= MaxAttempts

\* When the worker has nothing to do and no call waits for anything else, every
\* call has returned: those that joined a run ended with it, and nothing stays
\* marked as in progress that would make later activities ignore the task.
CallsReturn ==
    queue = <<>> /\ (\A c \in Calls : calls[c].pc \notin Waits)
        => /\ \A c \in Calls : calls[c] = Idle
           /\ mem.run = None /\ mem.stable = None /\ ~ mem.retrying /\ prog.active = None

Consistent == TypeOK /\ AttemptsBounded /\ CallsReturn

\* What a step adds to the worker's queue.
SentNow == {i \in DOMAIN queue' : queue'[i].op \in Commands /\ queue'[i].epoch > mem.epoch}

\* A command is only sent by the newest run, as the task's operation in progress,
\* and never for a task that is cancelled, locked for the user's review or waits
\* for a challenge or an adapter, whatever the run awaited in between.
SendsAreLive ==
    [][\A i \in SentNow :
        LET c == queue'[i].by
        IN  /\ mem'.state \notin {"cancelled", "review_locked", "awaiting_challenge",
                                  "awaiting_adapter_review"}
            /\ calls'[c].gen = mem'.gen
            /\ prog'.active # None /\ prog'.active.by = c /\ prog'.status = "running"]_vars
=============================================================================
