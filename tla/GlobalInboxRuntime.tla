------------------------- MODULE GlobalInboxRuntime -------------------------
(***************************************************************************)
(* The serial provider boundary of one Agent: agent/global_inbox_runtime.py *)
(* with its admission, cover-reconciliation and autonomous-turn traits, on  *)
(* top of the durable InboxStore.                                           *)
(*                                                                          *)
(* The run loop, provider callbacks, MCP reads, busy notices and message    *)
(* arrivals are asyncio tasks of one process; they interleave at awaits.    *)
(* An action is one awaited store transaction with the synchronous code     *)
(* that follows it.  The process may crash between two transactions, and    *)
(* between a transaction and the write of current_turn.json after it.       *)
(*                                                                          *)
(* The turn_recovery.json operator gate, the degraded and drained holds     *)
(* (they only delay an armed wake) and the wire formats are not modelled.   *)
(***************************************************************************)
EXTENDS InboxStore

CONSTANTS
    Humans,         \* the messages not affirmatively sent by an agent or system
    Renotice,       \* covers_renotice_enabled
    Profiles,       \* the agents considered: what the adapter can do ("rollover",
                    \* "autonomous", "busy_notice"), what its model uses ("page",
                    \* "history", "held", "cover"), max_api_retries, reads in
                    \* flight at once, and store faults a settlement may meet
    CrashInSettle   \* whether a crash may separate a settlement's two transactions

ASSUME RuntimeAssumption ==
    /\ Humans \subseteq Msgs
    /\ Renotice \in BOOLEAN /\ CrashInSettle \in BOOLEAN
    /\ Profiles \subseteq [can : SUBSET {"rollover", "autonomous", "busy_notice"},
                            tools : SUBSET {"page", "history", "held", "cover"},
                            retries : Nat, reads : Nat, faults : Nat]

VARIABLES
    prof,      \* the profile of this agent
    loop,      \* where run() and process_once() are
    plan,      \* the PlannedTurn: the notice generation and the announced ids
    active,    \* ActiveTurn: turn, admitted ids, announced ids, session, attempt
    stage,     \* the settlement of the active turn, under _turn_state_lock
    verdict,   \* the outcome that settlement records
    snap,      \* the uncovered rows _reconcile_uncovered_messages returned
    auto,      \* _autonomous_turn_id
    autoEvent, \* the announced autonomous start: being handled, or deferred
    owed,      \* _autonomous_settle_pending
    armed,     \* the coalescer holds a deadline; a second one would only add a wake
    arrived,   \* a receipt is committed and its notify() has not run yet
    reads,     \* MCP reads between their page and their admission
    publish,   \* a held admission between its transaction and its publication
    busy,      \* a busy notice between its plan and its delivery record
    deferRec,  \* _defer_requeued_recovery
    mending,   \* the session of the run that recovery has just requeued
    faults,
    session,   \* adapter.get_provider_session_id()
    opened,    \* the native sessions the provider has ever opened
    provider,  \* the run the RuntimeManager has in flight
    file,      \* current_turn.json
    toldBy     \* history: the turn whose notice announced the row

settleVars == <<stage, verdict, snap>>
autoVars == <<auto, autoEvent, owed>>
wakeVars == <<armed, arrived>>
taskVars == <<reads, publish, busy>>
recoveryVars == <<deferRec, mending>>
providerVars == <<session, opened, provider>>
runtimeVars == <<storeVars, prof, loop, plan, active, settleVars, autoVars, wakeVars, taskVars,
                 recoveryVars, providerVars, faults, file, toldBy>>

NoPlan == [g |-> 0, ids |-> {}]

\* An ActiveTurn in its first attempt; bound says whether the provider owns it.
Fresh(t, ids, notice, s, bound) ==
    [turn |-> t, ids |-> ids, notice |-> notice, sess |-> s, try |-> 0, bound |-> bound]
NoActive == Fresh(None, {}, {}, None, FALSE)
NoFile == [turn |-> None, ids |-> {}]
NoBusy == [turn |-> None, sess |-> None, g |-> 0, ids |-> {}]
NoPublish == [turn |-> None, sess |-> None]

Loops == {"down", "recover", "unwinding", "resumed", "orphans", "orphan_release",
          "idle", "woken", "planned", "starting", "running", "wrapup"}
Stages == {"none", "settle", "reconciled", "release", "close"}

RuntimeTypeOK ==
    /\ prof \in Profiles
    /\ loop \in Loops /\ stage \in Stages /\ verdict \in {"ok", "failed", "cancelled"}
    /\ plan \in [g : Nat, ids : SUBSET Msgs]
    /\ active \in [turn : Turns \cup {None}, ids : SUBSET Msgs, notice : SUBSET Msgs,
                   sess : Sessions \cup {None}, try : 0..prof.retries, bound : BOOLEAN]
    /\ snap \in SUBSET Msgs
    /\ auto \in Turns \cup {None} /\ autoEvent \in {"none", "handling", "deferred"}
    /\ owed \in BOOLEAN /\ armed \in BOOLEAN /\ arrived \in BOOLEAN /\ deferRec \in BOOLEAN
    /\ reads \subseteq [kind : {"page", "history", "held", "firing"}, turn : Turns,
                        sess : Sessions \cup {None}, try : 0..prof.retries, bound : BOOLEAN,
                        ids : SUBSET Msgs]
    /\ publish \in [turn : Turns \cup {None}, sess : Sessions \cup {None}]
    /\ busy \in [turn : Turns \cup {None}, sess : Sessions \cup {None},
                 g : Nat, ids : SUBSET Msgs]
    /\ mending \in Sessions \cup {None} /\ session \in Sessions \cup {None}
    /\ opened \in SUBSET Sessions /\ faults \in 0..prof.faults
    /\ provider \in {"none", "daemon", "auto"}
    /\ file \in [turn : Turns \cup {None}, ids : SUBSET Msgs]
    /\ toldBy \in [Msgs -> Turns \cup {None}]

RuntimeInit ==
    /\ StoreInit /\ prof \in Profiles
    /\ loop = "down" /\ stage = "none" /\ verdict = "ok" /\ snap = {}
    /\ plan = NoPlan /\ active = NoActive
    /\ auto = None /\ autoEvent = "none" /\ owed = FALSE
    /\ armed = FALSE /\ arrived = FALSE
    /\ reads = {} /\ publish = NoPublish /\ busy = NoBusy
    /\ deferRec = FALSE /\ mending = None /\ faults = 0
    /\ session \in Sessions \cup {None} /\ opened = {session} \ {None}
    /\ provider = "none"
    /\ file = NoFile /\ toldBy = [m \in Msgs |-> None]

-----------------------------------------------------------------------------
\* The lock, the crash and the crash-join file.

\* The provider's admission is between transfer_turn_session and its record.
Binding == /\ provider = "daemon" /\ active.turn # None
           /\ ~active.bound /\ tsess[active.turn] # active.sess

\* _turn_state_lock is free.  An autonomous settlement keeps it to the end; a
\* daemon turn's settlement gives it back before it clears the active turn.
LockFree == /\ ~Binding
            /\ stage = "none" \/ (stage = "close" /\ auto # active.turn)

\* asyncio locks are first come, first served: a notice about to start is next.
LockForTask == LockFree /\ loop # "starting"

\* The active turn is the adopted one.
Autonomous == auto # None /\ auto = active.turn

\* The run in flight is the active turn's own, not one announced since.
OwnRun == IF Autonomous THEN provider = "auto" /\ autoEvent = "none" ELSE provider = "daemon"

\* No continuation callback of a held send is running: it keeps the manager's
\* _command_lock, which starting a run, consuming an announcement or a terminal
\* event and replacing the session need.
HeldIdle == publish = NoPublish /\ \A r \in reads : r.kind # "firing"

\* Everything volatile is gone.  The worker comes back with the provider session
\* it persisted, or with none.
Forget ==
    /\ loop' = "down" /\ stage' = "none" /\ verdict' = "ok" /\ snap' = {}
    /\ plan' = NoPlan /\ active' = NoActive
    /\ auto' = None /\ autoEvent' = "none" /\ owed' = FALSE
    /\ armed' = FALSE /\ arrived' = FALSE
    /\ reads' = {} /\ publish' = NoPublish /\ busy' = NoBusy
    /\ deferRec' = FALSE /\ mending' = None
    /\ session' \in {session, None} /\ provider' = "none"
    /\ UNCHANGED <<faults, opened>>

\* _write_current_turn: the exact active union, or nothing when the process dies
\* between the transaction and the rename.
FileOf(a) == [turn |-> a.turn, ids |-> a.ids]

\* The rows this transaction newly announced were announced by turn t.
Announce(t) ==
    toldBy' = [m \in Msgs |-> IF contrib'[m] # None /\ contrib'[m] # contrib[m]
                              THEN t ELSE toldBy[m]]

Crash ==
    /\ loop # "down"
    /\ (stage = "release" \/ loop \in {"unwinding", "orphan_release"}) => CrashInSettle
    /\ Forget
    /\ UNCHANGED <<storeVars, file, toldBy>>

-----------------------------------------------------------------------------
\* Arrivals and covers, from the transport and from MCP calls.

\* A committed eligible receipt; its notify() runs at a later await.
Arrive(m) ==
    /\ loop # "down" /\ ~arrived
    /\ InsertReceipt(m, "eligible")
    /\ arrived' = TRUE
    /\ UNCHANGED <<loop, plan, active, settleVars, autoVars, armed, taskVars, recoveryVars,
                   providerVars, faults, file, toldBy>>

\* notify
Notify ==
    /\ arrived /\ arrived' = FALSE /\ armed' = TRUE
    /\ UNCHANGED <<storeVars, loop, plan, active, settleVars, autoVars, taskVars,
                   recoveryVars, providerVars, faults, file, toldBy>>

\* mark_covered, and the covers of sends and reminders: they need no active turn.
MarkCovered(m) ==
    /\ "cover" \in prof.tools
    /\ loop # "down" /\ m \notin covered
    /\ AddMessageCovers({m})
    /\ UNCHANGED <<loop, plan, active, settleVars, autoVars, wakeVars, taskVars,
                   recoveryVars, providerVars, faults, file, toldBy>>

-----------------------------------------------------------------------------
\* process_once, up to the start of a notice turn.

\* wait_for_burst takes the deadline.
Wake ==
    /\ loop = "idle" /\ armed
    /\ loop' = "woken" /\ armed' = FALSE
    /\ UNCHANGED <<storeVars, plan, active, settleVars, autoVars, arrived, taskVars,
                   recoveryVars, providerVars, faults, file, toldBy>>

\* finish_autonomous_turn, retried from the phase the store reached.
RetrySettle ==
    /\ loop = "woken" /\ owed /\ LockFree
    /\ owed' = FALSE
    /\ stage' = IF tstate[auto] = "in_turn" THEN "settle" ELSE "release"
    /\ UNCHANGED <<storeVars, loop, plan, active, verdict, snap, auto, autoEvent, wakeVars,
                   taskVars, recoveryVars, providerVars, faults, file, toldBy>>

\* _replay_deferred_autonomous_start, on a wake and after a turn.
ReplayDeferred ==
    /\ loop \in {"woken", "wrapup"}
    /\ autoEvent = "deferred" /\ active.turn = None
    /\ autoEvent' = "handling"
    /\ UNCHANGED <<storeVars, loop, plan, active, settleVars, auto, owed, wakeVars, taskVars,
                   recoveryVars, providerVars, faults, file, toldBy>>

Replayed == autoEvent = "none" \/ (autoEvent = "deferred" /\ active.turn # None)

\* The autonomous run keeps the boundary; its terminal notifies.
QueueBehindAutonomous ==
    /\ loop = "woken" /\ ~owed /\ Replayed
    /\ auto # None /\ stage = "none"
    /\ loop' = "idle"
    /\ UNCHANGED <<storeVars, plan, active, settleVars, autoVars, wakeVars, taskVars,
                   recoveryVars, providerVars, faults, file, toldBy>>

\* plan_pending: the notice snapshot of the adapter's session.  A settling
\* autonomous turn has already given up _autonomous_turn_id.
PlanPending ==
    LET candidates == NoticeCandidates(session)
    IN  /\ loop = "woken" /\ ~owed /\ Replayed
        /\ auto = None \/ stage # "none"
        /\ loop' = IF candidates = {} THEN "idle" ELSE "planned"
        /\ plan' = IF candidates = {} THEN NoPlan ELSE [g |-> generation, ids |-> candidates]
        /\ UNCHANGED <<storeVars, active, settleVars, autoVars, wakeVars, taskVars,
                       recoveryVars, providerVars, faults, file, toldBy>>

\* _resolve_context_plan, REPLAN: compaction rebuilt the notice.
ContextReplan ==
    LET candidates == NoticeCandidates(session)
    IN  /\ loop = "planned" /\ candidates # {}
        /\ plan' = [g |-> generation, ids |-> candidates]
        /\ UNCHANGED <<storeVars, loop, active, settleVars, autoVars, wakeVars, taskVars,
                       recoveryVars, providerVars, faults, file, toldBy>>

\* ROLLOVER: rollover_native_session opens a fresh session between turns, and
\* the plan made for the old one is kept.
ContextRollover(s) ==
    /\ "rollover" \in prof.can
    /\ loop = "planned" /\ provider = "none" /\ session # None /\ HeldIdle
    /\ s \notin opened
    /\ session' = s /\ opened' = opened \cup {s}
    /\ active' = [active EXCEPT !.sess = s]
    /\ UNCHANGED <<storeVars, loop, plan, settleVars, autoVars, wakeVars, taskVars,
                   recoveryVars, provider, faults, file, toldBy>>

\* SHRINK of a notice, DEGRADED, or an exhausted budget: _degrade re-arms.
ContextRefuses ==
    /\ loop = "planned"
    /\ loop' = "idle" /\ plan' = NoPlan /\ armed' = TRUE
    /\ UNCHANGED <<storeVars, active, settleVars, autoVars, arrived, taskVars, recoveryVars,
                   providerVars, faults, file, toldBy>>

\* _notice_is_current
NoticeIsCurrent == NoticeCandidates(session) \cap plan.ids # {}

CheckNotice ==
    /\ loop = "planned"
    /\ loop' = IF NoticeIsCurrent THEN "starting" ELSE "idle"
    /\ plan' = IF NoticeIsCurrent THEN plan ELSE NoPlan
    /\ UNCHANGED <<storeVars, active, settleVars, autoVars, wakeVars, taskVars, recoveryVars,
                   providerVars, faults, file, toldBy>>

\* _start_notice_unless_autonomous re-checks, under the lock, that no adoption won.
StartAnyway == TRUE
NotAutonomous == auto = None

NoticeLost ==
    /\ loop = "starting" /\ LockFree /\ ~NotAutonomous
    /\ loop' = "idle" /\ plan' = NoPlan
    /\ UNCHANGED <<storeVars, active, settleVars, autoVars, wakeVars, taskVars, recoveryVars,
                   providerVars, faults, file, toldBy>>

\* _start_local_turn: the durable turn and its notice claim, then the active
\* turn and the crash join.
StartLocalTurn(t) ==
    /\ loop = "starting" /\ LockFree /\ NotAutonomous
    /\ StartTurn(t, session, plan.g, plan.ids)
    /\ Announce(t)
    /\ \/ /\ active' = Fresh(t, {}, plan.ids, session, FALSE)
          /\ file' = FileOf(active')
          /\ loop' = "running"
          /\ UNCHANGED <<plan, settleVars, autoVars, wakeVars, taskVars, recoveryVars,
                         providerVars, faults>>
       \/ Forget /\ UNCHANGED file

\* The claim found nothing left to announce: LifecycleConflict leaves run(), and
\* the worker restarts it.
StartConflict ==
    /\ loop = "starting" /\ LockFree /\ NotAutonomous
    /\ session # None /\ ~NewlyContributed(session, plan.ids)
    /\ Forget
    /\ UNCHANGED <<storeVars, file, toldBy>>

-----------------------------------------------------------------------------
\* The provider's side of a turn.

InTurn == loop \in {"running", "resumed"} /\ stage = "none"

\* The manager starts the run, in the session it has, or in a fresh one.
ProviderAccepts(s) ==
    /\ InTurn /\ provider = "none" /\ ~active.bound /\ HeldIdle
    /\ s = session \/ (s # None /\ s \notin opened)
    /\ provider' = "daemon" /\ session' = s /\ opened' = opened \cup ({s} \ {None})
    /\ UNCHANGED <<storeVars, loop, plan, active, settleVars, autoVars, wakeVars, taskVars,
                   recoveryVars, faults, file, toldBy>>

\* _admit and _admit_retry_attempt: durable ownership follows the session ...
BindTransfer ==
    /\ InTurn /\ provider = "daemon" /\ ~active.bound /\ ~Binding
    /\ session # active.sess
    /\ TransferTurnSession(active.turn, active.sess, session)
    /\ UNCHANGED <<loop, plan, active, settleVars, autoVars, wakeVars, taskVars,
                   recoveryVars, providerVars, faults, file, toldBy>>

\* ... then the notice is recorded under it, for an attempt that carries one.
BoundNotice ==
    IF loop = "running" /\ (active.try = 0 \/ active.ids = {}) THEN plan.ids ELSE {}

BindNotice ==
    /\ InTurn /\ provider = "daemon" /\ ~active.bound
    /\ tsess[active.turn] = session
    /\ IF session # None /\ BoundNotice \cap Pending # {}
       THEN MarkNoticeDelivered(plan.g, session, BoundNotice, active.turn)
       ELSE UNCHANGED storeVars
    /\ Announce(active.turn)
    /\ \/ /\ active' = [active EXCEPT !.sess = session, !.bound = TRUE]
          /\ file' = FileOf(active')
          /\ UNCHANGED <<loop, plan, settleVars, autoVars, wakeVars, taskVars, recoveryVars,
                         providerVars, faults>>
       \/ Forget /\ UNCHANGED file

\* get_in_turn_messages
InTurnRows(t, s) ==
    IF s # None /\ tstate[t] = "in_turn" /\ tsess[t] = s
    THEN {m \in members[t] : pst[m] = "in_turn" /\ turnOf[m] = t}
    ELSE {}

\* The max_api_retries budget.
RetriesLeft == active.try < prof.retries

\* An API error within the budget.  A retry of admitted rows rebuilds them from
\* the store and goes on only when they are the active union.
RetryAttempt ==
    /\ InTurn /\ provider = "daemon" /\ active.bound /\ RetriesLeft /\ HeldIdle
    /\ \/ loop = "resumed"
       \/ active.ids = {}
       \/ InTurnRows(active.turn, active.sess) = active.ids
    /\ provider' = "none"
    /\ active' = [active EXCEPT !.try = @ + 1, !.bound = FALSE]
    /\ UNCHANGED <<storeVars, loop, plan, settleVars, autoVars, wakeVars, taskVars,
                   recoveryVars, session, opened, faults, file, toldBy>>

TurnSucceeds ==
    /\ InTurn /\ ~Binding /\ provider = "daemon" /\ HeldIdle
    /\ provider' = "none" /\ stage' = "settle" /\ verdict' = "ok"
    /\ UNCHANGED <<storeVars, loop, plan, active, snap, autoVars, wakeVars, taskVars,
                   recoveryVars, session, opened, faults, file, toldBy>>

\* A provider error, a refused start behind an autonomous run, a timeout, or the
\* cancellation of the runtime task; the last two wait for no callback.
TurnFails(v) ==
    /\ InTurn /\ ~Binding /\ v \in {"failed", "cancelled"}
    /\ provider' = IF provider = "daemon" THEN "none" ELSE provider
    /\ stage' = "settle" /\ verdict' = v
    /\ UNCHANGED <<storeVars, loop, plan, active, snap, autoVars, wakeVars, taskVars,
                   recoveryVars, session, opened, faults, file, toldBy>>

-----------------------------------------------------------------------------
\* Admission: the only way a pending row enters the active turn.

\* A read in flight remembers the turn, session and provider turn that asked.
StageRead(kind, ids) ==
    /\ kind \in prof.tools
    /\ active.turn # None /\ provider # "none" /\ Cardinality(reads) < prof.reads
    /\ ids # {} /\ ids \subseteq VisiblePending
    /\ reads' = reads \cup {[kind |-> kind, turn |-> active.turn, sess |-> active.sess,
                             try |-> active.try, bound |-> active.bound, ids |-> ids]}
    /\ UNCHANGED <<storeVars, loop, plan, active, settleVars, autoVars, wakeVars, publish,
                   busy, recoveryVars, providerVars, faults, file, toldBy>>

\* read_inbox selected a page.
ReadInbox(ids) == StageRead("page", ids)

\* stage_model_visible_read registered a history window that shows pending rows.
StageVisibleRead(ids) == active.sess # None /\ StageRead("history", ids)

\* stage_held_send_result disclosed the context of a held send.
StageHeldSend(ids) == active.bound /\ active.sess # None /\ StageRead("held", ids)

\* The re-check that the turn is still the one that asked.  A page read before the
\* provider turn was known accepts any, and so does a history window; a held
\* admission never does.
AnyTurn(r) == active.turn # None
SameTurn(r) ==
    /\ active.turn = r.turn
    /\ r.sess # None => active.sess = r.sess
    /\ r.bound /\ r.kind = "page" => active.bound /\ active.try = r.try

SameProviderTurn(r) ==
    /\ active.turn = r.turn /\ active.sess = r.sess
    /\ active.bound /\ active.try = r.try

\* Both admissions run under the lock; then the active union and its crash join
\* are the durable members.
Admit(r, ids) ==
    /\ LockForTask /\ SameTurn(r)
    /\ AdmitMessages(ids, active.turn, active.sess)
    /\ UNCHANGED toldBy
    /\ \/ /\ active' = [active EXCEPT !.ids = members'[active.turn]]
          /\ file' = FileOf(active')
          /\ reads' = reads \ {r}
          /\ UNCHANGED <<loop, plan, settleVars, autoVars, wakeVars, publish, busy,
                         recoveryVars, providerVars, faults>>
       \/ Forget /\ UNCHANGED file

\* _admit_inbox_page: the page must still be pending as a whole.
AdmitInboxPage(r) == r \in reads /\ r.kind = "page" /\ Admit(r, r.ids)

\* _admit_visible_read: what the window shows and is still pending.
AdmitVisibleRead(r) ==
    r \in reads /\ r.kind = "history" /\ Admit(r, r.ids \cap VisiblePending)

\* _admit_held_recovery does not take _turn_state_lock: it validates the turn when
\* the run that asked completes the tool call, admits in a later transaction, and
\* reads the durable union back in another.
FireHeld(r) ==
    /\ r \in reads /\ r.kind = "held" /\ HeldIdle
    /\ OwnRun /\ SameProviderTurn(r)
    /\ reads' = (reads \ {r}) \cup {[r EXCEPT !.kind = "firing"]}
    /\ UNCHANGED <<storeVars, loop, plan, active, settleVars, autoVars, wakeVars, publish,
                   busy, recoveryVars, providerVars, faults, file, toldBy>>

AdmitHeld(r) ==
    /\ r \in reads /\ r.kind = "firing"
    /\ AdmitMessages(r.ids \cap Pending, r.turn, r.sess)
    /\ reads' = reads \ {r}
    /\ publish' = [turn |-> r.turn, sess |-> r.sess]
    /\ UNCHANGED <<loop, plan, active, settleVars, autoVars, wakeVars, busy, recoveryVars,
                   providerVars, faults, file, toldBy>>

\* The union is read from the store, never grown from the one in memory.
RememberedUnion == active.ids
DurableUnion == InTurnRows(publish.turn, publish.sess)

PublishHeld ==
    /\ publish # NoPublish
    /\ active' = [active EXCEPT !.ids = DurableUnion]
    /\ file' = FileOf(active')
    /\ publish' = NoPublish
    /\ UNCHANGED <<storeVars, loop, plan, settleVars, autoVars, wakeVars, reads, busy,
                   recoveryVars, providerVars, faults, toldBy>>

\* The read is refused: the turn moved on, or the rows did.
RefuseRead(r) ==
    /\ r \in reads
    /\ \/ r.kind \in {"page", "history"} /\ ~SameTurn(r)
       \/ r.kind = "held" /\ ~SameProviderTurn(r)
       \/ ~Admissible(IF r.kind = "page" THEN r.ids ELSE r.ids \cap VisiblePending)
       \/ tstate[r.turn] # "in_turn"
    /\ reads' = reads \ {r}
    /\ UNCHANGED <<storeVars, loop, plan, active, settleVars, autoVars, wakeVars, publish,
                   busy, recoveryVars, providerVars, faults, file, toldBy>>

\* offer_busy_notice: plan for the active session ...
PlanBusyNotice ==
    LET candidates == NoticeCandidates(active.sess)
    IN  /\ "busy_notice" \in prof.can
        /\ busy = NoBusy /\ active.bound /\ active.sess # None /\ provider # "none"
        /\ candidates # {}
        /\ busy' = [turn |-> active.turn, sess |-> active.sess, g |-> generation,
                    ids |-> candidates]
        /\ UNCHANGED <<storeVars, loop, plan, active, settleVars, autoVars, wakeVars, reads,
                       publish, recoveryVars, providerVars, faults, file, toldBy>>

\* ... and record what the provider accepted, if the turn is still durable.
RecordBusyNotice ==
    /\ busy # NoBusy
    /\ MarkNoticeDelivered(busy.g, busy.sess, busy.ids, busy.turn)
    /\ Announce(busy.turn)
    /\ active' = IF active.turn = busy.turn /\ active.sess = busy.sess /\ active.bound
                    /\ NewlyContributed(busy.sess, busy.ids)
                 THEN [active EXCEPT !.notice = @ \cup busy.ids] ELSE active
    /\ busy' = NoBusy
    /\ UNCHANGED <<loop, plan, settleVars, autoVars, wakeVars, reads, publish, recoveryVars,
                   providerVars, faults, file>>

\* The provider declined it, or the record conflicted.
DropBusyNotice ==
    /\ busy # NoBusy /\ busy' = NoBusy
    /\ UNCHANGED <<storeVars, loop, plan, active, settleVars, autoVars, wakeVars, reads,
                   publish, recoveryVars, providerVars, faults, file, toldBy>>

-----------------------------------------------------------------------------
\* Settlement of the active turn, under _turn_state_lock.

\* _reconcile_uncovered_messages: rows still holding their one-shot bound that
\* nobody covered.  A union that drifted from the store is not partitioned.
UncoveredAll(rows) == {m \in rows : m \in Humans /\ m \notin covered}
Uncovered(rows) == {m \in rows : m \in Humans /\ m \notin covered /\ ~renotified[m]}

Reconcile ==
    LET rows == InTurnRows(active.turn, active.sess)
    IN  /\ stage = "settle" /\ verdict = "ok" /\ active.ids # {}
        /\ snap' = IF Renotice /\ rows = active.ids THEN Uncovered(rows) ELSE {}
        /\ stage' = "reconciled"
        /\ UNCHANGED <<storeVars, loop, plan, active, verdict, autoVars, wakeVars, taskVars,
                       recoveryVars, providerVars, faults, file, toldBy>>

\* _finalize_active_messages: mark_processed or complete_turn_with_renotice.
FinalizeMessages ==
    /\ stage = "reconciled" /\ active.ids = members[active.turn]
    /\ IF snap = {} THEN MarkProcessed(active.turn, active.sess)
                    ELSE CompleteTurnWithRenotice(snap, active.turn, active.sess)
    /\ stage' = "release" /\ snap' = {}
    /\ UNCHANGED <<loop, plan, active, verdict, autoVars, wakeVars, taskVars, recoveryVars,
                   providerVars, faults, file, toldBy>>

\* Reconciliation itself failed: the store partitions the turn durably.
FinalizeFallback ==
    /\ stage = "settle" /\ verdict = "ok" /\ active.ids # {}
    /\ Renotice /\ faults < prof.faults /\ faults' = faults + 1
    /\ CompleteTurnRenoticeUnrenotified(active.turn, active.sess)
    /\ stage' = "release"
    /\ UNCHANGED <<loop, plan, active, verdict, snap, autoVars, wakeVars, taskVars,
                   recoveryVars, providerVars, file, toldBy>>

\* The provider received the notice and read nothing: its claim stands.
FinalizeEmpty ==
    /\ stage = "settle" /\ verdict = "ok" /\ active.ids = {}
    /\ FinalizeEmptyTurn(active.turn, "processed")
    /\ stage' = "close"
    /\ UNCHANGED <<loop, plan, active, verdict, snap, autoVars, wakeVars, taskVars,
                   recoveryVars, providerVars, faults, file, toldBy>>

\* _requeue_active_turn
RequeueActiveTurn ==
    /\ stage = "settle" /\ verdict # "ok"
    /\ IF active.ids = {} THEN FinalizeEmptyTurn(active.turn, "requeued")
                          ELSE RequeueMessages(active.ids, active.turn)
    /\ stage' = "release"
    /\ UNCHANGED <<loop, plan, active, verdict, snap, autoVars, wakeVars, taskVars,
                   recoveryVars, providerVars, faults, file, toldBy>>

\* release_notice_delivery, a no-op when there is nothing to release.
Released(s, ids) ==
    IF s # None /\ lastSess = s /\ ids \cap ContributedIn(contrib, s) # {}
    THEN ReleaseNoticeDelivery(s, ids)
    ELSE UNCHANGED storeVars

\* What a settlement releases: the turn's own announcements, or everything the
\* session was told when the turn was resumed from a crash.
ReleaseNothing == {}
ReleaseScope == IF loop = "resumed" THEN Msgs ELSE active.notice
ReleaseSession == IF loop = "resumed" /\ verdict = "failed" THEN mending ELSE active.sess

\* The release; a failed daemon turn then degrades, which arms a wake.
ReleaseEvidence ==
    /\ stage = "release"
    /\ Released(ReleaseSession, ReleaseScope)
    /\ stage' = "close"
    /\ armed' = (armed \/ (verdict = "failed" /\ loop = "running" /\ active.turn # auto))
    /\ UNCHANGED <<loop, plan, active, verdict, snap, autoVars, arrived, taskVars,
                   recoveryVars, providerVars, faults, file, toldBy>>

\* _finalize_process: the active turn and its crash join are gone.
RemoveFile == file' = NoFile

ClearActive ==
    /\ stage' = "none" /\ verdict' = "ok" /\ snap' = {}
    /\ active' = NoActive
    /\ RemoveFile

CloseTurn ==
    /\ stage = "close" /\ loop = "running" /\ verdict # "cancelled"
    /\ ClearActive
    /\ loop' = "wrapup" /\ plan' = NoPlan
    /\ UNCHANGED <<storeVars, autoVars, wakeVars, taskVars, recoveryVars, providerVars,
                   faults, toldBy>>

CloseCancelled ==
    /\ stage = "close" /\ loop \in {"running", "resumed"} /\ verdict = "cancelled"
    /\ Forget /\ RemoveFile
    /\ UNCHANGED <<storeVars, toldBy>>

\* _complete_recovery, or _unwind_recovery of an activated turn.
CloseResumed ==
    /\ stage = "close" /\ loop = "resumed" /\ verdict # "cancelled"
    /\ ClearActive
    /\ loop' = "orphans" /\ mending' = None
    /\ deferRec' = (verdict = "failed")
    /\ armed' = (armed \/ verdict = "failed")
    /\ UNCHANGED <<storeVars, plan, autoVars, arrived, taskVars, providerVars, faults, toldBy>>

\* The notify() of finish_autonomous_turn: rows may have queued behind the turn.
NotifyTerminal == armed' = TRUE

\* _complete_autonomous_turn
CloseAutonomous ==
    /\ stage = "close" /\ auto # None /\ auto = active.turn
    /\ ClearActive
    /\ auto' = None /\ NotifyTerminal
    /\ UNCHANGED <<storeVars, loop, plan, autoEvent, owed, arrived, taskVars, recoveryVars,
                   providerVars, faults, toldBy>>

\* _wake_remaining_pending
NoWake == FALSE
CandidatesRemain == NoticeCandidates(session) # {}

WakeRemaining ==
    /\ loop = "wrapup" /\ Replayed
    /\ loop' = "idle" /\ armed' = (armed \/ CandidatesRemain)
    /\ UNCHANGED <<storeVars, plan, active, settleVars, autoVars, arrived, taskVars,
                   recoveryVars, providerVars, faults, file, toldBy>>

\* A store operation raises.  An autonomous turn keeps its owner and is retried
\* on the next wake; a completing daemon turn is requeued.  Any other error leaves
\* run() and the worker restarts, which is a Crash.
DropDebt == owed' = FALSE
OweSettlement == owed' = TRUE

SettleFault ==
    /\ stage \in {"settle", "reconciled", "release"} /\ faults < prof.faults
    /\ UNCHANGED <<storeVars, file, toldBy>>
    /\ \/ /\ Autonomous
          /\ stage' = "none" /\ OweSettlement /\ armed' = TRUE /\ faults' = faults + 1
          /\ UNCHANGED <<loop, plan, active, verdict, snap, auto, autoEvent, arrived,
                         taskVars, recoveryVars, providerVars>>
       \/ /\ ~Autonomous /\ verdict = "ok" /\ stage # "release"
          /\ stage' = "settle" /\ verdict' = "failed" /\ snap' = {} /\ faults' = faults + 1
          /\ UNCHANGED <<loop, plan, active, autoVars, wakeVars, taskVars, recoveryVars,
                         providerVars>>

\* A held admission grew the durable turn while it was failing: the union the
\* failure path requeues is stale, the store refuses it, and run() raises.
SettleConflict ==
    /\ stage = "settle" /\ verdict # "ok" /\ active.ids # members[active.turn]
    /\ Forget
    /\ UNCHANGED <<storeVars, file, toldBy>>

-----------------------------------------------------------------------------
\* Autonomous provider turns.

\* The driver opens a turn on its own, and the manager adopts it when no other
\* run is in flight.  Before recovery ends, and behind a daemon turn, the
\* announcement is deferred.
AutonomousStarted ==
    /\ "autonomous" \in prof.can
    /\ loop # "down" /\ provider = "none" /\ session # None /\ autoEvent = "none" /\ HeldIdle
    /\ provider' = "auto"
    /\ autoEvent' = IF active.turn # None \/ loop \in {"recover", "unwinding", "resumed",
                                                       "orphans", "orphan_release"}
                    THEN "deferred" ELSE "handling"
    /\ UNCHANGED <<storeVars, loop, plan, active, settleVars, auto, owed, wakeVars, taskVars,
                   recoveryVars, session, opened, faults, file, toldBy>>

\* adopt_autonomous_turn
AdoptAutonomousTurn(t) ==
    /\ autoEvent = "handling" /\ LockForTask /\ active.turn = None
    /\ StartTurn(t, session, 0, {})
    /\ active' = Fresh(t, {}, {}, session, TRUE)
    /\ auto' = t /\ autoEvent' = "none"
    /\ UNCHANGED <<loop, plan, settleVars, owed, wakeVars, taskVars, recoveryVars,
                   providerVars, faults, file, toldBy>>

\* A daemon turn won the lock: the announcement waits for it.
DeferAdoption ==
    /\ autoEvent = "handling" /\ LockForTask /\ active.turn # None
    /\ autoEvent' = "deferred"
    /\ UNCHANGED <<storeVars, loop, plan, active, settleVars, auto, owed, wakeVars, taskVars,
                   recoveryVars, providerVars, faults, file, toldBy>>

\* The terminal event of an autonomous run: a deferred start is dropped, an
\* adopted turn is settled.
AutonomousEnded(v) ==
    /\ provider = "auto" /\ autoEvent # "handling" /\ v \in {"ok", "failed"}
    /\ HeldIdle
    /\ provider' = "none"
    /\ IF autoEvent = "deferred"
       THEN autoEvent' = "none" /\ UNCHANGED <<stage, verdict>>
       ELSE /\ Autonomous /\ LockForTask
            /\ stage' = "settle" /\ verdict' = v
            /\ UNCHANGED autoEvent
    /\ UNCHANGED <<storeVars, loop, plan, active, snap, auto, owed, wakeVars, taskVars,
                   recoveryVars, session, opened, faults, file, toldBy>>

-----------------------------------------------------------------------------
\* run(): crash recovery, then the loop.

Restart ==
    /\ loop = "down" /\ loop' = "recover"
    /\ UNCHANGED <<storeVars, plan, active, settleVars, autoVars, wakeVars, taskVars,
                   recoveryVars, providerVars, faults, file, toldBy>>

\* The crash join names a run that is still in flight.
Joined == file.turn # None /\ tstate[file.turn] = "in_turn"

\* recover_current_turn, with no crash join, or a join whose run has finished.
NothingToRecover ==
    /\ loop = "recover" /\ ~Joined
    /\ loop' = "orphans" /\ file' = NoFile
    /\ UNCHANGED <<storeVars, plan, active, settleVars, autoVars, wakeVars, taskVars,
                   recoveryVars, providerVars, faults, toldBy>>

\* _recovery_plan and _activate_recovery: the join, the durable rows and the
\* provider session agree, so the turn is resumed with its exact rows.
Resumable(t) ==
    /\ members[t] # {} /\ file.ids = members[t]
    /\ session # None /\ tsess[t] = session

ResumeTurn ==
    /\ loop = "recover" /\ Joined
    /\ Resumable(file.turn)
    /\ active' = Fresh(file.turn, file.ids, {}, tsess[file.turn], FALSE)
    /\ loop' = "resumed" /\ mending' = tsess[file.turn]
    /\ UNCHANGED <<storeVars, plan, settleVars, autoVars, wakeVars, taskVars, deferRec,
                   providerVars, faults, file, toldBy>>

\* Either transaction of _requeue_recovery_run and recover_orphaned_turns.
RequeueRun(t) ==
    /\ tstate[t] = "in_turn"
    /\ IF members[t] = {} THEN FinalizeEmptyTurn(t, "requeued")
                          ELSE RequeueMessages(members[t], t)

\* _unwind_recovery: the join cannot be resumed, or the event outbox says the
\* driver lost the turn.
UnwindTurn ==
    /\ loop = "recover" /\ Joined
    /\ RequeueRun(file.turn)
    /\ loop' = "unwinding" /\ mending' = tsess[file.turn]
    /\ UNCHANGED <<plan, active, settleVars, autoVars, wakeVars, taskVars, deferRec,
                   providerVars, faults, file, toldBy>>

UnwindRelease ==
    /\ loop = "unwinding"
    /\ Released(mending, Msgs)
    /\ loop' = "orphans" /\ mending' = None /\ file' = NoFile /\ armed' = TRUE
    /\ UNCHANGED <<plan, active, settleVars, autoVars, arrived, taskVars, deferRec,
                   providerVars, faults, toldBy>>

\* recover_orphaned_turns
RequeueOrphan(t) ==
    /\ loop = "orphans"
    /\ RequeueRun(t)
    /\ loop' = "orphan_release" /\ mending' = tsess[t]
    /\ UNCHANGED <<plan, active, settleVars, autoVars, wakeVars, taskVars, deferRec,
                   providerVars, faults, file, toldBy>>

OrphanRelease ==
    /\ loop = "orphan_release"
    /\ Released(mending, Msgs)
    /\ loop' = "orphans" /\ mending' = None
    /\ UNCHANGED <<plan, active, settleVars, autoVars, wakeVars, taskVars, deferRec,
                   providerVars, faults, file, toldBy>>

\* The end of recovery: adoption is enabled, and the recovery wake is consumed
\* when a resumed turn failed, or armed when the session has candidates.
NoOrphan == \A t \in Turns : tstate[t] # "in_turn"

Ready ==
    /\ loop = "orphans" /\ NoOrphan
    /\ loop' = "idle"
    /\ armed' = (~deferRec /\ (armed \/ CandidatesRemain))
    /\ autoEvent' = IF autoEvent = "deferred" THEN "handling" ELSE autoEvent
    /\ UNCHANGED <<storeVars, plan, active, settleVars, auto, owed, arrived, taskVars,
                   recoveryVars, providerVars, faults, file, toldBy>>

-----------------------------------------------------------------------------
ArrivalStep ==
    \/ \E m \in Msgs : Arrive(m) \/ MarkCovered(m)
    \/ Notify

LoopStep ==
    \/ Wake \/ RetrySettle \/ ReplayDeferred \/ QueueBehindAutonomous
    \/ PlanPending \/ ContextReplan \/ ContextRefuses \/ CheckNotice
    \/ \E s \in Sessions : ContextRollover(s)
    \/ NoticeLost \/ StartConflict
    \/ \E t \in Turns : StartLocalTurn(t)
    \/ WakeRemaining

ProviderStep ==
    \/ \E s \in Sessions \cup {None} : ProviderAccepts(s)
    \/ BindTransfer \/ BindNotice \/ RetryAttempt
    \/ TurnSucceeds \/ \E v \in {"failed", "cancelled"} : TurnFails(v)
    \/ AutonomousStarted \/ DeferAdoption
    \/ \E t \in Turns : AdoptAutonomousTurn(t)
    \/ \E v \in {"ok", "failed"} : AutonomousEnded(v)

ReadStep ==
    \/ \E ids \in SUBSET Msgs : ReadInbox(ids) \/ StageVisibleRead(ids) \/ StageHeldSend(ids)
    \/ \E r \in reads : AdmitInboxPage(r) \/ AdmitVisibleRead(r)
                        \/ FireHeld(r) \/ AdmitHeld(r) \/ RefuseRead(r)
    \/ PublishHeld
    \/ PlanBusyNotice \/ RecordBusyNotice \/ DropBusyNotice

SettleStep ==
    \/ Reconcile \/ FinalizeMessages \/ FinalizeFallback \/ FinalizeEmpty
    \/ RequeueActiveTurn \/ ReleaseEvidence
    \/ CloseTurn \/ CloseCancelled \/ CloseResumed \/ CloseAutonomous
    \/ SettleFault \/ SettleConflict

RecoveryStep ==
    \/ Restart \/ NothingToRecover \/ ResumeTurn \/ UnwindTurn \/ UnwindRelease
    \/ \E t \in Turns : RequeueOrphan(t)
    \/ OrphanRelease \/ Ready

RuntimeNext ==
    /\ UNCHANGED prof
    /\ \/ ArrivalStep \/ LoopStep \/ ProviderStep \/ ReadStep \/ SettleStep
       \/ RecoveryStep \/ Crash

RuntimeSpec == RuntimeInit /\ [][RuntimeNext]_runtimeVars

-----------------------------------------------------------------------------
\* Properties.

Recovering == loop \in {"down", "recover", "unwinding", "resumed", "orphans", "orphan_release"}

\* Turns serialize per Agent: past recovery the only turn the store has in flight
\* is the one the runtime holds, be it a daemon turn or an adopted autonomous one.
SerialTurns ==
    ~Recovering => \A t \in Turns : tstate[t] = "in_turn" => t = active.turn

\* The in-memory union the runtime completes or requeues is the durable turn
\* membership, except while a held admission is being published; and the crash
\* join on disk names that turn with exactly those rows.
ActiveUnionIsDurable ==
    /\ active.turn # None /\ publish = NoPublish /\ tstate[active.turn] = "in_turn"
          => active.ids = members[active.turn]
    /\ active.turn # None /\ file.turn # None =>
          file.turn = active.turn /\ (publish = NoPublish => file.ids = active.ids)
    /\ ~Recovering /\ active.turn = None => file = NoFile

\* An adopted turn never outlives its provider run: the run is in flight, or the
\* turn is being settled, or its settlement is owed and a wake is armed or under
\* way.  Otherwise process_once would queue behind it for ever.
NoWedgedAutonomous ==
    auto # None => /\ active.turn = auto
                   /\ \/ provider = "auto" /\ session = active.sess
                      \/ stage # "none"
                      \/ owed /\ (armed \/ loop # "idle")

\* The runtime rests: nothing is running, armed or about to be.
AtRest == /\ loop = "idle" /\ ~armed /\ ~arrived
          /\ active.turn = None /\ autoEvent = "none"

\* No lost wake: when the runtime rests, every readable pending row has been
\* announced to the provider session, unless a resumed turn failed and its
\* recovery wake was deliberately consumed.
RestMeansAnnounced == AtRest /\ ~deferRec => NoticeCandidates(session) = {}

\* Announcement evidence is honest: a pending row that the session will not be
\* told of again was offered by a turn that ended well and chose to read nothing.
\* Failure and crash recovery release what they did not deliver.
WithheldWasDeclined ==
    AtRest => \A m \in Pending : contrib[m] # None /\ contrib[m] = session =>
                  /\ toldBy[m] # None
                  /\ tstate[toldBy[m]] = "processed" /\ members[toldBy[m]] = {}

\* A row is redelivered by a successful turn at most once: one whose one-shot
\* bit is set returns to pending only from a failed turn.
RenoticedOnce ==
    [][\A m \in Msgs : renotified[m] /\ pst[m] = "in_turn" /\ pst'[m] = "pending"
            => tstate'[turnOf[m]] = "requeued"]_runtimeVars

\* A pending row enters a turn only because a read of that very turn returned it:
\* not through a notice, and not through a read another turn has left behind.
AdmittedByItsReader ==
    [][\A t \in Turns : \A m \in members'[t] \ members[t] :
            \E r \in reads : r.turn = t /\ m \in r.ids]_runtimeVars

-----------------------------------------------------------------------------
\* The inductive invariant behind SerialTurns and NoWedgedAutonomous.

\* A turn the runtime holds or a read remembers has its row in turn_runs, and a
\* settlement is of the turn the runtime holds, open until it is released.
TurnControl ==
    /\ loop \in {"running", "resumed"} => active.turn # None /\ auto = None
    /\ active.turn # None /\ loop \notin {"running", "resumed"} => auto = active.turn
    /\ active.turn # None => tstate[active.turn] # "absent"
    /\ active.bound => active.turn # None
    /\ \A r \in reads : tstate[r.turn] # "absent"
    /\ stage # "none" => active.turn # None
    /\ stage \in {"release", "close"} => tstate[active.turn] # "in_turn"
    /\ stage = "reconciled" => \A m \in snap : ~renotified[m]
    /\ busy # NoBusy => busy.turn # None /\ busy.sess # None
    /\ publish # NoPublish => publish.turn # None

\* The owner of an adopted turn, its announcement and its debt agree with what
\* the provider has in flight.
AutonomousControl ==
    /\ auto # None => active.turn = auto
    /\ Recovering => auto = None /\ autoEvent # "handling"
    /\ autoEvent # "none" => provider = "auto"
    /\ owed => auto # None /\ stage = "none" /\ (armed \/ loop = "woken")
    /\ auto # None /\ stage = "none" /\ ~owed <=> provider = "auto" /\ autoEvent = "none"
    /\ provider = "auto" /\ autoEvent = "none" => session = active.sess

ControlInv == SerialTurns /\ TurnControl /\ AutonomousControl

\* A held admission under way for turn t.  While the runtime still holds t, t is
\* bound and no other run is in flight.  Once it holds another turn, t has ended,
\* and the other turn has no run yet, so no rows and no reads.
HeldFor(t) ==
    IF t = active.turn
    THEN active.bound /\ (provider = "none" \/ OwnRun)
    ELSE /\ provider = "none" /\ tstate[t] # "in_turn"
         /\ active.turn # None => /\ members[active.turn] = {}
                                 /\ \A r \in reads : r.turn # active.turn

\* The inductive invariant behind ActiveUnionIsDurable: only the turn the runtime
\* holds can grow, and a held admission publishes into the turn it grew.
UnionControl ==
    /\ ActiveUnionIsDurable
    /\ active.turn = None => active.ids = {}
    /\ loop \in {"orphans", "orphan_release"} => file = NoFile
    /\ loop \in {"down", "recover"} => reads = {} /\ publish = NoPublish
    /\ provider = "daemon" => loop \in {"running", "resumed"} /\ stage = "none"
    /\ \A r \in reads : /\ tstate[r.turn] = "in_turn" => r.turn = active.turn
                        /\ r.kind \in {"held", "firing"} => r.sess # None
                        /\ r.kind = "firing" => HeldFor(r.turn)
    /\ publish # NoPublish => /\ HeldFor(publish.turn) /\ publish.sess # None
                              /\ tstate[publish.turn] # "absent"
                              /\ tstate[publish.turn] = "in_turn" =>
                                     tsess[publish.turn] = publish.sess

=============================================================================
