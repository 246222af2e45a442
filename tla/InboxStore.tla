----------------------------- MODULE InboxStore -----------------------------
(***************************************************************************)
(* The durable Inbox of one Agent: the messages, turn_runs,                *)
(* turn_run_messages, message_covers, inbox_notice_state and               *)
(* inbox_notice_contributions tables of agent/message_store.py, and every  *)
(* operation of agent/inbox_store.py, agent/receipt_persistence.py and     *)
(* agent/message_store.py that changes them.                               *)
(*                                                                         *)
(* Each operation runs inside one BEGIN IMMEDIATE transaction under        *)
(* _inbox_lock, so each is one atomic action.  An operation that raises    *)
(* LifecycleConflict or returns CONFLICT or IDEMPOTENT rolls back: it is   *)
(* the absence of a step here.  Bodies, timestamps, sequence numbers and   *)
(* ordinals are abstracted to the facts the operations test: whether a row *)
(* has a server sequence, and whether its body was shown to the model.     *)
(***************************************************************************)
EXTENDS Naturals, FiniteSets

CONSTANTS
    Msgs,           \* envelope ids
    Turns,          \* turn ids
    Sessions,       \* native provider session ids
    None,           \* SQL NULL
    VerdictsStable, \* whether a redelivered envelope always gets its first verdict
    MaxStale        \* how many generations old a delivered notice may be

ASSUME ConstantsAssumption ==
    /\ IsFiniteSet(Msgs)
    /\ None \notin Turns
    /\ None \notin Sessions
    /\ VerdictsStable \in BOOLEAN
    /\ MaxStale \in Nat

VARIABLES
    disp,        \* receipt_disposition of the row, "absent" when there is no row
    seqd,        \* server_seq IS NOT NULL
    pst,         \* processing_state
    turnOf,      \* processing_turn_id
    seen,        \* model_visible_at IS NOT NULL
    renotified,  \* the one-shot redelivery bit
    covered,     \* envelope ids with a row in message_covers
    tstate,      \* turn_runs.state, "absent" when there is no row
    tsess,       \* turn_runs.provider_session_id
    members,     \* turn_run_messages of the turn
    generation,  \* inbox_notice_state.generation
    pendingCount,\* inbox_notice_state.pending_count
    lastGen,     \* inbox_notice_state.last_delivered_generation
    lastSess,    \* inbox_notice_state.last_delivered_provider_session_id
    contrib      \* inbox_notice_contributions: the session told of the row

rowVars == <<disp, seqd, pst, turnOf, seen, renotified>>
turnVars == <<tstate, tsess, members>>
noticeVars == <<generation, pendingCount, lastGen, lastSess, contrib>>
storeVars == <<disp, seqd, pst, turnOf, seen, renotified, covered,
               tstate, tsess, members,
               generation, pendingCount, lastGen, lastSess, contrib>>

\* ReceiptDisposition, with "absent" for an envelope that was never stored.
Dispositions == {"absent", "eligible", "terminal", "foreign_dm_gated", "local_runtime"}
ProcessingStates == {"null", "pending", "in_turn", "processed"}
TurnStates == {"absent", "in_turn", "processed", "requeued"}

StoreTypeOK ==
    /\ disp \in [Msgs -> Dispositions]
    /\ seqd \in [Msgs -> BOOLEAN]
    /\ pst \in [Msgs -> ProcessingStates]
    /\ turnOf \in [Msgs -> Turns \cup {None}]
    /\ seen \in [Msgs -> BOOLEAN]
    /\ renotified \in [Msgs -> BOOLEAN]
    /\ covered \in SUBSET Msgs
    /\ tstate \in [Turns -> TurnStates]
    /\ tsess \in [Turns -> Sessions \cup {None}]
    /\ members \in [Turns -> SUBSET Msgs]
    /\ generation \in Nat
    /\ pendingCount \in Nat
    /\ lastGen \in Nat
    /\ lastSess \in Sessions \cup {None}
    /\ contrib \in [Msgs -> Sessions \cup {None}]

StoreInit ==
    /\ disp = [m \in Msgs |-> "absent"]
    /\ seqd = [m \in Msgs |-> FALSE]
    /\ pst = [m \in Msgs |-> "null"]
    /\ turnOf = [m \in Msgs |-> None]
    /\ seen = [m \in Msgs |-> FALSE]
    /\ renotified = [m \in Msgs |-> FALSE]
    /\ covered = {}
    /\ tstate = [t \in Turns |-> "absent"]
    /\ tsess = [t \in Turns |-> None]
    /\ members = [t \in Turns |-> {}]
    /\ generation = 0
    /\ pendingCount = 0
    /\ lastGen = 0
    /\ lastSess = None
    /\ contrib = [m \in Msgs |-> None]

-----------------------------------------------------------------------------
\* Derived views.

PendingOf(p) == {m \in Msgs : p[m] = "pending"}
Pending == PendingOf(pst)

\* _get_pending_unlocked: the pending shapes the Inbox can read.
VisiblePending ==
    {m \in Pending : \/ disp[m] = "eligible" /\ seqd[m]
                     \/ disp[m] = "local_runtime" /\ ~seqd[m]}

ContributedIn(c, s) == {m \in Msgs : c[m] = s}

\* get_notice_snapshot: the rows this provider session has not been told of.
NoticeCandidates(s) ==
    IF s = None \/ s # lastSess
    THEN VisiblePending
    ELSE VisiblePending \ ContributedIn(contrib, s)

\* InboxNoticeState.delivery_pending and is_due_for.
DeliveryPending == pendingCount > 0 /\ (generation # lastGen \/ lastSess = None)
IsDueFor(s) ==
    /\ pendingCount > 0
    /\ IF s = None THEN DeliveryPending
                   ELSE generation # lastGen \/ s # lastSess

\* An UPDATE of one column: f with the value v on the rows S.
On(f, S, v) == [m \in Msgs |-> IF m \in S THEN v ELSE f[m]]

\* The generation after a refresh that counts count pending rows.
NextGeneration(count) == IF count # pendingCount THEN generation + 1 ELSE generation

\* The contributions that outlive a refresh: those of rows still pending.
StillPending(p, c) == [m \in Msgs |-> IF p[m] = "pending" THEN c[m] ELSE None]

\* _refresh_notice_state, for the row states p and the contributions c the
\* enclosing transaction leaves.
RefreshNotice(p, c) ==
    LET count == Cardinality(PendingOf(p))
        gen == NextGeneration(count)
        kept == StillPending(p, c)
        complete == /\ lastSess # None
                    /\ count > 0
                    /\ Cardinality(ContributedIn(kept, lastSess)) = count
    IN  /\ generation' = gen
        /\ pendingCount' = count
        /\ contrib' = kept
        /\ lastGen' = IF complete THEN gen ELSE lastGen
        /\ UNCHANGED lastSess

-----------------------------------------------------------------------------
\* Receipts: store_receipt, store_local_receipt, store_local_event.

\* _insert_new_receipt and its sequence-less siblings.  A sequenced receipt is
\* eligible, terminal or gated; a sequence-less one is terminal or gated, or is
\* a local event.  Only an admitted receipt becomes pending.
InsertRow(m, d, sequenced) ==
    LET admitted == d \in {"eligible", "local_runtime"}
        p == [pst EXCEPT ![m] = IF admitted THEN "pending" ELSE "null"]
    IN  /\ disp[m] = "absent"
        /\ disp' = [disp EXCEPT ![m] = d]
        /\ seqd' = [seqd EXCEPT ![m] = sequenced]
        /\ pst' = p
        /\ IF admitted THEN RefreshNotice(p, contrib) ELSE UNCHANGED noticeVars
        /\ UNCHANGED <<turnOf, seen, renotified, covered, turnVars>>

InsertReceipt(m, d) ==
    /\ d \in {"eligible", "terminal", "foreign_dm_gated"}
    /\ InsertRow(m, d, TRUE)

StoreLocalReceipt(m, d) ==
    /\ d \in {"terminal", "foreign_dm_gated"}
    /\ InsertRow(m, d, FALSE)

StoreLocalEvent(m) == InsertRow(m, "local_runtime", FALSE)

\* The verdict a redelivery would carry when verdicts never change.
SameVerdict(m, d) ==
    \/ disp[m] = d
    \/ disp[m] = "local_runtime" /\ d = "eligible"
    \/ disp[m] = "terminal"

\* _backfill_missing_sequence: a sequenced redelivery of a sequence-less row.
\* An admitted local row becomes eligible; any other row only gets the sequence.
BackfillSequence(m, d) ==
    /\ d \in {"eligible", "terminal", "foreign_dm_gated"}
    /\ disp[m] # "absent" /\ ~seqd[m]
    /\ VerdictsStable => SameVerdict(m, d)
    /\ seqd' = [seqd EXCEPT ![m] = TRUE]
    /\ disp' = IF disp[m] = "local_runtime" /\ d = "eligible"
               THEN [disp EXCEPT ![m] = "eligible"] ELSE disp
    /\ UNCHANGED <<pst, turnOf, seen, renotified, covered, turnVars, noticeVars>>

\* The disposition a released row takes: the pending shape its lane can read.
ReleasedAs(m) == IF seqd[m] THEN "eligible" ELSE "local_runtime"

\* promote_gated_receipt, and _promote_local_gated_row for a row with no
\* sequence.
PromoteGatedReceipt(m) ==
    LET p == [pst EXCEPT ![m] = "pending"]
    IN  /\ disp[m] = "foreign_dm_gated" /\ pst[m] = "null"
        /\ disp' = [disp EXCEPT ![m] = ReleasedAs(m)]
        /\ pst' = p
        /\ RefreshNotice(p, contrib)
        /\ UNCHANGED <<seqd, turnOf, seen, renotified, covered, turnVars>>

\* tombstone_gated_dm and tombstone_gated_dms_from: denied DMs become terminal.
TombstoneGated(ms) ==
    /\ ms # {} /\ \A m \in ms : disp[m] = "foreign_dm_gated"
    /\ disp' = On(disp, ms, "terminal")
    /\ UNCHANGED <<seqd, pst, turnOf, seen, renotified, covered, turnVars, noticeVars>>

\* quarantine_pending: an oversized head row leaves the queue for good.
QuarantinePending(m) ==
    LET p == [pst EXCEPT ![m] = "null"]
    IN  /\ pst[m] = "pending"
        /\ disp' = [disp EXCEPT ![m] = "terminal"]
        /\ pst' = p
        /\ turnOf' = [turnOf EXCEPT ![m] = None]
        /\ seen' = [seen EXCEPT ![m] = FALSE]
        /\ RefreshNotice(p, contrib)
        /\ UNCHANGED <<seqd, renotified, covered, turnVars>>

-----------------------------------------------------------------------------
\* Notices: which pending rows the provider session has been told of.

\* max(0, g - 1): a generation no longer current.
Before(g) == IF g = 0 THEN 0 ELSE g - 1

\* The generation a notice about generation g counts as having delivered:
\* the current one only when every pending row is now recorded.
AlwaysCurrent(g, complete) == generation
DeliveredGeneration(g, complete) ==
    IF complete THEN generation
    ELSE IF g <= Before(generation) THEN g ELSE Before(generation)

\* _mark_notice_delivered_unlocked, past its early returns: the rows of ids
\* still pending are recorded under session s.
RecordContributions(g, s, ids) ==
    LET kept == IF lastSess = s THEN contrib ELSE [m \in Msgs |-> None]
        c == [m \in Msgs |-> IF m \in Pending \cap ids /\ kept[m] = None
                             THEN s ELSE kept[m]]
        complete == Cardinality(ContributedIn(c, s)) = pendingCount
    IN  /\ g <= generation /\ pendingCount > 0
        /\ Pending \cap ids # {}
        /\ contrib' = c
        /\ lastGen' = DeliveredGeneration(g, complete)
        /\ lastSess' = s
        /\ UNCHANGED <<generation, pendingCount>>

\* What _mark_notice_delivered_unlocked returns: some row was newly recorded.
NewlyContributed(s, ids) ==
    \E m \in Pending \cap ids : lastSess # s \/ contrib[m] = None

\* mark_notice_delivered for the turn t, or for no turn when t is None.
MarkNoticeDelivered(g, s, ids, t) ==
    /\ t # None => tstate[t] = "in_turn" /\ tsess[t] = s
    /\ RecordContributions(g, s, ids)
    /\ UNCHANGED <<rowVars, covered, turnVars>>

\* release_notice_delivery: the evidence for ids is withdrawn, so that the rows
\* can be announced to the session again.
ReleaseNoticeDelivery(s, ids) ==
    LET gone == ids \cap ContributedIn(contrib, s)
    IN  /\ s # None /\ lastSess = s
        /\ gone # {}
        /\ contrib' = On(contrib, gone, None)
        /\ lastGen' = Before(generation)
        /\ UNCHANGED <<rowVars, covered, turnVars, generation, pendingCount, lastSess>>

-----------------------------------------------------------------------------
\* Turns.

NewTurn(t, s) ==
    /\ tstate[t] = "absent"
    /\ tstate' = [tstate EXCEPT ![t] = "in_turn"]
    /\ tsess' = [tsess EXCEPT ![t] = s]

\* start_turn: the turn row, and its notice claim when the session is known.  A
\* claim that records no new row raises and nothing is written.
StartTurn(t, s, g, ids) ==
    /\ NewTurn(t, s)
    /\ IF s # None /\ ids # {}
       THEN NewlyContributed(s, ids) /\ RecordContributions(g, s, ids)
       ELSE UNCHANGED noticeVars
    /\ UNCHANGED <<rowVars, covered, members>>

FinalizeAnyTurn(t, final) ==
    /\ final \in {"processed", "requeued"}
    /\ tstate[t] = "in_turn"
    /\ tstate' = [tstate EXCEPT ![t] = final]
    /\ UNCHANGED <<rowVars, covered, tsess, members, noticeVars>>

\* finalize_empty_turn: a turn that admitted no row ends as processed or requeued.
FinalizeEmptyTurn(t, final) ==
    /\ final \in {"processed", "requeued"}
    /\ tstate[t] = "in_turn" /\ members[t] = {}
    /\ tstate' = [tstate EXCEPT ![t] = final]
    /\ UNCHANGED <<rowVars, covered, tsess, members, noticeVars>>

\* transfer_turn_session: compare-and-set of the owning session.
TransferTurnSession(t, from, to) ==
    /\ to # None
    /\ tstate[t] = "in_turn" /\ tsess[t] = from
    /\ tsess' = [tsess EXCEPT ![t] = to]
    /\ UNCHANGED <<rowVars, covered, tstate, members, noticeVars>>

\* _admit_messages_unlocked's re-check that every row is still pending.
Admissible(ids) == ids # {} /\ ids \subseteq Pending

\* admit_messages: pending rows enter the turn, which is created when missing.
AdmitMessages(ids, t, s) ==
    LET p == On(pst, ids, "in_turn")
    IN  /\ Admissible(ids)
        /\ \/ NewTurn(t, s)
           \/ /\ tstate[t] = "in_turn" /\ tsess[t] = s
              /\ ids \cap members[t] = {}
              /\ UNCHANGED <<tstate, tsess>>
        /\ members' = [members EXCEPT ![t] = @ \cup ids]
        /\ pst' = p
        /\ turnOf' = On(turnOf, ids, t)
        /\ seen' = On(seen, ids, TRUE)
        /\ RefreshNotice(p, contrib)
        /\ UNCHANGED <<disp, seqd, renotified, covered>>

\* The membership test shared by completion and requeue.
ExactUnion(ids, t) ==
    /\ ids = members[t]
    /\ tstate[t] = "in_turn"
    /\ \A m \in ids : pst[m] = "in_turn" /\ turnOf[m] = t

\* _complete_turn_unlocked: done rows are processed, back rows return to
\* pending with the one-shot bit set and their announcement withdrawn.  s is the
\* durable-owner gate, None when the caller asserts no session.
CompleteTurn(done, back, t, s) ==
    LET p == [m \in Msgs |-> IF m \in done THEN "processed"
                             ELSE IF m \in back THEN "pending" ELSE pst[m]]
    IN  /\ ExactUnion(done \cup back, t) /\ done \cap back = {}
        /\ s # None => tsess[t] = s
        /\ pst' = p
        /\ turnOf' = On(turnOf, back, None)
        /\ renotified' = On(renotified, back, TRUE)
        /\ tstate' = [tstate EXCEPT ![t] = "processed"]
        /\ RefreshNotice(p, On(contrib, back, None))
        /\ UNCHANGED <<disp, seqd, seen, covered, tsess, members>>

\* mark_processed, complete_turn_with_renotice and the durable partition of
\* complete_turn_renotice_unrenotified.
MarkProcessed(t, s) == members[t] # {} /\ CompleteTurn(members[t], {}, t, s)

CompleteTurnWithRenotice(back, t, s) ==
    back # {} /\ back \subseteq members[t] /\ CompleteTurn(members[t] \ back, back, t, s)

CompleteTurnRenoticeUnrenotified(t, s) ==
    LET back == {m \in members[t] : ~renotified[m]}
    IN  CompleteTurn(members[t] \ back, back, t, s)

\* The rows of a failed turn that are retried: a covered one was answered.
Retried(ids) == ids \ covered

\* requeue_messages: a failed turn.  Its retried rows return to pending and
\* count as never shown; the others are settled.
RequeueMessages(ids, t) ==
    LET back == Retried(ids)
        p == [m \in Msgs |-> IF m \in back THEN "pending"
                             ELSE IF m \in ids THEN "processed" ELSE pst[m]]
    IN  /\ ids # {} /\ ExactUnion(ids, t)
        /\ pst' = p
        /\ turnOf' = On(turnOf, ids, None)
        /\ seen' = On(seen, back, FALSE)
        /\ tstate' = [tstate EXCEPT ![t] = "requeued"]
        /\ RefreshNotice(p, contrib)
        /\ UNCHANGED <<disp, seqd, renotified, covered, tsess, members>>

\* add_message_covers: a known row is declared handled.  A pending row with a
\* durable admission history is settled at once; a fresh one is still presented.
EverAdmitted == UNION {members[t] : t \in Turns}

SettleAnyPending(recorded) == recorded \cap Pending
SettledByCover(recorded) ==
    {m \in recorded \cap Pending : renotified[m] \/ m \in EverAdmitted}

AddMessageCovers(ids) ==
    LET recorded == {m \in ids : disp[m] # "absent"}
        settle == SettledByCover(recorded)
        p == On(pst, settle, "processed")
    IN  /\ recorded # {}
        /\ covered' = covered \cup recorded
        /\ pst' = p
        /\ turnOf' = On(turnOf, settle, None)
        /\ seen' = On(seen, settle, TRUE)
        /\ RefreshNotice(p, contrib)
        /\ UNCHANGED <<disp, seqd, renotified, turnVars>>

-----------------------------------------------------------------------------
\* Every caller, in any order.

Receive(m) ==
    \/ \E d \in Dispositions : \/ InsertReceipt(m, d)
                               \/ StoreLocalReceipt(m, d)
                               \/ BackfillSequence(m, d)
    \/ StoreLocalEvent(m)
    \/ PromoteGatedReceipt(m)
    \/ QuarantinePending(m)

\* A step whose notices are about one of the generations gens.
NoticeStep(gens) ==
    \E s \in Sessions, ids \in SUBSET Msgs :
        \/ \E g \in gens, t \in Turns \cup {None} : MarkNoticeDelivered(g, s, ids, t)
        \/ ReleaseNoticeDelivery(s, ids)

TurnStep(t, gens) ==
    \/ \E s \in Sessions \cup {None} :
        \/ \E g \in gens, ids \in SUBSET Msgs : StartTurn(t, s, g, ids)
        \/ \E ids \in SUBSET Msgs : AdmitMessages(ids, t, s)
        \/ \E to \in Sessions : TransferTurnSession(t, s, to)
        \/ MarkProcessed(t, s)
        \/ \E back \in SUBSET Msgs : CompleteTurnWithRenotice(back, t, s)
        \/ CompleteTurnRenoticeUnrenotified(t, s)
    \/ \E final \in {"processed", "requeued"} : FinalizeEmptyTurn(t, final)
    \/ RequeueMessages(members[t], t)

StoreStep(gens) ==
    \/ \E m \in Msgs : Receive(m)
    \/ \E ms \in SUBSET Msgs : TombstoneGated(ms) \/ AddMessageCovers(ms)
    \/ NoticeStep(gens)
    \/ \E t \in Turns : TurnStep(t, gens)

\* The generations a caller of the bounded store may still hold.
Announced == {g \in 0..generation : generation <= g + MaxStale}

StoreNext == StoreStep(Announced)

StoreSpec == StoreInit /\ [][StoreNext]_storeVars

-----------------------------------------------------------------------------
\* Safety.

\* The stored pending_count is the number of pending rows: every transaction
\* that moves a row in or out of pending refreshes the singleton notice row.
CountMatchesRows == pendingCount = Cardinality(Pending)

\* Announcement evidence exists only for rows that are still pending, and only
\* for the session the notice row names: a replacement session starts from none.
EvidenceIsCurrent ==
    \A m \in Msgs : contrib[m] # None => m \in Pending /\ contrib[m] = lastSess

\* A notice is due for a session exactly when some pending row was not yet
\* announced to it: no row is starved by an earlier notice, and a session that
\* was told of everything is not woken again.
DueIffUnannounced ==
    /\ lastGen <= generation
    /\ \A s \in Sessions :
           IsDueFor(s) <=> \E m \in Pending : s # lastSess \/ contrib[m] # s

\* Durable turn ownership: the in_turn rows are exactly the members of the active
\* turns, each owned by the one turn its processing_turn_id names.  A finished
\* turn strands no row, and no row is in two active turns.
TurnOwnership ==
    /\ \A m \in Msgs : pst[m] = "in_turn" =>
           turnOf[m] \in Turns /\ tstate[turnOf[m]] = "in_turn" /\ m \in members[turnOf[m]]
    /\ \A t \in Turns : tstate[t] = "in_turn" =>
           \A m \in members[t] : pst[m] = "in_turn" /\ turnOf[m] = t

\* A row is settled, or owned by a turn, only after its body crossed the
\* provider boundary in some durable admission.
SettledWasShown ==
    \A m \in Msgs : pst[m] \in {"in_turn", "processed"} => seen[m] /\ m \in EverAdmitted

\* Every row counted as pending can be read: get_pending returns it, so a notice
\* never announces work that read_inbox cannot show.
PendingIsReadable == Pending = VisiblePending

\* The notice generation moves on whenever the set of pending rows changes, so a
\* reader comparing generations never mistakes a different set for the same one.
GenerationTracksPending ==
    [][Pending' # Pending => generation' > generation]_storeVars

\* A failed turn settles the rows somebody covered and never presents them again;
\* a covered row returns to pending only from a turn that completed.
CoveredNotRetried ==
    [][\A m \in covered : pst[m] = "in_turn" /\ pst'[m] = "pending"
            => tstate'[turnOf[m]] = "processed"]_storeVars

-----------------------------------------------------------------------------
\* The store implements the promise of InboxLifecycle.

LifeOf(m) ==
    CASE pst[m] = "pending" -> "queued"
      [] pst[m] = "in_turn" -> "in_turn"
      [] pst[m] = "processed" -> "handled"
      [] OTHER -> CASE disp[m] = "absent" -> "unknown"
                    [] disp[m] = "foreign_dm_gated" -> "held"
                    [] OTHER -> "refused"

Lifecycle == INSTANCE InboxLifecycle
                 WITH life <- [m \in Msgs |-> LifeOf(m)], presented <- EverAdmitted

\* Every store transaction is one step of the message lifecycle or none: handled
\* rows were presented and stay handled, refused ones are never queued.
ImplementsLifecycle == Lifecycle!Spec

-----------------------------------------------------------------------------
\* The inductive invariant.

\* Only an admitted disposition has a processing state, a row spends its one-shot
\* redelivery only after a durable admission, and a turn without a row has none.
RowShape ==
    /\ \A m \in Msgs : /\ pst[m] # "null" => disp[m] \in {"eligible", "local_runtime"}
                       /\ renotified[m] => m \in EverAdmitted
    /\ \A t \in Turns : tstate[t] = "absent" => members[t] = {}

\* The notice row against the pending rows: what makes DueIffUnannounced
\* inductive is that lastGen is current exactly when everything was announced.
NoticeInv ==
    /\ CountMatchesRows
    /\ EvidenceIsCurrent
    /\ lastGen <= generation
    /\ pendingCount > 0 => generation > 0
    /\ pendingCount > 0 /\ lastSess # None =>
           (lastGen = generation <=> \A m \in Pending : contrib[m] = lastSess)

StoreInv == StoreTypeOK /\ RowShape /\ TurnOwnership /\ SettledWasShown /\ NoticeInv

\* A transaction of any caller: its notice may be about any generation at all.
\* The step lemmas are about it, so they serve every module that uses the store.
AnyStep == StoreStep(Nat)
=============================================================================
