---------------------------- MODULE RuntimeProofs ----------------------------
(***************************************************************************)
(* The theorems about GlobalInboxRuntime, for any finite set of messages   *)
(* and any turns, sessions and profiles.  They combine the lemmas about    *)
(* its steps (RuntimeStepProofs), about its turns (below: which rows a     *)
(* step moves, who admits a row into a turn, and that the union the        *)
(* runtime remembers stays the one the file holds) and about the store     *)
(* under it (InboxStoreProofs): every runtime step is a store transaction  *)
(* or leaves the store alone.                                              *)
(***************************************************************************)
EXTENDS RuntimeStepProofs, InboxStoreProofs

USE DEF Dispositions, ProcessingStates, TurnStates

-----------------------------------------------------------------------------
\* Which rows a step moves.

\* Planning, starting, binding and ending a provider run move no row.
LEMMA RowsUntouched == LoopStep \/ ProviderStep => pst' = pst /\ members' = members
<1> USE DEF storeVars, rowVars, turnVars
<1>1. ASSUME NEW t, NEW s, NEW g, NEW ids, StartTurn(t, s, g, ids)
      PROVE  pst' = pst /\ members' = members
  BY <1>1, Zenon DEF StartTurn
<1>2. ASSUME LoopStep PROVE pst' = pst /\ members' = members
  BY <1>1, <1>2, Zenon DEF LoopStep, Wake, RetrySettle, ReplayDeferred, QueueBehindAutonomous,
     PlanPending, ContextReplan, ContextRefuses, CheckNotice, ContextRollover, NoticeLost,
     StartConflict, StartLocalTurn, WakeRemaining
<1>3. ASSUME ProviderStep PROVE pst' = pst /\ members' = members
  BY <1>1, <1>3, Zenon DEF ProviderStep, ProviderAccepts, BindTransfer, TransferTurnSession, BindNotice,
     MarkNoticeDelivered, RetryAttempt, TurnSucceeds, TurnFails, AutonomousStarted,
     DeferAdoption, AdoptAutonomousTurn, AutonomousEnded
<1>4. QED BY <1>2, <1>3, Zenon

\* A read's transaction, if it has one, admits rows of that read into its turn.
LEMMA ReadEffect ==
    ASSUME ReadStep
    PROVE  \/ pst' = pst /\ members' = members
           \/ \E r \in reads : \E ids \in SUBSET r.ids : \E s : AdmitMessages(ids, r.turn, s)
<1> USE DEF storeVars, rowVars, turnVars
<1>1. ASSUME NEW r \in reads, NEW ids \in SUBSET r.ids, Admit(r, ids)
      PROVE  AdmitMessages(ids, r.turn, active.sess)
  BY <1>1, Zenon DEF Admit, SameTurn
<1>2. ASSUME NEW r \in reads, AdmitHeld(r)
      PROVE  AdmitMessages(r.ids \cap Pending, r.turn, r.sess)
  BY <1>2 DEF AdmitHeld
<1>3. ASSUME NEW r \in reads, AdmitInboxPage(r) \/ AdmitVisibleRead(r) \/ AdmitHeld(r)
      PROVE  \E ids \in SUBSET r.ids : \E s : AdmitMessages(ids, r.turn, s)
  BY <1>1, <1>2, <1>3, Zenon DEF AdmitInboxPage, AdmitVisibleRead
<1>4. ASSUME ~\E r \in reads : AdmitInboxPage(r) \/ AdmitVisibleRead(r) \/ AdmitHeld(r)
      PROVE  pst' = pst /\ members' = members
  BY <1>4, Zenon DEF ReadStep, ReadInbox, StageVisibleRead, StageHeldSend, StageRead, FireHeld,
     RefuseRead, PublishHeld, PlanBusyNotice, RecordBusyNotice, MarkNoticeDelivered,
     DropBusyNotice
<1>5. QED BY <1>3, <1>4, Zenon

\* A settlement's transaction, if it has one, completes the active turn and gives
\* back rows that still hold their one-shot bound, or requeues it.
LEMMA SettleEffect ==
    ASSUME ControlInv, SettleStep
    PROVE  \/ pst' = pst /\ members' = members
           \/ \E done, back : /\ CompleteTurn(done, back, active.turn, active.sess)
                              /\ \A m \in back : ~renotified[m]
           \/ RequeueMessages(active.ids, active.turn)
<1> USE DEF storeVars, rowVars, turnVars
<1>1. CASE FinalizeMessages
  <2>1. \A m \in snap : ~renotified[m]
    BY <1>1, Zenon DEF FinalizeMessages, ControlInv, TurnControl
  <2>2. CASE snap = {}
    BY <1>1, <2>2, Zenon DEF FinalizeMessages, MarkProcessed
  <2>3. CASE snap # {}
    BY <1>1, <2>1, <2>3, Zenon DEF FinalizeMessages, CompleteTurnWithRenotice
  <2>4. QED BY <2>2, <2>3, Zenon
<1>2. CASE FinalizeFallback
  BY <1>2 DEF FinalizeFallback, CompleteTurnRenoticeUnrenotified
<1>3. CASE RequeueActiveTurn
  BY <1>3, Zenon DEF RequeueActiveTurn, FinalizeEmptyTurn
<1>4. CASE FinalizeEmpty \/ ReleaseEvidence
  BY <1>4, Zenon DEF FinalizeEmpty, FinalizeEmptyTurn, ReleaseEvidence, Released, ReleaseNoticeDelivery
<1>5. CASE Reconcile \/ CloseTurn \/ CloseCancelled \/ CloseResumed \/ CloseAutonomous
           \/ SettleFault \/ SettleConflict
  BY <1>5, Zenon DEF Reconcile, CloseTurn, CloseCancelled, CloseResumed, CloseAutonomous, SettleFault,
              SettleConflict
<1>6. QED BY <1>1, <1>2, <1>3, <1>4, <1>5 DEF SettleStep

\* Recovery's transactions requeue runs and release evidence.
LEMMA RecoveryEffect ==
    ASSUME RecoveryStep
    PROVE  \/ pst' = pst /\ members' = members
           \/ \E t : RequeueMessages(members[t], t)
<1> USE DEF storeVars, rowVars, turnVars
<1>1. CASE UnwindTurn \/ \E t \in Turns : RequeueOrphan(t)
  BY <1>1, Zenon DEF UnwindTurn, RequeueOrphan, RequeueRun, FinalizeEmptyTurn
<1>2. CASE UnwindRelease \/ OrphanRelease
  BY <1>2 DEF UnwindRelease, OrphanRelease, Released, ReleaseNoticeDelivery
<1>3. CASE Restart \/ NothingToRecover \/ ResumeTurn \/ Ready
  BY <1>3, Zenon DEF Restart, NothingToRecover, ResumeTurn, Ready
<1>4. QED BY <1>1, <1>2, <1>3, Zenon DEF RecoveryStep

\* What an arrival or a cover does to the rows.
LEMMA ArrivalEffect ==
    ASSUME StoreInv, ArrivalStep
    PROVE  /\ members' = members
           /\ \A m \in Msgs : pst[m] = "in_turn" => pst'[m] # "pending"
<1> USE DEF storeVars, rowVars, turnVars, StoreInv
<1>1. ASSUME NEW n \in Msgs, Arrive(n)
      PROVE  /\ members' = members
             /\ \A m \in Msgs : pst[m] = "in_turn" => pst'[m] # "pending"
  BY <1>1, Zenon DEF Arrive, InsertReceipt, InsertRow, RowShape, StoreTypeOK
<1>2. ASSUME NEW n \in Msgs, MarkCovered(n)
      PROVE  /\ members' = members
             /\ \A m \in Msgs : pst[m] = "in_turn" => pst'[m] # "pending"
  BY <1>2, Zenon DEF MarkCovered, AddMessageCovers, On, StoreTypeOK
<1>3. CASE Notify
  BY <1>3, Zenon DEF Notify
<1>4. QED BY <1>1, <1>2, <1>3, Zenon DEF ArrivalStep

\* No step gives a row back twice.
LEMMA RenoticedStep ==
    RuntimeInv /\ [RuntimeNext]_runtimeVars =>
            [\A m \in Msgs : renotified[m] /\ pst[m] = "in_turn" /\ pst'[m] = "pending"
                 => tstate'[turnOf[m]] = "requeued"]_runtimeVars
<1>1. ASSUME RuntimeInv, [RuntimeNext]_runtimeVars, NEW m \in Msgs, renotified[m],
             pst[m] = "in_turn", pst'[m] = "pending"
      PROVE  tstate'[turnOf[m]] = "requeued"
  <2> USE DEF RuntimeInv
  <2>1. ASSUME NEW ids, NEW t, NEW s, AdmitMessages(ids, t, s) PROVE FALSE
    BY <1>1, <2>1, Zenon DEF AdmitMessages, On, StoreInv, StoreTypeOK
  <2>2. ASSUME NEW done, NEW back, NEW t, NEW s, CompleteTurn(done, back, t, s),
               \A n \in back : ~renotified[n]
        PROVE  FALSE
    BY <1>1, <2>2, Zenon DEF CompleteTurn, StoreInv, StoreTypeOK
  <2>3. ASSUME NEW ids, NEW t, RequeueMessages(ids, t)
        PROVE  tstate'[turnOf[m]] = "requeued"
    <3>1. m \in ids
      BY <1>1, <2>3, Zenon DEF RequeueMessages, Retried
    <3>2. turnOf[m] = t /\ t \in Turns
      BY <1>1, <2>3, <3>1, Zenon DEF RequeueMessages, ExactUnion, StoreInv, TurnOwnership
    <3>3. tstate' = [tstate EXCEPT ![t] = "requeued"] /\ tstate \in [Turns -> TurnStates]
      BY <1>1, <2>3, Zenon DEF RequeueMessages, StoreInv, StoreTypeOK
    <3>4. QED BY <3>2, <3>3, Zenon
  <2>4. pst' # pst
    BY <1>1, Zenon
  <2>5. ~UNCHANGED runtimeVars /\ ~Crash
    BY <2>4, Zenon DEF runtimeVars, storeVars, rowVars, Crash
  <2>6. CASE ArrivalStep
    BY <1>1, <2>6, ArrivalEffect, Zenon
  <2>7. CASE LoopStep \/ ProviderStep
    BY <2>4, <2>7, RowsUntouched, Zenon
  <2>8. CASE ReadStep
    BY <2>1, <2>4, <2>8, ReadEffect, Zenon
  <2>9. CASE SettleStep
    BY <1>1, <2>2, <2>3, <2>4, <2>9, SettleEffect, Zenon
  <2>10. CASE RecoveryStep
    BY <2>3, <2>4, <2>10, RecoveryEffect, Zenon
  <2>11. QED BY <1>1, <2>5, <2>6, <2>7, <2>8, <2>9, <2>10, Zenon DEF RuntimeNext
<1>2. QED BY <1>1, Zenon

\* No step moves a row into a turn that did not read it.
LEMMA AdmittedStep ==
    RuntimeInv /\ [RuntimeNext]_runtimeVars =>
            [\A t \in Turns : \A m \in members'[t] \ members[t] :
                 \E r \in reads : r.turn = t /\ m \in r.ids]_runtimeVars
<1>1. ASSUME RuntimeInv, [RuntimeNext]_runtimeVars, NEW t \in Turns,
             NEW m \in members'[t] \ members[t]
      PROVE  \E r \in reads : r.turn = t /\ m \in r.ids
  <2> USE DEF RuntimeInv
  <2>1. ASSUME NEW r \in reads, NEW ids \in SUBSET r.ids, NEW s, AdmitMessages(ids, r.turn, s)
        PROVE  r.turn = t /\ m \in r.ids
    BY <1>1, <2>1, Zenon DEF AdmitMessages, StoreInv, StoreTypeOK
  <2>2. members' # members
    BY <1>1, Zenon
  <2>3. ~UNCHANGED runtimeVars /\ ~Crash
    BY <2>2, Zenon DEF runtimeVars, storeVars, turnVars, Crash
  <2>4. ~ArrivalStep /\ ~LoopStep /\ ~ProviderStep
    BY <1>1, <2>2, ArrivalEffect, RowsUntouched, Zenon
  <2>5. ~SettleStep /\ ~RecoveryStep
    <3>1. ASSUME NEW done, NEW back, NEW u, NEW s, CompleteTurn(done, back, u, s) PROVE FALSE
      BY <2>2, <3>1, Zenon DEF CompleteTurn
    <3>2. ASSUME NEW ids, NEW u, RequeueMessages(ids, u) PROVE FALSE
      BY <2>2, <3>2, Zenon DEF RequeueMessages
    <3>3. QED BY <1>1, <2>2, <3>1, <3>2, SettleEffect, RecoveryEffect, Zenon
  <2>6. QED BY <1>1, <2>1, <2>2, <2>3, <2>4, <2>5, ReadEffect, Zenon DEF RuntimeNext
<1>2. QED BY <1>1

-----------------------------------------------------------------------------
\* The active union.

\* What a transaction does to turn_runs and turn_run_messages.
LEMMA TurnTableEffects ==
    /\ \A m, d : InsertReceipt(m, d) => UNCHANGED <<tstate, tsess, members>>
    /\ \A ids : AddMessageCovers(ids) => UNCHANGED <<tstate, tsess, members>>
    /\ \A g, s, ids, t : MarkNoticeDelivered(g, s, ids, t) => UNCHANGED <<tstate, tsess, members>>
    /\ \A s, ids : Released(s, ids) => UNCHANGED <<tstate, tsess, members>>
    /\ \A t, s, g, ids : StartTurn(t, s, g, ids)
           => members' = members /\ tsess' = [tsess EXCEPT ![t] = s]
    /\ \A t, from, to : TransferTurnSession(t, from, to)
           => UNCHANGED <<tstate, members>> /\ tsess' = [tsess EXCEPT ![t] = to]
    /\ \A ids, t, s : AdmitMessages(ids, t, s) /\ tstate[t] # "absent"
           => /\ tstate[t] = "in_turn" /\ tsess[t] = s /\ UNCHANGED <<tstate, tsess>>
              /\ members' = [members EXCEPT ![t] = members[t] \cup ids]
    /\ \A done, back, t, s : CompleteTurn(done, back, t, s) => UNCHANGED <<tsess, members>>
    /\ \A t, final : FinalizeEmptyTurn(t, final) => UNCHANGED <<tsess, members>>
    /\ \A ids, t : RequeueMessages(ids, t) => UNCHANGED <<tsess, members>>
<1>1. \A m, d : InsertReceipt(m, d) => UNCHANGED <<tstate, tsess, members>>
  BY Zenon DEF InsertReceipt, InsertRow, turnVars
<1>2. \A ids : AddMessageCovers(ids) => UNCHANGED <<tstate, tsess, members>>
  BY Zenon DEF AddMessageCovers, turnVars
<1>3. \A g, s, ids, t : MarkNoticeDelivered(g, s, ids, t) => UNCHANGED <<tstate, tsess, members>>
  BY Zenon DEF MarkNoticeDelivered, turnVars
<1>4. \A s, ids : Released(s, ids) => UNCHANGED <<tstate, tsess, members>>
  BY Zenon DEF Released, ReleaseNoticeDelivery, storeVars, turnVars
<1>5. \A t, s, g, ids : StartTurn(t, s, g, ids)
          => members' = members /\ tsess' = [tsess EXCEPT ![t] = s]
  BY Zenon DEF StartTurn, NewTurn
<1>6. \A t, from, to : TransferTurnSession(t, from, to)
          => UNCHANGED <<tstate, members>> /\ tsess' = [tsess EXCEPT ![t] = to]
  BY Zenon DEF TransferTurnSession
<1>7. \A ids, t, s : AdmitMessages(ids, t, s) /\ tstate[t] # "absent"
          => /\ tstate[t] = "in_turn" /\ tsess[t] = s /\ UNCHANGED <<tstate, tsess>>
             /\ members' = [members EXCEPT ![t] = members[t] \cup ids]
  BY Zenon DEF AdmitMessages, NewTurn
<1>8. \A done, back, t, s : CompleteTurn(done, back, t, s) => UNCHANGED <<tsess, members>>
  BY Zenon DEF CompleteTurn
<1>9. \A t, final : FinalizeEmptyTurn(t, final) => UNCHANGED <<tsess, members>>
  BY Zenon DEF FinalizeEmptyTurn
<1>10. \A ids, t : RequeueMessages(ids, t) => UNCHANGED <<tsess, members>>
  BY DEF RequeueMessages
<1>11. QED BY <1>1, <1>2, <1>3, <1>4, <1>5, <1>6, <1>7, <1>8, <1>9, <1>10, Zenon

\* An admission into a recorded turn adds the rows to that turn and changes no other column.
LEMMA AdmitTableEffect ==
    ASSUME NEW ids, NEW t, NEW s, AdmitMessages(ids, t, s), tstate[t] # "absent"
    PROVE  /\ tstate[t] = "in_turn" /\ tsess[t] = s /\ UNCHANGED <<tstate, tsess>>
           /\ members' = [members EXCEPT ![t] = members[t] \cup ids]
  BY TurnTableEffects, Zenon

\* A registered read names a turn.
LEMMA ReadsNameTurns ==
    RuntimeTypeOK => \A r \in reads : r.turn \in Turns /\ r.turn # None
  BY ConstantsAssumption DEF RuntimeTypeOK

\* A crash keeps the file; nothing else is left to agree with.
LEMMA ForgetUnion == Forget => UnionControl'
  BY DEF Forget, UnionControl, ActiveUnionIsDurable, HeldFor, Recovering, NoActive, Fresh,
         NoPublish

\* A step that leaves the turn tables, the active union and its file alone, and
\* does not replace the run under a held admission.
LEMMA UnionFrame ==
    ASSUME UnionControl, UNCHANGED <<tstate, tsess, members, publish, file>>,
           reads' \subseteq reads,
           active'.turn = active.turn, active'.ids = active.ids,
           ~Recovering' => ~Recovering \/ file = NoFile,
           loop' \in {"orphans", "orphan_release"} => loop \in {"orphans", "orphan_release"},
           loop' \in {"down", "recover"} => loop \in {"down", "recover"},
           provider' = "daemon" => loop' \in {"running", "resumed"} /\ stage' = "none",
           \/ HeldIdle
           \/ /\ active'.bound = active.bound
              /\ provider' = "none" \/ (provider' = provider /\ (OwnRun => OwnRun'))
    PROVE  UnionControl'
<1>1. ActiveUnionIsDurable'
  BY Zenon DEF UnionControl, ActiveUnionIsDurable
<1>2. ASSUME ~HeldIdle, NEW t, HeldFor(t) PROVE HeldFor(t)'
  BY <1>2, Zenon DEF HeldFor
<1>3. \A r \in reads' : /\ (tstate[r.turn] = "in_turn" => r.turn = active.turn)'
                        /\ (r.kind \in {"held", "firing"} => r.sess # None)
                        /\ r.kind = "firing" => HeldFor(r.turn)'
  BY <1>2, Zenon DEF UnionControl, HeldIdle
<1>4. publish' # NoPublish => /\ HeldFor(publish.turn)' /\ publish'.sess # None
                              /\ tstate'[publish'.turn] # "absent"
                              /\ tstate'[publish'.turn] = "in_turn" =>
                                     tsess'[publish'.turn] = publish'.sess
  BY <1>2, Zenon DEF UnionControl, HeldIdle
<1>5. QED BY <1>1, <1>3, <1>4, Zenon DEF UnionControl

\* While the runtime recovers, only a resumed turn is held.
LEMMA RecoveringHoldsNone ==
    ControlInv /\ Recovering /\ loop # "resumed" =>
        active.turn = None /\ auto = None /\ stage = "none"
  BY Zenon DEF ControlInv, TurnControl, AutonomousControl, Recovering

\* Arrivals and covers.
LEMMA ArrivalUnion == UnionControl /\ ArrivalStep => UnionControl'
<1> SUFFICES ASSUME UnionControl, ArrivalStep PROVE UnionControl'
  BY SMTT(30)
<1>1. UNCHANGED <<tstate, tsess, members>>
  BY TurnTableEffects, Zenon DEF ArrivalStep, Arrive, MarkCovered, Notify, storeVars
<1>2. UNCHANGED <<loop, active, stage, auto, autoEvent, reads, publish, provider, file>>
  <2> USE DEF settleVars, autoVars, wakeVars, taskVars, providerVars
  <2>1. CASE Notify
    BY <2>1, Zenon DEF Notify
  <2>2. CASE \E m \in Msgs : Arrive(m)
    BY <2>2, Zenon DEF Arrive
  <2>3. CASE \E m \in Msgs : MarkCovered(m)
    BY <2>3, Zenon DEF MarkCovered
  <2>4. QED BY <2>1, <2>2, <2>3, Zenon DEF ArrivalStep
<1>3. QED
  BY <1>1, <1>2, UnionFrame, Zenon DEF UnionControl, Recovering, OwnRun, Autonomous

\* A new turn t, started or adopted while none was held, has no rows and no reads.
LEMMA NewTurnUnion ==
    ASSUME RuntimeInv, UnionControl, NEW t \in Turns, active.turn = None, ~Recovering,
           tstate[t] = "absent", tstate' = [tstate EXCEPT ![t] = "in_turn"],
           tsess' = [tsess EXCEPT ![t] = tsess'[t]],
           members' = members, active'.turn = t, active'.ids = {},
           UNCHANGED <<reads, publish, provider>>,
           provider = "none" \/ HeldIdle, provider # "daemon",
           loop' \notin {"down", "recover", "orphans", "orphan_release"},
           file' = NoFile \/ file' = [turn |-> t, ids |-> {}]
    PROVE  UnionControl'
<1>0. tstate \in [Turns -> TurnStates] /\ members[t] = {} /\ t # None
      /\ tsess \in [Turns -> Sessions \cup {None}]
  BY ConstantsAssumption, Zenon DEF RuntimeInv, StoreInv, StoreTypeOK, RowShape
<1>1. \A r \in reads : r.turn \in Turns /\ r.turn # t /\ r.turn # None
  BY ConstantsAssumption, ZenonT(60) DEF RuntimeInv, RuntimeTypeOK, ControlInv, TurnControl
<1>2. publish # NoPublish => publish.turn \in Turns /\ publish.turn # t /\ publish.turn # None
  BY DEF RuntimeInv, RuntimeTypeOK, ControlInv, TurnControl, UnionControl
<1>3. \A u \in Turns : u # t => tstate'[u] = tstate[u] /\ tsess'[u] = tsess[u]
  BY <1>0
<1>4. ActiveUnionIsDurable'
  BY <1>0 DEF ActiveUnionIsDurable, NoFile
<1>5. ASSUME NEW u \in Turns, u # t, HeldFor(u), provider = "none" PROVE HeldFor(u)'
  <2>1. u # None
    BY <1>5, ConstantsAssumption, Zenon
  <2>2. QED BY <1>0, <1>1, <1>3, <1>5, <2>1 DEF HeldFor
<1>6. \A r \in reads : /\ tstate'[r.turn] # "in_turn"
                       /\ r.kind \in {"held", "firing"} => r.sess # None
                       /\ r.kind = "firing" => HeldFor(r.turn)'
  BY <1>1, <1>3, <1>5, Zenon DEF UnionControl, HeldIdle
<1>7. publish # NoPublish => /\ HeldFor(publish.turn)' /\ publish.sess # None
                             /\ tstate'[publish.turn] # "absent"
                             /\ tstate'[publish.turn] = "in_turn" =>
                                    tsess'[publish.turn] = publish.sess
  BY <1>2, <1>3, <1>5, Zenon DEF UnionControl, HeldIdle
<1>8. QED BY <1>0, <1>4, <1>6, <1>7, Zenon DEF UnionControl

\* The run loop.
LEMMA LoopUnion == RuntimeInv /\ UnionControl /\ LoopStep => UnionControl'
<1> SUFFICES ASSUME RuntimeInv, UnionControl, LoopStep PROVE UnionControl'
  BY Zenon
<1> USE DEF settleVars, autoVars, wakeVars, taskVars, recoveryVars, providerVars
<1>1. ASSUME UNCHANGED <<storeVars, file, reads, publish, provider, auto>>,
             active'.turn = active.turn, active'.ids = active.ids,
             active'.bound = active.bound,
             loop \in {"idle", "woken", "planned", "starting", "wrapup"},
             loop' \in {"idle", "woken", "planned", "starting", "wrapup"},
             autoEvent' = autoEvent \/ autoEvent = "deferred"
      PROVE  UnionControl'
  BY <1>1, UnionFrame, Zenon DEF storeVars, UnionControl, Recovering, OwnRun, Autonomous
<1>2. CASE Wake \/ RetrySettle \/ QueueBehindAutonomous
  BY <1>1, <1>2, Zenon DEF Wake, RetrySettle, QueueBehindAutonomous
<1>3. CASE ReplayDeferred
  BY <1>1, <1>3, Zenon DEF ReplayDeferred
<1>4. CASE PlanPending \/ ContextReplan \/ ContextRefuses \/ CheckNotice \/ NoticeLost
  BY <1>1, <1>4, Zenon DEF PlanPending, ContextReplan, ContextRefuses, CheckNotice, NoticeLost
<1>5. CASE WakeRemaining
  BY <1>1, <1>5, Zenon DEF WakeRemaining
<1>6. ASSUME NEW s \in Sessions, ContextRollover(s) PROVE UnionControl'
  <2>1. active'.turn = active.turn /\ active'.ids = active.ids /\ active'.bound = active.bound
    BY <1>6, Zenon DEF ContextRollover, RuntimeInv, RuntimeTypeOK
  <2>2. QED BY <1>1, <1>6, <2>1, Zenon DEF ContextRollover
<1>7. CASE StartConflict
  BY <1>7, ForgetUnion, Zenon DEF StartConflict
<1>8. ASSUME NEW t \in Turns, StartLocalTurn(t), ~Forget PROVE UnionControl'
  <2>1. /\ loop = "starting" /\ auto = None /\ active.turn = None /\ ~Recovering
    BY <1>8, Zenon DEF StartLocalTurn, NotAutonomous, RuntimeInv, ControlInv, TurnControl, Recovering
  <2>2. /\ tstate[t] = "absent" /\ tstate' = [tstate EXCEPT ![t] = "in_turn"]
        /\ members' = members /\ tsess' = [tsess EXCEPT ![t] = session]
    BY <1>8, TurnRowEffects, TurnTableEffects, Zenon DEF StartLocalTurn
  <2>3. tsess' = [tsess EXCEPT ![t] = tsess'[t]]
    BY <2>2, Zenon DEF RuntimeInv, StoreInv, StoreTypeOK
  <2>4. /\ active'.turn = t /\ active'.ids = {} /\ file' = [turn |-> t, ids |-> {}]
        /\ loop' = "running" /\ UNCHANGED <<reads, publish, provider>>
    BY <1>8 DEF StartLocalTurn, Fresh, FileOf
  <2>5. provider # "daemon"
    BY <2>1, Zenon DEF UnionControl
  <2>6. provider = "none" \/ HeldIdle
    BY <2>1, ConstantsAssumption, Zenon
    DEF UnionControl, HeldFor, HeldIdle, RuntimeInv, RuntimeTypeOK, ControlInv, TurnControl
  <2>7. QED BY <2>1, <2>2, <2>3, <2>4, <2>5, <2>6, NewTurnUnion, Zenon
<1>9. QED
  BY <1>2, <1>3, <1>4, <1>5, <1>6, <1>7, <1>8, ForgetUnion, Zenon DEF LoopStep

\* No held admission is under way for a turn that is not bound to a run.
LEMMA UnboundIsIdle ==
    ASSUME UnionControl, ~active.bound, provider # "none"
    PROVE  HeldIdle
  BY Zenon DEF UnionControl, HeldFor, HeldIdle

\* The provider's events.
LEMMA ProviderUnion == RuntimeInv /\ UnionControl /\ ProviderStep => UnionControl'
<1> SUFFICES ASSUME RuntimeInv, UnionControl, ProviderStep PROVE UnionControl'
  OBVIOUS
<1> USE DEF settleVars, autoVars, wakeVars, taskVars, recoveryVars, providerVars
<1>1. ASSUME NEW s \in Sessions \cup {None}, ProviderAccepts(s) PROVE UnionControl'
  BY <1>1, UnionFrame, Zenon DEF ProviderAccepts, InTurn, storeVars, UnionControl, Recovering
<1>2. CASE BindTransfer
  <2>1. /\ active.turn \in Turns /\ HeldIdle
        /\ UNCHANGED <<tstate, members, loop, active, stage, reads, publish, provider, file>>
    BY <1>2, UnboundIsIdle, TurnTableEffects, Zenon
    DEF BindTransfer, InTurn, RuntimeInv, RuntimeTypeOK, ControlInv, TurnControl
  <2>2. QED
    BY <2>1, Zenon DEF UnionControl, ActiveUnionIsDurable, Recovering, HeldIdle
<1>3. ASSUME BindNotice, ~Forget PROVE UnionControl'
  <2>1. UNCHANGED <<tstate, tsess, members>>
    BY <1>3, TurnTableEffects, Zenon DEF BindNotice, storeVars
  <2>2. /\ active' = [active EXCEPT !.sess = session, !.bound = TRUE] /\ file' = FileOf(active')
        /\ loop \in {"running", "resumed"} /\ HeldIdle
        /\ UNCHANGED <<loop, stage, reads, publish, provider>>
    BY <1>3, UnboundIsIdle, Zenon DEF BindNotice, InTurn
  <2>3. /\ active'.turn = active.turn /\ active'.ids = active.ids /\ active.turn # None
        /\ file'.turn = active.turn /\ file'.ids = active.ids
    BY <2>2, Zenon DEF RuntimeInv, RuntimeTypeOK, FileOf, ControlInv, TurnControl
  <2>4. QED
    BY <2>1, <2>2, <2>3, Zenon DEF UnionControl, ActiveUnionIsDurable, Recovering, HeldIdle
<1>4. CASE RetryAttempt
  <2>1. active'.turn = active.turn /\ active'.ids = active.ids
    BY <1>4, Zenon DEF RetryAttempt, RuntimeInv, RuntimeTypeOK
  <2>2. QED
    BY <1>4, <2>1, UnionFrame, Zenon DEF RetryAttempt, storeVars, UnionControl, Recovering
<1>5. CASE TurnSucceeds
  BY <1>5, UnionFrame, Zenon DEF TurnSucceeds, storeVars, UnionControl, Recovering
<1>6. ASSUME NEW v \in {"failed", "cancelled"}, TurnFails(v) PROVE UnionControl'
  <2>1. provider' # "daemon" /\ (provider' = "none" \/ provider' = provider)
    BY <1>6, Zenon DEF TurnFails
  <2>2. OwnRun => OwnRun' \/ provider' = "none"
    BY <1>6, Zenon DEF TurnFails, OwnRun, Autonomous
  <2>3. QED
    BY <1>6, <2>1, <2>2, UnionFrame, Zenon DEF TurnFails, storeVars, UnionControl, Recovering
<1>7. CASE AutonomousStarted
  BY <1>7, UnionFrame, Zenon DEF AutonomousStarted, storeVars, UnionControl, Recovering
<1>8. CASE DeferAdoption
  BY <1>8, UnionFrame, Zenon DEF DeferAdoption, storeVars, UnionControl, Recovering, OwnRun, Autonomous
<1>9. ASSUME NEW t \in Turns, AdoptAutonomousTurn(t) PROVE UnionControl'
  <2>1. /\ autoEvent = "handling" /\ active.turn = None /\ ~Recovering /\ provider = "auto"
        /\ loop \notin {"running", "resumed"}
    BY <1>9, Zenon DEF AdoptAutonomousTurn, RuntimeInv, ControlInv, TurnControl, AutonomousControl
  <2>2. /\ tstate[t] = "absent" /\ tstate' = [tstate EXCEPT ![t] = "in_turn"]
        /\ members' = members /\ tsess' = [tsess EXCEPT ![t] = session]
    BY <1>9, TurnRowEffects, TurnTableEffects, Zenon DEF AdoptAutonomousTurn
  <2>3. tsess' = [tsess EXCEPT ![t] = tsess'[t]]
    BY <2>2, Zenon DEF RuntimeInv, StoreInv, StoreTypeOK
  <2>4. /\ active'.turn = t /\ active'.ids = {} /\ file' = file
        /\ UNCHANGED <<loop, reads, publish, provider>>
    BY <1>9, Zenon DEF AdoptAutonomousTurn, Fresh
  <2>5. file = NoFile
    BY <2>1, Zenon DEF UnionControl, ActiveUnionIsDurable
  <2>6. HeldIdle
    BY <2>1, ConstantsAssumption, Zenon
    DEF UnionControl, HeldFor, HeldIdle, RuntimeInv, RuntimeTypeOK, ControlInv, TurnControl
  <2>7. loop' \notin {"down", "recover", "orphans", "orphan_release"}
    BY <2>1, <2>4, Zenon DEF Recovering
  <2>8. QED BY <2>1, <2>2, <2>3, <2>4, <2>5, <2>6, <2>7, NewTurnUnion, Zenon
<1>10. ASSUME NEW v \in {"ok", "failed"}, AutonomousEnded(v) PROVE UnionControl'
  BY <1>10, UnionFrame, Zenon DEF AutonomousEnded, storeVars, UnionControl, Recovering
<1>11. QED
  BY <1>1, <1>2, <1>3, <1>4, <1>5, <1>6, <1>7, <1>8, <1>9, <1>10, ForgetUnion, Zenon
  DEF ProviderStep, BindNotice

\* Reads, admissions and busy notices.
LEMMA ReadUnion == RuntimeInv /\ UnionControl /\ ReadStep => UnionControl'
<1> SUFFICES ASSUME RuntimeInv, UnionControl, ReadStep PROVE UnionControl'
  OBVIOUS
<1> USE DEF settleVars, autoVars, wakeVars, taskVars, recoveryVars, providerVars
<1>0. active.turn # None =>
          loop \notin {"down", "recover", "unwinding", "orphans", "orphan_release"}
  BY RecoveringHoldsNone, Zenon DEF RuntimeInv, Recovering
<1>1. ASSUME NEW kind \in {"page", "history", "held"}, NEW ids, StageRead(kind, ids),
             kind = "held" => active.sess # None
      PROVE  UnionControl'
  <2> DEFINE new == [kind |-> kind, turn |-> active.turn, sess |-> active.sess,
                     try |-> active.try, bound |-> active.bound, ids |-> ids]
  <2>1. /\ reads' = reads \cup {new} /\ active.turn # None /\ provider # "none"
        /\ UNCHANGED <<tstate, tsess, members, loop, active, stage, auto, autoEvent, publish,
                       provider, file>>
    BY <1>1, Zenon DEF StageRead, storeVars
  <2>2. new.turn = active.turn /\ new.kind # "firing" /\ (new.kind = "held" => new.sess # None)
    BY <1>1, Zenon
  <2>3. ASSUME NEW t, HeldFor(t) PROVE HeldFor(t)'
    BY <2>1, <2>3, Zenon DEF HeldFor, OwnRun, Autonomous
  <2>4. \A r \in reads' : /\ tstate'[r.turn] = "in_turn" => r.turn = active'.turn
                          /\ r.kind \in {"held", "firing"} => r.sess # None
                          /\ r.kind = "firing" => HeldFor(r.turn)'
    <3>1. \A r \in reads : /\ tstate'[r.turn] = "in_turn" => r.turn = active'.turn
                           /\ r.kind \in {"held", "firing"} => r.sess # None
                           /\ r.kind = "firing" => HeldFor(r.turn)'
      BY <2>1, <2>3, Zenon DEF UnionControl
    <3>2. /\ tstate'[new.turn] = "in_turn" => new.turn = active'.turn
          /\ new.kind \in {"held", "firing"} => new.sess # None
          /\ new.kind # "firing"
      BY <2>1, <2>2, Zenon
    <3> HIDE DEF new
    <3>3. QED BY <2>1, <3>1, <3>2, Zenon
  <2>5. ActiveUnionIsDurable'
    BY <2>1, Zenon DEF UnionControl, ActiveUnionIsDurable, Recovering
  <2>6. publish' # NoPublish => HeldFor(publish.turn)'
    BY <2>1, <2>3, Zenon DEF UnionControl
  <2>7. QED
    BY <1>0, <2>1, <2>4, <2>5, <2>6, Zenon DEF UnionControl
<1>2. ASSUME NEW r \in reads, NEW ids, Admit(r, ids), ~Forget PROVE UnionControl'
  <2>1. active.turn # None /\ active.turn \in Turns /\ tstate[active.turn] # "absent"
        /\ r.turn = active.turn
    BY <1>2, ConstantsAssumption
    DEF Admit, SameTurn, RuntimeInv, RuntimeTypeOK, ControlInv, TurnControl
  <2>2. /\ UNCHANGED <<tstate, tsess>>
        /\ members' = [members EXCEPT ![active.turn] = members[active.turn] \cup ids]
    BY <1>2, <2>1, TurnTableEffects, Zenon DEF Admit
  <2>3. /\ active' = [active EXCEPT !.ids = members'[active.turn]] /\ reads' \subseteq reads
        /\ file' = FileOf(active')
        /\ UNCHANGED <<loop, stage, auto, autoEvent, publish, provider>>
    BY <1>2, Zenon DEF Admit
  <2>4. /\ active'.turn = active.turn /\ active'.bound = active.bound
        /\ active'.ids = members'[active.turn] /\ file'.turn = active.turn
        /\ file'.ids = active'.ids
    BY <2>3 DEF RuntimeInv, RuntimeTypeOK, FileOf
  <2>5. ASSUME NEW t, HeldFor(t) PROVE HeldFor(t)'
    BY <2>1, <2>2, <2>3, <2>4, <2>5, Zenon DEF HeldFor, OwnRun, Autonomous
  <2>6. ActiveUnionIsDurable'
    BY <2>1, <2>4, Zenon DEF ActiveUnionIsDurable
  <2>7. \A q \in reads' : /\ tstate'[q.turn] = "in_turn" => q.turn = active'.turn
                          /\ q.kind \in {"held", "firing"} => q.sess # None
                          /\ q.kind = "firing" => HeldFor(q.turn)'
    BY <2>2, <2>3, <2>4, <2>5, Zenon DEF UnionControl
  <2>8. publish' # NoPublish => HeldFor(publish.turn)'
    BY <2>3, <2>5, Zenon DEF UnionControl
  <2>9. QED
    BY <1>0, <2>1, <2>2, <2>3, <2>4, <2>6, <2>7, <2>8, Zenon DEF UnionControl
<1>3. ASSUME NEW r \in reads, FireHeld(r) PROVE UnionControl'
  <2> DEFINE new == [r EXCEPT !.kind = "firing"]
  <2>1. /\ reads' = (reads \ {r}) \cup {new} /\ r.kind = "held" /\ HeldIdle /\ OwnRun
        /\ r.turn = active.turn /\ active.bound
        /\ UNCHANGED <<tstate, tsess, members, loop, active, stage, auto, autoEvent, publish,
                       provider, file>>
    BY <1>3, Zenon DEF FireHeld, SameProviderTurn, storeVars
  <2>2. new.turn = active.turn /\ new.sess = r.sess /\ r.sess # None
    BY <2>1 DEF RuntimeInv, RuntimeTypeOK, UnionControl
  <2>3. HeldFor(active.turn)'
    BY <2>1, Zenon DEF HeldFor, OwnRun, Autonomous
  <2>4. \A q \in reads' : /\ tstate'[q.turn] = "in_turn" => q.turn = active'.turn
                          /\ q.kind \in {"held", "firing"} => q.sess # None
                          /\ q.kind = "firing" => HeldFor(q.turn)'
    <3>1. \A q \in reads : /\ tstate'[q.turn] = "in_turn" => q.turn = active'.turn
                           /\ q.kind \in {"held", "firing"} => q.sess # None
                           /\ q.kind # "firing"
      BY <2>1 DEF UnionControl, HeldIdle
    <3> HIDE DEF new
    <3>2. QED BY <2>1, <2>2, <2>3, <3>1, Zenon
  <2>5. ActiveUnionIsDurable'
    BY <2>1, Zenon DEF UnionControl, ActiveUnionIsDurable, Recovering
  <2>6. QED
    BY <2>1, <2>4, <2>5, Zenon DEF UnionControl, HeldIdle
<1>4. ASSUME NEW r \in reads, AdmitHeld(r) PROVE UnionControl'
  <2>1. r.turn \in Turns /\ r.turn # None /\ tstate[r.turn] # "absent" /\ r.kind = "firing"
        /\ r.sess # None /\ HeldFor(r.turn)
    <3>1. r.turn \in Turns /\ r.turn # None
      BY <1>4, ReadsNameTurns, Zenon DEF RuntimeInv
    <3>2. r.kind = "firing"
      BY <1>4, Zenon DEF AdmitHeld
    <3>3. tstate[r.turn] # "absent"
      BY <1>4, Zenon DEF RuntimeInv, ControlInv, TurnControl
    <3>4. r.sess # None /\ HeldFor(r.turn)
      BY <1>4, <3>2, Zenon DEF UnionControl
    <3>5. QED BY <3>1, <3>2, <3>3, <3>4, Zenon
  <2>2. /\ UNCHANGED <<tstate, tsess>> /\ tstate[r.turn] = "in_turn" /\ tsess[r.turn] = r.sess
        /\ members' = [members EXCEPT ![r.turn] = members[r.turn] \cup (r.ids \cap Pending)]
    <3>1. AdmitMessages(r.ids \cap Pending, r.turn, r.sess)
      BY <1>4, Zenon DEF AdmitHeld
    <3>2. PICK ids : ids = r.ids \cap Pending
      BY Zenon
    <3>3. AdmitMessages(ids, r.turn, r.sess)
      BY <3>1, <3>2, Zenon
    <3>4. tstate[r.turn] # "absent"
      BY <2>1, Zenon
    <3>5. /\ tstate[r.turn] = "in_turn" /\ tsess[r.turn] = r.sess /\ UNCHANGED <<tstate, tsess>>
          /\ members' = [members EXCEPT ![r.turn] = members[r.turn] \cup ids]
      BY <3>3, <3>4, AdmitTableEffect, Zenon
    <3>6. QED BY <3>2, <3>5, Zenon
  <2>3. r.turn = active.turn
    BY <2>2, Zenon DEF UnionControl
  <2>4. /\ publish'.turn = r.turn /\ publish'.sess = r.sess /\ reads' \subseteq reads
        /\ UNCHANGED <<loop, active, stage, auto, autoEvent, provider, file>>
    BY <1>4, Zenon DEF AdmitHeld
  <2>5. publish' # NoPublish
    BY <2>1, <2>4, SMTT(30) DEF NoPublish
  <2>6. ASSUME NEW t, HeldFor(t) PROVE HeldFor(t)'
    BY <2>1, <2>2, <2>3, <2>4, <2>6, Zenon DEF HeldFor, OwnRun, Autonomous
  <2>7. ActiveUnionIsDurable'
    BY <2>1, <2>3, <2>4, <2>5, Zenon DEF UnionControl, ActiveUnionIsDurable
  <2>8. \A q \in reads' : /\ tstate'[q.turn] = "in_turn" => q.turn = active'.turn
                          /\ q.kind \in {"held", "firing"} => q.sess # None
                          /\ q.kind = "firing" => HeldFor(q.turn)'
    BY <2>2, <2>4, <2>6, Zenon DEF UnionControl
  <2>9. HeldFor(r.turn)'
    BY <2>1, <2>6, Zenon
  <2>10. QED
    BY <1>0, <2>1, <2>2, <2>3, <2>4, <2>7, <2>8, <2>9, Zenon DEF UnionControl
<1>5. ASSUME NEW r \in reads, RefuseRead(r) PROVE UnionControl'
  BY <1>5, UnionFrame, Zenon DEF RefuseRead, storeVars, UnionControl, Recovering, OwnRun, Autonomous
<1>6. CASE PublishHeld
  <2>1. /\ publish # NoPublish /\ active' = [active EXCEPT !.ids = DurableUnion]
        /\ file' = FileOf(active') /\ publish' = NoPublish
        /\ UNCHANGED <<tstate, tsess, members, loop, stage, auto, autoEvent, reads, provider>>
    BY <1>6, Zenon DEF PublishHeld, storeVars
  <2>2. /\ active'.turn = active.turn /\ active'.ids = DurableUnion
        /\ active'.bound = active.bound /\ file' = [turn |-> active.turn, ids |-> DurableUnion]
    BY <2>1, Zenon DEF RuntimeInv, RuntimeTypeOK, FileOf
  <2>3. publish.turn \in Turns /\ HeldFor(publish.turn) /\ publish.sess # None
    BY <2>1, Zenon DEF RuntimeInv, RuntimeTypeOK, ControlInv, TurnControl, UnionControl
  <2>4. ASSUME publish.turn = active.turn, tstate[active.turn] = "in_turn"
        PROVE  DurableUnion = members[active.turn]
    BY <2>1, <2>3, <2>4, SMTT(30)
    DEF DurableUnion, InTurnRows, UnionControl, RuntimeInv, StoreInv, TurnOwnership
  <2>5. ASSUME publish.turn # active.turn
        PROVE  /\ DurableUnion = {}
               /\ active.turn # None => members[active.turn] = {}
    BY <2>3, <2>5, Zenon DEF DurableUnion, InTurnRows, HeldFor
  <2>6. active.turn = None => DurableUnion = {} /\ file' = NoFile
    BY <2>2, <2>3, <2>5, ConstantsAssumption, Zenon DEF NoFile
  <2>7. ActiveUnionIsDurable'
    BY <2>1, <2>2, <2>4, <2>5, <2>6 DEF ActiveUnionIsDurable
  <2>8. ASSUME NEW t, HeldFor(t) PROVE HeldFor(t)'
    BY <2>1, <2>2, <2>8 DEF HeldFor, OwnRun, Autonomous
  <2>9. \A q \in reads' : /\ tstate'[q.turn] = "in_turn" => q.turn = active'.turn
                          /\ q.kind \in {"held", "firing"} => q.sess # None
                          /\ q.kind = "firing" => HeldFor(q.turn)'
    BY <2>1, <2>2, <2>8, Zenon DEF UnionControl
  <2>10. QED
    BY <1>0, <2>1, <2>2, <2>6, <2>7, <2>9, Zenon DEF UnionControl
<1>7. CASE PlanBusyNotice
  BY <1>7, UnionFrame, Zenon DEF PlanBusyNotice, storeVars, UnionControl, Recovering, OwnRun, Autonomous
<1>8. CASE RecordBusyNotice
  <2>1. UNCHANGED <<tstate, tsess, members>>
    BY <1>8, TurnTableEffects, Zenon DEF RecordBusyNotice
  <2>2. active'.turn = active.turn /\ active'.ids = active.ids /\ active'.bound = active.bound
    BY <1>8, Zenon DEF RecordBusyNotice, RuntimeInv, RuntimeTypeOK
  <2>3. QED
    BY <1>8, <2>1, <2>2, UnionFrame, Zenon DEF RecordBusyNotice, UnionControl, Recovering, OwnRun,
       Autonomous
<1>9. CASE DropBusyNotice
  BY <1>9, UnionFrame, Zenon DEF DropBusyNotice, storeVars, UnionControl, Recovering, OwnRun, Autonomous
<1>10. QED
  BY <1>1, <1>2, <1>3, <1>4, <1>5, <1>6, <1>7, <1>8, <1>9, ForgetUnion, Zenon
  DEF ReadStep, ReadInbox, StageVisibleRead, StageHeldSend, AdmitInboxPage, AdmitVisibleRead,
      Admit

\* A turn ends in the store; the runtime still holds what it held.
LEMMA EndedTurnUnion ==
    ASSUME RuntimeInv, UnionControl, NEW t \in Turns, NEW final \in {"processed", "requeued"},
           tstate' = [tstate EXCEPT ![t] = final],
           UNCHANGED <<tsess, members, active, auto, autoEvent, reads, publish, provider, file>>,
           Recovering' <=> Recovering,
           loop' \in {"orphans", "orphan_release"} => loop \in {"orphans", "orphan_release"},
           loop' \notin {"down", "recover"},
           provider # "daemon"
    PROVE  UnionControl'
<1>1. /\ \A u \in Turns : tstate'[u] = "in_turn" => tstate[u] = "in_turn"
      /\ \A u \in Turns : tstate[u] # "absent" => tstate'[u] # "absent"
  BY EndedTurn, Zenon DEF RuntimeInv, StoreInv, StoreTypeOK
<1>2. \A r \in reads : r.turn \in Turns
  BY Zenon DEF RuntimeInv, RuntimeTypeOK
<1>3. publish # NoPublish => publish.turn \in Turns
  BY Zenon DEF RuntimeInv, RuntimeTypeOK, ControlInv, TurnControl
<1>4. active.turn # None => active.turn \in Turns
  BY Zenon DEF RuntimeInv, RuntimeTypeOK
<1>5. ActiveUnionIsDurable'
  BY <1>1, <1>4, Zenon DEF UnionControl, ActiveUnionIsDurable
<1>6. ASSUME NEW u \in Turns, HeldFor(u) PROVE HeldFor(u)'
  BY <1>1, <1>6, Zenon DEF HeldFor, OwnRun, Autonomous
<1>7. \A r \in reads' : /\ tstate'[r.turn] = "in_turn" => r.turn = active'.turn
                        /\ r.kind \in {"held", "firing"} => r.sess # None
                        /\ r.kind = "firing" => HeldFor(r.turn)'
  BY <1>1, <1>2, <1>6, Zenon DEF UnionControl
<1>8. publish' # NoPublish => /\ HeldFor(publish.turn)' /\ publish'.sess # None
                              /\ tstate'[publish'.turn] # "absent"
                              /\ tstate'[publish'.turn] = "in_turn" =>
                                     tsess'[publish'.turn] = publish'.sess
  BY <1>1, <1>3, <1>6, Zenon DEF UnionControl
<1>9. QED BY <1>5, <1>7, <1>8, Zenon DEF UnionControl

\* The runtime lets go of a turn that ended: what was held for it has no run left.
LEMMA ClearedUnion ==
    ASSUME RuntimeInv, UnionControl, stage = "close", ClearActive,
           UNCHANGED <<tstate, tsess, members, reads, publish, provider>>,
           loop' \notin {"down", "recover"}
    PROVE  UnionControl'
<1>1. /\ active'.turn = None /\ active'.ids = {} /\ file' = NoFile /\ provider # "daemon"
  BY Zenon DEF ClearActive, RemoveFile, NoActive, Fresh, UnionControl
<1>2. active.turn # None /\ active.turn \in Turns /\ tstate[active.turn] # "in_turn"
  BY Zenon DEF RuntimeInv, RuntimeTypeOK, ControlInv, TurnControl
<1>3. ~OwnRun
  BY <1>1, <1>2, Zenon DEF OwnRun, Autonomous, RuntimeInv, ControlInv, AutonomousControl
<1>4. \A r \in reads : r.turn # None /\ tstate[r.turn] # "in_turn"
  BY <1>2, ReadsNameTurns, Zenon DEF RuntimeInv, UnionControl
<1>5. publish # NoPublish => publish.turn # None
  BY Zenon DEF RuntimeInv, ControlInv, TurnControl
<1>6. ASSUME NEW u, u # None, HeldFor(u) PROVE HeldFor(u)'
  BY <1>1, <1>2, <1>3, <1>6, Zenon DEF HeldFor
<1>7. ActiveUnionIsDurable'
  BY <1>1, Zenon DEF ActiveUnionIsDurable
<1>8. \A r \in reads' : /\ tstate'[r.turn] # "in_turn"
                        /\ r.kind \in {"held", "firing"} => r.sess # None
                        /\ r.kind = "firing" => HeldFor(r.turn)'
  BY <1>4, <1>6, Zenon DEF UnionControl
<1>9. publish' # NoPublish => /\ HeldFor(publish.turn)' /\ publish'.sess # None
                              /\ tstate'[publish'.turn] # "absent"
                              /\ tstate'[publish'.turn] = "in_turn" =>
                                     tsess'[publish'.turn] = publish'.sess
  BY <1>5, <1>6, Zenon DEF UnionControl
<1>10. QED BY <1>1, <1>7, <1>8, <1>9, Zenon DEF UnionControl

\* Settlement.
LEMMA SettleUnion == RuntimeInv /\ UnionControl /\ SettleStep => UnionControl'
<1> SUFFICES ASSUME RuntimeInv, UnionControl, SettleStep PROVE UnionControl'
  OBVIOUS
<1> USE DEF settleVars, autoVars, wakeVars, taskVars, recoveryVars, providerVars
<1>0. stage # "none" => /\ active.turn # None /\ active.turn \in Turns /\ provider # "daemon"
                        /\ loop \notin {"down", "recover", "unwinding", "orphans",
                                        "orphan_release"}
  BY RecoveringHoldsNone, Zenon
  DEF RuntimeInv, RuntimeTypeOK, ControlInv, TurnControl, UnionControl, Recovering
<1>1. CASE Reconcile
  BY <1>0, <1>1, UnionFrame, Zenon DEF Reconcile, storeVars, Recovering, OwnRun, Autonomous
<1>2. CASE FinalizeMessages \/ FinalizeFallback \/ FinalizeEmpty \/ RequeueActiveTurn
  <2>1. /\ stage # "none"
        /\ UNCHANGED <<loop, active, autoVars, reads, publish, provider, file>>
    BY <1>2, Zenon DEF FinalizeMessages, FinalizeFallback, FinalizeEmpty, RequeueActiveTurn
  <2>2. \E final \in {"processed", "requeued"} :
            tstate' = [tstate EXCEPT ![active.turn] = final]
    BY <1>2, FinalizeEndsTurn, Zenon
  <2>3. UNCHANGED <<tsess, members>>
    <3>1. CASE FinalizeMessages
      BY <3>1, TurnTableEffects, ZenonT(60) DEF FinalizeMessages, MarkProcessed, CompleteTurnWithRenotice
    <3>2. CASE FinalizeFallback
      BY <3>2, TurnTableEffects, Zenon DEF FinalizeFallback, CompleteTurnRenoticeUnrenotified
    <3>3. CASE FinalizeEmpty
      BY <3>3, TurnTableEffects, Zenon DEF FinalizeEmpty
    <3>4. CASE RequeueActiveTurn
      BY <3>4, TurnTableEffects, Zenon DEF RequeueActiveTurn
    <3>5. QED BY <1>2, <3>1, <3>2, <3>3, <3>4, Zenon
  <2>4. PICK final \in {"processed", "requeued"} :
            tstate' = [tstate EXCEPT ![active.turn] = final]
    BY <2>2, Zenon
  <2>5. Recovering' <=> Recovering
    BY <2>1 DEF Recovering
  <2>6. QED
    BY <1>0, <2>1, <2>3, <2>4, <2>5, EndedTurnUnion, Zenon
<1>3. CASE ReleaseEvidence
  <2>1. UNCHANGED <<tstate, tsess, members>>
    BY <1>3, TurnTableEffects, Zenon DEF ReleaseEvidence
  <2>2. QED
    BY <1>0, <1>3, <2>1, UnionFrame, Zenon DEF ReleaseEvidence, Recovering, OwnRun, Autonomous
<1>4. CASE CloseTurn \/ CloseResumed \/ CloseAutonomous
  <2>1. /\ stage = "close" /\ ClearActive
        /\ UNCHANGED <<tstate, tsess, members, reads, publish, provider>>
    BY <1>4 DEF CloseTurn, CloseResumed, CloseAutonomous, storeVars
  <2>2. loop' \notin {"down", "recover"}
    BY <1>0, <1>4, <2>1, Zenon DEF CloseTurn, CloseResumed, CloseAutonomous
  <2>3. QED BY <2>1, <2>2, ClearedUnion, Zenon
<1>5. CASE SettleFault
  <2>1. /\ stage # "none" /\ UNCHANGED <<storeVars, file, active, loop, reads, publish,
                                         provider, auto, autoEvent>>
    BY <1>5, Zenon DEF SettleFault
  <2>2. QED
    BY <1>0, <2>1, UnionFrame, Zenon DEF storeVars, Recovering, OwnRun, Autonomous
<1>6. CASE CloseCancelled \/ SettleConflict
  BY <1>6, ForgetUnion, Zenon DEF CloseCancelled, SettleConflict
<1>7. QED
  BY <1>1, <1>2, <1>3, <1>4, <1>5, <1>6, Zenon DEF SettleStep

\* Crash recovery.
LEMMA RecoveryUnion == RuntimeInv /\ UnionControl /\ RecoveryStep => UnionControl'
<1> SUFFICES ASSUME RuntimeInv, UnionControl, RecoveryStep PROVE UnionControl'
  OBVIOUS
<1> USE DEF settleVars, autoVars, wakeVars, taskVars, recoveryVars, providerVars
<1>0. /\ loop \in {"down", "recover", "unwinding", "orphans", "orphan_release"}
      /\ active.turn = None /\ active.ids = {} /\ provider # "daemon"
      /\ loop \in {"down", "recover"} => reads = {} /\ publish = NoPublish
  BY RecoveringHoldsNone, Zenon
  DEF RuntimeInv, UnionControl, Recovering, RecoveryStep, Restart, NothingToRecover, ResumeTurn,
      UnwindTurn, UnwindRelease, RequeueOrphan, OrphanRelease, Ready
<1>1. CASE Restart
  BY <1>0, <1>1, UnionFrame, Zenon DEF Restart, storeVars, Recovering, OwnRun, Autonomous
<1>2. CASE NothingToRecover
  <2>1. /\ reads' = {} /\ publish' = NoPublish /\ file' = NoFile /\ loop' = "orphans"
        /\ active' = active /\ provider' # "daemon"
    BY <1>0, <1>2, Zenon DEF NothingToRecover
  <2>2. QED BY <1>0, <2>1, Zenon DEF UnionControl, ActiveUnionIsDurable
<1>3. CASE ResumeTurn
  <2>1. /\ reads' = {} /\ publish' = NoPublish /\ loop' = "resumed" /\ provider' # "daemon"
        /\ file' = file /\ members' = members /\ file.turn # None
        /\ file.ids = members[file.turn]
    BY <1>0, <1>3, Zenon DEF ResumeTurn, Resumable, Joined, storeVars
  <2>2. active'.turn = file.turn /\ active'.ids = file.ids
    BY <1>3, Zenon DEF ResumeTurn, Fresh
  <2>3. QED BY <2>1, <2>2, Zenon DEF UnionControl, ActiveUnionIsDurable
<1>4. ASSUME NEW t \in Turns, RequeueRun(t),
             UNCHANGED <<active, autoVars, reads, publish, provider, file>>,
             \/ loop = "recover" /\ loop' = "unwinding"
             \/ loop = "orphans" /\ loop' = "orphan_release"
      PROVE  UnionControl'
  <2>1. tstate' = [tstate EXCEPT ![t] = "requeued"] /\ UNCHANGED <<tsess, members>>
    BY <1>4, TurnRowEffects, TurnTableEffects, Zenon DEF RequeueRun, FinalizeEmptyTurn
  <2>2. Recovering' <=> Recovering
    BY <1>4, Zenon DEF Recovering
  <2>3. QED BY <1>0, <1>4, <2>1, <2>2, EndedTurnUnion, Zenon
<1>5. CASE UnwindTurn
  BY <1>4, <1>5, Zenon DEF UnwindTurn, Joined, RuntimeInv, RuntimeTypeOK
<1>6. ASSUME NEW t \in Turns, RequeueOrphan(t) PROVE UnionControl'
  BY <1>4, <1>6, Zenon DEF RequeueOrphan
<1>7. CASE UnwindRelease
  <2>1. UNCHANGED <<tstate, tsess, members>>
    BY <1>7, TurnTableEffects, Zenon DEF UnwindRelease
  <2>2. /\ file' = NoFile /\ loop' = "orphans" /\ provider' # "daemon"
        /\ UNCHANGED <<active, auto, autoEvent, reads, publish, provider>>
    BY <1>0, <1>7, Zenon DEF UnwindRelease
  <2>3. ASSUME NEW t, HeldFor(t) PROVE HeldFor(t)'
    BY <2>1, <2>2, <2>3, Zenon DEF HeldFor, OwnRun, Autonomous
  <2>4. QED
    BY <1>0, <2>1, <2>2, <2>3, Zenon DEF UnionControl, ActiveUnionIsDurable
<1>8. CASE OrphanRelease
  <2>1. UNCHANGED <<tstate, tsess, members>>
    BY <1>8, TurnTableEffects, Zenon DEF OrphanRelease
  <2>2. QED
    BY <1>0, <1>8, <2>1, UnionFrame, Zenon DEF OrphanRelease, Recovering, OwnRun, Autonomous
<1>9. CASE Ready
  <2>1. file = NoFile
    BY <1>9, Zenon DEF Ready, UnionControl
  <2>2. QED
    BY <1>0, <1>9, <2>1, UnionFrame, Zenon DEF Ready, storeVars, Recovering, OwnRun, Autonomous
<1>10. QED
  BY <1>1, <1>2, <1>3, <1>5, <1>6, <1>7, <1>8, <1>9, Zenon DEF RecoveryStep

\* Every step of the runtime keeps the union invariant.
LEMMA UnionStep == RuntimeInv /\ UnionControl /\ [RuntimeNext]_runtimeVars => UnionControl'
<1> SUFFICES ASSUME RuntimeInv, UnionControl, [RuntimeNext]_runtimeVars PROVE UnionControl'
  BY Zenon
<1>1. CASE UNCHANGED runtimeVars
  <2>1. UNCHANGED <<tstate, tsess, members, publish, file, reads, active, loop, provider, stage,
                    auto, autoEvent>>
    BY <1>1, Zenon DEF runtimeVars, storeVars, settleVars, autoVars, wakeVars, taskVars, recoveryVars,
                providerVars
  <2>2. QED
    BY <2>1, UnionFrame, Zenon DEF UnionControl, Recovering, OwnRun, Autonomous
<1>2. CASE Crash
  BY <1>2, ForgetUnion DEF Crash
<1>3. QED
  BY <1>1, <1>2, ArrivalUnion, LoopUnion, ProviderUnion, ReadUnion, SettleUnion, RecoveryUnion, Zenon
  DEF RuntimeNext

-----------------------------------------------------------------------------
\* The theorems.

\* A worker starts with an empty store, no turn and the session it persisted.
LEMMA RuntimeInvInit == RuntimeInit => RuntimeInv
<1> SUFFICES ASSUME RuntimeInit PROVE RuntimeInv
  OBVIOUS
<1>1. StoreInv
  BY StoreInvInit DEF RuntimeInit
<1>2. 0 \in 0..prof.retries /\ 0 \in 0..prof.faults
  BY RuntimeAssumption DEF RuntimeInit
<1>3. RuntimeTypeOK
  BY <1>2 DEF RuntimeInit, RuntimeTypeOK, Loops, Stages, NoPlan, NoFile, NoBusy,
     NoPublish, NoActive, Fresh
<1>4. ControlInv
  BY DEF RuntimeInit, ControlInv, SerialTurns, TurnControl, AutonomousControl, Recovering,
         NoActive, Fresh, NoBusy, NoPublish
<1>5. QED BY <1>1, <1>3, <1>4 DEF RuntimeInv

\* Every step of the runtime preserves its invariant.
LEMMA RuntimeInvStep == RuntimeInv /\ [RuntimeNext]_runtimeVars => RuntimeInv'
<1> SUFFICES ASSUME RuntimeInv, [RuntimeNext]_runtimeVars PROVE RuntimeInv'
  OBVIOUS
<1>1. StoreTypeOK
  BY DEF RuntimeInv, StoreInv
<1>2. RuntimeTypeOK' /\ ControlInv' /\ [AnyStep]_storeVars
  BY <1>1, RuntimeTypeStep, ControlStep, RuntimeStoreStep DEF RuntimeInv
<1>3. QED BY <1>2, StoreInvStep DEF RuntimeInv

\* The inductive invariant of the runtime over its store, for any agent profile
\* and any number of messages, turns, sessions and crashes.
THEOREM RuntimeInvariant == RuntimeSpec => []RuntimeInv
  BY RuntimeInvInit, RuntimeInvStep, PTL DEF RuntimeSpec

\* Every step of the runtime is a transaction the store allows, or none.
THEOREM RuntimeObeysStore == RuntimeSpec => [][AnyStep]_storeVars
<1>1. RuntimeInv /\ [RuntimeNext]_runtimeVars => [AnyStep]_storeVars
  BY RuntimeStoreStep DEF RuntimeInv, StoreInv
<1>2. QED BY <1>1, RuntimeInvariant, PTL DEF RuntimeSpec

\* Turns serialize per Agent: past recovery the store has no turn in flight but
\* the one the runtime holds.
THEOREM RuntimeSerialTurns == RuntimeSpec => []SerialTurns
<1>1. RuntimeInv => SerialTurns
  BY DEF RuntimeInv, ControlInv
<1>2. QED BY <1>1, RuntimeInvariant, PTL

\* An adopted autonomous turn never outlives its provider run unsettled with no
\* wake left to settle it.
THEOREM RuntimeNoWedgedAutonomous == RuntimeSpec => []NoWedgedAutonomous
<1>1. RuntimeInv => NoWedgedAutonomous
  BY DEF RuntimeInv, ControlInv, AutonomousControl, NoWedgedAutonomous
<1>2. QED BY <1>1, RuntimeInvariant, PTL

\* Under the runtime, in_turn rows are exactly the members of the turns in flight.
THEOREM RuntimeTurnOwnership == RuntimeSpec => []TurnOwnership
<1>1. RuntimeInv => TurnOwnership
  BY DEF RuntimeInv, StoreInv
<1>2. QED BY <1>1, RuntimeInvariant, PTL

\* Under the runtime, a notice is due exactly when a pending row is unannounced.
THEOREM RuntimeDueIffUnannounced == RuntimeSpec => []DueIffUnannounced
<1>1. RuntimeInv => DueIffUnannounced
  BY DueFromInv DEF RuntimeInv
<1>2. QED BY <1>1, RuntimeInvariant, PTL

\* The runtime, crashes included, takes every message through the lifecycle the
\* Inbox promises.
THEOREM RuntimeImplementsLifecycle == RuntimeSpec => ImplementsLifecycle
<1>1. RuntimeInit => Lifecycle!Init
  BY DEF RuntimeInit, StoreInit, Lifecycle!Init, LifeOf, EverAdmitted
<1>2. RuntimeInv /\ RuntimeInv' /\ [AnyStep]_storeVars => [Lifecycle!Next]_(Lifecycle!vars)
  BY LifecycleStep DEF RuntimeInv
<1>3. QED
  BY <1>1, <1>2, RuntimeInvariant, RuntimeObeysStore, PTL
  DEF RuntimeSpec, ImplementsLifecycle, Lifecycle!Spec

\* Under the runtime, a covered row returns to pending only from a turn that
\* completed: a retry never shows the model what it has answered.
THEOREM RuntimeCoveredNotRetried == RuntimeSpec => CoveredNotRetried
<1>1. RuntimeInv /\ [AnyStep]_storeVars =>
          [\A m \in covered : pst[m] = "in_turn" /\ pst'[m] = "pending"
               => tstate'[turnOf[m]] = "processed"]_storeVars
  BY CoveredStep DEF RuntimeInv
<1>2. QED
  BY <1>1, RuntimeInvariant, RuntimeObeysStore, PTL DEF CoveredNotRetried

\* A row that has spent its one redelivery returns to pending only from a turn
\* that failed.
THEOREM RuntimeRenoticedOnce == RuntimeSpec => RenoticedOnce
  BY RenoticedStep, RuntimeInvariant, PTL DEF RuntimeSpec, RenoticedOnce

\* A pending row enters a turn only through a read of that very turn.
THEOREM RuntimeAdmittedByItsReader == RuntimeSpec => AdmittedByItsReader
  BY AdmittedStep, RuntimeInvariant, PTL DEF RuntimeSpec, AdmittedByItsReader

\* Whatever interleaving of reads, held-send admissions, autonomous turns, settlements and
\* crashes: the union of rows the runtime settles a turn with is the one the store holds for
\* it, and the crash join names that turn and that union.
THEOREM RuntimeActiveUnionIsDurable == RuntimeSpec => []ActiveUnionIsDurable
<1>1. RuntimeInit => UnionControl
  BY DEF RuntimeInit, UnionControl, ActiveUnionIsDurable, NoActive, Fresh, NoPublish, Recovering
<1>2. RuntimeInv /\ UnionControl /\ [RuntimeNext]_runtimeVars => UnionControl'
  BY UnionStep
<1>3. UnionControl => ActiveUnionIsDurable
  BY DEF UnionControl
<1>4. QED
  BY <1>1, <1>2, <1>3, RuntimeInvariant, PTL DEF RuntimeSpec
=============================================================================
