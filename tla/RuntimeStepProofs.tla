-------------------------- MODULE RuntimeStepProofs --------------------------
(***************************************************************************)
(* Machine-checked lemmas about the steps of GlobalInboxRuntime, for any   *)
(* finite set of messages and any turns, sessions and profiles: each keeps *)
(* the types, is a transaction of the store or leaves it alone, and keeps  *)
(* the control invariant.                                                  *)
(***************************************************************************)
EXTENDS GlobalInboxRuntime, TLAPS

USE DEF Dispositions, ProcessingStates, TurnStates

-----------------------------------------------------------------------------
\* Types.

\* The bounds of the agent's profile are natural numbers.
LEMMA ProfileBounds ==
    RuntimeTypeOK => /\ prof.retries \in Nat /\ prof.reads \in Nat /\ prof.faults \in Nat
                     /\ 0 \in 0..prof.retries
  BY RuntimeAssumption DEF RuntimeTypeOK

\* The volatile state after a crash is typed.
LEMMA ForgetType ==
    ASSUME RuntimeTypeOK, Forget, prof' = prof,
           file' \in [turn : Turns \cup {None}, ids : SUBSET Msgs],
           toldBy' \in [Msgs -> Turns \cup {None}]
    PROVE  RuntimeTypeOK'
  BY ProfileBounds, Zenon DEF RuntimeTypeOK, Forget, Loops, Stages, NoPlan, NoActive, Fresh, NoBusy, NoPublish

\* A turn begins with no rows, in its first attempt.
LEMMA FreshType ==
    ASSUME RuntimeTypeOK, NEW t \in Turns, NEW ids \in SUBSET Msgs, NEW n \in SUBSET Msgs,
           NEW s \in Sessions \cup {None}, NEW b \in BOOLEAN
    PROVE  Fresh(t, ids, n, s, b) \in
               [turn : Turns \cup {None}, ids : SUBSET Msgs, notice : SUBSET Msgs,
                sess : Sessions \cup {None}, try : 0..prof.retries, bound : BOOLEAN]
  BY ProfileBounds DEF Fresh

\* Arrivals and covers keep the types.
LEMMA ArrivalType == RuntimeTypeOK /\ prof' = prof /\ ArrivalStep => RuntimeTypeOK'
<1> SUFFICES ASSUME RuntimeTypeOK, prof' = prof, ArrivalStep PROVE RuntimeTypeOK'
  BY Zenon
<1> USE DEF settleVars, autoVars, wakeVars, taskVars, recoveryVars, providerVars
<1>1. ASSUME NEW m \in Msgs, Arrive(m) PROVE RuntimeTypeOK'
  BY <1>1 DEF Arrive, RuntimeTypeOK
<1>2. ASSUME NEW m \in Msgs, MarkCovered(m) PROVE RuntimeTypeOK'
  BY <1>2 DEF MarkCovered, RuntimeTypeOK
<1>3. CASE Notify
  <2>1. /\ arrived' \in BOOLEAN /\ armed' \in BOOLEAN
        /\ UNCHANGED <<storeVars, loop, plan, active, settleVars, autoVars, taskVars,
                       recoveryVars, providerVars, faults, file, toldBy>>
    BY <1>3, Zenon DEF Notify
  <2>2. QED BY <2>1 DEF RuntimeTypeOK
<1>4. QED BY <1>1, <1>2, <1>3, Zenon DEF ArrivalStep

\* The run loop keeps the types.
LEMMA LoopType ==
    RuntimeTypeOK /\ StoreTypeOK /\ prof' = prof /\ LoopStep => RuntimeTypeOK'
<1> SUFFICES ASSUME RuntimeTypeOK, StoreTypeOK, prof' = prof, LoopStep PROVE RuntimeTypeOK'
  OBVIOUS
<1> USE DEF settleVars, autoVars, wakeVars, taskVars, recoveryVars, providerVars
<1>0. \A s : NoticeCandidates(s) \in SUBSET Msgs
  BY Zenon DEF NoticeCandidates, VisiblePending, Pending, PendingOf
<1>1. CASE Wake
  <2>1. /\ loop' = "woken" /\ armed' \in BOOLEAN
        /\ UNCHANGED <<storeVars, plan, active, settleVars, autoVars, arrived, taskVars,
                       recoveryVars, providerVars, faults, file, toldBy>>
    BY <1>1, Zenon DEF Wake
  <2>2. QED BY <2>1 DEF RuntimeTypeOK, Loops
<1>11. CASE ReplayDeferred
  BY <1>11 DEF ReplayDeferred, RuntimeTypeOK
<1>12. CASE QueueBehindAutonomous
  BY <1>12 DEF QueueBehindAutonomous, RuntimeTypeOK, Loops
<1>2. CASE RetrySettle
  <2>1. /\ stage' \in {"settle", "release"} /\ owed' \in BOOLEAN
        /\ UNCHANGED <<storeVars, loop, plan, active, verdict, snap, auto, autoEvent, wakeVars,
                       taskVars, recoveryVars, providerVars, faults, file, toldBy>>
    BY <1>2, Zenon DEF RetrySettle
  <2>2. QED BY <2>1 DEF RuntimeTypeOK, Stages
<1>3. CASE PlanPending
  <2>1. plan' \in [g : Nat, ids : SUBSET Msgs] /\ loop' \in Loops
    BY <1>0, <1>3, Zenon DEF PlanPending, Loops, NoPlan, StoreTypeOK
  <2>2. QED BY <1>3, <2>1 DEF PlanPending, RuntimeTypeOK
<1>13. CASE ContextReplan
  <2>1. plan' \in [g : Nat, ids : SUBSET Msgs]
    BY <1>0, <1>13, Zenon DEF ContextReplan, StoreTypeOK
  <2>2. QED BY <1>13, <2>1 DEF ContextReplan, RuntimeTypeOK
<1>4. CASE ContextRefuses
  BY <1>4 DEF ContextRefuses, RuntimeTypeOK, Loops, NoPlan
<1>14. CASE NoticeLost
  BY <1>14 DEF NoticeLost, RuntimeTypeOK, Loops, NoPlan
<1>5. CASE CheckNotice
  BY <1>5 DEF CheckNotice, RuntimeTypeOK, Loops, NoPlan
<1>6. CASE WakeRemaining
  BY <1>6 DEF WakeRemaining, RuntimeTypeOK, Loops
<1>7. ASSUME NEW s \in Sessions, ContextRollover(s) PROVE RuntimeTypeOK'
  <2>1. /\ session' = s /\ opened' = opened \cup {s} /\ active' = [active EXCEPT !.sess = s]
        /\ UNCHANGED <<loop, plan, settleVars, autoVars, wakeVars, taskVars,
                       recoveryVars, provider, faults, file, toldBy>>
    BY <1>7, Zenon DEF ContextRollover
  <2>2. QED BY <2>1 DEF RuntimeTypeOK
<1>8. CASE StartConflict
  BY <1>8, ForgetType DEF StartConflict, RuntimeTypeOK
<1>9. ASSUME NEW t \in Turns, StartLocalTurn(t) PROVE RuntimeTypeOK'
  <2>1. toldBy' \in [Msgs -> Turns \cup {None}]
    BY <1>9, Zenon DEF StartLocalTurn, Announce, RuntimeTypeOK
  <2>2. CASE Forget /\ UNCHANGED file
    BY <2>1, <2>2, ForgetType, Zenon DEF RuntimeTypeOK
  <2>3. CASE ~(Forget /\ UNCHANGED file)
    <3>1. /\ active' = Fresh(t, {}, plan.ids, session, FALSE) /\ file' = FileOf(active')
          /\ loop' = "running"
          /\ UNCHANGED <<plan, settleVars, autoVars, wakeVars, taskVars, recoveryVars,
                         providerVars, faults>>
      BY <1>9, <2>3, Zenon DEF StartLocalTurn
    <3>2. active' \in [turn : Turns \cup {None}, ids : SUBSET Msgs, notice : SUBSET Msgs,
                        sess : Sessions \cup {None}, try : 0..prof.retries, bound : BOOLEAN]
      <4>1. plan.ids \in SUBSET Msgs /\ session \in Sessions \cup {None}
        BY DEF RuntimeTypeOK
      <4>2. QED BY <3>1, <4>1, FreshType, Zenon
    <3>3. file' \in [turn : Turns \cup {None}, ids : SUBSET Msgs]
      BY <3>1, <3>2, Zenon DEF FileOf
    <3>4. /\ loop' \in Loops
          /\ UNCHANGED <<plan, settleVars, autoVars, wakeVars, taskVars, recoveryVars,
                         providerVars, faults>>
      BY <3>1, Zenon DEF Loops
    <3>5. QED BY <2>1, <3>2, <3>3, <3>4 DEF RuntimeTypeOK
  <2>4. QED BY <2>2, <2>3
<1>10. QED
  BY <1>1, <1>2, <1>3, <1>4, <1>5, <1>6, <1>7, <1>8, <1>9, <1>11, <1>12, <1>13,
     <1>14, Zenon DEF LoopStep

\* The provider's steps keep the types.
LEMMA ProviderType ==
    RuntimeTypeOK /\ StoreTypeOK /\ ControlInv /\ prof' = prof /\ ProviderStep => RuntimeTypeOK'
<1> SUFFICES ASSUME RuntimeTypeOK, StoreTypeOK, ControlInv, prof' = prof, ProviderStep
             PROVE  RuntimeTypeOK'
  BY Zenon
<1> USE DEF settleVars, autoVars, wakeVars, taskVars, recoveryVars, providerVars
<1>1. ASSUME NEW s \in Sessions \cup {None}, ProviderAccepts(s) PROVE RuntimeTypeOK'
  BY <1>1 DEF ProviderAccepts, RuntimeTypeOK
<1>2. CASE BindTransfer
  BY <1>2 DEF BindTransfer, RuntimeTypeOK
<1>3. CASE BindNotice
  <2>1. toldBy' \in [Msgs -> Turns \cup {None}]
    BY <1>3, Zenon DEF BindNotice, Announce, RuntimeTypeOK
  <2>2. CASE Forget /\ UNCHANGED file
    BY <2>1, <2>2, ForgetType, Zenon DEF RuntimeTypeOK
  <2>3. CASE ~(Forget /\ UNCHANGED file)
    <3>1. /\ active' = [active EXCEPT !.sess = session, !.bound = TRUE]
          /\ file' = FileOf(active')
          /\ UNCHANGED <<loop, plan, settleVars, autoVars, wakeVars, taskVars, recoveryVars,
                         providerVars, faults>>
      BY <1>3, <2>3 DEF BindNotice
    <3>2. active' \in [turn : Turns \cup {None}, ids : SUBSET Msgs, notice : SUBSET Msgs,
                        sess : Sessions \cup {None}, try : 0..prof.retries, bound : BOOLEAN]
      BY <3>1, Zenon DEF RuntimeTypeOK
    <3>3. file' \in [turn : Turns \cup {None}, ids : SUBSET Msgs]
      BY <3>1, <3>2, Zenon DEF FileOf
    <3>4. QED BY <2>1, <3>1, <3>2, <3>3 DEF RuntimeTypeOK
  <2>4. QED BY <2>2, <2>3, Zenon
<1>4. CASE RetryAttempt
  <2>1. active.try + 1 \in 0..prof.retries
    BY <1>4, ProfileBounds DEF RetryAttempt, RetriesLeft, RuntimeTypeOK
  <2>2. active' = [active EXCEPT !.try = active.try + 1, !.bound = FALSE]
    BY <1>4 DEF RetryAttempt
  <2>3. active' \in [turn : Turns \cup {None}, ids : SUBSET Msgs, notice : SUBSET Msgs,
                      sess : Sessions \cup {None}, try : 0..prof.retries, bound : BOOLEAN]
    BY <2>1, <2>2, Zenon DEF RuntimeTypeOK
  <2>4. QED BY <1>4, <2>3 DEF RetryAttempt, RuntimeTypeOK
<1>5. CASE TurnSucceeds
  BY <1>5 DEF TurnSucceeds, RuntimeTypeOK, Stages
<1>6. ASSUME NEW v \in {"failed", "cancelled"}, TurnFails(v) PROVE RuntimeTypeOK'
  BY <1>6 DEF TurnFails, RuntimeTypeOK, Stages
<1>7. CASE AutonomousStarted
  BY <1>7 DEF AutonomousStarted, RuntimeTypeOK
<1>11. CASE DeferAdoption
  BY <1>11 DEF DeferAdoption, RuntimeTypeOK
<1>8. ASSUME NEW t \in Turns, AdoptAutonomousTurn(t) PROVE RuntimeTypeOK'
  <2>1. active' \in [turn : Turns \cup {None}, ids : SUBSET Msgs, notice : SUBSET Msgs,
                      sess : Sessions \cup {None}, try : 0..prof.retries, bound : BOOLEAN]
    <3>1. active' = Fresh(t, {}, {}, session, TRUE) /\ session \in Sessions \cup {None}
      BY <1>8, Zenon DEF AdoptAutonomousTurn, RuntimeTypeOK
    <3>2. QED BY <3>1, FreshType, Zenon
  <2>2. /\ auto' = t /\ autoEvent' = "none"
        /\ UNCHANGED <<loop, plan, settleVars, owed, wakeVars, taskVars, recoveryVars,
                       providerVars, faults, file, toldBy>>
    BY <1>8, Zenon DEF AdoptAutonomousTurn
  <2>3. QED BY <2>1, <2>2 DEF RuntimeTypeOK
<1>9. ASSUME NEW v \in {"ok", "failed"}, AutonomousEnded(v) PROVE RuntimeTypeOK'
  BY <1>9 DEF AutonomousEnded, RuntimeTypeOK, Stages
<1>10. QED
  BY <1>1, <1>2, <1>3, <1>4, <1>5, <1>6, <1>7, <1>8, <1>9, <1>11, Zenon DEF ProviderStep

\* A read, its admission and a busy notice keep the types.
LEMMA ReadType ==
    RuntimeTypeOK /\ StoreTypeOK /\ ControlInv /\ prof' = prof /\ ReadStep => RuntimeTypeOK'
<1> SUFFICES ASSUME RuntimeTypeOK, StoreTypeOK, ControlInv, prof' = prof, ReadStep
             PROVE  RuntimeTypeOK'
  OBVIOUS
<1> USE DEF settleVars, autoVars, wakeVars, recoveryVars, providerVars
<1>0. /\ \A s : NoticeCandidates(s) \in SUBSET Msgs
      /\ Pending \in SUBSET Msgs /\ VisiblePending \in SUBSET Msgs
  BY Zenon DEF NoticeCandidates, VisiblePending, Pending, PendingOf
<1>1. ASSUME NEW kind \in {"page", "history", "held"}, NEW ids \in SUBSET Msgs,
             StageRead(kind, ids)
      PROVE  RuntimeTypeOK'
  BY <1>1 DEF StageRead, RuntimeTypeOK
<1>2. CASE \E ids \in SUBSET Msgs : ReadInbox(ids) \/ StageVisibleRead(ids) \/ StageHeldSend(ids)
  BY <1>1, <1>2 DEF ReadInbox, StageVisibleRead, StageHeldSend
<1>3. ASSUME NEW r \in reads, NEW ids \in SUBSET Msgs, Admit(r, ids) PROVE RuntimeTypeOK'
  <2>1. CASE Forget /\ UNCHANGED file
    BY <1>3, <2>1, ForgetType, Zenon DEF Admit, RuntimeTypeOK
  <2>2. CASE ~(Forget /\ UNCHANGED file)
    <3>1. active.turn \in Turns
      BY <1>3, Zenon DEF Admit, SameTurn, RuntimeTypeOK
    <3>2. members'[active.turn] \in SUBSET Msgs
      BY <1>3, <3>1, Zenon DEF Admit, AdmitMessages, StoreTypeOK
    <3>3. QED BY <1>3, <2>2, <3>2 DEF Admit, RuntimeTypeOK, FileOf
  <2>3. QED BY <2>1, <2>2, Zenon
<1>4. ASSUME NEW r \in reads, AdmitInboxPage(r) \/ AdmitVisibleRead(r) PROVE RuntimeTypeOK'
  <2>1. r.ids \in SUBSET Msgs
    BY Zenon DEF RuntimeTypeOK
  <2>2. QED BY <1>0, <1>3, <1>4, <2>1, Zenon DEF AdmitInboxPage, AdmitVisibleRead
<1>5. ASSUME NEW r \in reads, FireHeld(r) PROVE RuntimeTypeOK'
  <2>1. [r EXCEPT !.kind = "firing"] \in
            [kind : {"page", "history", "held", "firing"}, turn : Turns,
             sess : Sessions \cup {None}, try : 0..prof.retries, bound : BOOLEAN,
             ids : SUBSET Msgs]
    BY DEF RuntimeTypeOK
  <2>2. /\ reads' \subseteq reads \cup {[r EXCEPT !.kind = "firing"]}
        /\ UNCHANGED <<loop, plan, active, settleVars, autoVars, wakeVars, publish, busy,
                       recoveryVars, providerVars, faults, file, toldBy>>
    BY <1>5, Zenon DEF FireHeld
  <2>3. QED BY <2>1, <2>2 DEF RuntimeTypeOK
<1>6. ASSUME NEW r \in reads, AdmitHeld(r) PROVE RuntimeTypeOK'
  <2>1. r.turn \in Turns /\ r.sess \in Sessions \cup {None}
    BY Zenon DEF RuntimeTypeOK
  <2>2. QED BY <1>6, <2>1 DEF AdmitHeld, RuntimeTypeOK
<1>7. ASSUME NEW r \in reads, RefuseRead(r) PROVE RuntimeTypeOK'
  BY <1>7 DEF RefuseRead, RuntimeTypeOK
<1>8. CASE PublishHeld
  <2>1. publish.turn \in Turns
    BY <1>8 DEF PublishHeld, ControlInv, TurnControl, RuntimeTypeOK
  <2>2. DurableUnion \in SUBSET Msgs
    BY <2>1, Zenon DEF DurableUnion, InTurnRows, StoreTypeOK
  <2>3. QED BY <1>8, <2>2 DEF PublishHeld, RuntimeTypeOK, FileOf, NoPublish
<1>9. CASE PlanBusyNotice
  BY <1>0, <1>9 DEF PlanBusyNotice, RuntimeTypeOK, StoreTypeOK
<1>10. CASE RecordBusyNotice
  <2>1. toldBy' \in [Msgs -> Turns \cup {None}]
    BY <1>10, Zenon DEF RecordBusyNotice, Announce, RuntimeTypeOK
  <2>2. QED BY <1>10, <2>1 DEF RecordBusyNotice, RuntimeTypeOK, NoBusy
<1>11. CASE DropBusyNotice
  BY <1>11 DEF DropBusyNotice, RuntimeTypeOK, NoBusy
<1>12. QED BY <1>2, <1>4, <1>5, <1>6, <1>7, <1>8, <1>9, <1>10, <1>11, Zenon DEF ReadStep

\* A step that moves only the stage of the settlement.
LEMMA StageType ==
    ASSUME RuntimeTypeOK, prof' = prof, stage' \in Stages, snap' \in SUBSET Msgs,
           faults' \in 0..prof.faults,
           UNCHANGED <<loop, plan, active, verdict, autoVars, wakeVars, taskVars, recoveryVars,
                       providerVars, file, toldBy>>
    PROVE  RuntimeTypeOK'
  BY DEF RuntimeTypeOK, autoVars, wakeVars, taskVars, recoveryVars, providerVars

\* A settlement keeps the types.
LEMMA SettleType ==
    RuntimeTypeOK /\ StoreTypeOK /\ ControlInv /\ prof' = prof /\ SettleStep => RuntimeTypeOK'
<1> SUFFICES ASSUME RuntimeTypeOK, StoreTypeOK, ControlInv, prof' = prof, SettleStep
             PROVE  RuntimeTypeOK'
  OBVIOUS
<1> USE DEF settleVars, autoVars, wakeVars, taskVars, recoveryVars, providerVars
<1>1. CASE Reconcile
  <2>1. /\ stage' \in Stages /\ snap' \in SUBSET Msgs
        /\ UNCHANGED <<loop, plan, active, verdict, autoVars, wakeVars, taskVars, recoveryVars,
                       providerVars, faults, file, toldBy>>
    BY <1>1 DEF Reconcile, Uncovered, RuntimeTypeOK, Stages
  <2>2. faults' \in 0..prof.faults
    BY <2>1, Zenon DEF RuntimeTypeOK
  <2>3. QED BY <2>1, <2>2, StageType, Zenon
<1>2. CASE FinalizeMessages
  <2>1. /\ stage' \in Stages /\ snap' \in SUBSET Msgs
        /\ UNCHANGED <<loop, plan, active, verdict, autoVars, wakeVars, taskVars, recoveryVars,
                       providerVars, faults, file, toldBy>>
    BY <1>2, Zenon DEF FinalizeMessages, Stages
  <2>2. faults' \in 0..prof.faults
    BY <2>1, Zenon DEF RuntimeTypeOK
  <2>3. QED BY <2>1, <2>2, StageType, Zenon
<1>3. CASE FinalizeFallback
  <2>1. /\ stage' \in Stages /\ faults < prof.faults /\ faults' = faults + 1
        /\ UNCHANGED <<loop, plan, active, verdict, snap, autoVars, wakeVars, taskVars,
                       recoveryVars, providerVars, file, toldBy>>
    BY <1>3, Zenon DEF FinalizeFallback, Stages
  <2>2. snap' \in SUBSET Msgs
    BY <2>1, Zenon DEF RuntimeTypeOK
  <2>3. faults' \in 0..prof.faults
    BY <2>1, ProfileBounds DEF RuntimeTypeOK
  <2>4. QED BY <2>1, <2>2, <2>3, StageType, Zenon
<1>4. CASE FinalizeEmpty \/ RequeueActiveTurn
  BY <1>4 DEF FinalizeEmpty, RequeueActiveTurn, RuntimeTypeOK, Stages
<1>5. CASE ReleaseEvidence
  BY <1>5 DEF ReleaseEvidence, RuntimeTypeOK, Stages
<1>6. NoFile \in [turn : Turns \cup {None}, ids : SUBSET Msgs]
  BY SMTT(30) DEF NoFile
<1>7. ASSUME ClearActive
      PROVE  /\ active' \in [turn : Turns \cup {None}, ids : SUBSET Msgs, notice : SUBSET Msgs,
                             sess : Sessions \cup {None}, try : 0..prof.retries, bound : BOOLEAN]
             /\ stage' \in Stages /\ verdict' \in {"ok", "failed", "cancelled"}
             /\ snap' \in SUBSET Msgs /\ file' \in [turn : Turns \cup {None}, ids : SUBSET Msgs]
  BY <1>6, <1>7, ProfileBounds, Zenon DEF ClearActive, RemoveFile, NoActive, Fresh, Stages
<1>8. CASE CloseTurn
  <2>1. NoPlan \in [g : Nat, ids : SUBSET Msgs]
    BY DEF NoPlan
  <2>2. /\ loop' \in Loops /\ plan' = NoPlan
        /\ UNCHANGED <<prof, autoVars, wakeVars, taskVars, recoveryVars, providerVars, faults, toldBy>>
    BY <1>8, Zenon DEF CloseTurn, Loops
  <2>3. ClearActive
    BY <1>8, Zenon DEF CloseTurn
  <2>4. QED
    BY <1>7, <2>1, <2>2, <2>3 DEF RuntimeTypeOK
<1>9. CASE CloseCancelled
  BY <1>6, <1>9, ForgetType, Zenon DEF CloseCancelled, RemoveFile, RuntimeTypeOK
<1>10. CASE CloseResumed
  <2>1. /\ loop' \in Loops /\ ClearActive /\ mending' = None
        /\ UNCHANGED <<plan, auto, autoEvent, owed, reads, publish, busy, session, opened,
                       provider, faults, toldBy>>
    BY <1>10, Zenon DEF CloseResumed, Loops
  <2>2. armed' \in BOOLEAN /\ arrived' \in BOOLEAN /\ deferRec' \in BOOLEAN
    BY <1>10, Zenon DEF CloseResumed, RuntimeTypeOK
  <2>3. QED BY <1>7, <2>1, <2>2 DEF RuntimeTypeOK
<1>11. CASE CloseAutonomous
  BY <1>7, <1>11 DEF CloseAutonomous, NotifyTerminal, RuntimeTypeOK
<1>12. CASE SettleFault
  <2>1. faults' \in 0..prof.faults
    <3>1. faults < prof.faults /\ faults' = faults + 1
      BY <1>12, Zenon DEF SettleFault
    <3>2. QED BY <3>1, ProfileBounds DEF RuntimeTypeOK
  <2>2. CASE Autonomous
    <3>1. /\ stage' \in Stages /\ owed' = TRUE /\ armed' = TRUE
          /\ UNCHANGED <<loop, plan, active, verdict, snap, auto, autoEvent, arrived,
                         taskVars, recoveryVars, providerVars, file, toldBy>>
      BY <1>12, <2>2, Zenon DEF SettleFault, OweSettlement, Stages
    <3>2. QED BY <2>1, <3>1 DEF RuntimeTypeOK
  <2>3. CASE ~Autonomous
    BY <1>12, <2>1, <2>3, SMTT(30) DEF SettleFault, RuntimeTypeOK, Stages
  <2>4. QED BY <2>2, <2>3, Zenon
<1>13. CASE SettleConflict
  BY <1>13, ForgetType, Zenon DEF SettleConflict, RuntimeTypeOK
<1>14. QED
  BY <1>1, <1>2, <1>3, <1>4, <1>5, <1>8, <1>9, <1>10, <1>11, <1>12, <1>13, Zenon DEF SettleStep

\* Recovery keeps the types.
LEMMA RecoveryType ==
    RuntimeTypeOK /\ StoreTypeOK /\ prof' = prof /\ RecoveryStep => RuntimeTypeOK'
<1> SUFFICES ASSUME RuntimeTypeOK, StoreTypeOK, prof' = prof, RecoveryStep
             PROVE  RuntimeTypeOK'
  OBVIOUS
<1> USE DEF settleVars, autoVars, wakeVars, taskVars, recoveryVars, providerVars
<1>0. NoFile \in [turn : Turns \cup {None}, ids : SUBSET Msgs]
  BY Zenon DEF NoFile
<1>1. CASE Restart
  BY <1>1 DEF Restart, RuntimeTypeOK, Loops
<1>2. CASE NothingToRecover
  BY <1>0, <1>2 DEF NothingToRecover, RuntimeTypeOK, Loops
<1>3. ASSUME Joined
      PROVE  file.turn \in Turns /\ tsess[file.turn] \in Sessions \cup {None}
  BY <1>3, Zenon DEF Joined, RuntimeTypeOK, StoreTypeOK
<1>4. CASE ResumeTurn
  <2>1. file.ids \in SUBSET Msgs
    BY Zenon DEF RuntimeTypeOK
  <2>2. file.turn \in Turns /\ tsess[file.turn] \in Sessions \cup {None}
    BY <1>4, Zenon DEF ResumeTurn, Joined, RuntimeTypeOK, StoreTypeOK
  <2>3. active' \in [turn : Turns \cup {None}, ids : SUBSET Msgs, notice : SUBSET Msgs,
                      sess : Sessions \cup {None}, try : 0..prof.retries, bound : BOOLEAN]
    BY <1>4, <2>1, <2>2, FreshType, Zenon DEF ResumeTurn
  <2>4. /\ loop' \in Loops /\ mending' \in Sessions \cup {None}
        /\ UNCHANGED <<plan, settleVars, autoVars, wakeVars, taskVars, deferRec, providerVars,
                       faults, file, toldBy>>
    BY <1>4, <2>2, Zenon DEF ResumeTurn, Loops
  <2>5. QED BY <2>3, <2>4 DEF RuntimeTypeOK
<1>5. CASE UnwindTurn
  <2>1. /\ loop' \in Loops /\ mending' = tsess[file.turn]
        /\ UNCHANGED <<plan, active, settleVars, autoVars, wakeVars, taskVars, deferRec,
                       providerVars, faults, file, toldBy>>
    BY <1>5, Zenon DEF UnwindTurn, Loops
  <2>2. QED
    <3>1. mending' \in Sessions \cup {None}
      BY <1>3, <1>5, <2>1, Zenon DEF UnwindTurn
    <3>2. QED BY <2>1, <3>1 DEF RuntimeTypeOK
<1>6. CASE UnwindRelease
  <2>1. /\ loop' \in Loops /\ mending' = None /\ file' = NoFile /\ armed' = TRUE
        /\ UNCHANGED <<prof, plan, active, settleVars, autoVars, arrived, taskVars, deferRec,
                       providerVars, faults, toldBy>>
    BY <1>6, Zenon DEF UnwindRelease, Loops
  <2>2. QED
    BY <1>0, <2>1 DEF RuntimeTypeOK
<1>7. ASSUME NEW t \in Turns, RequeueOrphan(t) PROVE RuntimeTypeOK'
  BY <1>7 DEF RequeueOrphan, RuntimeTypeOK, StoreTypeOK, Loops
<1>8. CASE OrphanRelease
  BY <1>8 DEF OrphanRelease, RuntimeTypeOK, Loops
<1>9. CASE Ready
  BY <1>9 DEF Ready, RuntimeTypeOK, Loops
<1>10. QED BY <1>1, <1>2, <1>4, <1>5, <1>6, <1>7, <1>8, <1>9, Zenon DEF RecoveryStep

\* Every step of the runtime keeps its variables in their types.
LEMMA RuntimeTypeStep ==
    RuntimeTypeOK /\ StoreTypeOK /\ ControlInv /\ [RuntimeNext]_runtimeVars => RuntimeTypeOK'
<1> SUFFICES ASSUME RuntimeTypeOK, StoreTypeOK, ControlInv, [RuntimeNext]_runtimeVars
             PROVE  RuntimeTypeOK'
  BY Zenon
<1>1. CASE UNCHANGED runtimeVars
  BY <1>1, SMTT(30) DEF runtimeVars, settleVars, autoVars, wakeVars, taskVars, recoveryVars,
              providerVars, RuntimeTypeOK
<1>2. ASSUME prof' = prof, Crash PROVE RuntimeTypeOK'
  BY <1>2, ForgetType, Zenon DEF Crash, RuntimeTypeOK
<1>3. QED
  BY <1>1, <1>2, ArrivalType, LoopType, ProviderType, ReadType, SettleType, RecoveryType, Zenon
  DEF RuntimeNext

-----------------------------------------------------------------------------
\* Every step of the runtime is one store transaction, or none.
LEMMA RuntimeStoreStep ==
    RuntimeTypeOK /\ StoreTypeOK /\ ControlInv /\ [RuntimeNext]_runtimeVars
        => [AnyStep]_storeVars
<1> SUFFICES ASSUME RuntimeTypeOK, StoreTypeOK, ControlInv, RuntimeNext
             PROVE  [AnyStep]_storeVars
  BY Zenon DEF runtimeVars
<1>0. /\ session \in Sessions \cup {None} /\ active.sess \in Sessions \cup {None}
      /\ mending \in Sessions \cup {None} /\ busy.sess \in Sessions \cup {None}
      /\ plan.g \in Nat /\ plan.ids \in SUBSET Msgs /\ busy.g \in Nat /\ busy.ids \in SUBSET Msgs
      /\ active.notice \in SUBSET Msgs /\ snap \in SUBSET Msgs
      /\ active.turn # None => active.turn \in Turns
      /\ busy.turn \in Turns \cup {None}
      /\ Pending \in SUBSET Msgs /\ VisiblePending \in SUBSET Msgs
  BY SMTT(30) DEF RuntimeTypeOK, VisiblePending, Pending, PendingOf
<1>1. CASE ArrivalStep
  BY <1>1, Zenon DEF ArrivalStep, Arrive, MarkCovered, Notify, AnyStep, StoreStep, Receive
<1>2. CASE LoopStep
  <2>1. ASSUME NEW t \in Turns, StartLocalTurn(t) PROVE AnyStep
    <3>1. StartTurn(t, session, plan.g, plan.ids)
      BY <2>1, Zenon DEF StartLocalTurn
    <3>2. TurnStep(t, Nat)
      BY <1>0, <3>1, Zenon DEF TurnStep
    <3>3. QED BY <3>2 DEF AnyStep, StoreStep
  <2>2. QED
    BY <1>2, <2>1, Zenon DEF LoopStep, Wake, RetrySettle, ReplayDeferred, QueueBehindAutonomous,
       PlanPending, ContextReplan, ContextRefuses, CheckNotice, ContextRollover, NoticeLost,
       StartConflict, WakeRemaining
<1>3. CASE ProviderStep
  <2>0. ASSUME InTurn PROVE active.turn \in Turns
    BY <1>0, <2>0, Zenon DEF InTurn, ControlInv, TurnControl
  <2>1. CASE BindTransfer
    <3>1. TransferTurnSession(active.turn, active.sess, session) /\ active.turn \in Turns
      BY <2>0, <2>1, Zenon DEF BindTransfer
    <3>2. session \in Sessions
      BY <1>0, <3>1, SMTT(30) DEF TransferTurnSession
    <3>3. TurnStep(active.turn, Nat)
      BY <1>0, <3>1, <3>2, Zenon DEF TurnStep
    <3>4. QED BY <3>1, <3>3, Zenon DEF AnyStep, StoreStep
  <2>2. CASE BindNotice
    <3>1. active.turn \in Turns /\ BoundNotice \in SUBSET Msgs
      BY <1>0, <2>0, <2>2, Zenon DEF BindNotice, BoundNotice
    <3>2. CASE session # None /\ MarkNoticeDelivered(plan.g, session, BoundNotice, active.turn)
      <4>1. session \in Sessions
        BY <1>0, <3>2, SMTT(30)
      <4>2. NoticeStep(Nat)
        BY <1>0, <3>1, <3>2, <4>1, Zenon DEF NoticeStep
      <4>3. QED BY <4>2, Zenon DEF AnyStep, StoreStep
    <3>3. QED BY <2>2, <3>2, Zenon DEF BindNotice
  <2>3. ASSUME NEW t \in Turns, AdoptAutonomousTurn(t) PROVE AnyStep
    <3>1. StartTurn(t, session, 0, {})
      BY <2>3, Zenon DEF AdoptAutonomousTurn
    <3>2. 0 \in Nat /\ {} \in SUBSET Msgs
      OBVIOUS
    <3>3. TurnStep(t, Nat)
      BY <1>0, <3>1, <3>2, Zenon DEF TurnStep
    <3>4. QED BY <3>3 DEF AnyStep, StoreStep
  <2>4. QED
    BY <1>3, <2>1, <2>2, <2>3, Zenon DEF ProviderStep, ProviderAccepts, RetryAttempt, TurnSucceeds,
       TurnFails, AutonomousStarted, DeferAdoption, AutonomousEnded
<1>4. CASE ReadStep
  <2>1. ASSUME NEW t \in Turns, NEW s \in Sessions \cup {None}, NEW ids, AdmitMessages(ids, t, s)
        PROVE  AnyStep
    <3>1. ids \in SUBSET Msgs
      BY <1>0, <2>1, Zenon DEF AdmitMessages, Admissible
    <3>2. TurnStep(t, Nat)
      BY <2>1, <3>1, Zenon DEF TurnStep
    <3>3. QED BY <3>2 DEF AnyStep, StoreStep
  <2>2. ASSUME NEW r \in reads
        PROVE  r.turn \in Turns /\ r.sess \in Sessions \cup {None}
    BY Zenon DEF RuntimeTypeOK
  <2>3. ASSUME NEW r \in reads, AdmitInboxPage(r) \/ AdmitVisibleRead(r) PROVE AnyStep
    <3>1. PICK ids : AdmitMessages(ids, active.turn, active.sess) /\ active.turn = r.turn
      BY <2>3 DEF AdmitInboxPage, AdmitVisibleRead, Admit, SameTurn
    <3>2. QED BY <1>0, <2>1, <2>2, <3>1, Zenon
  <2>4. ASSUME NEW r \in reads, AdmitHeld(r) PROVE AnyStep
    BY <2>1, <2>2, <2>4, Zenon DEF AdmitHeld
  <2>5. CASE RecordBusyNotice
    <3>1. /\ MarkNoticeDelivered(busy.g, busy.sess, busy.ids, busy.turn)
          /\ busy.sess \in Sessions
      BY <1>0, <2>5 DEF RecordBusyNotice, ControlInv, TurnControl
    <3>2. NoticeStep(Nat)
      BY <1>0, <3>1, Zenon DEF NoticeStep
    <3>3. QED BY <3>2 DEF AnyStep, StoreStep
  <2>6. QED
    BY <1>4, <2>3, <2>4, <2>5, Zenon DEF ReadStep, ReadInbox, StageVisibleRead, StageHeldSend,
       StageRead, FireHeld, RefuseRead, PublishHeld, PlanBusyNotice, DropBusyNotice
<1>5. ASSUME NEW s \in Sessions \cup {None}, NEW ids \in SUBSET Msgs, Released(s, ids)
      PROVE  [AnyStep]_storeVars
  <2>1. CASE s # None /\ ReleaseNoticeDelivery(s, ids)
    <3>1. s \in Sessions
      BY <2>1, Zenon
    <3>2. NoticeStep(Nat)
      BY <2>1, <3>1 DEF NoticeStep
    <3>3. QED BY <3>2, Zenon DEF AnyStep, StoreStep
  <2>2. QED BY <1>5, <2>1, Zenon DEF Released
<1>6. CASE SettleStep
  <2>0. ASSUME stage # "none" PROVE active.turn \in Turns
    BY <1>0, <2>0, Zenon DEF ControlInv, TurnControl
  <2>1. CASE FinalizeMessages
    <3>1. TurnStep(active.turn, Nat)
      BY <1>0, <2>1, Zenon DEF FinalizeMessages, TurnStep
    <3>2. QED BY <2>0, <2>1, <3>1, Zenon DEF FinalizeMessages, AnyStep, StoreStep
  <2>2. CASE FinalizeFallback
    <3>1. TurnStep(active.turn, Nat)
      BY <1>0, <2>2, Zenon DEF FinalizeFallback, TurnStep
    <3>2. QED BY <2>0, <2>2, <3>1, Zenon DEF FinalizeFallback, AnyStep, StoreStep
  <2>3. CASE FinalizeEmpty
    <3>1. TurnStep(active.turn, Nat)
      BY <2>3, Zenon DEF FinalizeEmpty, TurnStep
    <3>2. QED BY <2>0, <2>3, <3>1, Zenon DEF FinalizeEmpty, AnyStep, StoreStep
  <2>4. CASE RequeueActiveTurn
    <3>1. RequeueMessages(active.ids, active.turn) => active.ids = members[active.turn]
      BY SMTT(30) DEF RequeueMessages, ExactUnion
    <3>2. TurnStep(active.turn, Nat)
      BY <2>4, <3>1, Zenon DEF RequeueActiveTurn, TurnStep
    <3>3. QED BY <2>0, <2>4, <3>2, Zenon DEF RequeueActiveTurn, AnyStep, StoreStep
  <2>5. CASE ReleaseEvidence
    <3>1. ReleaseSession \in Sessions \cup {None} /\ ReleaseScope \in SUBSET Msgs
      BY <1>0, SMTT(30) DEF ReleaseSession, ReleaseScope
    <3>2. QED BY <1>5, <2>5, <3>1, Zenon DEF ReleaseEvidence
  <2>6. QED
    BY <1>6, <2>1, <2>2, <2>3, <2>4, <2>5, Zenon DEF SettleStep, Reconcile, CloseTurn, CloseCancelled,
       CloseResumed, CloseAutonomous, SettleFault, SettleConflict
<1>7. CASE RecoveryStep
  <2>1. ASSUME NEW t \in Turns, RequeueRun(t) PROVE AnyStep
    BY <2>1, Zenon DEF RequeueRun, TurnStep, AnyStep, StoreStep
  <2>2. CASE UnwindTurn
    <3>1. file.turn \in Turns
      BY <2>2 DEF UnwindTurn, Joined, RuntimeTypeOK
    <3>2. QED BY <2>1, <2>2, <3>1, Zenon DEF UnwindTurn
  <2>3. ASSUME NEW t \in Turns, RequeueOrphan(t) PROVE AnyStep
    BY <2>1, <2>3, Zenon DEF RequeueOrphan
  <2>4. CASE UnwindRelease \/ OrphanRelease
    BY <1>0, <1>5, <2>4, Zenon DEF UnwindRelease, OrphanRelease
  <2>5. QED
    BY <1>7, <2>2, <2>3, <2>4, Zenon DEF RecoveryStep, Restart, NothingToRecover, ResumeTurn, Ready
<1>8. CASE Crash
  BY <1>8, SMTT(30) DEF Crash
<1>9. QED BY <1>1, <1>2, <1>3, <1>4, <1>6, <1>7, <1>8, Zenon DEF RuntimeNext

-----------------------------------------------------------------------------
\* Control: who holds the turn, step by step.

\* A crash leaves nothing held, so recovery starts from a clean slate.
LEMMA ForgetControl == Forget => ControlInv'
<1> SUFFICES ASSUME Forget PROVE ControlInv'
  BY Zenon
<1>1. NoActive.turn = None /\ NoActive.bound = FALSE
  BY DEF NoActive, Fresh
<1>2. active'.turn = None /\ ~active'.bound
  BY <1>1, Zenon DEF Forget
<1>3. /\ loop' = "down" /\ stage' = "none" /\ auto' = None /\ autoEvent' = "none"
      /\ owed' = FALSE /\ reads' = {} /\ publish' = NoPublish /\ busy' = NoBusy
      /\ provider' = "none"
  BY Zenon DEF Forget
<1>4. SerialTurns'
  BY <1>3, Zenon DEF SerialTurns, Recovering
<1>5. TurnControl'
  BY <1>2, <1>3, Zenon DEF TurnControl, NoBusy, NoPublish
<1>6. AutonomousControl'
  BY <1>2, <1>3, Zenon DEF AutonomousControl, Recovering
<1>7. QED BY <1>4, <1>5, <1>6, Zenon DEF ControlInv

\* What a transaction does to turn_runs.state and the one-shot bits.
LEMMA TurnRowEffects ==
    /\ \A m, d : InsertReceipt(m, d) => tstate' = tstate /\ renotified' = renotified
    /\ \A ids : AddMessageCovers(ids) => tstate' = tstate /\ renotified' = renotified
    /\ \A g, s, ids, t : MarkNoticeDelivered(g, s, ids, t)
           => tstate' = tstate /\ renotified' = renotified
    /\ \A s, ids : Released(s, ids) => tstate' = tstate /\ renotified' = renotified
    /\ \A t, s, g, ids : StartTurn(t, s, g, ids)
           => /\ tstate[t] = "absent" /\ tstate' = [tstate EXCEPT ![t] = "in_turn"]
              /\ renotified' = renotified
    /\ \A t, from, to : TransferTurnSession(t, from, to)
           => tstate' = tstate /\ renotified' = renotified
    /\ \A ids, t, s : AdmitMessages(ids, t, s) /\ tstate[t] # "absent"
           => tstate' = tstate /\ renotified' = renotified
    /\ \A done, back, t, s : CompleteTurn(done, back, t, s)
           => tstate' = [tstate EXCEPT ![t] = "processed"]
    /\ \A t, final : FinalizeEmptyTurn(t, final)
           => final \in {"processed", "requeued"} /\ tstate' = [tstate EXCEPT ![t] = final]
    /\ \A ids, t : RequeueMessages(ids, t) => tstate' = [tstate EXCEPT ![t] = "requeued"]
<1>1. \A m, d : InsertReceipt(m, d) => tstate' = tstate /\ renotified' = renotified
  BY Zenon DEF InsertReceipt, InsertRow, turnVars
<1>2. \A ids : AddMessageCovers(ids) => tstate' = tstate /\ renotified' = renotified
  BY Zenon DEF AddMessageCovers, turnVars
<1>3. \A g, s, ids, t : MarkNoticeDelivered(g, s, ids, t)
          => tstate' = tstate /\ renotified' = renotified
  BY Zenon DEF MarkNoticeDelivered, turnVars, rowVars
<1>4. \A s, ids : Released(s, ids) => tstate' = tstate /\ renotified' = renotified
  BY Zenon DEF Released, ReleaseNoticeDelivery, storeVars, turnVars, rowVars
<1>5. \A t, s, g, ids : StartTurn(t, s, g, ids)
          => /\ tstate[t] = "absent" /\ tstate' = [tstate EXCEPT ![t] = "in_turn"]
             /\ renotified' = renotified
  BY DEF StartTurn, NewTurn, rowVars
<1>6. \A t, from, to : TransferTurnSession(t, from, to)
          => tstate' = tstate /\ renotified' = renotified
  BY Zenon DEF TransferTurnSession, rowVars
<1>7. \A ids, t, s : AdmitMessages(ids, t, s) /\ tstate[t] # "absent"
          => tstate' = tstate /\ renotified' = renotified
  BY SMTT(30) DEF AdmitMessages, NewTurn
<1>8. \A done, back, t, s : CompleteTurn(done, back, t, s)
          => tstate' = [tstate EXCEPT ![t] = "processed"]
  BY Zenon DEF CompleteTurn
<1>9. \A t, final : FinalizeEmptyTurn(t, final)
          => final \in {"processed", "requeued"} /\ tstate' = [tstate EXCEPT ![t] = final]
  BY DEF FinalizeEmptyTurn
<1>10. \A ids, t : RequeueMessages(ids, t) => tstate' = [tstate EXCEPT ![t] = "requeued"]
  BY SMTT(30) DEF RequeueMessages
<1>11. QED BY <1>1, <1>2, <1>3, <1>4, <1>5, <1>6, <1>7, <1>8, <1>9, <1>10, Zenon

\* Arrivals and covers leave the control alone.
LEMMA ArrivalControl ==
    ControlInv /\ ArrivalStep => ControlInv'
<1> SUFFICES ASSUME ControlInv, ArrivalStep PROVE ControlInv'
  BY SMTT(30)
<1>1. tstate' = tstate /\ renotified' = renotified
  BY TurnRowEffects, Zenon DEF ArrivalStep, Arrive, MarkCovered, Notify, storeVars
<1>2. /\ UNCHANGED <<loop, active, stage, snap, auto, autoEvent, owed, reads, publish, busy,
                      session, provider>>
      /\ armed => armed'
  <2> USE DEF settleVars, autoVars, wakeVars, taskVars, providerVars
  <2>1. CASE Notify
    BY <2>1, Zenon DEF Notify
  <2>2. CASE \E m \in Msgs : Arrive(m)
    BY <2>2, SMTT(30) DEF Arrive
  <2>3. CASE \E m \in Msgs : MarkCovered(m)
    BY <2>3, SMTT(30) DEF MarkCovered
  <2>4. QED BY <2>1, <2>2, <2>3, Zenon DEF ArrivalStep
<1>3. QED
  BY <1>1, <1>2 DEF ControlInv, SerialTurns, TurnControl, AutonomousControl, Recovering

\* A loop that holds no turn of its own and no adopted one leaves none in flight.
LEMMA NothingHeld ==
    ASSUME ControlInv, ~Recovering, active.turn = None, NEW t \in Turns
    PROVE  tstate[t] # "in_turn"
  BY ConstantsAssumption, Zenon DEF ControlInv, SerialTurns

\* The loop starts a turn only when it holds none.
LEMMA LoopControl ==
    RuntimeTypeOK /\ StoreTypeOK /\ ControlInv /\ LoopStep => ControlInv'
<1> SUFFICES ASSUME RuntimeTypeOK, StoreTypeOK, ControlInv, LoopStep PROVE ControlInv'
  BY SMTT(30)
<1> USE DEF settleVars, autoVars, wakeVars, taskVars, recoveryVars, providerVars
<1>1. CASE Wake
  BY <1>1, Zenon DEF Wake, storeVars, ControlInv, SerialTurns, TurnControl, AutonomousControl, Recovering
<1>2. CASE RetrySettle
  BY <1>2, Zenon DEF RetrySettle, storeVars, ControlInv, SerialTurns, TurnControl, AutonomousControl,
              Recovering
<1>3. CASE ReplayDeferred
  BY <1>3, Zenon DEF ReplayDeferred, storeVars, ControlInv, SerialTurns, TurnControl,
              AutonomousControl, Recovering
<1>4. CASE QueueBehindAutonomous
  BY <1>4, Zenon DEF QueueBehindAutonomous, storeVars, ControlInv, SerialTurns, TurnControl,
              AutonomousControl, Recovering
<1>5. CASE PlanPending
  BY <1>5, Zenon DEF PlanPending, storeVars, ControlInv, SerialTurns, TurnControl,
              AutonomousControl, Recovering
<1>6. CASE ContextReplan
  BY <1>6, Zenon DEF ContextReplan, storeVars, ControlInv, SerialTurns, TurnControl,
              AutonomousControl, Recovering
<1>7. ASSUME NEW s \in Sessions, ContextRollover(s) PROVE ControlInv'
  <2>1. active'.turn = active.turn /\ active'.bound = active.bound
    BY <1>7, Zenon DEF ContextRollover, RuntimeTypeOK
  <2>2. QED
    BY <1>7, <2>1 DEF ContextRollover, storeVars, ControlInv, SerialTurns, TurnControl,
                      AutonomousControl, Recovering
<1>8. CASE ContextRefuses
  BY <1>8, Zenon DEF ContextRefuses, storeVars, ControlInv, SerialTurns, TurnControl,
              AutonomousControl, Recovering
<1>9. CASE CheckNotice
  BY <1>9, Zenon DEF CheckNotice, storeVars, ControlInv, SerialTurns, TurnControl,
              AutonomousControl, Recovering
<1>10. CASE NoticeLost
  BY <1>10, Zenon DEF NoticeLost, storeVars, ControlInv, SerialTurns, TurnControl,
               AutonomousControl, Recovering
<1>11. CASE WakeRemaining
  BY <1>11, Zenon DEF WakeRemaining, storeVars, ControlInv, SerialTurns, TurnControl,
               AutonomousControl, Recovering
<1>12. CASE StartConflict
  BY <1>12, ForgetControl, Zenon DEF StartConflict
<1>13. ASSUME NEW t \in Turns, StartLocalTurn(t), ~Forget PROVE ControlInv'
  <2>1. /\ tstate' = [tstate EXCEPT ![t] = "in_turn"] /\ renotified' = renotified
        /\ tstate \in [Turns -> TurnStates]
    BY <1>13, TurnRowEffects, Zenon DEF StartLocalTurn, StoreTypeOK
  <2>2. /\ active' = Fresh(t, {}, plan.ids, session, FALSE) /\ loop' = "running"
        /\ UNCHANGED <<settleVars, autoVars, wakeVars, taskVars, providerVars>>
    BY <1>13, Zenon DEF StartLocalTurn
  <2>3. loop = "starting" /\ auto = None /\ active.turn = None /\ ~Recovering
    BY <1>13, Zenon DEF StartLocalTurn, NotAutonomous, ControlInv, TurnControl, Recovering
  <2>4. \A u \in Turns : tstate'[u] = "in_turn" => u = t
    BY <2>1, <2>3, NothingHeld, Zenon
  <2>5. \A r \in reads : r.turn \in Turns /\ tstate'[r.turn] # "absent"
    BY <2>1, Zenon DEF RuntimeTypeOK, ControlInv, TurnControl
  <2>6. active'.turn = t /\ active'.bound = FALSE /\ t # None /\ tstate'[t] = "in_turn"
    BY <2>1, <2>2, ConstantsAssumption, Zenon DEF Fresh
  <2>7. SerialTurns'
    BY <2>4, <2>6, Zenon DEF SerialTurns
  <2>8. TurnControl'
    BY <2>1, <2>2, <2>3, <2>5, <2>6, Zenon DEF ControlInv, TurnControl
  <2>9. AutonomousControl'
    BY <2>2, <2>3, <2>6, Zenon DEF ControlInv, AutonomousControl, Recovering
  <2>10. QED BY <2>7, <2>8, <2>9, Zenon DEF ControlInv
<1>14. QED
  BY <1>1, <1>2, <1>3, <1>4, <1>5, <1>6, <1>7, <1>8, <1>9, <1>10, <1>11, <1>12, <1>13,
     ForgetControl, Zenon DEF LoopStep

\* The provider's events: an adopted turn keeps the boundary until it is settled.
LEMMA ProviderControl ==
    RuntimeTypeOK /\ StoreTypeOK /\ ControlInv /\ ProviderStep => ControlInv'
<1> SUFFICES ASSUME RuntimeTypeOK, StoreTypeOK, ControlInv, ProviderStep PROVE ControlInv'
  OBVIOUS
<1> USE DEF settleVars, autoVars, wakeVars, taskVars, recoveryVars, providerVars
<1>1. ASSUME NEW s \in Sessions \cup {None}, ProviderAccepts(s) PROVE ControlInv'
  BY <1>1, Zenon DEF ProviderAccepts, InTurn, storeVars, ControlInv, SerialTurns, TurnControl,
              AutonomousControl, Recovering
<1>2. CASE BindTransfer
  <2>1. tstate' = tstate /\ renotified' = renotified
    BY <1>2, TurnRowEffects DEF BindTransfer
  <2>2. QED
    BY <1>2, <2>1, ZenonT(60) DEF BindTransfer, ControlInv, SerialTurns, TurnControl, AutonomousControl,
                      Recovering
<1>3. ASSUME BindNotice, ~Forget PROVE ControlInv'
  <2>1. tstate' = tstate /\ renotified' = renotified
    BY <1>3, TurnRowEffects, Zenon DEF BindNotice, storeVars
  <2>2. /\ active' = [active EXCEPT !.sess = session, !.bound = TRUE] /\ InTurn
        /\ provider = "daemon"
        /\ UNCHANGED <<loop, settleVars, autoVars, wakeVars, taskVars, providerVars>>
    BY <1>3, Zenon DEF BindNotice
  <2>3. active'.turn = active.turn /\ active.turn # None
    BY <2>2, Zenon DEF RuntimeTypeOK, InTurn, ControlInv, TurnControl
  <2>4. QED
    BY <2>1, <2>2, <2>3 DEF ControlInv, SerialTurns, TurnControl, AutonomousControl, Recovering
<1>4. CASE RetryAttempt
  <2>1. active'.turn = active.turn /\ active'.sess = active.sess /\ active'.bound = FALSE
    BY <1>4, Zenon DEF RetryAttempt, RuntimeTypeOK
  <2>2. QED
    BY <1>4, <2>1, Zenon DEF RetryAttempt, InTurn, storeVars, ControlInv, SerialTurns, TurnControl,
                      AutonomousControl, Recovering
<1>5. CASE TurnSucceeds
  BY <1>5, Zenon DEF TurnSucceeds, InTurn, storeVars, ControlInv, SerialTurns, TurnControl,
              AutonomousControl, Recovering
<1>6. ASSUME NEW v \in {"failed", "cancelled"}, TurnFails(v) PROVE ControlInv'
  BY <1>6, Zenon DEF TurnFails, InTurn, storeVars, ControlInv, SerialTurns, TurnControl,
              AutonomousControl, Recovering
<1>7. CASE AutonomousStarted
  BY <1>7, ZenonT(60) DEF AutonomousStarted, storeVars, ControlInv, SerialTurns, TurnControl,
              AutonomousControl, Recovering
<1>8. CASE DeferAdoption
  BY <1>8, Zenon DEF DeferAdoption, storeVars, ControlInv, SerialTurns, TurnControl,
              AutonomousControl, Recovering
<1>9. ASSUME NEW t \in Turns, AdoptAutonomousTurn(t) PROVE ControlInv'
  <2>1. /\ tstate' = [tstate EXCEPT ![t] = "in_turn"] /\ renotified' = renotified
        /\ tstate \in [Turns -> TurnStates]
    BY <1>9, TurnRowEffects, Zenon DEF AdoptAutonomousTurn, StoreTypeOK
  <2>2. /\ active' = Fresh(t, {}, {}, session, TRUE) /\ auto' = t /\ autoEvent' = "none"
        /\ autoEvent = "handling" /\ active.turn = None
        /\ UNCHANGED <<loop, settleVars, owed, wakeVars, taskVars, providerVars>>
    BY <1>9, SMTT(30) DEF AdoptAutonomousTurn
  <2>3. ~Recovering /\ auto = None /\ loop \notin {"running", "resumed"}
    BY <2>2, Zenon DEF ControlInv, TurnControl, AutonomousControl
  <2>4. \A u \in Turns : tstate'[u] = "in_turn" => u = t
    BY <2>1, <2>2, <2>3, NothingHeld, Zenon
  <2>5. \A r \in reads : r.turn \in Turns /\ tstate'[r.turn] # "absent"
    BY <2>1 DEF RuntimeTypeOK, ControlInv, TurnControl
  <2>6. active'.turn = t /\ active'.sess = session /\ t # None /\ tstate'[t] = "in_turn"
    BY <2>1, <2>2, ConstantsAssumption, Zenon DEF Fresh
  <2>7. SerialTurns'
    BY <2>4, <2>6, Zenon DEF SerialTurns
  <2>8. TurnControl'
    BY <2>1, <2>2, <2>3, <2>5, <2>6, Zenon DEF ControlInv, TurnControl
  <2>9. AutonomousControl'
    BY <2>2, <2>3, <2>6, Zenon DEF ControlInv, TurnControl, AutonomousControl, Recovering
  <2>10. QED BY <2>7, <2>8, <2>9 DEF ControlInv
<1>10. ASSUME NEW v \in {"ok", "failed"}, AutonomousEnded(v) PROVE ControlInv'
  <2>1. /\ UNCHANGED <<tstate, renotified, loop, active, snap, auto, owed, armed, reads, publish,
                        busy, session>>
        /\ provider = "auto" /\ provider' = "none" /\ autoEvent' = "none"
    BY <1>10, Zenon DEF AutonomousEnded, storeVars, RuntimeTypeOK
  <2>2. \/ autoEvent = "deferred" /\ stage' = stage
        \/ autoEvent = "none" /\ stage' = "settle" /\ auto # None
    BY <1>10, Zenon DEF AutonomousEnded, Autonomous, RuntimeTypeOK
  <2>3. SerialTurns' /\ TurnControl'
    BY <2>1, <2>2, Zenon DEF ControlInv, SerialTurns, TurnControl, AutonomousControl, Recovering
  <2>4. AutonomousControl'
    BY <2>1, <2>2, SMTT(30) DEF ControlInv, AutonomousControl, Recovering
  <2>5. QED BY <2>3, <2>4, Zenon DEF ControlInv
<1>11. QED
  BY <1>1, <1>2, <1>3, <1>4, <1>5, <1>6, <1>7, <1>8, <1>9, <1>10, ForgetControl, Zenon
  DEF ProviderStep, BindNotice

\* Reads and notices never open a turn: the one they name is already recorded.
LEMMA ReadControl ==
    RuntimeTypeOK /\ StoreTypeOK /\ ControlInv /\ ReadStep => ControlInv'
<1> SUFFICES ASSUME RuntimeTypeOK, StoreTypeOK, ControlInv, ReadStep PROVE ControlInv'
  OBVIOUS
<1> USE DEF settleVars, autoVars, wakeVars, taskVars, recoveryVars, providerVars
<1>1. ASSUME NEW kind, NEW ids, StageRead(kind, ids) PROVE ControlInv'
  <2>1. \A r \in reads' : tstate[r.turn] # "absent"
    <3>1. active.turn # None /\ tstate[active.turn] # "absent"
      BY <1>1, Zenon DEF StageRead, ControlInv, TurnControl
    <3>2. PICK q : q = [kind |-> kind, turn |-> active.turn, sess |-> active.sess,
                        try |-> active.try, bound |-> active.bound, ids |-> ids]
      BY Zenon
    <3>3. q.turn = active.turn /\ reads' = reads \cup {q}
      BY <1>1, <3>2, Zenon DEF StageRead
    <3>4. QED
      BY <3>1, <3>3, Zenon DEF ControlInv, TurnControl
  <2>2. QED
    BY <1>1, <2>1, Zenon DEF StageRead, storeVars, ControlInv, SerialTurns, TurnControl,
                      AutonomousControl, Recovering
<1>2. ASSUME NEW r \in reads, NEW ids, Admit(r, ids), ~Forget PROVE ControlInv'
  <2>1. active.turn # None /\ tstate[active.turn] # "absent"
    BY <1>2, ConstantsAssumption DEF Admit, SameTurn, RuntimeTypeOK, ControlInv, TurnControl
  <2>2. tstate' = tstate /\ renotified' = renotified
    BY <1>2, <2>1, TurnRowEffects, Zenon DEF Admit
  <2>3. /\ active' = [active EXCEPT !.ids = members'[active.turn]] /\ reads' \subseteq reads
        /\ UNCHANGED <<loop, settleVars, autoVars, wakeVars, publish, busy, providerVars>>
    BY <1>2, Zenon DEF Admit
  <2>4. active'.turn = active.turn /\ active'.sess = active.sess /\ active'.bound = active.bound
    BY <2>3, Zenon DEF RuntimeTypeOK
  <2>5. QED
    BY <2>2, <2>3, <2>4 DEF ControlInv, SerialTurns, TurnControl, AutonomousControl, Recovering
<1>3. ASSUME NEW r \in reads, FireHeld(r) PROVE ControlInv'
  <2>1. [r EXCEPT !.kind = "firing"].turn = r.turn
    BY DEF RuntimeTypeOK
  <2>2. \A q \in reads' : tstate[q.turn] # "absent"
    BY <1>3, <2>1, Zenon DEF FireHeld, ControlInv, TurnControl
  <2>3. QED
    BY <1>3, <2>2 DEF FireHeld, storeVars, ControlInv, SerialTurns, TurnControl,
                      AutonomousControl, Recovering
<1>4. ASSUME NEW r \in reads, AdmitHeld(r) PROVE ControlInv'
  <2>1. r.turn # None /\ tstate[r.turn] # "absent"
    BY ConstantsAssumption, Zenon DEF RuntimeTypeOK, ControlInv, TurnControl
  <2>2. tstate' = tstate /\ renotified' = renotified
    BY <1>4, <2>1, TurnRowEffects, Zenon DEF AdmitHeld
  <2>3. publish'.turn = r.turn
    BY <1>4, Zenon DEF AdmitHeld
  <2>4. QED
    BY <1>4, <2>1, <2>2, <2>3, ZenonT(60) DEF AdmitHeld, ControlInv, SerialTurns, TurnControl,
                                  AutonomousControl, Recovering
<1>5. ASSUME NEW r \in reads, RefuseRead(r) PROVE ControlInv'
  BY <1>5, ZenonT(60) DEF RefuseRead, storeVars, ControlInv, SerialTurns, TurnControl, AutonomousControl,
              Recovering
<1>6. CASE PublishHeld
  <2>1. active'.turn = active.turn /\ active'.sess = active.sess /\ active'.bound = active.bound
    BY <1>6 DEF PublishHeld, RuntimeTypeOK
  <2>2. QED
    BY <1>6, <2>1 DEF PublishHeld, storeVars, ControlInv, SerialTurns, TurnControl,
                      AutonomousControl, Recovering
<1>7. CASE PlanBusyNotice
  <2>1. busy'.turn # None /\ busy'.sess # None
    BY <1>7, Zenon DEF PlanBusyNotice, ControlInv, TurnControl
  <2>2. QED
    BY <1>7, <2>1, Zenon DEF PlanBusyNotice, storeVars, ControlInv, SerialTurns, TurnControl,
                      AutonomousControl, Recovering
<1>8. CASE RecordBusyNotice
  <2>1. tstate' = tstate /\ renotified' = renotified
    BY <1>8, TurnRowEffects DEF RecordBusyNotice
  <2>2. active'.turn = active.turn /\ active'.sess = active.sess /\ active'.bound = active.bound
    BY <1>8, SMTT(30) DEF RecordBusyNotice, RuntimeTypeOK
  <2>3. QED
    BY <1>8, <2>1, <2>2 DEF RecordBusyNotice, ControlInv, SerialTurns, TurnControl,
                            AutonomousControl, Recovering
<1>9. CASE DropBusyNotice
  BY <1>9, ZenonT(60) DEF DropBusyNotice, storeVars, ControlInv, SerialTurns, TurnControl,
              AutonomousControl, Recovering
<1>10. QED
  BY <1>1, <1>2, <1>3, <1>4, <1>5, <1>6, <1>7, <1>8, <1>9, ForgetControl, Zenon
  DEF ReadStep, ReadInbox, StageVisibleRead, StageHeldSend, AdmitInboxPage, AdmitVisibleRead

\* A turn that a transaction ends is no longer in flight, and no row of turn_runs
\* goes away.
LEMMA EndedTurn ==
    ASSUME tstate \in [Turns -> TurnStates], NEW t \in Turns, NEW final \in TurnStates,
           final # "in_turn", final # "absent", tstate' = [tstate EXCEPT ![t] = final]
    PROVE  /\ tstate'[t] # "in_turn" /\ tstate'[t] # "absent"
           /\ \A u \in Turns : tstate'[u] = "in_turn" => tstate[u] = "in_turn" /\ u # t
           /\ \A u \in Turns : tstate[u] # "absent" => tstate'[u] # "absent"
  OBVIOUS

\* Every settlement ends the turn the runtime holds, as processed or requeued.
LEMMA FinalizeEndsTurn ==
    ASSUME FinalizeMessages \/ FinalizeFallback \/ FinalizeEmpty \/ RequeueActiveTurn
    PROVE  \E final \in {"processed", "requeued"} :
               tstate' = [tstate EXCEPT ![active.turn] = final]
<1>1. CASE FinalizeMessages
  <2>1. \E done, back : CompleteTurn(done, back, active.turn, active.sess)
    BY <1>1, Zenon DEF FinalizeMessages, MarkProcessed, CompleteTurnWithRenotice
  <2>2. tstate' = [tstate EXCEPT ![active.turn] = "processed"]
    BY <2>1, TurnRowEffects, Zenon
  <2>3. QED BY <2>2, Zenon
<1>2. CASE FinalizeFallback
  <2>1. \E done, back : CompleteTurn(done, back, active.turn, active.sess)
    BY <1>2, Zenon DEF FinalizeFallback, CompleteTurnRenoticeUnrenotified
  <2>2. tstate' = [tstate EXCEPT ![active.turn] = "processed"]
    BY <2>1, TurnRowEffects, Zenon
  <2>3. QED BY <2>2, Zenon
<1>3. CASE FinalizeEmpty
  BY <1>3, TurnRowEffects, Zenon DEF FinalizeEmpty
<1>4. CASE RequeueActiveTurn
  BY <1>4, TurnRowEffects, Zenon DEF RequeueActiveTurn
<1>5. QED BY <1>1, <1>2, <1>3, <1>4, Zenon

\* Settlement ends the turn before it lets go of it.
LEMMA SettleControl ==
    RuntimeTypeOK /\ StoreTypeOK /\ ControlInv /\ SettleStep => ControlInv'
<1> SUFFICES ASSUME RuntimeTypeOK, StoreTypeOK, ControlInv, SettleStep PROVE ControlInv'
  OBVIOUS
<1> USE DEF settleVars, autoVars, wakeVars, taskVars, recoveryVars, providerVars
<1>0. /\ stage # "none" => active.turn \in Turns
      /\ tstate \in [Turns -> TurnStates] /\ \A r \in reads : r.turn \in Turns
  BY Zenon DEF RuntimeTypeOK, StoreTypeOK, ControlInv, TurnControl
<1>1. CASE Reconcile
  BY <1>1, Zenon DEF Reconcile, Uncovered, storeVars, ControlInv, SerialTurns, TurnControl,
              AutonomousControl, Recovering
<1>2. CASE FinalizeMessages \/ FinalizeFallback \/ FinalizeEmpty \/ RequeueActiveTurn
  <2>1. /\ stage \in {"settle", "reconciled"} /\ stage' \in {"release", "close"}
        /\ UNCHANGED <<loop, active, autoVars, wakeVars, taskVars, providerVars>>
    BY <1>2, Zenon DEF FinalizeMessages, FinalizeFallback, FinalizeEmpty, RequeueActiveTurn
  <2>2. \E final \in {"processed", "requeued"} :
            tstate' = [tstate EXCEPT ![active.turn] = final]
    BY <1>2, FinalizeEndsTurn, Zenon
  <2>3. /\ tstate'[active.turn] # "in_turn" /\ tstate'[active.turn] # "absent"
        /\ \A u \in Turns : tstate'[u] = "in_turn" => tstate[u] = "in_turn"
        /\ \A u \in Turns : tstate[u] # "absent" => tstate'[u] # "absent"
    BY <1>0, <2>1, <2>2, EndedTurn, Zenon
  <2>4. SerialTurns'
    BY <2>1, <2>3, Zenon DEF ControlInv, SerialTurns, Recovering
  <2>5. TurnControl'
    BY <1>0, <2>1, <2>3, Zenon DEF ControlInv, TurnControl
  <2>6. AutonomousControl'
    BY <2>1, Zenon DEF ControlInv, AutonomousControl, Recovering
  <2>7. QED BY <2>4, <2>5, <2>6, Zenon DEF ControlInv
<1>3. CASE ReleaseEvidence
  <2>1. tstate' = tstate /\ renotified' = renotified
    BY <1>3, TurnRowEffects, Zenon DEF ReleaseEvidence
  <2>2. QED
    BY <1>3, <2>1, Zenon DEF ReleaseEvidence, ControlInv, SerialTurns, TurnControl,
                      AutonomousControl, Recovering
<1>4. stage = "close" => \A u \in Turns : ~Recovering => tstate[u] # "in_turn"
  BY Zenon DEF ControlInv, SerialTurns, TurnControl
<1>5. CASE CloseTurn
  BY <1>4, <1>5, Zenon DEF CloseTurn, ClearActive, NoActive, Fresh, storeVars, ControlInv, SerialTurns,
                    TurnControl, AutonomousControl, Recovering
<1>6. CASE CloseResumed
  BY <1>6, Zenon DEF CloseResumed, ClearActive, NoActive, Fresh, storeVars, ControlInv, SerialTurns,
              TurnControl, AutonomousControl, Recovering
<1>7. CASE CloseAutonomous
  BY <1>4, <1>7, Zenon DEF CloseAutonomous, ClearActive, NoActive, Fresh, storeVars, ControlInv,
                    SerialTurns, TurnControl, AutonomousControl, Recovering
<1>8. CASE SettleFault
  <2>1. /\ stage \in {"settle", "reconciled", "release"} /\ UNCHANGED storeVars
        /\ UNCHANGED <<loop, active, auto, autoEvent, taskVars, providerVars>>
    BY <1>8, Zenon DEF SettleFault
  <2>2. \/ auto # None /\ stage' = "none" /\ owed' = TRUE /\ armed' = TRUE
        \/ stage' = "settle" /\ owed' = owed /\ armed' = armed
    BY <1>8, Zenon DEF SettleFault, Autonomous, OweSettlement
  <2>3. SerialTurns'
    BY <2>1, Zenon DEF storeVars, turnVars, ControlInv, SerialTurns, Recovering
  <2>4. TurnControl'
    BY <2>1, <2>2, Zenon DEF storeVars, turnVars, ControlInv, TurnControl
  <2>5. AutonomousControl'
    BY <2>1, <2>2 DEF ControlInv, AutonomousControl, Recovering
  <2>6. QED BY <2>3, <2>4, <2>5, Zenon DEF ControlInv
<1>9. CASE CloseCancelled \/ SettleConflict
  BY <1>9, ForgetControl, Zenon DEF CloseCancelled, SettleConflict
<1>10. QED
  BY <1>1, <1>2, <1>3, <1>5, <1>6, <1>7, <1>8, <1>9, Zenon DEF SettleStep

\* A step of recovery that touches neither the turn nor its record.
LEMMA RestsInRecovery ==
    ASSUME ControlInv, auto = None, active.turn = None, stage = "none", ~owed,
           active.bound = FALSE, autoEvent # "handling",
           loop \in {"down", "recover", "unwinding", "orphans", "orphan_release"},
           loop' \in {"recover", "orphans"}, tstate' = tstate,
           UNCHANGED <<active, settleVars, autoVars, taskVars, providerVars>>
    PROVE  ControlInv'
<1> USE DEF settleVars, autoVars, taskVars, providerVars
<1>1. SerialTurns'
  BY Zenon DEF SerialTurns, Recovering
<1>2. TurnControl'
  BY Zenon DEF ControlInv, TurnControl
<1>3. AutonomousControl'
  BY Zenon DEF ControlInv, AutonomousControl, Recovering
<1>4. QED BY <1>1, <1>2, <1>3, Zenon DEF ControlInv

\* Recovery holds no autonomous turn, and ends with no turn in flight.
LEMMA RecoveryControl ==
    RuntimeTypeOK /\ StoreTypeOK /\ ControlInv /\ RecoveryStep => ControlInv'
<1> SUFFICES ASSUME RuntimeTypeOK, StoreTypeOK, ControlInv, RecoveryStep PROVE ControlInv'
  OBVIOUS
<1> USE DEF settleVars, autoVars, wakeVars, taskVars, recoveryVars, providerVars
<1>0. /\ tstate \in [Turns -> TurnStates] /\ \A r \in reads : r.turn \in Turns
      /\ loop \in {"down", "recover", "unwinding", "orphans", "orphan_release"}
      /\ auto = None /\ active.turn = None /\ stage = "none" /\ autoEvent # "handling"
      /\ ~owed /\ active.bound = FALSE
  BY Zenon DEF RuntimeTypeOK, StoreTypeOK, ControlInv, TurnControl, AutonomousControl, Recovering,
         RecoveryStep, Restart, NothingToRecover, ResumeTurn, UnwindTurn, UnwindRelease,
         RequeueOrphan, OrphanRelease, Ready
<1>1. CASE Restart \/ NothingToRecover
  <2>1. /\ loop' \in {"recover", "orphans"} /\ UNCHANGED storeVars
        /\ UNCHANGED <<active, settleVars, autoVars, wakeVars, taskVars, providerVars>>
    BY <1>1, Zenon DEF Restart, NothingToRecover
  <2>2. QED
    BY <1>0, <2>1, RestsInRecovery, Zenon DEF storeVars, turnVars
<1>2. CASE ResumeTurn
  <2>1. active'.turn = file.turn /\ active'.bound = FALSE
    BY <1>2, Zenon DEF ResumeTurn, Fresh
  <2>2. QED
    BY <1>0, <1>2, <2>1, Zenon DEF ResumeTurn, Joined, storeVars, ControlInv, SerialTurns, TurnControl,
                            AutonomousControl, Recovering
<1>3. ASSUME NEW t \in Turns, RequeueRun(t), loop' \in {"unwinding", "orphan_release"},
             UNCHANGED <<active, settleVars, autoVars, wakeVars, taskVars, providerVars>>
      PROVE  ControlInv'
  <2>1. tstate' = [tstate EXCEPT ![t] = "requeued"]
    BY <1>3, TurnRowEffects, Zenon DEF RequeueRun, FinalizeEmptyTurn
  <2>2. \A u \in Turns : tstate[u] # "absent" => tstate'[u] # "absent"
    BY <1>0, <2>1, EndedTurn, Zenon
  <2>3. QED
    BY <1>0, <1>3, <2>2, Zenon DEF ControlInv, SerialTurns, TurnControl, AutonomousControl, Recovering
<1>4. CASE UnwindTurn
  BY <1>3, <1>4, Zenon DEF UnwindTurn, Joined, RuntimeTypeOK
<1>5. ASSUME NEW t \in Turns, RequeueOrphan(t) PROVE ControlInv'
  BY <1>3, <1>5, Zenon DEF RequeueOrphan
<1>6. CASE UnwindRelease \/ OrphanRelease
  <2>1. tstate' = tstate /\ renotified' = renotified
    BY <1>6, TurnRowEffects, Zenon DEF UnwindRelease, OrphanRelease
  <2>2. QED
    <3>1. /\ loop' \in {"recover", "orphans"}
          /\ UNCHANGED <<active, settleVars, autoVars, taskVars, providerVars>>
      BY <1>6, Zenon DEF UnwindRelease, OrphanRelease
    <3>2. QED
      BY <1>0, <2>1, <3>1, RestsInRecovery, Zenon
<1>7. CASE Ready
  BY <1>0, <1>7, Zenon DEF Ready, NoOrphan, storeVars, ControlInv, SerialTurns, TurnControl,
                    AutonomousControl, Recovering
<1>8. QED
  BY <1>1, <1>2, <1>4, <1>5, <1>6, <1>7, Zenon DEF RecoveryStep

\* Every step of the runtime preserves the control invariant.
LEMMA ControlStep ==
    RuntimeTypeOK /\ StoreTypeOK /\ ControlInv /\ [RuntimeNext]_runtimeVars => ControlInv'
<1> SUFFICES ASSUME RuntimeTypeOK, StoreTypeOK, ControlInv, [RuntimeNext]_runtimeVars
             PROVE  ControlInv'
  BY Zenon
<1>1. CASE UNCHANGED runtimeVars
  BY <1>1, ZenonT(60) DEF runtimeVars, storeVars, settleVars, autoVars, wakeVars, taskVars, recoveryVars,
     providerVars, ControlInv, SerialTurns, TurnControl, AutonomousControl, Recovering
<1>2. CASE Crash
  BY <1>2, ForgetControl DEF Crash
<1>3. QED
  BY <1>1, <1>2, ArrivalControl, LoopControl, ProviderControl, ReadControl, SettleControl,
     RecoveryControl, Zenon DEF RuntimeNext

-----------------------------------------------------------------------------
\* The runtime over its store.

RuntimeInv == RuntimeTypeOK /\ StoreInv /\ ControlInv
=============================================================================
