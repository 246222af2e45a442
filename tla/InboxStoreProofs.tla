-------------------------- MODULE InboxStoreProofs --------------------------
(***************************************************************************)
(* Machine-checked proofs about InboxStore, for any finite set of          *)
(* messages and any sets of turns and sessions.                            *)
(***************************************************************************)
EXTENDS InboxStore, FiniteSetTheorems, TLAPS

USE DEF Dispositions, ProcessingStates, TurnStates

\* The callers of the bounded store are among them.
LEMMA StoreNextIsAny == [StoreNext]_storeVars => [AnyStep]_storeVars
<1>1. Announced \subseteq Nat
  BY DEF Announced
<1>2. QED
  BY <1>1, Zenon DEF StoreNext, AnyStep, StoreStep, NoticeStep, TurnStep

\* The notice columns keep their types when a transaction refreshes them.
LEMMA RefreshNoticeType ==
    ASSUME StoreTypeOK, NEW p \in [Msgs -> ProcessingStates],
           NEW c \in [Msgs -> Sessions \cup {None}], RefreshNotice(p, c)
    PROVE  /\ generation' \in Nat /\ pendingCount' \in Nat /\ lastGen' \in Nat
           /\ lastSess' \in Sessions \cup {None}
           /\ contrib' \in [Msgs -> Sessions \cup {None}]
<1>1. IsFiniteSet(PendingOf(p)) /\ Cardinality(PendingOf(p)) \in Nat
  BY ConstantsAssumption, FS_Subset, FS_CardinalityType DEF PendingOf
<1>2. QED
  BY <1>1 DEF RefreshNotice, NextGeneration, StillPending, StoreTypeOK

\* Recording a delivered notice (_mark_notice_delivered_unlocked) keeps the notice row typed.
LEMMA RecordContributionsType ==
    ASSUME StoreTypeOK, NEW g \in Nat, NEW s \in Sessions, NEW ids,
           RecordContributions(g, s, ids)
    PROVE  /\ generation' \in Nat /\ pendingCount' \in Nat /\ lastGen' \in Nat
           /\ lastSess' \in Sessions \cup {None}
           /\ contrib' \in [Msgs -> Sessions \cup {None}]
  BY DEF RecordContributions, DeliveredGeneration, StoreTypeOK, Before

\* Every step of the store keeps every column in its type.
LEMMA StoreTypeStep == StoreTypeOK /\ [AnyStep]_storeVars => StoreTypeOK'
<1> SUFFICES ASSUME StoreTypeOK, [AnyStep]_storeVars PROVE StoreTypeOK'
  OBVIOUS
<1>1. ASSUME NEW m \in Msgs, Receive(m) PROVE StoreTypeOK'
  <2>1. ASSUME NEW d \in {"eligible", "terminal", "foreign_dm_gated", "local_runtime"},
               NEW q \in BOOLEAN, InsertRow(m, d, q)
        PROVE  StoreTypeOK'
    <3>1. CASE d \in {"eligible", "local_runtime"}
      BY <2>1, <3>1, RefreshNoticeType, Zenon DEF InsertRow, StoreTypeOK, turnVars
    <3>2. CASE d \notin {"eligible", "local_runtime"}
      BY <2>1, <3>2 DEF InsertRow, StoreTypeOK, turnVars, noticeVars
    <3>3. QED BY <3>1, <3>2
  <2>2. CASE \E d \in Dispositions : InsertReceipt(m, d)
    BY <2>1, <2>2, Zenon DEF InsertReceipt
  <2>3. CASE \E d \in Dispositions : StoreLocalReceipt(m, d)
    BY <2>1, <2>3, Zenon DEF StoreLocalReceipt
  <2>4. CASE \E d \in Dispositions : BackfillSequence(m, d)
    BY <2>4 DEF BackfillSequence, StoreTypeOK, turnVars, noticeVars
  <2>5. CASE StoreLocalEvent(m)
    BY <2>1, <2>5, Zenon DEF StoreLocalEvent
  <2>6. CASE PromoteGatedReceipt(m)
    BY <2>6, RefreshNoticeType, Zenon DEF PromoteGatedReceipt, ReleasedAs, StoreTypeOK, turnVars
  <2>7. CASE QuarantinePending(m)
    BY <2>7, RefreshNoticeType, Zenon DEF QuarantinePending, StoreTypeOK, turnVars
  <2>8. QED BY <1>1, <2>2, <2>3, <2>4, <2>5, <2>6, <2>7 DEF Receive
<1>2. ASSUME NEW ms \in SUBSET Msgs, TombstoneGated(ms) PROVE StoreTypeOK'
  BY <1>2 DEF TombstoneGated, StoreTypeOK, On, turnVars, noticeVars
<1>3. ASSUME NEW ms \in SUBSET Msgs, AddMessageCovers(ms) PROVE StoreTypeOK'
  BY <1>3, RefreshNoticeType, Zenon DEF AddMessageCovers, SettledByCover, StoreTypeOK, On, turnVars
<1>4. CASE NoticeStep(Nat)
  <2>1. ASSUME NEW s \in Sessions, NEW ids \in SUBSET Msgs, NEW g \in Nat,
               NEW t \in Turns \cup {None}, MarkNoticeDelivered(g, s, ids, t)
        PROVE  StoreTypeOK'
    <3>1. g \in Nat
      OBVIOUS
    <3>2. QED
      BY <2>1, <3>1, RecordContributionsType
      DEF MarkNoticeDelivered, StoreTypeOK, rowVars, turnVars
  <2>2. ASSUME NEW s \in Sessions, NEW ids \in SUBSET Msgs, ReleaseNoticeDelivery(s, ids)
        PROVE  StoreTypeOK'
    BY <2>2 DEF ReleaseNoticeDelivery, StoreTypeOK, rowVars, turnVars, On, Before
  <2>3. QED BY <1>4, <2>1, <2>2 DEF NoticeStep
<1>5. ASSUME NEW t \in Turns, TurnStep(t, Nat) PROVE StoreTypeOK'
  <2>1. ASSUME NEW s \in Sessions \cup {None}, NEW g \in Nat,
               NEW ids \in SUBSET Msgs, StartTurn(t, s, g, ids)
        PROVE  StoreTypeOK'
    <3>1. g \in Nat
      OBVIOUS
    <3>2. CASE s # None /\ ids # {}
      BY <2>1, <3>1, <3>2, RecordContributionsType DEF StartTurn, NewTurn, StoreTypeOK, rowVars
    <3>3. CASE ~(s # None /\ ids # {})
      BY <2>1, <3>3 DEF StartTurn, NewTurn, StoreTypeOK, rowVars, noticeVars
    <3>4. QED BY <3>2, <3>3
  <2>2. ASSUME NEW s \in Sessions \cup {None}, NEW ids \in SUBSET Msgs, AdmitMessages(ids, t, s)
        PROVE  StoreTypeOK'
    <3>1. tstate' \in [Turns -> TurnStates] /\ tsess' \in [Turns -> Sessions \cup {None}]
      BY <2>2 DEF AdmitMessages, Admissible, NewTurn, StoreTypeOK
    <3>2. QED
      BY <2>2, <3>1, RefreshNoticeType, Zenon DEF AdmitMessages, Admissible, StoreTypeOK, On
  <2>3. ASSUME NEW s \in Sessions \cup {None}, NEW to \in Sessions, TransferTurnSession(t, s, to)
        PROVE  StoreTypeOK'
    BY <2>3 DEF TransferTurnSession, StoreTypeOK, rowVars, noticeVars
  <2>4. ASSUME NEW s \in Sessions \cup {None}, NEW done, NEW back, CompleteTurn(done, back, t, s)
        PROVE  StoreTypeOK'
    BY <2>4, RefreshNoticeType, Zenon DEF CompleteTurn, StoreTypeOK, On
  <2>5. ASSUME NEW final \in {"processed", "requeued"}, FinalizeEmptyTurn(t, final)
        PROVE  StoreTypeOK'
    BY <2>5 DEF FinalizeEmptyTurn, StoreTypeOK, rowVars, noticeVars
  <2>6. ASSUME RequeueMessages(members[t], t) PROVE StoreTypeOK'
    BY <2>6, RefreshNoticeType, Zenon DEF RequeueMessages, Retried, StoreTypeOK, On
  <2>7. QED
    BY <1>5, <2>1, <2>2, <2>3, <2>4, <2>5, <2>6, Zenon
    DEF TurnStep, MarkProcessed, CompleteTurnWithRenotice, CompleteTurnRenoticeUnrenotified
<1>6. CASE UNCHANGED storeVars
  BY <1>6 DEF storeVars, StoreTypeOK
<1>7. QED BY <1>1, <1>2, <1>3, <1>4, <1>5, <1>6 DEF AnyStep, StoreStep

\* Every reachable store has well-typed columns.
THEOREM StoreTypeCorrect == StoreSpec => []StoreTypeOK
<1>1. StoreInit => StoreTypeOK
  BY DEF StoreInit, StoreTypeOK
<1>2. QED BY <1>1, StoreTypeStep, StoreNextIsAny, PTL DEF StoreSpec

-----------------------------------------------------------------------------
\* The invariant is inductive.

\* Two subsets of Msgs, one inside the other, are equal when equally large.
LEMMA NestedCardinality ==
    ASSUME NEW A \in SUBSET Msgs, NEW B \in SUBSET Msgs, A \subseteq B
    PROVE  /\ Cardinality(A) \in Nat /\ Cardinality(B) \in Nat
           /\ Cardinality(A) = Cardinality(B) <=> A = B
           /\ Cardinality(A) = 0 <=> A = {}
<1>1. IsFiniteSet(B)
  BY ConstantsAssumption, FS_Subset
<1>2. IsFiniteSet(A)
  BY <1>1, FS_Subset
<1>3. Cardinality(A) = Cardinality(B) <=> A = B
  BY <1>1, FS_Subset
<1>4. QED
  BY <1>1, <1>2, <1>3, FS_CardinalityType, FS_EmptySet

\* A transaction that only adds pending rows, or only removes some, refreshes the
\* notice row correctly, and moves the generation when it changed the set.
LEMMA RefreshNoticeStep ==
    ASSUME StoreTypeOK, NoticeInv, NEW p \in [Msgs -> ProcessingStates],
           RefreshNotice(p, contrib), pst' = p,
           \/ PendingOf(p) \subseteq Pending
           \/ Pending \subseteq PendingOf(p)
    PROVE  NoticeInv' /\ (Pending' # Pending => generation' > generation)
<1> DEFINE Q == PendingOf(p)
           kept == [m \in Msgs |-> IF p[m] = "pending" THEN contrib[m] ELSE None]
           C == ContributedIn(kept, lastSess)
<1>1. Pending' = Q /\ Pending \in SUBSET Msgs /\ Q \in SUBSET Msgs
  BY DEF Pending, PendingOf
<1>2. /\ Cardinality(Q) \in Nat /\ Cardinality(Pending) \in Nat
      /\ Cardinality(Q) = Cardinality(Pending) <=> Q = Pending
      /\ Cardinality(Q) = 0 <=> Q = {}
  BY <1>1, NestedCardinality
<1>3. /\ generation' = IF Cardinality(Q) # pendingCount THEN generation + 1 ELSE generation
      /\ pendingCount' = Cardinality(Q) /\ contrib' = kept /\ lastSess' = lastSess
  BY DEF RefreshNotice, NextGeneration, StillPending
<1>4. pendingCount = Cardinality(Pending)
  BY DEF NoticeInv, CountMatchesRows
<1>5. /\ generation \in Nat /\ lastGen \in Nat /\ pendingCount \in Nat
      /\ contrib \in [Msgs -> Sessions \cup {None}] /\ lastSess \in Sessions \cup {None}
  BY DEF StoreTypeOK
<1>6. Pending' # Pending => generation' > generation
  BY <1>1, <1>2, <1>3, <1>4, <1>5
<1>7. CountMatchesRows' /\ EvidenceIsCurrent'
  BY <1>1, <1>3, <1>5 DEF CountMatchesRows, EvidenceIsCurrent, NoticeInv, Pending, PendingOf
<1>8. pendingCount' > 0 => generation' > 0
  BY <1>3, <1>4, <1>5 DEF NoticeInv
<1>9. ASSUME lastSess # None
      PROVE  (Cardinality(C) = Cardinality(Q)) <=> \A m \in Q : kept[m] = lastSess
  <2>1. C \in SUBSET Q
    BY <1>9 DEF ContributedIn, PendingOf
  <2>2. Cardinality(C) = Cardinality(Q) <=> C = Q
    BY <1>1, <2>1, NestedCardinality
  <2>3. QED BY <2>1, <2>2, <1>1 DEF ContributedIn
<1>10. lastGen' = IF lastSess # None /\ Cardinality(Q) > 0 /\ Cardinality(C) = Cardinality(Q)
                  THEN generation' ELSE lastGen
  BY <1>3 DEF RefreshNotice, NextGeneration, StillPending
<1>11. lastGen' <= generation'
  BY <1>3, <1>5, <1>10 DEF NoticeInv
<1>12. ASSUME pendingCount' > 0, lastSess' # None
       PROVE  lastGen' = generation' <=> \A m \in Pending' : contrib'[m] = lastSess'
  <2>1. CASE \A m \in Q : kept[m] = lastSess
    BY <1>12, <2>1, <1>1, <1>3, <1>9, <1>10
  <2>2. CASE ~ \A m \in Q : kept[m] = lastSess
    <3>1. lastGen' = lastGen
      BY <1>12, <2>2, <1>3, <1>9, <1>10
    <3>2. CASE Q = Pending
      <4>1. pendingCount > 0 /\ generation' = generation
        BY <3>2, <1>12, <1>3, <1>4
      <4>2. ~ \A m \in Pending : contrib[m] = lastSess
        BY <2>2, <3>2 DEF PendingOf
      <4>3. lastGen # generation
        BY <4>1, <4>2, <1>12, <1>3, Zenon DEF NoticeInv
      <4>4. QED BY <4>1, <4>3, <3>1, <2>2, <1>1, <1>3
    <3>3. CASE Q # Pending
      <4>1. generation' = generation + 1
        BY <3>3, <1>2, <1>3, <1>4, Zenon
      <4>2. QED BY <4>1, <3>1, <2>2, <1>1, <1>3, <1>5 DEF NoticeInv
    <3>4. QED BY <3>2, <3>3
  <2>3. QED BY <2>1, <2>2, Zenon
<1>13. QED BY <1>6, <1>7, <1>8, <1>11, <1>12 DEF NoticeInv

\* Recording an announcement keeps the notice row exact.
LEMMA RecordContributionsStep ==
    ASSUME StoreTypeOK, NoticeInv, NEW g \in Nat, NEW s \in Sessions, NEW ids,
           RecordContributions(g, s, ids), pst' = pst
    PROVE  NoticeInv' /\ Pending' = Pending
<1> DEFINE kept == IF lastSess = s THEN contrib ELSE [m \in Msgs |-> None]
           c == [m \in Msgs |-> IF m \in Pending \cap ids /\ kept[m] = None
                                THEN s ELSE kept[m]]
           C == ContributedIn(c, s)
<1>1. Pending' = Pending /\ Pending \in SUBSET Msgs
  BY DEF Pending, PendingOf
<1>2. s # None /\ generation \in Nat /\ lastGen \in Nat /\ pendingCount \in Nat
  BY ConstantsAssumption DEF StoreTypeOK
<1>3. /\ contrib' = c /\ lastSess' = s
      /\ generation' = generation /\ pendingCount' = pendingCount
      /\ lastGen' = IF Cardinality(C) = pendingCount THEN generation
                    ELSE IF g <= Before(generation) THEN g ELSE Before(generation)
  BY DEF RecordContributions, DeliveredGeneration
<1>4. \A m \in Msgs : c[m] \in {s, None} /\ (c[m] # None => m \in Pending)
  BY Zenon DEF NoticeInv, EvidenceIsCurrent
<1>5. CountMatchesRows' /\ EvidenceIsCurrent'
  BY <1>1, <1>3, <1>4 DEF NoticeInv, CountMatchesRows, EvidenceIsCurrent
<1>6. Cardinality(C) = pendingCount <=> C = Pending
  <2>1. C \in SUBSET Pending
    BY <1>2, <1>4 DEF ContributedIn
  <2>2. Cardinality(C) = Cardinality(Pending) <=> C = Pending
    BY <1>1, <2>1, NestedCardinality
  <2>3. QED BY <2>2 DEF NoticeInv, CountMatchesRows
<1>7. C = Pending <=> \A m \in Pending : c[m] = s
  BY <1>1, <1>2, <1>4 DEF ContributedIn
<1>8. pendingCount > 0 => generation > 0
  BY DEF NoticeInv
<1>9. pendingCount > 0 => (lastGen' = generation <=> C = Pending)
  BY <1>2, <1>3, <1>6, <1>8 DEF Before
<1>10. lastGen' <= generation'
  BY <1>2, <1>3 DEF Before
<1>11. QED
  BY <1>1, <1>3, <1>5, <1>7, <1>8, <1>9, <1>10 DEF NoticeInv

\* Withdrawing announcements keeps the notice row exact.
LEMMA ReleaseNoticeStep ==
    ASSUME StoreTypeOK, NoticeInv, NEW s \in Sessions, NEW ids,
           ReleaseNoticeDelivery(s, ids)
    PROVE  NoticeInv' /\ Pending' = Pending
<1>1. Pending' = Pending /\ Pending \in SUBSET Msgs
  BY DEF ReleaseNoticeDelivery, rowVars, Pending, PendingOf
<1>2. PICK m \in Msgs : contrib[m] = s /\ m \in ids
  BY DEF ReleaseNoticeDelivery, ContributedIn
<1>3. s # None /\ generation \in Nat /\ pendingCount \in Nat
  BY ConstantsAssumption DEF StoreTypeOK
<1>4. m \in Pending /\ contrib'[m] = None
  BY <1>2, <1>3 DEF NoticeInv, EvidenceIsCurrent, ReleaseNoticeDelivery, On, ContributedIn
<1>5. CountMatchesRows' /\ EvidenceIsCurrent'
  BY <1>1 DEF NoticeInv, CountMatchesRows, EvidenceIsCurrent, ReleaseNoticeDelivery, On
<1>6. /\ generation' = generation /\ pendingCount' = pendingCount
      /\ lastGen' = Before(generation) /\ lastSess' = s
  BY DEF ReleaseNoticeDelivery
<1>7. QED
  BY <1>1, <1>3, <1>4, <1>5, <1>6 DEF NoticeInv, Before

-----------------------------------------------------------------------------
\* The notice row, step by step.

\* Every step of the store keeps the notice row exact, and moves the generation
\* whenever it changes the set of pending rows.
LEMMA NoticeStepLemma ==
    StoreInv /\ [AnyStep]_storeVars =>
        NoticeInv' /\ (Pending' # Pending => generation' > generation)
<1> SUFFICES ASSUME StoreInv, [AnyStep]_storeVars
             PROVE  NoticeInv' /\ (Pending' # Pending => generation' > generation)
  OBVIOUS
<1> DEFINE Goal == NoticeInv' /\ (Pending' # Pending => generation' > generation)
<1> USE DEF StoreInv
<1>0. ASSUME UNCHANGED <<pst, noticeVars>> PROVE Goal
  BY <1>0 DEF noticeVars, NoticeInv, CountMatchesRows, EvidenceIsCurrent, Pending, PendingOf
<1>1. ASSUME NEW m \in Msgs, Receive(m) PROVE Goal
  <2>1. ASSUME NEW d \in {"eligible", "terminal", "foreign_dm_gated", "local_runtime"},
               NEW q \in BOOLEAN, InsertRow(m, d, q)
        PROVE  Goal
    <3>1. pst[m] = "null"
      BY <2>1 DEF InsertRow, RowShape
    <3>2. CASE d \in {"eligible", "local_runtime"}
      <4> DEFINE p == [pst EXCEPT ![m] = "pending"]
      <4>1. p \in [Msgs -> ProcessingStates] /\ pst' = p /\ RefreshNotice(p, contrib)
        BY <2>1, <3>2 DEF InsertRow, StoreTypeOK
      <4>2. Pending \subseteq PendingOf(p)
        BY DEF Pending, PendingOf, StoreTypeOK
      <4>3. QED BY <4>1, <4>2, RefreshNoticeStep, Zenon
    <3>3. CASE d \notin {"eligible", "local_runtime"}
      <4>1. pst' = pst
        BY <2>1, <3>1, <3>3 DEF InsertRow, StoreTypeOK
      <4>2. QED BY <2>1, <3>3, <4>1, <1>0 DEF InsertRow
    <3>4. QED BY <3>2, <3>3, Zenon
  <2>2. CASE \E d \in Dispositions : InsertReceipt(m, d)
    BY <2>1, <2>2, Zenon DEF InsertReceipt
  <2>3. CASE \E d \in Dispositions : StoreLocalReceipt(m, d)
    BY <2>1, <2>3, Zenon DEF StoreLocalReceipt
  <2>4. CASE \E d \in Dispositions : BackfillSequence(m, d)
    BY <2>4, <1>0 DEF BackfillSequence
  <2>5. CASE StoreLocalEvent(m)
    BY <2>1, <2>5, Zenon DEF StoreLocalEvent
  <2>6. CASE PromoteGatedReceipt(m)
    <3> DEFINE p == [pst EXCEPT ![m] = "pending"]
    <3>1. p \in [Msgs -> ProcessingStates] /\ pst' = p /\ RefreshNotice(p, contrib)
      BY <2>6 DEF PromoteGatedReceipt, ReleasedAs, StoreTypeOK
    <3>2. Pending \subseteq PendingOf(p)
      BY DEF Pending, PendingOf, StoreTypeOK
    <3>3. QED BY <3>1, <3>2, RefreshNoticeStep, Zenon
  <2>7. CASE QuarantinePending(m)
    <3> DEFINE p == [pst EXCEPT ![m] = "null"]
    <3>1. p \in [Msgs -> ProcessingStates] /\ pst' = p /\ RefreshNotice(p, contrib)
      BY <2>7 DEF QuarantinePending, StoreTypeOK
    <3>2. PendingOf(p) \subseteq Pending
      BY DEF Pending, PendingOf, StoreTypeOK
    <3>3. QED BY <3>1, <3>2, RefreshNoticeStep, Zenon
  <2>8. QED BY <1>1, <2>2, <2>3, <2>4, <2>5, <2>6, <2>7 DEF Receive
<1>2. ASSUME NEW ms \in SUBSET Msgs, TombstoneGated(ms) PROVE Goal
  BY <1>2, <1>0 DEF TombstoneGated
<1>3. ASSUME NEW ms \in SUBSET Msgs, AddMessageCovers(ms) PROVE Goal
  <2>1. PICK S \in SUBSET Msgs : pst' = On(pst, S, "processed") /\ RefreshNotice(pst', contrib)
    BY <1>3 DEF AddMessageCovers, SettledByCover, Pending, PendingOf
  <2>2. pst' \in [Msgs -> ProcessingStates] /\ PendingOf(pst') \subseteq Pending
    BY <2>1 DEF On, Pending, PendingOf, StoreTypeOK
  <2>3. QED BY <2>1, <2>2, RefreshNoticeStep
<1>4. CASE NoticeStep(Nat)
  <2>1. ASSUME NEW s \in Sessions, NEW ids \in SUBSET Msgs, NEW g \in Nat,
               NEW t \in Turns \cup {None}, MarkNoticeDelivered(g, s, ids, t)
        PROVE  Goal
    <3>1. g \in Nat /\ pst' = pst /\ RecordContributions(g, s, ids)
      BY <2>1 DEF MarkNoticeDelivered, rowVars
    <3>2. QED BY <3>1, RecordContributionsStep
  <2>2. ASSUME NEW s \in Sessions, NEW ids \in SUBSET Msgs, ReleaseNoticeDelivery(s, ids)
        PROVE  Goal
    BY <2>2, ReleaseNoticeStep, Zenon
  <2>3. QED BY <1>4, <2>1, <2>2 DEF NoticeStep
<1>5. ASSUME NEW t \in Turns, TurnStep(t, Nat) PROVE Goal
  <2>1. ASSUME NEW s \in Sessions \cup {None}, NEW g \in Nat,
               NEW ids \in SUBSET Msgs, StartTurn(t, s, g, ids)
        PROVE  Goal
    <3>1. g \in Nat /\ pst' = pst
      BY <2>1 DEF StartTurn, rowVars
    <3>2. CASE s # None /\ ids # {}
      BY <2>1, <3>1, <3>2, RecordContributionsStep DEF StartTurn
    <3>3. CASE ~(s # None /\ ids # {})
      BY <2>1, <3>1, <3>3, <1>0 DEF StartTurn
    <3>4. QED BY <3>2, <3>3
  <2>2. ASSUME NEW s \in Sessions \cup {None}, NEW ids \in SUBSET Msgs, AdmitMessages(ids, t, s)
        PROVE  Goal
    <3>1. pst' = On(pst, ids, "in_turn") /\ RefreshNotice(pst', contrib)
      BY <2>2 DEF AdmitMessages, Admissible
    <3>2. pst' \in [Msgs -> ProcessingStates] /\ PendingOf(pst') \subseteq Pending
      BY <3>1 DEF On, Pending, PendingOf, StoreTypeOK
    <3>3. QED BY <3>1, <3>2, RefreshNoticeStep
  <2>3. ASSUME NEW s \in Sessions \cup {None}, NEW to \in Sessions, TransferTurnSession(t, s, to)
        PROVE  Goal
    BY <2>3, <1>0 DEF TransferTurnSession, rowVars
  <2>4. ASSUME NEW s \in Sessions \cup {None}, NEW done, NEW back, CompleteTurn(done, back, t, s)
        PROVE  Goal
    <3>1. \A m \in Msgs : m \in done \cup back => pst[m] = "in_turn"
      BY <2>4 DEF CompleteTurn, ExactUnion
    <3>2. On(contrib, back, None) = contrib
      <4>1. \A m \in Msgs : m \in back => contrib[m] = None
        BY <3>1 DEF NoticeInv, EvidenceIsCurrent, Pending, PendingOf
      <4>2. QED BY <4>1 DEF On, StoreTypeOK
    <3>3. /\ pst' = [m \in Msgs |-> IF m \in done THEN "processed"
                                    ELSE IF m \in back THEN "pending" ELSE pst[m]]
          /\ RefreshNotice(pst', contrib)
      BY <2>4, <3>2, Zenon DEF CompleteTurn
    <3>4. pst' \in [Msgs -> ProcessingStates] /\ Pending \subseteq PendingOf(pst')
      BY <3>1, <3>3 DEF Pending, PendingOf, StoreTypeOK
    <3>5. QED BY <3>3, <3>4, RefreshNoticeStep
  <2>5. ASSUME NEW final \in {"processed", "requeued"}, FinalizeEmptyTurn(t, final)
        PROVE  Goal
    BY <2>5, <1>0, Zenon DEF FinalizeEmptyTurn, rowVars
  <2>6. ASSUME RequeueMessages(members[t], t) PROVE Goal
    <3>1. /\ pst' = [m \in Msgs |-> IF m \in members[t] \ covered THEN "pending"
                                    ELSE IF m \in members[t] THEN "processed" ELSE pst[m]]
          /\ RefreshNotice(pst', contrib)
          /\ \A m \in members[t] : pst[m] = "in_turn"
      BY <2>6, Zenon DEF RequeueMessages, Retried, ExactUnion
    <3>2. pst' \in [Msgs -> ProcessingStates] /\ Pending \subseteq PendingOf(pst')
      BY <3>1 DEF Pending, PendingOf, StoreTypeOK
    <3>3. QED BY <3>1, <3>2, RefreshNoticeStep, Zenon
  <2>7. QED
    BY <1>5, <2>1, <2>2, <2>3, <2>4, <2>5, <2>6, Zenon
    DEF TurnStep, MarkProcessed, CompleteTurnWithRenotice, CompleteTurnRenoticeUnrenotified
<1>6. CASE UNCHANGED storeVars
  BY <1>6, <1>0 DEF storeVars, noticeVars
<1>7. QED BY <1>1, <1>2, <1>3, <1>4, <1>5, <1>6 DEF AnyStep, StoreStep

-----------------------------------------------------------------------------
\* Rows and turns, step by step.

RowsInv == RowShape /\ TurnOwnership /\ SettledWasShown

\* A row was ever admitted when some turn_run_messages row names it.
LEMMA EverAdmittedDef == \A m : m \in EverAdmitted <=> \E t \in Turns : m \in members[t]
  BY DEF EverAdmitted

\* Every step of the store keeps rows and turns in agreement.
LEMMA RowsStepLemma == StoreInv /\ [AnyStep]_storeVars => RowsInv'
<1> SUFFICES ASSUME StoreInv, [AnyStep]_storeVars PROVE RowsInv'
  OBVIOUS
<1> USE DEF StoreInv
<1>a. (\A m : m \in EverAdmitted <=> \E t \in Turns : m \in members[t])'
  BY DEF EverAdmitted
<1>b. ASSUME members' = members PROVE EverAdmitted' = EverAdmitted
  BY <1>b, Zenon DEF EverAdmitted
<1>0. ASSUME UNCHANGED <<rowVars, turnVars>> PROVE RowsInv'
  BY <1>0, <1>b DEF rowVars, turnVars, RowsInv, RowShape, TurnOwnership, SettledWasShown
<1>1. ASSUME NEW m \in Msgs, Receive(m) PROVE RowsInv'
  <2>a. UNCHANGED turnVars
    BY <1>1 DEF Receive, InsertReceipt, StoreLocalReceipt, StoreLocalEvent, InsertRow,
                BackfillSequence, PromoteGatedReceipt, ReleasedAs, QuarantinePending
  <2>b. EverAdmitted' = EverAdmitted /\ tstate' = tstate /\ members' = members
    BY <2>a, <1>b, Zenon DEF turnVars
  <2>1. ASSUME NEW d \in {"eligible", "terminal", "foreign_dm_gated", "local_runtime"},
               NEW q \in BOOLEAN, InsertRow(m, d, q)
        PROVE  RowsInv'
    <3>1. pst[m] = "null" /\ pst'[m] \in {"null", "pending"}
      BY <2>1, Zenon DEF InsertRow, RowShape, StoreTypeOK
    <3>2. /\ \A n \in Msgs \ {m} : pst'[n] = pst[n] /\ disp'[n] = disp[n]
          /\ disp'[m] = d /\ (pst'[m] = "pending" => d \in {"eligible", "local_runtime"})
          /\ UNCHANGED <<turnOf, seen, renotified>>
      BY <2>1 DEF InsertRow, StoreTypeOK
    <3>3. QED
      BY <3>1, <3>2, <2>b DEF RowsInv, RowShape, TurnOwnership, SettledWasShown, StoreTypeOK
  <2>2. CASE \E d \in Dispositions : InsertReceipt(m, d)
    BY <2>1, <2>2, Zenon DEF InsertReceipt
  <2>3. CASE \E d \in Dispositions : StoreLocalReceipt(m, d)
    BY <2>1, <2>3, Zenon DEF StoreLocalReceipt
  <2>4. CASE \E d \in Dispositions : BackfillSequence(m, d)
    BY <2>4, <2>b DEF BackfillSequence, RowsInv, RowShape, TurnOwnership, SettledWasShown, StoreTypeOK
  <2>5. CASE StoreLocalEvent(m)
    BY <2>1, <2>5, Zenon DEF StoreLocalEvent
  <2>6. CASE PromoteGatedReceipt(m)
    BY <2>6, <2>b DEF PromoteGatedReceipt, ReleasedAs, RowsInv, RowShape, TurnOwnership, SettledWasShown, StoreTypeOK
  <2>7. CASE QuarantinePending(m)
    BY <2>7, <2>b DEF QuarantinePending, RowsInv, RowShape, TurnOwnership, SettledWasShown, StoreTypeOK
  <2>8. QED BY <1>1, <2>2, <2>3, <2>4, <2>5, <2>6, <2>7, Zenon DEF Receive
<1>2. ASSUME NEW ms \in SUBSET Msgs, TombstoneGated(ms) PROVE RowsInv'
  <2>1. \A m \in ms : pst[m] = "null"
    BY <1>2 DEF TombstoneGated, RowShape, StoreTypeOK
  <2>2. QED
    BY <1>2, <2>1, <1>b DEF TombstoneGated, On, turnVars, RowsInv, RowShape, TurnOwnership,
       SettledWasShown, StoreTypeOK
<1>3. ASSUME NEW ms \in SUBSET Msgs, AddMessageCovers(ms) PROVE RowsInv'
  <2> DEFINE settle == {m \in ms : /\ disp[m] # "absent" /\ m \in Pending
                                   /\ renotified[m] \/ m \in EverAdmitted}
  <2>1. /\ pst' = On(pst, settle, "processed") /\ turnOf' = On(turnOf, settle, None)
        /\ seen' = On(seen, settle, TRUE) /\ UNCHANGED <<disp, renotified, turnVars>>
    BY <1>3, Zenon DEF AddMessageCovers, SettledByCover
  <2>2. \A m \in settle : pst[m] = "pending" /\ m \in EverAdmitted
    BY DEF Pending, PendingOf, RowShape
  <2>3. QED
    BY <2>1, <2>2, <1>b DEF On, turnVars, RowsInv, RowShape, TurnOwnership,
       SettledWasShown, StoreTypeOK
<1>4. CASE NoticeStep(Nat)
  BY <1>4, <1>0 DEF NoticeStep, MarkNoticeDelivered, ReleaseNoticeDelivery
<1>5. ASSUME NEW t \in Turns, TurnStep(t, Nat) PROVE RowsInv'
  <2>0. tstate[t] = "in_turn" =>
            \A m \in members[t] : m \in Msgs /\ pst[m] = "in_turn" /\ turnOf[m] = t
    BY DEF TurnOwnership, StoreTypeOK
  <2>1. ASSUME NEW s \in Sessions \cup {None}, NEW g \in Nat,
               NEW ids \in SUBSET Msgs, StartTurn(t, s, g, ids)
        PROVE  RowsInv'
    <3>1. tstate[t] = "absent" /\ members[t] = {}
      BY <2>1 DEF StartTurn, NewTurn, RowShape
    <3>2. QED
      BY <2>1, <3>1, <1>b DEF StartTurn, NewTurn, rowVars, RowsInv, RowShape,
         TurnOwnership, SettledWasShown, StoreTypeOK
  <2>2. ASSUME NEW s \in Sessions \cup {None}, NEW ids \in SUBSET Msgs, AdmitMessages(ids, t, s)
        PROVE  RowsInv'
    <3>1. /\ pst' = On(pst, ids, "in_turn") /\ turnOf' = On(turnOf, ids, t)
          /\ seen' = On(seen, ids, TRUE) /\ UNCHANGED <<disp, renotified>>
          /\ members' = [members EXCEPT ![t] = @ \cup ids]
          /\ \A m \in ids : pst[m] = "pending"
      BY <2>2, Zenon DEF AdmitMessages, Admissible, Pending, PendingOf
    <3>2. /\ tstate'[t] = "in_turn" /\ \A u \in Turns \ {t} : tstate'[u] = tstate[u]
          /\ tstate[t] = "in_turn" \/ (tstate[t] = "absent" /\ members[t] = {})
      BY <2>2, Zenon DEF AdmitMessages, Admissible, NewTurn, RowShape, StoreTypeOK
    <3>3. \A m \in Msgs : m \in EverAdmitted \/ m \in ids => m \in EverAdmitted'
      BY <3>1, <1>a DEF EverAdmitted, StoreTypeOK
    <3>4. RowShape'
      BY <3>1, <3>2, <3>3, Zenon DEF RowShape, On, StoreTypeOK
    <3>5. SettledWasShown'
      BY <3>1, <3>3, Zenon DEF SettledWasShown, On, StoreTypeOK
    <3>6. TurnOwnership'
      <4>1. ASSUME NEW m \in Msgs, pst'[m] = "in_turn"
            PROVE  /\ turnOf'[m] \in Turns /\ tstate'[turnOf'[m]] = "in_turn"
                   /\ m \in members'[turnOf'[m]]
        BY <4>1, <3>1, <3>2 DEF TurnOwnership, On, StoreTypeOK
      <4>2. ASSUME NEW u \in Turns, tstate'[u] = "in_turn", NEW m \in members'[u]
            PROVE  pst'[m] = "in_turn" /\ turnOf'[m] = u
        BY <4>2, <3>1, <3>2 DEF TurnOwnership, On, StoreTypeOK
      <4>3. QED BY <4>1, <4>2, Zenon DEF TurnOwnership
    <3>7. QED BY <3>4, <3>5, <3>6, Zenon DEF RowsInv
  <2>3. ASSUME NEW s \in Sessions \cup {None}, NEW to \in Sessions, TransferTurnSession(t, s, to)
        PROVE  RowsInv'
    BY <2>3, <1>b DEF TransferTurnSession, rowVars, RowsInv, RowShape, TurnOwnership, SettledWasShown
  <2>4. ASSUME NEW s \in Sessions \cup {None}, NEW done, NEW back, CompleteTurn(done, back, t, s)
        PROVE  RowsInv'
    <3>1. /\ \A m \in Msgs : m \in members[t] => pst'[m] \in {"processed", "pending"}
          /\ \A m \in Msgs : m \notin members[t] => pst'[m] = pst[m] /\ turnOf'[m] = turnOf[m]
          /\ \A m \in Msgs : renotified'[m] => renotified[m] \/ m \in members[t]
          /\ tstate' = [tstate EXCEPT ![t] = "processed"]
          /\ UNCHANGED <<disp, seen, members>>
      BY <2>4, Zenon DEF CompleteTurn, ExactUnion, On, StoreTypeOK
    <3>2. tstate[t] = "in_turn"
      BY <2>4, Zenon DEF CompleteTurn, ExactUnion
    <3>3. EverAdmitted' = EverAdmitted
      BY <3>1, <1>b
    <3>4. \A m \in members[t] : m \in Msgs /\ m \in EverAdmitted
      BY EverAdmittedDef, Zenon DEF StoreTypeOK
    <3>5. RowShape' /\ SettledWasShown'
      BY <2>0, <3>1, <3>2, <3>3, <3>4 DEF RowShape, SettledWasShown, StoreTypeOK
    <3>6. TurnOwnership'
      BY <2>0, <3>1, <3>2 DEF TurnOwnership, StoreTypeOK
    <3>7. QED BY <3>5, <3>6, Zenon DEF RowsInv
  <2>5. ASSUME NEW final \in {"processed", "requeued"}, FinalizeEmptyTurn(t, final)
        PROVE  RowsInv'
    BY <2>5, <1>b DEF FinalizeEmptyTurn, rowVars, RowsInv, RowShape, TurnOwnership,
       SettledWasShown, StoreTypeOK
  <2>6. ASSUME RequeueMessages(members[t], t) PROVE RowsInv'
    <3>1. /\ \A m \in Msgs : m \in members[t] => pst'[m] \in {"processed", "pending"}
          /\ \A m \in Msgs : m \notin members[t] =>
                 pst'[m] = pst[m] /\ turnOf'[m] = turnOf[m] /\ seen'[m] = seen[m]
          /\ \A m \in Msgs : pst'[m] = "processed" => seen'[m] = seen[m]
          /\ tstate' = [tstate EXCEPT ![t] = "requeued"]
          /\ UNCHANGED <<disp, renotified, members>>
      BY <2>6, <2>0, Zenon DEF RequeueMessages, Retried, ExactUnion, On, StoreTypeOK
    <3>2. tstate[t] = "in_turn"
      BY <2>6 DEF RequeueMessages, Retried, ExactUnion
    <3>3. EverAdmitted' = EverAdmitted
      BY <3>1, <1>b
    <3>4. RowShape' /\ SettledWasShown'
      BY <2>0, <3>1, <3>2, <3>3 DEF RowShape, SettledWasShown, StoreTypeOK
    <3>5. TurnOwnership'
      BY <2>0, <3>1, <3>2 DEF TurnOwnership, StoreTypeOK
    <3>6. QED BY <3>4, <3>5, Zenon DEF RowsInv
  <2>7. QED
    BY <1>5, <2>1, <2>2, <2>3, <2>4, <2>5, <2>6, Zenon
    DEF TurnStep, MarkProcessed, CompleteTurnWithRenotice, CompleteTurnRenoticeUnrenotified
<1>6. CASE UNCHANGED storeVars
  BY <1>6, <1>0 DEF storeVars, rowVars, turnVars
<1>7. QED BY <1>1, <1>2, <1>3, <1>4, <1>5, <1>6 DEF AnyStep, StoreStep

-----------------------------------------------------------------------------
\* The theorems.

\* A new database satisfies the inductive invariant.
LEMMA StoreInvInit == StoreInit => StoreInv
<1> SUFFICES ASSUME StoreInit PROVE StoreInv
  OBVIOUS
<1>1. StoreTypeOK
  BY DEF StoreInit, StoreTypeOK
<1>2. RowShape /\ TurnOwnership /\ SettledWasShown
  BY DEF StoreInit, RowShape, TurnOwnership, SettledWasShown
<1>3. Pending = {}
  BY DEF StoreInit, Pending, PendingOf
<1>4. NoticeInv
  BY <1>3, FS_EmptySet DEF StoreInit, NoticeInv, CountMatchesRows, EvidenceIsCurrent
<1>5. QED BY <1>1, <1>2, <1>4 DEF StoreInv

\* Every store transaction preserves the inductive invariant.
LEMMA StoreInvStep == StoreInv /\ [AnyStep]_storeVars => StoreInv'
  BY StoreTypeStep, NoticeStepLemma, RowsStepLemma DEF StoreInv, RowsInv

\* The inductive invariant holds in every reachable store.
THEOREM StoreInvariant == StoreSpec => []StoreInv
  BY StoreInvInit, StoreInvStep, StoreNextIsAny, PTL DEF StoreSpec

\* Rows and turns always agree: an in_turn row is owned by exactly one active
\* turn, and a finished turn owns none, so no crash or failure strands a row.
THEOREM StoreTurnOwnership == StoreSpec => []TurnOwnership
<1>1. StoreInv => TurnOwnership
  BY DEF StoreInv
<1>2. QED BY <1>1, StoreInvariant, PTL

\* Nothing is settled that the model was never shown.
THEOREM StoreSettledWasShown == StoreSpec => []SettledWasShown
<1>1. StoreInv => SettledWasShown
  BY DEF StoreInv
<1>2. QED BY <1>1, StoreInvariant, PTL

\* What the invariant says of a due notice.
LEMMA DueFromInv == StoreInv => DueIffUnannounced
<1> SUFFICES ASSUME StoreInv PROVE DueIffUnannounced
  OBVIOUS
<1> USE DEF StoreInv
<1>1. Pending \in SUBSET Msgs /\ pendingCount \in Nat /\ generation \in Nat /\ lastGen \in Nat
  BY DEF Pending, PendingOf, StoreTypeOK
<1>2. pendingCount > 0 <=> Pending # {}
  BY <1>1, NestedCardinality DEF NoticeInv, CountMatchesRows
<1>3. ASSUME NEW s \in Sessions
      PROVE  IsDueFor(s) <=> \E m \in Pending : s # lastSess \/ contrib[m] # s
  <2>1. s # None
    BY ConstantsAssumption
  <2>2. CASE s # lastSess
    BY <1>2, <2>1, <2>2 DEF IsDueFor
  <2>3. CASE s = lastSess
    <3>1. pendingCount > 0 => (lastGen = generation <=> \A m \in Pending : contrib[m] = s)
      BY <2>1, <2>3 DEF NoticeInv
    <3>2. QED BY <1>2, <2>1, <2>3, <3>1 DEF IsDueFor
  <2>4. QED BY <2>2, <2>3
<1>4. QED BY <1>3 DEF DueIffUnannounced, NoticeInv

\* A notice is due for a session exactly when a pending row is unannounced to it.
THEOREM StoreDueIffUnannounced == StoreSpec => []DueIffUnannounced
  BY DueFromInv, StoreInvariant, PTL

\* The generation moves on whenever the set of pending rows changes.
THEOREM StoreGenerationTracksPending == StoreSpec => GenerationTracksPending
<1>1. StoreInv /\ [AnyStep]_storeVars =>
          [Pending' # Pending => generation' > generation]_storeVars
  BY NoticeStepLemma, Zenon
<1>2. QED BY <1>1, StoreInvariant, StoreNextIsAny, PTL DEF StoreSpec, GenerationTracksPending

\* What a transaction may do to a covered row of a turn.
LEMMA CoveredStep ==
    StoreInv /\ [AnyStep]_storeVars =>
        \A m \in covered : pst[m] = "in_turn" /\ pst'[m] = "pending"
            => tstate'[turnOf[m]] = "processed"
<1> SUFFICES ASSUME StoreInv, [AnyStep]_storeVars, NEW m \in covered,
                    pst[m] = "in_turn", pst'[m] = "pending"
             PROVE  tstate'[turnOf[m]] = "processed"
  OBVIOUS
<1>s. AnyStep
  BY Zenon DEF storeVars
<1> USE DEF StoreInv
<1>0. m \in Msgs /\ turnOf[m] \in Turns /\ disp[m] \in {"eligible", "local_runtime"}
  BY Zenon DEF TurnOwnership, RowShape, StoreTypeOK
<1>1. ASSUME NEW n \in Msgs, Receive(n) PROVE FALSE
  BY <1>0, <1>1, Zenon DEF Receive, InsertReceipt, StoreLocalReceipt, StoreLocalEvent, InsertRow,
     BackfillSequence, PromoteGatedReceipt, ReleasedAs, QuarantinePending, StoreTypeOK
<1>2. ASSUME NEW ms \in SUBSET Msgs, TombstoneGated(ms) \/ AddMessageCovers(ms) PROVE FALSE
  BY <1>0, <1>2, Zenon DEF TombstoneGated, AddMessageCovers, SettledByCover, On
<1>3. CASE NoticeStep(Nat)
  BY <1>0, <1>3 DEF NoticeStep, MarkNoticeDelivered, ReleaseNoticeDelivery, rowVars
<1>4. ASSUME NEW t \in Turns, TurnStep(t, Nat) PROVE tstate'[turnOf[m]] = "processed"
  <2>1. CASE \E s \in Sessions \cup {None}, done, back \in SUBSET Msgs : CompleteTurn(done, back, t, s)
    BY <1>0, <2>1 DEF CompleteTurn, ExactUnion, StoreTypeOK
  <2>2. CASE RequeueMessages(members[t], t)
    BY <1>0, <2>2 DEF RequeueMessages, Retried
  <2>3. CASE \E s \in Sessions \cup {None} :
                \/ \E g \in Nat, ids \in SUBSET Msgs : StartTurn(t, s, g, ids)
                \/ \E ids \in SUBSET Msgs : AdmitMessages(ids, t, s)
                \/ \E to \in Sessions : TransferTurnSession(t, s, to)
    BY <1>0, <2>3, Zenon DEF StartTurn, AdmitMessages, Admissible, TransferTurnSession, rowVars, On
  <2>4. CASE \E final \in {"processed", "requeued"} : FinalizeEmptyTurn(t, final)
    BY <1>0, <2>4 DEF FinalizeEmptyTurn, rowVars
  <2>5. members[t] \in SUBSET Msgs
    BY DEF StoreTypeOK
  <2>6. QED
    BY <1>4, <2>1, <2>2, <2>3, <2>4, <2>5, Zenon
    DEF TurnStep, MarkProcessed, CompleteTurnWithRenotice, CompleteTurnRenoticeUnrenotified
<1>5. QED BY <1>s, <1>1, <1>2, <1>3, <1>4, Zenon DEF AnyStep, StoreStep

\* A failed turn never presents a covered row again.
THEOREM StoreCoveredNotRetried == StoreSpec => CoveredNotRetried
  BY CoveredStep, StoreInvariant, StoreNextIsAny, PTL DEF StoreSpec, CoveredNotRetried

-----------------------------------------------------------------------------
\* Refinement.

\* In a reachable store the life of a row is read off its two state columns.
LEMMA LifeOfValues ==
    ASSUME StoreInv, NEW m \in Msgs
    PROVE  /\ LifeOf(m) = "queued" <=> m \in Pending
           /\ LifeOf(m) = "in_turn" <=> pst[m] = "in_turn"
           /\ LifeOf(m) = "handled" <=> pst[m] = "processed"
           /\ LifeOf(m) = "unknown" <=> disp[m] = "absent"
           /\ LifeOf(m) = "held" <=> disp[m] = "foreign_dm_gated"
           /\ LifeOf(m) = "refused" <=> pst[m] = "null" /\ disp[m] \notin {"absent", "foreign_dm_gated"}
  BY DEF LifeOf, StoreInv, StoreTypeOK, RowShape, Pending, PendingOf

\* Every store transaction is a step of the message lifecycle, or none.
LEMMA LifecycleStep ==
    StoreInv /\ StoreInv' /\ [AnyStep]_storeVars => [Lifecycle!Next]_(Lifecycle!vars)
<1> SUFFICES ASSUME StoreInv, StoreInv', [AnyStep]_storeVars
             PROVE  Lifecycle!Next \/ UNCHANGED Lifecycle!vars
  OBVIOUS
<1> DEFINE L == [m \in Msgs |-> LifeOf(m)]
<1>v. \A m \in Msgs :
           /\ LifeOf(m) = "queued" <=> pst[m] = "pending"
           /\ LifeOf(m) = "in_turn" <=> pst[m] = "in_turn"
           /\ LifeOf(m) = "handled" <=> pst[m] = "processed"
           /\ LifeOf(m) = "unknown" <=> disp[m] = "absent"
           /\ LifeOf(m) = "held" <=> disp[m] = "foreign_dm_gated"
           /\ LifeOf(m) = "refused" <=> pst[m] = "null" /\ disp[m] \notin {"absent", "foreign_dm_gated"}
  BY LifeOfValues DEF Pending, PendingOf
<1>s. ASSUME \A m \in Msgs : LifeOf(m)' = LifeOf(m), members' = members
      PROVE  UNCHANGED Lifecycle!vars
  BY <1>s DEF Lifecycle!vars, EverAdmitted
<1>1. ASSUME NEW m \in Msgs, Receive(m) PROVE Lifecycle!Next \/ UNCHANGED Lifecycle!vars
  <2>1. ASSUME NEW d \in {"eligible", "terminal", "foreign_dm_gated", "local_runtime"},
               NEW q \in BOOLEAN, InsertRow(m, d, q)
        PROVE  Lifecycle!Next
    <3> DEFINE l == IF d \in {"eligible", "local_runtime"} THEN "queued"
                    ELSE IF d = "terminal" THEN "refused" ELSE "held"
    <3>1. LifeOf(m) = "unknown" /\ EverAdmitted' = EverAdmitted
      BY <2>1, <1>v, Zenon DEF InsertRow, turnVars, EverAdmitted
    <3>2. \A n \in Msgs : LifeOf(n)' = IF n = m THEN l ELSE LifeOf(n)
      BY <2>1 DEF InsertRow, LifeOf, StoreInv, StoreTypeOK
    <3>3. Lifecycle!Classify(m)
      BY <3>1, <3>2 DEF Lifecycle!Classify, Lifecycle!Move
    <3>4. QED BY <3>3 DEF Lifecycle!Next
  <2>2. CASE \E d \in Dispositions : InsertReceipt(m, d)
    BY <2>1, <2>2, Zenon DEF InsertReceipt
  <2>3. CASE \E d \in Dispositions : StoreLocalReceipt(m, d)
    BY <2>1, <2>3, Zenon DEF StoreLocalReceipt
  <2>4. CASE \E d \in Dispositions : BackfillSequence(m, d)
    <3>1. \A n \in Msgs : LifeOf(n)' = LifeOf(n)
      BY <2>4 DEF BackfillSequence, LifeOf, StoreInv, StoreTypeOK, RowShape
    <3>2. QED BY <2>4, <3>1, <1>s DEF BackfillSequence, turnVars
  <2>5. CASE StoreLocalEvent(m)
    BY <2>1, <2>5, Zenon DEF StoreLocalEvent
  <2>6. CASE PromoteGatedReceipt(m)
    <3>1. LifeOf(m) = "held" /\ EverAdmitted' = EverAdmitted
      BY <2>6, <1>v DEF PromoteGatedReceipt, ReleasedAs, turnVars, EverAdmitted
    <3>2. \A n \in Msgs : LifeOf(n)' = IF n = m THEN "queued" ELSE LifeOf(n)
      BY <2>6 DEF PromoteGatedReceipt, ReleasedAs, LifeOf, StoreInv, StoreTypeOK
    <3>3. Lifecycle!Release(m)
      BY <3>1, <3>2 DEF Lifecycle!Release, Lifecycle!In, Lifecycle!Move
    <3>4. QED BY <3>3 DEF Lifecycle!Next
  <2>7. CASE QuarantinePending(m)
    <3>1. LifeOf(m) = "queued" /\ EverAdmitted' = EverAdmitted
      BY <2>7, <1>v DEF QuarantinePending, turnVars, EverAdmitted
    <3>2. \A n \in Msgs : LifeOf(n)' = IF n = m THEN "refused" ELSE LifeOf(n)
      BY <2>7 DEF QuarantinePending, LifeOf, StoreInv, StoreTypeOK
    <3>3. Lifecycle!Refuse({m})
      BY <3>1, <3>2 DEF Lifecycle!Refuse, Lifecycle!In, Lifecycle!Move
    <3>4. QED BY <3>3 DEF Lifecycle!Next
  <2>8. QED BY <1>1, <2>2, <2>3, <2>4, <2>5, <2>6, <2>7 DEF Receive
<1>2. ASSUME NEW ms \in SUBSET Msgs, TombstoneGated(ms) PROVE Lifecycle!Next
  <2>1. /\ ms # {} /\ \A m \in ms : LifeOf(m) = "held"
        /\ EverAdmitted' = EverAdmitted
    BY <1>2, <1>v DEF TombstoneGated, turnVars, EverAdmitted
  <2>2. \A n \in Msgs : LifeOf(n)' = IF n \in ms THEN "refused" ELSE LifeOf(n)
    BY <1>2, Zenon DEF TombstoneGated, On, LifeOf, StoreInv, StoreTypeOK, RowShape
  <2>3. Lifecycle!Refuse(ms)
    BY <2>1, <2>2, Zenon DEF Lifecycle!Refuse, Lifecycle!In, Lifecycle!Move
  <2>4. QED BY <2>3 DEF Lifecycle!Next
<1>3. ASSUME NEW ms \in SUBSET Msgs, AddMessageCovers(ms)
      PROVE  Lifecycle!Next \/ UNCHANGED Lifecycle!vars
  <2> DEFINE settle == {m \in ms : /\ disp[m] # "absent" /\ m \in Pending
                                   /\ renotified[m] \/ m \in EverAdmitted}
  <2>1. /\ pst' = On(pst, settle, "processed") /\ UNCHANGED <<disp, members>>
    BY <1>3, Zenon DEF AddMessageCovers, SettledByCover, turnVars
  <2>2. /\ settle \in SUBSET Msgs /\ EverAdmitted' = EverAdmitted
        /\ \A m \in settle : LifeOf(m) = "queued" /\ m \in EverAdmitted
    BY <2>1, <1>v DEF EverAdmitted, StoreInv, RowShape, Pending, PendingOf
  <2>3. \A n \in Msgs : LifeOf(n)' = IF n \in settle THEN "handled" ELSE LifeOf(n)
    BY <2>1, Zenon DEF On, LifeOf
  <2>4. CASE settle = {}
    BY <2>1, <2>3, <2>4, <1>s, Zenon
  <2>5. CASE settle # {}
    <3>1. Lifecycle!Settle(settle)
      BY <2>2, <2>3, <2>5 DEF Lifecycle!Settle, Lifecycle!In, Lifecycle!Move
    <3>2. QED BY <2>2, <3>1, Zenon DEF Lifecycle!Next
  <2>6. QED BY <2>4, <2>5, Zenon
<1>4. CASE NoticeStep(Nat)
  <2>1. UNCHANGED <<disp, pst, members>>
    BY <1>4, Zenon DEF NoticeStep, MarkNoticeDelivered, ReleaseNoticeDelivery, rowVars, turnVars
  <2>2. QED BY <2>1, <1>s, Zenon DEF LifeOf
<1>5. ASSUME NEW t \in Turns, TurnStep(t, Nat) PROVE Lifecycle!Next \/ UNCHANGED Lifecycle!vars
  <2>0. members[t] \in SUBSET Msgs
    BY DEF StoreInv, StoreTypeOK
  <2>1. ASSUME UNCHANGED <<disp, pst, members>> PROVE UNCHANGED Lifecycle!vars
    BY <2>1, <1>s DEF LifeOf
  <2>2. ASSUME NEW s \in Sessions \cup {None}, NEW ids \in SUBSET Msgs, AdmitMessages(ids, t, s)
        PROVE  Lifecycle!Next
    <3>1. /\ ids # {} /\ \A m \in ids : LifeOf(m) = "queued"
          /\ pst' = On(pst, ids, "in_turn") /\ disp' = disp
          /\ members' = [members EXCEPT ![t] = @ \cup ids]
      BY <2>2, <1>v DEF AdmitMessages, Admissible, Pending, PendingOf
    <3>2. \A n \in Msgs : LifeOf(n)' = IF n \in ids THEN "in_turn" ELSE LifeOf(n)
      BY <3>1, Zenon DEF On, LifeOf
    <3>3. EverAdmitted' = EverAdmitted \cup ids
      BY <3>1 DEF EverAdmitted, StoreInv, StoreTypeOK
    <3>4. Lifecycle!Present(ids)
      BY <3>1, <3>2, <3>3 DEF Lifecycle!Present, Lifecycle!In, Lifecycle!Move
    <3>5. QED BY <3>4, Zenon DEF Lifecycle!Next
  <2>3. ASSUME NEW done \in SUBSET Msgs, NEW back \in SUBSET Msgs, done \cap back = {},
               ExactUnion(done \cup back, t), UNCHANGED <<disp, members>>,
               pst' = [m \in Msgs |-> IF m \in done THEN "processed"
                                      ELSE IF m \in back THEN "pending" ELSE pst[m]]
        PROVE  Lifecycle!Next \/ UNCHANGED Lifecycle!vars
    <3>1. \A m \in done \cup back : LifeOf(m) = "in_turn"
      BY <2>3, <1>v DEF ExactUnion
    <3>2. \A n \in Msgs : LifeOf(n)' = IF n \in done THEN "handled"
                                       ELSE IF n \in back THEN "queued" ELSE LifeOf(n)
      BY <2>3, Zenon DEF LifeOf
    <3>3. EverAdmitted' = EverAdmitted
      BY <2>3, Zenon DEF EverAdmitted
    <3>4. CASE done \cup back = {}
      BY <2>3, <3>2, <3>4, <1>s, Zenon
    <3>5. CASE done \cup back # {}
      <4>1. Lifecycle!Finish(done, back)
        BY <3>1, <3>2, <3>3, <3>5, Zenon DEF Lifecycle!Finish, Lifecycle!In
      <4>2. QED BY <2>3, <4>1, Zenon DEF Lifecycle!Next
    <3>6. QED BY <3>4, <3>5, Zenon
  <2>4. ASSUME NEW s \in Sessions \cup {None}, NEW done \in SUBSET Msgs,
               NEW back \in SUBSET Msgs, CompleteTurn(done, back, t, s)
        PROVE  Lifecycle!Next \/ UNCHANGED Lifecycle!vars
    BY <2>3, <2>4, Zenon DEF CompleteTurn
  <2>5. CASE RequeueMessages(members[t], t)
    <3> DEFINE done == members[t] \cap covered
               back == members[t] \ covered
    <3>1. /\ done \in SUBSET Msgs /\ back \in SUBSET Msgs /\ done \cap back = {}
          /\ done \cup back = members[t]
      BY <2>0
    <3>2. pst' = [m \in Msgs |-> IF m \in done THEN "processed"
                                 ELSE IF m \in back THEN "pending" ELSE pst[m]]
      BY <2>5 DEF RequeueMessages, Retried
    <3>3. ExactUnion(done \cup back, t) /\ UNCHANGED <<disp, members>>
      BY <2>5, <3>1, Zenon DEF RequeueMessages, Retried
    <3>4. QED BY <2>3, <3>1, <3>2, <3>3, Zenon
  <2>6. ASSUME NEW s \in Sessions \cup {None},
               \/ \E g \in Nat, ids \in SUBSET Msgs : StartTurn(t, s, g, ids)
               \/ \E to \in Sessions : TransferTurnSession(t, s, to)
        PROVE  UNCHANGED Lifecycle!vars
    BY <2>1, <2>6 DEF StartTurn, TransferTurnSession, rowVars
  <2>7. CASE \E final \in {"processed", "requeued"} : FinalizeEmptyTurn(t, final)
    BY <2>1, <2>7 DEF FinalizeEmptyTurn, rowVars
  <2>8. ASSUME NEW s \in Sessions \cup {None},
               \/ MarkProcessed(t, s)
               \/ \E back \in SUBSET Msgs : CompleteTurnWithRenotice(back, t, s)
               \/ CompleteTurnRenoticeUnrenotified(t, s)
        PROVE  \E done, back \in SUBSET Msgs : CompleteTurn(done, back, t, s)
    <3>1. CASE MarkProcessed(t, s)
      BY <2>0, <3>1, Zenon DEF MarkProcessed
    <3>2. CASE \E back \in SUBSET Msgs : CompleteTurnWithRenotice(back, t, s)
      <4>1. PICK back \in SUBSET Msgs : CompleteTurnWithRenotice(back, t, s)
        BY <3>2
      <4>2. members[t] \ back \in SUBSET Msgs
        BY <2>0, Zenon
      <4>3. QED BY <4>1, <4>2 DEF CompleteTurnWithRenotice
    <3>3. CASE CompleteTurnRenoticeUnrenotified(t, s)
      <4> DEFINE back == {m \in members[t] : ~renotified[m]}
      <4>1. CompleteTurn(members[t] \ back, back, t, s)
        BY <3>3 DEF CompleteTurnRenoticeUnrenotified
      <4>2. back \in SUBSET Msgs /\ members[t] \ back \in SUBSET Msgs
        BY <2>0
      <4>3. QED BY <4>1, <4>2, Zenon
    <3>4. QED BY <2>8, <3>1, <3>2, <3>3
  <2>9. QED
    BY <1>5, <2>2, <2>4, <2>5, <2>6, <2>7, <2>8, Zenon DEF TurnStep
<1>6. CASE UNCHANGED storeVars
  BY <1>6, <1>s DEF storeVars, LifeOf
<1>7. QED BY <1>1, <1>2, <1>3, <1>4, <1>5, <1>6 DEF AnyStep, StoreStep

\* The store implements the lifecycle: handled rows were presented and stay
\* handled, refused rows are never queued, and no row is lost on the way.
THEOREM StoreImplementsLifecycle == StoreSpec => ImplementsLifecycle
<1>1. StoreInit => Lifecycle!Init
  BY DEF StoreInit, Lifecycle!Init, LifeOf, EverAdmitted
<1>2. QED
  BY <1>1, LifecycleStep, StoreInvariant, StoreNextIsAny, PTL DEF StoreSpec, ImplementsLifecycle, Lifecycle!Spec

=============================================================================
