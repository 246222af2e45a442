---------------------------- MODULE NativeProofs ----------------------------
(***************************************************************************)
(* Machine-checked proofs about NativeReceive, for any finite set of       *)
(* messages, any prompts and any number of failures and crashes, with and  *)
(* without the recovery task: what is acknowledged is classified, and a    *)
(* stranger is read only after a yes.                                      *)
(***************************************************************************)
EXTENDS NativeReceive, TLAPS

Verdicts == {"eligible", "terminal", "foreign_dm_gated"}
Classified == {m \in Msgs : disp[m] \in {"eligible", "terminal"}}
SaidYes == applied \cap Yes # {}

\* The rows this path writes: each has the sequence the Server gave it.
Rows ==
    /\ disp \in [Msgs -> Verdicts \cup {"absent"}] /\ seqd \in [Msgs -> BOOLEAN]
    /\ \A m \in Msgs : disp[m] # "absent" => seqd[m]

JobOf(r) ==
    r = [step |-> r.step, batch |-> r.batch, cur |-> r.cur, verdict |-> r.verdict,
         acks |-> r.acks, required |-> r.required, found |-> r.found,
         outer |-> r.outer, obatch |-> r.obatch, oacks |-> r.oacks]

\* What a task is about to acknowledge is classified, also what it set aside for a
\* drain; it works on a message; and it judged a stranger's DM eligible only
\* after a yes.
JobSafe(r) ==
    /\ r.acks \subseteq Classified /\ r.oacks \subseteq Classified
    /\ r.step \in {"off", "scan"} \/ r.cur \in Msgs
    /\ r.outer = None \/ r.outer \in Msgs
    /\ r.verdict \in Verdicts
    /\ r.step = "allow" => r.cur \in Yes
    /\ r.step = "promote" => r.verdict = "eligible"
    /\ r.step \in {"promote", "store"} /\ r.verdict = "eligible" /\ r.cur \in Dms => SaidYes

ReceiveInv ==
    /\ log \in Seq(Msgs) /\ Rows
    /\ DOMAIN job = Tasks /\ \A t \in Tasks : JobOf(job[t]) /\ JobSafe(job[t])
    /\ "allowed" \in lists => SaidYes
    /\ AckedIsClassified /\ UnapprovedUnread

-----------------------------------------------------------------------------
(* The rows *)

\* A step never takes a classification back, and makes a DM readable only after a yes.
RowsMove ==
    /\ Rows' /\ Classified \subseteq Classified'
    /\ \A m \in Dms : disp'[m] = "eligible" => disp[m] = "eligible" \/ SaidYes

\* A step that leaves the store alone.
LEMMA RowsStay == ASSUME Rows, UNCHANGED storeVars PROVE RowsMove
<1>1. disp' = disp /\ seqd' = seqd
  BY Zenon DEF storeVars
<1>2. QED BY <1>1, Zenon DEF Rows, RowsMove, Classified

\* store_receipt of a new row (_insert_new_receipt)
LEMMA InsertMoves ==
    ASSUME Rows, NEW m \in Msgs, NEW d, InsertReceipt(m, d), m \in Dms /\ d = "eligible" => SaidYes
    PROVE  RowsMove /\ (d # "foreign_dm_gated" => m \in Classified')
<1>1. /\ d \in Verdicts /\ disp[m] = "absent"
      /\ disp' = [disp EXCEPT ![m] = d] /\ seqd' = [seqd EXCEPT ![m] = TRUE]
  BY Zenon DEF InsertReceipt, InsertRow, Verdicts
<1>2. QED BY <1>1 DEF Rows, RowsMove, Classified, Verdicts

\* promote_gated_receipt
LEMMA PromoteMoves ==
    ASSUME Rows, NEW m \in Msgs, PromoteGatedReceipt(m), m \in Dms => SaidYes
    PROVE  RowsMove /\ m \in Classified'
<1>1. disp[m] = "foreign_dm_gated" /\ disp' = [disp EXCEPT ![m] = "eligible"] /\ seqd' = seqd
  BY Zenon DEF PromoteGatedReceipt, ReleasedAs, Rows
<1>2. QED BY <1>1 DEF Rows, RowsMove, Classified, Verdicts

\* tombstone_gated_dms_from
LEMMA TombstoneMoves == ASSUME Rows, TombstoneGated(Gated), Dms \subseteq Msgs PROVE RowsMove
<1>1. seqd' = seqd /\ disp' = [m \in Msgs |-> IF m \in Gated THEN "terminal" ELSE disp[m]]
  BY Zenon DEF TombstoneGated, On
<1>2. \A m \in Gated : m \in Msgs /\ disp[m] = "foreign_dm_gated"
  BY Zenon DEF Gated
<1>3. QED BY <1>1, <1>2, Zenon DEF Rows, RowsMove, Classified, Verdicts

-----------------------------------------------------------------------------
(* One task moves *)

\* An answer that was applied stays applied, and only a yes allows the sender.
GateMoves == applied \subseteq applied' /\ ("allowed" \in lists' => SaidYes')

\* What leaves the queue is classified, or is dropped by a denial.
QueueMoves ==
    /\ dropped \subseteq dropped'
    /\ \A m \in queue \ queue' : m \in dropped' \/ m \in Classified'

\* A safe job is still safe when rows and answers move.
LEMMA StillSafe == ASSUME RowsMove, GateMoves, NEW r, JobSafe(r) PROVE JobSafe(r)'
<1>1. Classified \subseteq Classified' /\ (SaidYes => SaidYes')
  BY Zenon DEF RowsMove, GateMoves, SaidYes
<1>2. QED BY <1>1, Zenon DEF JobSafe

\* The invariant after rows, answers and the queue moved and every job is safe.
LEMMA InvKept ==
    ASSUME ReceiveInv, RowsMove, GateMoves, QueueMoves, log' = log,
           (DOMAIN job = Tasks /\ \A t \in Tasks : JobOf(job[t]) /\ JobSafe(job[t]))'
    PROVE  ReceiveInv'
<1>1. SaidYes => SaidYes'
  BY Zenon DEF GateMoves, SaidYes
<1>2. UnapprovedUnread'
  BY <1>1, Zenon DEF ReceiveInv, RowsMove, UnapprovedUnread, SaidYes
<1>3. SentMsgs' = SentMsgs
  BY Zenon DEF SentMsgs
<1>4. SentMsgs \subseteq Msgs
  BY DEF ReceiveInv, SentMsgs, ToSet
<1>5. AckedIsClassified'
  <2> SUFFICES ASSUME NEW m \in SentMsgs, m \notin queue'
               PROVE  m \in dropped' \/ disp'[m] \in {"eligible", "terminal"}
    BY <1>3, Zenon DEF AckedIsClassified
  <2>1. m \in dropped' \/ m \in Classified'
    <3>1. CASE m \in queue
      BY <3>1, Zenon DEF QueueMoves
    <3>2. CASE m \notin queue
      BY <3>2, <1>4, Zenon DEF ReceiveInv, AckedIsClassified, QueueMoves, RowsMove, Classified
    <3>3. QED BY <3>1, <3>2, Zenon
  <2>2. QED BY <2>1, Zenon DEF Classified
<1>6. QED BY <1>2, <1>5, Zenon DEF ReceiveInv, RowsMove, GateMoves

\* One task's job becomes r.
LEMMA JobMoves ==
    ASSUME ReceiveInv, RowsMove, GateMoves, QueueMoves, log' = log, NEW t \in Tasks, NEW r,
           job' = [job EXCEPT ![t] = r], JobOf(r), JobSafe(r)'
    PROVE  ReceiveInv'
<1>1. DOMAIN job' = Tasks /\ \A x \in Tasks : job'[x] = IF x = t THEN r ELSE job[x]
  BY Zenon DEF ReceiveInv
<1>2. \A x \in Tasks : JobSafe(job[x])'
  <2> SUFFICES ASSUME NEW x \in Tasks PROVE JobSafe(job[x])'
    BY Zenon
  <2>1. CASE x = t
    <3>1. job'[x] = r
      BY <1>1, <2>1, Zenon
    <3>2. QED BY <3>1, Zenon DEF JobSafe
  <2>2. CASE x # t
    <3>1. PICK q : q = job[x]
      BY Zenon
    <3>2. job'[x] = q /\ JobSafe(q)
      BY <1>1, <2>2, <3>1, Zenon DEF ReceiveInv
    <3>3. JobSafe(q)'
      BY <3>2, StillSafe, Zenon
    <3>4. QED BY <3>2, <3>3, Zenon DEF JobSafe
  <2>3. QED BY <2>1, <2>2, Zenon
<1>3. \A x \in Tasks : JobOf(job'[x])
  BY <1>1, Zenon DEF ReceiveInv
<1>4. QED BY <1>1, <1>2, <1>3, InvKept, Zenon

\* What every step but an acknowledgement and a decision leaves alone.
calmVars == <<log, queue, lists, dropped, applied>>

\* Then the queue and the answers move trivially.
LEMMA Calm == ASSUME ReceiveInv, UNCHANGED calmVars PROVE GateMoves /\ QueueMoves /\ log' = log
<1>1. QED BY Zenon DEF ReceiveInv, calmVars, GateMoves, QueueMoves, SaidYes

\* A step of one task that touches nothing but its job and the connection.
LEMMA JobStep ==
    ASSUME ReceiveInv, UNCHANGED storeVars, UNCHANGED calmVars, NEW t \in Tasks, NEW r,
           job' = [job EXCEPT ![t] = r], JobOf(r), JobSafe(r)
    PROVE  ReceiveInv'
<1>1. RowsMove
  BY RowsStay, Zenon DEF ReceiveInv
<1>2. GateMoves /\ QueueMoves /\ log' = log
  BY Calm, Zenon
<1>3. JobSafe(r)'
  BY <1>1, <1>2, StillSafe, Zenon
<1>4. QED BY <1>1, <1>2, <1>3, JobMoves, Zenon

\* A task with nothing to do is safe.
LEMMA IdleSafe == JobOf(NoJob) /\ JobSafe(NoJob)
<1>1. JobOf(NoJob)
  BY Zenon DEF JobOf, NoJob
<1>2. JobSafe(NoJob)
  BY Zenon DEF JobSafe, NoJob, Verdicts
<1>3. QED BY <1>1, <1>2, Zenon

\* The outcome of a delivery, acknowledged only when it is classified.
LEMMA ConcludeKeeps ==
    ASSUME ReceiveInv, RowsMove, UNCHANGED calmVars, NEW t \in Tasks, NEW outcome,
           Conclude(t, outcome), outcome = "ack" => job[t].cur \in Classified'
    PROVE  ReceiveInv'
<1>1. GateMoves /\ QueueMoves /\ log' = log
  BY Calm, Zenon
<1>2. PICK j : j = job[t]
  BY Zenon
<1>3. JobOf(j) /\ JobSafe(j)
  BY <1>2, Zenon DEF ReceiveInv
<1>4. JobSafe(j)'
  BY <1>1, <1>3, StillSafe, Zenon
<1>5. PICK r : r = job'[t]
  BY Zenon
<1>6. CASE job' = [job EXCEPT ![t] = NoJob]
  <2>1. JobSafe(NoJob)'
    BY <1>1, IdleSafe, StillSafe, Zenon
  <2>2. QED BY <1>1, <1>6, <2>1, IdleSafe, JobMoves, Zenon
<1>7. CASE job' # [job EXCEPT ![t] = NoJob]
  <2>1. job' = [job EXCEPT ![t] = r]
    BY <1>5, <1>7, Zenon DEF Conclude, ReceiveInv
  <2>2. /\ JobOf(r) /\ r.step = "scan" /\ r.outer = j.outer /\ r.oacks = j.oacks
        /\ r.verdict = j.verdict
        /\ r.acks = j.acks \/ (outcome = "ack" /\ r.acks = j.acks \cup {j.cur})
    <3> DEFINE on == [j EXCEPT !.cur = None, !.step = "scan"]
    <3>1. r = job'[t] /\ t \in DOMAIN job
      BY <1>5, Zenon DEF ReceiveInv
    <3>2. \/ r = on
          \/ r = StopAtHeld(j)
          \/ /\ outcome = "ack"
             /\ r = [on EXCEPT !.acks = j.acks \cup {j.cur}, !.found = TRUE, !.batch = <<>>]
          \/ outcome = "ack" /\ r = [on EXCEPT !.acks = j.acks \cup {j.cur}]
      BY <1>2, <1>7, <3>1, Zenon DEF Conclude
    <3>3. CASE r = on
      BY <1>3, <3>3, Zenon DEF JobOf
    <3>4. CASE r = StopAtHeld(j)
      BY <1>3, <3>4, Zenon DEF JobOf, StopAtHeld
    <3>5. CASE /\ outcome = "ack"
               /\ r = [on EXCEPT !.acks = j.acks \cup {j.cur}, !.found = TRUE, !.batch = <<>>]
      BY <1>3, <3>5, Zenon DEF JobOf
    <3>6. CASE outcome = "ack" /\ r = [on EXCEPT !.acks = j.acks \cup {j.cur}]
      BY <1>3, <3>6, Zenon DEF JobOf
    <3>7. QED BY <3>2, <3>3, <3>4, <3>5, <3>6, Zenon
  <2>3. JobSafe(r)'
    BY <1>2, <1>4, <2>2, Zenon DEF JobSafe
  <2>4. QED BY <1>1, <2>1, <2>2, <2>3, JobMoves, Zenon
<1>8. QED BY <1>6, <1>7, Zenon


-----------------------------------------------------------------------------
(* The steps of a task *)

\* The next delivery of a batch.
LEMMA TakeDeliveryKeeps ==
    ASSUME ReceiveInv, NEW t \in Tasks, NEW m \in Msgs, TakeDelivery(t, m) PROVE ReceiveInv'
<1>1. UNCHANGED storeVars /\ UNCHANGED calmVars
  BY Zenon DEF TakeDelivery, calmVars, serverVars, gateVars, histVars
<1>2. PICK j : j = job[t]
  BY Zenon
<1>3. JobOf(j) /\ JobSafe(j)
  BY <1>2, Zenon DEF ReceiveInv
<1>4. PICK r : r = job'[t]
  BY Zenon
<1>5. job' = [job EXCEPT ![t] = r]
  BY <1>4, Zenon DEF TakeDelivery, ReceiveInv
<1>6. JobOf(r)
  BY <1>2, <1>3, <1>4, Zenon DEF TakeDelivery, JobOf, ReceiveInv
<1>7. JobSafe(r)
  BY <1>2, <1>3, <1>4, <1>6 DEF TakeDelivery, JobOf, JobSafe, Verdicts, ReceiveInv
<1>8. QED BY <1>1, <1>5, <1>6, <1>7, JobStep, Zenon

\* A task goes on to step s of the message in hand.
LEMMA GoesOn ==
    ASSUME ReceiveInv, UNCHANGED storeVars, UNCHANGED calmVars, NEW t \in Tasks, NEW s,
           job[t].cur \in Msgs, job' = [job EXCEPT ![t].step = s],
           s \notin {"promote", "store"}, s = "allow" => job[t].cur \in Yes
    PROVE  ReceiveInv'
<1>1. PICK j : j = job[t]
  BY Zenon
<1>2. JobOf(j) /\ JobSafe(j)
  BY <1>1, Zenon DEF ReceiveInv
<1>3. PICK r : r = [j EXCEPT !.step = s]
  BY Zenon
<1>4. job' = [job EXCEPT ![t] = r]
  BY <1>1, <1>3, Zenon
<1>5. /\ JobOf(r) /\ r.step = s /\ r.cur = j.cur /\ r.verdict = j.verdict
      /\ r.acks = j.acks /\ r.oacks = j.oacks /\ r.outer = j.outer
  BY <1>2, <1>3, Zenon DEF JobOf
<1>6. JobSafe(r)
  BY <1>1, <1>2, <1>5, Zenon DEF JobSafe
<1>7. QED BY <1>4, <1>5, <1>6, JobStep, Zenon

\* A task rules verdict v on the message in hand.
LEMMA RuleKeeps ==
    ASSUME ReceiveInv, UNCHANGED storeVars, UNCHANGED calmVars, NEW t \in Tasks, NEW v \in Verdicts,
           job[t].cur \in Msgs, Rule(t, v), v = "eligible" /\ job[t].cur \in Dms => SaidYes
    PROVE  ReceiveInv'
<1>1. PICK j : j = job[t]
  BY Zenon
<1>2. JobOf(j) /\ JobSafe(j)
  BY <1>1, Zenon DEF ReceiveInv
<1>3. PICK s : s = IF v = "eligible" THEN "promote" ELSE "store"
  BY Zenon
<1>4. PICK r : r = [j EXCEPT !.verdict = v, !.step = s]
  BY Zenon
<1>5. job' = [job EXCEPT ![t] = r]
  BY <1>1, <1>3, <1>4, Zenon DEF Rule, ReceiveInv
<1>6. /\ JobOf(r) /\ r.step = s /\ r.cur = j.cur /\ r.verdict = v
      /\ r.acks = j.acks /\ r.oacks = j.oacks /\ r.outer = j.outer
  BY <1>2, <1>4, Zenon DEF JobOf
<1>7. JobSafe(r)
  BY <1>1, <1>2, <1>3, <1>6, Zenon DEF JobSafe
<1>8. QED BY <1>5, <1>6, <1>7, JobStep, Zenon

\* A message that needs no approval.
LEMMA JudgePlainKeeps ==
    ASSUME ReceiveInv, NEW t \in Tasks, NEW v, JudgePlain(t, v) PROVE ReceiveInv'
<1>1. UNCHANGED storeVars /\ UNCHANGED calmVars
  BY Zenon DEF JudgePlain, calmVars, serverVars, gateVars, histVars
<1>2. job[t].cur \in Msgs
  <2>1. JobSafe(job[t]) /\ job[t].step \notin {"off", "scan"}
    BY Zenon DEF JudgePlain, Opened, ReceiveInv
  <2>2. QED BY <2>1, Zenon DEF JobSafe
<1>3. v \in Verdicts /\ Rule(t, v) /\ job[t].cur \notin Dms
  BY Zenon DEF JudgePlain, Verdicts
<1>4. QED BY <1>1, <1>2, <1>3, RuleKeeps, Zenon

\* A DM is eligible only when its sender is allowed.
LEMMA JudgeDmKeeps == ASSUME ReceiveInv, NEW t \in Tasks, JudgeDm(t) PROVE ReceiveInv'
<1>1. UNCHANGED storeVars /\ UNCHANGED calmVars
  BY Zenon DEF JudgeDm, calmVars, serverVars, gateVars, histVars
<1>2. job[t].cur \in Msgs
  <2>1. JobSafe(job[t]) /\ job[t].step \notin {"off", "scan"}
    BY Zenon DEF JudgeDm, Opened, ReceiveInv
  <2>2. QED BY <2>1, Zenon DEF JobSafe
<1>3. DmVerdict \in Verdicts /\ (DmVerdict = "eligible" => SaidYes)
  BY Zenon DEF DmVerdict, Verdicts, ReceiveInv
<1>4. CASE job' = [job EXCEPT ![t].step = "prompt"]
  <2>1. PICK s : s = "prompt"
    BY Zenon
  <2>2. s \notin {"promote", "store"} /\ s # "allow"
    BY <2>1, Zenon
  <2>3. job' = [job EXCEPT ![t].step = s]
    BY <1>4, <2>1, Zenon
  <2>4. QED BY <1>1, <1>2, <2>2, <2>3, GoesOn, Zenon
<1>5. CASE Rule(t, DmVerdict)
  BY <1>1, <1>2, <1>3, <1>5, RuleKeeps, Zenon
<1>6. QED BY <1>4, <1>5, Zenon DEF JudgeDm

\* Only a yes goes to the allow list.
LEMMA JudgeReplyKeeps == ASSUME ReceiveInv, NEW t \in Tasks, JudgeReply(t) PROVE ReceiveInv'
<1>1. UNCHANGED storeVars /\ UNCHANGED calmVars
  BY Zenon DEF JudgeReply, calmVars, serverVars, gateVars, histVars
<1>2. job[t].cur \in Msgs
  <2>1. JobSafe(job[t]) /\ job[t].step \notin {"off", "scan"}
    BY Zenon DEF JudgeReply, Opened, ReceiveInv
  <2>2. QED BY <2>1, Zenon DEF JobSafe
<1>3. CASE job' = [job EXCEPT ![t].step = IF job[t].cur \in Yes THEN "allow" ELSE "block"]
  <2>1. PICK s : s = IF job[t].cur \in Yes THEN "allow" ELSE "block"
    BY Zenon
  <2>2. job' = [job EXCEPT ![t].step = s]
    BY <1>3, <2>1, Zenon
  <2>3. s \notin {"promote", "store"} /\ (s = "allow" => job[t].cur \in Yes)
    BY <2>1, Zenon
  <2>4. QED BY <1>1, <1>2, <2>2, <2>3, GoesOn, Zenon
<1>4. CASE Rule(t, "eligible")
  <2>1. job[t].cur \notin Dms /\ "eligible" \in Verdicts
    BY ReceiveAssumption, Zenon DEF JudgeReply, Replies, Verdicts
  <2>2. QED BY <1>1, <1>2, <1>4, <2>1, RuleKeeps, Zenon
<1>5. QED BY <1>3, <1>4, Zenon DEF JudgeReply

\* The prompt reaches the operator; the DM is held.
LEMMA PromptOperatorKeeps ==
    ASSUME ReceiveInv, NEW t \in Tasks, NEW p, PromptOperator(t, p) PROVE ReceiveInv'
<1>1. UNCHANGED storeVars /\ UNCHANGED calmVars
  BY Zenon DEF PromptOperator, calmVars, serverVars, gateVars, histVars
<1>2. job[t].cur \in Msgs
  <2>1. JobSafe(job[t]) /\ job[t].step \notin {"off", "scan"}
    BY Zenon DEF PromptOperator, ReceiveInv
  <2>2. QED BY <2>1, Zenon DEF JobSafe
<1>3. "foreign_dm_gated" \in Verdicts /\ Rule(t, "foreign_dm_gated")
  BY Zenon DEF PromptOperator, Verdicts
<1>4. QED BY <1>1, <1>2, <1>3, RuleKeeps, Zenon

\* The prompt fails; the DM is held all the same.
LEMMA PromptFailsKeeps == ASSUME ReceiveInv, NEW t \in Tasks, PromptFails(t) PROVE ReceiveInv'
<1>1. UNCHANGED storeVars /\ UNCHANGED calmVars
  BY Zenon DEF PromptFails, calmVars, serverVars, gateVars, histVars
<1>2. job[t].cur \in Msgs
  <2>1. JobSafe(job[t]) /\ job[t].step \notin {"off", "scan"}
    BY Zenon DEF PromptFails, ReceiveInv
  <2>2. QED BY <2>1, Zenon DEF JobSafe
<1>3. "foreign_dm_gated" \in Verdicts /\ Rule(t, "foreign_dm_gated")
  BY Zenon DEF PromptFails, Verdicts
<1>4. QED BY <1>1, <1>2, <1>3, RuleKeeps, Zenon

\* The decision does not reach the Server; the answer is consumed.
LEMMA DecisionFailsKeeps == ASSUME ReceiveInv, NEW t \in Tasks, DecisionFails(t) PROVE ReceiveInv'
<1>1. UNCHANGED storeVars /\ UNCHANGED calmVars
  BY Zenon DEF DecisionFails, calmVars, serverVars, gateVars, histVars
<1>2. job[t].cur \in Msgs
  <2>1. JobSafe(job[t]) /\ job[t].step \notin {"off", "scan"}
    BY Zenon DEF DecisionFails, ReceiveInv
  <2>2. QED BY <2>1, Zenon DEF JobSafe
<1>3. "terminal" \in Verdicts /\ Rule(t, "terminal")
  BY Zenon DEF DecisionFails, Rule, Verdicts
<1>4. QED BY <1>1, <1>2, <1>3, RuleKeeps, Zenon

\* The prompt is closed; the answer is consumed.
LEMMA CloseKeeps == ASSUME ReceiveInv, NEW t \in Tasks, Close(t) PROVE ReceiveInv'
<1>1. UNCHANGED storeVars /\ UNCHANGED calmVars
  BY Zenon DEF Close, calmVars, serverVars, gateVars, histVars
<1>2. job[t].cur \in Msgs
  <2>1. JobSafe(job[t]) /\ job[t].step \notin {"off", "scan"}
    BY Zenon DEF Close, ReceiveInv
  <2>2. QED BY <2>1, Zenon DEF JobSafe
<1>3. "terminal" \in Verdicts /\ Rule(t, "terminal")
  BY Zenon DEF Close, Rule, Verdicts
<1>4. QED BY <1>1, <1>2, <1>3, RuleKeeps, Zenon

\* The fetch of a drain or a drop fails.
LEMMA FetchFailsKeeps == ASSUME ReceiveInv, NEW t \in Tasks, FetchFails(t) PROVE ReceiveInv'
<1>1. UNCHANGED storeVars /\ UNCHANGED calmVars
  BY Zenon DEF FetchFails, calmVars, serverVars, gateVars, histVars
<1>2. job[t].cur \in Msgs
  <2>1. JobSafe(job[t]) /\ job[t].step \notin {"off", "scan"}
    BY Zenon DEF FetchFails, ReceiveInv
  <2>2. QED BY <2>1, Zenon DEF JobSafe
<1>3. PICK s : s = "close"
  BY Zenon
<1>4. s \notin {"promote", "store"} /\ s # "allow"
  BY <1>3, Zenon
<1>5. job' = [job EXCEPT ![t].step = s]
  BY <1>3, Zenon DEF FetchFails
<1>6. QED BY <1>1, <1>2, <1>4, <1>5, GoesOn, Zenon

\* The acknowledgements collected so far are set aside for the drain.
LEMMA DrainKeeps == ASSUME ReceiveInv, NEW t \in Tasks, Drain(t) PROVE ReceiveInv'
<1>1. UNCHANGED storeVars /\ UNCHANGED calmVars
  BY Zenon DEF Drain, calmVars, serverVars, gateVars, histVars
<1>2. PICK j : j = job[t]
  BY Zenon
<1>3. JobOf(j) /\ JobSafe(j)
  BY <1>2, Zenon DEF ReceiveInv
<1>4. PICK r : r = job'[t]
  BY Zenon
<1>5. job' = [job EXCEPT ![t] = r]
  BY <1>4, Zenon DEF Drain, ReceiveInv
<1>6. JobOf(r)
  BY <1>2, <1>3, <1>4, Zenon DEF Drain, JobOf, ReceiveInv
<1>7. JobSafe(r)
  <2>1. /\ j.step = "drain" /\ r.verdict = j.verdict
        /\ r.step = "scan" /\ r.outer = j.cur /\ r.acks = {} /\ r.oacks = j.acks
    BY <1>2, <1>3, <1>4, Zenon DEF Drain, JobOf, ReceiveInv
  <2>2. QED BY <1>3, <2>1, Zenon DEF JobSafe
<1>8. QED BY <1>1, <1>5, <1>6, <1>7, JobStep, Zenon

\* They are taken up again after it.
LEMMA DrainedKeeps == ASSUME ReceiveInv, NEW t \in Tasks, Drained(t) PROVE ReceiveInv'
<1>1. UNCHANGED storeVars /\ UNCHANGED calmVars
  BY Zenon DEF Drained, calmVars, serverVars, gateVars, histVars
<1>2. PICK j : j = job[t]
  BY Zenon
<1>3. JobOf(j) /\ JobSafe(j)
  BY <1>2, Zenon DEF ReceiveInv
<1>4. PICK r : r = job'[t]
  BY Zenon
<1>5. job' = [job EXCEPT ![t] = r]
  BY <1>4, Zenon DEF Drained, ReceiveInv
<1>6. JobOf(r)
  BY <1>2, <1>3, <1>4, Zenon DEF Drained, JobOf, ReceiveInv
<1>7. JobSafe(r)
  <2>1. /\ j.outer # None /\ r.verdict = j.verdict
        /\ r.step = "close" /\ r.cur = j.outer /\ r.outer = None /\ r.acks = j.oacks /\ r.oacks = {}
    BY <1>2, <1>3, <1>4, Zenon DEF Drained, JobOf, ReceiveInv
  <2>2. QED BY <1>3, <2>1, Zenon DEF JobSafe
<1>8. QED BY <1>1, <1>5, <1>6, <1>7, JobStep, Zenon

\* What the Server still holds of a denied sender.
LEMMA DropKeeps == ASSUME ReceiveInv, NEW t \in Tasks, Drop(t) PROVE ReceiveInv'
<1>1. UNCHANGED storeVars /\ UNCHANGED calmVars
  BY Zenon DEF Drop, calmVars, serverVars, gateVars, histVars
<1>2. PICK j : j = job[t]
  BY Zenon
<1>3. JobOf(j) /\ JobSafe(j)
  BY <1>2, Zenon DEF ReceiveInv
<1>4. PICK r : r = job'[t]
  BY Zenon
<1>5. job' = [job EXCEPT ![t] = r]
  BY <1>4, Zenon DEF Drop, ReceiveInv
<1>6. JobOf(r)
  BY <1>2, <1>3, <1>4, Zenon DEF Drop, JobOf, ReceiveInv
<1>7. JobSafe(r)
  BY <1>2, <1>3, <1>4, <1>6, Zenon DEF Drop, JobOf, JobSafe, Verdicts, ReceiveInv
<1>8. QED BY <1>1, <1>5, <1>6, <1>7, JobStep, Zenon

\* The payload does not open: nothing is acknowledged.
LEMMA UnopenedKeeps == ASSUME ReceiveInv, NEW t \in Tasks, Unopened(t) PROVE ReceiveInv'
<1>1. RowsMove
  BY RowsStay, Zenon DEF Unopened, ReceiveInv
<1>2. UNCHANGED calmVars /\ Conclude(t, "hold")
  BY Zenon DEF Unopened, calmVars, gateVars, histVars
<1>3. QED BY <1>1, <1>2, ConcludeKeeps, Zenon

\* promote_gated_receipt, or a row already released, or on to store_receipt.
LEMMA PromoteKeeps == ASSUME ReceiveInv, NEW t \in Tasks, Promote(t) PROVE ReceiveInv'
<1> DEFINE m == job[t].cur
<1>1. UNCHANGED calmVars
  BY Zenon DEF Promote, calmVars, gateVars, histVars
<1>2. Rows /\ JobOf(job[t]) /\ JobSafe(job[t]) /\ job[t].step = "promote"
  BY Zenon DEF ReceiveInv, Promote
<1>3. m \in Msgs /\ (m \in Dms => SaidYes)
  BY <1>2, Zenon DEF JobSafe
<1>4. CASE PromoteGatedReceipt(m) /\ Conclude(t, "ack")
  <2>1. RowsMove /\ m \in Classified'
    BY <1>2, <1>3, <1>4, PromoteMoves, Zenon
  <2>2. QED BY <1>1, <1>4, <2>1, ConcludeKeeps, Zenon
<1>5. CASE disp[m] = "eligible" /\ Conclude(t, "ack") /\ UNCHANGED storeVars
  <2>1. RowsMove
    BY <1>2, <1>5, RowsStay, Zenon
  <2>2. m \in Classified'
    BY <1>3, <1>5, <2>1, Zenon DEF RowsMove, Classified
  <2>3. QED BY <1>1, <1>5, <2>1, <2>2, ConcludeKeeps, Zenon
<1>6. CASE job' = [job EXCEPT ![t].step = "store"] /\ UNCHANGED storeVars
  <2>1. PICK j : j = job[t]
    BY Zenon
  <2>2. PICK r : r = job'[t]
    BY Zenon
  <2>3. job' = [job EXCEPT ![t] = r] /\ JobOf(r)
    BY <1>2, <1>6, <2>2, Zenon DEF ReceiveInv, JobOf
  <2>4. JobSafe(r)
    BY <1>2, <1>6, <2>1, <2>2, Zenon DEF ReceiveInv, JobOf, JobSafe
  <2>5. QED BY <1>1, <1>6, <2>3, <2>4, JobStep, Zenon
<1>7. QED BY <1>4, <1>5, <1>6, Zenon DEF Promote

\* store_receipt: the acknowledgement follows the row that is there.
LEMMA StoreKeeps == ASSUME ReceiveInv, NEW t \in Tasks, Store(t) PROVE ReceiveInv'
<1> DEFINE m == job[t].cur
<1>1. UNCHANGED calmVars
  BY Zenon DEF Store, calmVars, gateVars, histVars
<1>2. Rows /\ JobSafe(job[t]) /\ job[t].step = "store"
  BY Zenon DEF ReceiveInv, Store
<1>3. m \in Msgs /\ (m \in Dms /\ job[t].verdict = "eligible" => SaidYes)
  BY <1>2, Zenon DEF JobSafe
<1>4. CASE InsertReceipt(m, job[t].verdict) /\ Conclude(t, ReceiptAck(job[t].verdict))
  <2>1. RowsMove /\ (job[t].verdict # "foreign_dm_gated" => m \in Classified')
    BY <1>2, <1>3, <1>4, InsertMoves, Zenon
  <2>2. ReceiptAck(job[t].verdict) = "ack" => m \in Classified'
    BY <2>1, Zenon DEF ReceiptAck
  <2>3. QED BY <1>1, <1>4, <2>1, <2>2, ConcludeKeeps, Zenon
<1>5. CASE disp[m] # "absent" /\ Conclude(t, ReceiptAck(disp[m])) /\ UNCHANGED storeVars
  <2>1. RowsMove
    BY <1>2, <1>5, RowsStay, Zenon
  <2>2. ReceiptAck(disp[m]) = "ack" => m \in Classified'
    BY <1>2, <1>3, <1>5, <2>1, Zenon DEF ReceiptAck, Rows, RowsMove, Classified, Verdicts
  <2>3. QED BY <1>1, <1>5, <2>1, <2>2, ConcludeKeeps, Zenon
<1>6. QED BY <1>4, <1>5, Zenon DEF Store

\* The acknowledgement reaches the Server.
LEMMA SendAckKeeps == ASSUME ReceiveInv, NEW t \in Tasks, SendAck(t) PROVE ReceiveInv'
<1>1. PICK j : j = job[t]
  BY Zenon
<1>2. JobOf(j) /\ JobSafe(j)
  BY <1>1, Zenon DEF ReceiveInv
<1>3. PICK r : r = job'[t]
  BY Zenon
<1>4. job' = [job EXCEPT ![t] = r] /\ JobOf(r)
  BY <1>1, <1>2, <1>3, Zenon DEF SendAck, ReceiveInv, JobOf
<1>5. JobSafe(r)
  BY <1>1, <1>2, <1>3, Zenon DEF SendAck, ReceiveInv, JobOf, JobSafe
<1>6. RowsMove
  BY RowsStay, Zenon DEF SendAck, ReceiveInv
<1>7. GateMoves /\ log' = log
  BY Zenon DEF SendAck, Acknowledge, GateMoves, gateVars, histVars, ReceiveInv, SaidYes
<1>8. QueueMoves
  BY <1>1, <1>2, <1>6, Zenon DEF SendAck, Acknowledge, QueueMoves, histVars, JobSafe, RowsMove
<1>9. JobSafe(r)'
  BY <1>5, <1>6, <1>7, StillSafe, Zenon
<1>10. QED BY <1>4, <1>6, <1>7, <1>8, <1>9, JobMoves, Zenon

\* The acknowledgement is lost.
LEMMA AckLostKeeps == ASSUME ReceiveInv, NEW t \in Tasks, AckLost(t) PROVE ReceiveInv'
<1>1. UNCHANGED storeVars /\ UNCHANGED calmVars
  BY Zenon DEF AckLost, calmVars, gateVars, histVars
<1>2. CASE job' = [job EXCEPT ![t] = NoJob]
  BY <1>1, <1>2, IdleSafe, JobStep, Zenon
<1>3. CASE job' = [job EXCEPT ![t].acks = {}]
  <2>1. PICK j : j = job[t]
    BY Zenon
  <2>2. PICK r : r = job'[t]
    BY Zenon
  <2>3. JobOf(j) /\ JobSafe(j)
    BY <2>1, Zenon DEF ReceiveInv
  <2>4. job' = [job EXCEPT ![t] = r] /\ JobOf(r)
    BY <1>3, <2>1, <2>2, <2>3, Zenon DEF ReceiveInv, JobOf
  <2>5. JobSafe(r)
    BY <1>3, <2>1, <2>2, <2>3, Zenon DEF ReceiveInv, JobOf, JobSafe
  <2>6. QED BY <1>1, <2>4, <2>5, JobStep, Zenon
<1>4. QED BY <1>2, <1>3, Zenon DEF AckLost

\* The operator's decision is on the Server's lists: only a yes allows.
LEMMA ApplyDecisionKeeps == ASSUME ReceiveInv, NEW t \in Tasks, ApplyDecision(t) PROVE ReceiveInv'
<1>1. PICK j : j = job[t]
  BY Zenon
<1>2. JobOf(j) /\ JobSafe(j)
  BY <1>1, Zenon DEF ReceiveInv
<1>3. PICK r : r = job'[t]
  BY Zenon
<1>4. job' = [job EXCEPT ![t] = r] /\ JobOf(r)
  BY <1>1, <1>2, <1>3, Zenon DEF ApplyDecision, ReceiveInv, JobOf
<1>5. JobSafe(r)
  BY <1>1, <1>2, <1>3, Zenon DEF ApplyDecision, ReceiveInv, JobOf, JobSafe
<1>6. RowsMove
  BY RowsStay, Zenon DEF ApplyDecision, ReceiveInv
<1>7. GateMoves
  <2>1. applied' = applied \cup {j.cur}
    BY <1>1, Zenon DEF ApplyDecision
  <2>2. j.step = "allow" => j.cur \in Yes
    BY <1>2, Zenon DEF JobSafe
  <2>3. "allowed" \in lists' => "allowed" \in lists \/ j.step = "allow"
    BY <1>1, Zenon DEF ApplyDecision
  <2>4. QED BY <2>1, <2>2, <2>3, Zenon DEF GateMoves, SaidYes, ReceiveInv
<1>8. QueueMoves /\ log' = log
  BY Zenon DEF ApplyDecision, QueueMoves, serverVars
<1>9. JobSafe(r)'
  BY <1>5, <1>6, <1>7, StillSafe, Zenon
<1>10. QED BY <1>4, <1>6, <1>7, <1>8, <1>9, JobMoves, Zenon

\* The held rows of a denied sender become tombstones.
LEMMA DiscardKeeps == ASSUME ReceiveInv, NEW t \in Tasks, Discard(t) PROVE ReceiveInv'
<1>1. PICK j : j = job[t]
  BY Zenon
<1>2. JobOf(j) /\ JobSafe(j)
  BY <1>1, Zenon DEF ReceiveInv
<1>3. PICK r : r = job'[t]
  BY Zenon
<1>4. job' = [job EXCEPT ![t] = r] /\ JobOf(r)
  BY <1>1, <1>2, <1>3, Zenon DEF Discard, ReceiveInv, JobOf
<1>5. JobSafe(r)
  BY <1>1, <1>2, <1>3, Zenon DEF Discard, ReceiveInv, JobOf, JobSafe
<1>6. RowsMove
  <2>1. Rows /\ Dms \subseteq Msgs
    BY ReceiveAssumption, Zenon DEF ReceiveInv
  <2>2. CASE UNCHANGED storeVars
    BY <2>1, <2>2, RowsStay, Zenon
  <2>3. CASE TombstoneGated(Gated)
    BY <2>1, <2>3, TombstoneMoves, Zenon
  <2>4. QED BY <2>2, <2>3, Zenon DEF Discard
<1>7. UNCHANGED calmVars
  BY Zenon DEF Discard, calmVars, serverVars, gateVars, histVars
<1>8. GateMoves /\ QueueMoves /\ log' = log
  BY <1>7, Calm, Zenon
<1>9. JobSafe(r)'
  BY <1>5, <1>6, <1>8, StillSafe, Zenon
<1>10. QED BY <1>4, <1>6, <1>8, <1>9, JobMoves, Zenon

\* What the Server holds of a denied sender is acknowledged and counted as dropped.
LEMMA DropAckKeeps == ASSUME ReceiveInv, NEW t \in Tasks, DropAck(t) PROVE ReceiveInv'
<1>1. PICK j : j = job[t]
  BY Zenon
<1>2. JobOf(j) /\ JobSafe(j)
  BY <1>1, Zenon DEF ReceiveInv
<1>3. PICK r : r = job'[t]
  BY Zenon
<1>4. job' = [job EXCEPT ![t] = r] /\ JobOf(r)
  BY <1>1, <1>2, <1>3, Zenon DEF DropAck, ReceiveInv, JobOf
<1>5. JobSafe(r)
  BY <1>1, <1>2, <1>3, Zenon DEF DropAck, ReceiveInv, JobOf, JobSafe
<1>6. RowsMove
  BY RowsStay, Zenon DEF DropAck, ReceiveInv
<1>7. GateMoves /\ QueueMoves /\ log' = log
  BY Zenon DEF DropAck, Acknowledge, GateMoves, QueueMoves, gateVars, ReceiveInv, SaidYes
<1>8. JobSafe(r)'
  BY <1>5, <1>6, <1>7, StillSafe, Zenon
<1>9. QED BY <1>4, <1>6, <1>7, <1>8, JobMoves, Zenon

\* Every step of a task.
LEMMA TaskKeeps == ASSUME ReceiveInv, NEW t \in Tasks, TaskStep(t) PROVE ReceiveInv'
<1>1. QED
  BY TakeDeliveryKeeps, SendAckKeeps, AckLostKeeps, UnopenedKeeps, JudgeDmKeeps, JudgeReplyKeeps,
     JudgePlainKeeps, PromptOperatorKeeps, PromptFailsKeeps, PromoteKeeps, StoreKeeps,
     ApplyDecisionKeeps, DecisionFailsKeeps, DrainKeeps, DrainedKeeps, FetchFailsKeeps,
     DiscardKeeps, DropKeeps, DropAckKeeps, CloseKeeps, Zenon
  DEF TaskStep

-----------------------------------------------------------------------------
(* The Server, the connection and the process *)

\* An accepted message is in the queue.
LEMMA AcceptKeeps == ASSUME ReceiveInv, NEW m \in Msgs, Accept(m) PROVE ReceiveInv'
<1>1. /\ UNCHANGED <<job, lists, applied, dropped>> /\ disp' = disp /\ seqd' = seqd
      /\ log' = Append(log, m) /\ queue' = queue \cup {m}
  BY Zenon DEF Accept, storeVars, histVars
<1>2. log' \in Seq(Msgs) /\ \A x \in SentMsgs' : x = m \/ x \in SentMsgs
  BY <1>1 DEF ReceiveInv, SentMsgs, ToSet
<1>3. AckedIsClassified'
  BY <1>1, <1>2, Zenon DEF ReceiveInv, AckedIsClassified
<1>4. UnapprovedUnread' /\ Rows' /\ (SaidYes' <=> SaidYes) /\ Classified' = Classified
  BY <1>1, Zenon DEF ReceiveInv, UnapprovedUnread, Rows, SaidYes, Classified
<1>5. \A t \in Tasks : JobSafe(job[t])'
  BY <1>1, <1>4, Zenon DEF ReceiveInv, JobSafe
<1>6. QED BY <1>1, <1>2, <1>3, <1>4, <1>5, Zenon DEF ReceiveInv

\* The socket closes.
LEMMA DisconnectKeeps == ASSUME ReceiveInv, Disconnect PROVE ReceiveInv'
<1>1. UNCHANGED storeVars /\ UNCHANGED calmVars
  BY Zenon DEF Disconnect, calmVars, serverVars, gateVars, histVars
<1>2. "listen" \in Tasks
  BY Zenon DEF Tasks
<1>3. PICK r : r = job'["listen"]
  BY Zenon
<1>4. job' = [job EXCEPT !["listen"] = r]
  BY <1>2, <1>3, Zenon DEF Disconnect, ReceiveInv
<1>5. JobOf(r) /\ JobSafe(r)
  <2>1. r = NoJob
    BY <1>2, <1>3, Zenon DEF Disconnect, ReceiveInv
  <2>2. JobOf(r)
    BY <2>1, IdleSafe, Zenon DEF JobOf, NoJob
  <2>3. JobSafe(r)
    BY <2>1, IdleSafe, Zenon DEF JobSafe, NoJob, Verdicts
  <2>4. QED BY <2>2, <2>3, Zenon
<1>6. QED BY <1>1, <1>2, <1>4, <1>5, JobStep, Zenon

\* A catch-up begins.
LEMMA ConnectKeeps == ASSUME ReceiveInv, Connect PROVE ReceiveInv'
<1>1. UNCHANGED storeVars /\ UNCHANGED calmVars
  BY Zenon DEF Connect, calmVars, serverVars, gateVars, histVars
<1>2. "listen" \in Tasks
  BY Zenon DEF Tasks
<1>3. PICK r : r = job'["listen"]
  BY Zenon
<1>4. job' = [job EXCEPT !["listen"] = r]
  BY <1>2, <1>3, Zenon DEF Connect, ReceiveInv
<1>5. JobOf(r) /\ JobSafe(r)
  <2>1. r = [NoJob EXCEPT !.step = "scan", !.batch = InQueue(Msgs)]
    BY <1>2, <1>3, Zenon DEF Connect, ReceiveInv
  <2>2. JobOf(r)
    BY <2>1, IdleSafe, Zenon DEF JobOf, NoJob
  <2>3. JobSafe(r)
    BY <2>1, IdleSafe, Zenon DEF JobSafe, NoJob, Verdicts
  <2>4. QED BY <2>2, <2>3, Zenon
<1>6. QED BY <1>1, <1>2, <1>4, <1>5, JobStep, Zenon

\* The fetch of a catch-up fails.
LEMMA ConnectWithoutCatchupKeeps == ASSUME ReceiveInv, ConnectWithoutCatchup PROVE ReceiveInv'
<1>1. UNCHANGED storeVars /\ UNCHANGED calmVars
  BY Zenon DEF ConnectWithoutCatchup, calmVars, serverVars, gateVars, histVars
<1>2. "listen" \in Tasks
  BY Zenon DEF Tasks
<1>3. PICK r : r = job'["listen"]
  BY Zenon
<1>4. job' = [job EXCEPT !["listen"] = r]
  BY <1>2, <1>3, Zenon DEF ConnectWithoutCatchup, ReceiveInv
<1>5. JobOf(r) /\ JobSafe(r)
  <2>1. r = [NoJob EXCEPT !.step = "scan"]
    BY <1>2, <1>3, Zenon DEF ConnectWithoutCatchup, ReceiveInv
  <2>2. JobOf(r)
    BY <2>1, IdleSafe, Zenon DEF JobOf, NoJob
  <2>3. JobSafe(r)
    BY <2>1, IdleSafe, Zenon DEF JobSafe, NoJob, Verdicts
  <2>4. QED BY <2>2, <2>3, Zenon
<1>6. QED BY <1>1, <1>2, <1>4, <1>5, JobStep, Zenon

\* A recovery begins.
LEMMA RecoverPendingUntilKeeps == ASSUME ReceiveInv, NEW m, RecoverPendingUntil(m) PROVE ReceiveInv'
<1>1. UNCHANGED storeVars /\ UNCHANGED calmVars
  BY Zenon DEF RecoverPendingUntil, calmVars, serverVars, gateVars, histVars
<1>2. "recover" \in Tasks
  BY Zenon DEF Tasks
<1>3. PICK r : r = job'["recover"]
  BY Zenon
<1>4. job' = [job EXCEPT !["recover"] = r]
  BY <1>2, <1>3, Zenon DEF RecoverPendingUntil, ReceiveInv
<1>5. JobOf(r) /\ JobSafe(r)
  <2>1. r = [NoJob EXCEPT !.step = "scan", !.batch = InQueue(Msgs), !.required = m]
    BY <1>2, <1>3, Zenon DEF RecoverPendingUntil, ReceiveInv
  <2>2. JobOf(r)
    BY <2>1, IdleSafe, Zenon DEF JobOf, NoJob
  <2>3. JobSafe(r)
    BY <2>1, IdleSafe, Zenon DEF JobSafe, NoJob, Verdicts
  <2>4. QED BY <2>2, <2>3, Zenon
<1>6. QED BY <1>1, <1>2, <1>4, <1>5, JobStep, Zenon

\* A recovery ends.
LEMMA RecoverDoneKeeps == ASSUME ReceiveInv, RecoverDone PROVE ReceiveInv'
<1>1. UNCHANGED storeVars /\ UNCHANGED calmVars
  BY Zenon DEF RecoverDone, calmVars, serverVars, gateVars, histVars
<1>2. "recover" \in Tasks
  BY Zenon DEF Tasks
<1>3. PICK r : r = job'["recover"]
  BY Zenon
<1>4. job' = [job EXCEPT !["recover"] = r]
  BY <1>2, <1>3, Zenon DEF RecoverDone, ReceiveInv
<1>5. JobOf(r) /\ JobSafe(r)
  <2>1. r = NoJob
    BY <1>2, <1>3, Zenon DEF RecoverDone, ReceiveInv
  <2>2. JobOf(r)
    BY <2>1, IdleSafe, Zenon DEF JobOf, NoJob
  <2>3. JobSafe(r)
    BY <2>1, IdleSafe, Zenon DEF JobSafe, NoJob, Verdicts
  <2>4. QED BY <2>2, <2>3, Zenon
<1>6. QED BY <1>1, <1>2, <1>4, <1>5, JobStep, Zenon

\* A live frame is taken.
LEMMA TakeFrameKeeps == ASSUME ReceiveInv, NEW m \in Msgs, TakeFrame(m) PROVE ReceiveInv'
<1>1. UNCHANGED storeVars /\ UNCHANGED calmVars
  BY Zenon DEF TakeFrame, calmVars, gateVars, histVars
<1>2. "listen" \in Tasks
  BY Zenon DEF Tasks
<1>3. PICK j : j = job["listen"]
  BY Zenon
<1>4. JobOf(j) /\ JobSafe(j)
  BY <1>2, <1>3, Zenon DEF ReceiveInv
<1>5. PICK r : r = job'["listen"]
  BY Zenon
<1>6. job' = [job EXCEPT !["listen"] = r] /\ JobOf(r)
  BY <1>2, <1>3, <1>4, <1>5, Zenon DEF TakeFrame, ReceiveInv, JobOf
<1>7. JobSafe(r)
  BY <1>2, <1>3, <1>4, <1>5, Zenon DEF TakeFrame, ReceiveInv, JobOf, JobSafe
<1>8. QED BY <1>1, <1>2, <1>6, <1>7, JobStep, Zenon

\* A step that touches no job, row, answer or acknowledgement.
LEMMA StillKeeps ==
    ASSUME ReceiveInv, UNCHANGED storeVars, UNCHANGED calmVars, UNCHANGED job
    PROVE  ReceiveInv'
<1>1. RowsMove
  BY RowsStay, Zenon DEF ReceiveInv
<1>2. GateMoves /\ QueueMoves /\ log' = log
  BY Calm, Zenon
<1>3. \A t \in Tasks : JobSafe(job[t])'
  <2> SUFFICES ASSUME NEW t \in Tasks PROVE JobSafe(job[t])'
    BY Zenon
  <2>1. PICK j : j = job[t]
    BY Zenon
  <2>2. JobSafe(j)'
    BY <1>1, <1>2, <2>1, StillSafe, Zenon DEF ReceiveInv
  <2>3. QED BY <2>1, <2>2, Zenon DEF JobSafe
<1>4. QED BY <1>1, <1>2, <1>3, InvKept, Zenon DEF ReceiveInv

\* The process dies between any two steps.
LEMMA CrashKeeps == ASSUME ReceiveInv, Crash PROVE ReceiveInv'
<1>1. UNCHANGED storeVars /\ UNCHANGED calmVars
  BY Zenon DEF Crash, calmVars, histVars
<1>2. RowsMove
  BY <1>1, RowsStay, Zenon DEF ReceiveInv
<1>3. GateMoves /\ QueueMoves /\ log' = log
  BY <1>1, Calm, Zenon
<1>4. JobSafe(NoJob)'
  BY <1>2, <1>3, IdleSafe, StillSafe, Zenon
<1>5. DOMAIN job' = Tasks /\ \A t \in Tasks : job'[t] = NoJob
  BY Zenon DEF Crash
<1>6. (DOMAIN job = Tasks /\ \A t \in Tasks : JobOf(job[t]) /\ JobSafe(job[t]))'
  BY <1>4, <1>5, IdleSafe, Zenon DEF JobSafe
<1>7. QED BY <1>2, <1>3, <1>6, InvKept, Zenon

\* Nothing has been received.
LEMMA ReceiveStarts == ASSUME ReceiveInit PROVE ReceiveInv
<1>1. Rows
  BY Zenon DEF ReceiveInit, StoreInit, Rows, Verdicts
<1>2. DOMAIN job = Tasks /\ \A t \in Tasks : JobOf(job[t]) /\ JobSafe(job[t])
  BY IdleSafe, Zenon DEF ReceiveInit
<1>3. log \in Seq(Msgs) /\ SentMsgs = {}
  BY DEF ReceiveInit, SentMsgs, ToSet
<1>4. UnapprovedUnread
  BY ReceiveAssumption, Zenon DEF ReceiveInit, StoreInit, UnapprovedUnread
<1>5. QED BY <1>1, <1>2, <1>3, <1>4, Zenon DEF ReceiveInit, ReceiveInv, AckedIsClassified

\* ReceiveInv is inductive.
LEMMA ReceiveSteps == ASSUME ReceiveInv, [ReceiveNext]_receiveVars PROVE ReceiveInv'
<1>1. CASE \E m \in Msgs : Send(m)
  BY <1>1, AcceptKeeps, Zenon DEF Send
<1>2. CASE \E m \in Replies, p \in Prompts : OperatorReplies(m, p)
  BY <1>2, AcceptKeeps, ReceiveAssumption, Zenon DEF OperatorReplies, Replies
<1>3. CASE ListenStep
  <2>1. CASE CatchupDone
    <3>1. UNCHANGED storeVars /\ UNCHANGED calmVars /\ UNCHANGED job
      BY <2>1, Zenon DEF CatchupDone, calmVars, gateVars, histVars
    <3>2. QED BY <3>1, StillKeeps, Zenon
  <2>2. QED
    BY <1>3, <2>1, ConnectKeeps, ConnectWithoutCatchupKeeps, TakeFrameKeeps, Zenon DEF ListenStep
<1>4. CASE UNCHANGED receiveVars
  <2>1. UNCHANGED storeVars /\ UNCHANGED calmVars /\ UNCHANGED job
    BY <1>4, Zenon DEF receiveVars, calmVars, serverVars, gateVars, histVars
  <2>2. QED BY <2>1, StillKeeps, Zenon
<1>5. CASE \E t \in Tasks : TaskStep(t)
  BY <1>5, TaskKeeps, Zenon
<1>6. CASE \E m \in Msgs : RecoverPendingUntil(m)
  BY <1>6, RecoverPendingUntilKeeps, Zenon
<1>7. QED
  BY <1>1, <1>2, <1>3, <1>4, <1>5, <1>6, DisconnectKeeps, RecoverDoneKeeps, CrashKeeps, Zenon
  DEF ReceiveNext

-----------------------------------------------------------------------------
(* Results *)

\* ws_client.py and inbound_receipts.py: the inductive invariant of the receive
\* path holds, whatever interleaving of catch-up, live frames, recovery, drains,
\* failures and crashes.
THEOREM ReceiveInvariant == ReceiveSpec => []ReceiveInv
<1>1. ReceiveInit => ReceiveInv
  BY ReceiveStarts, Zenon
<1>2. ReceiveInv /\ [ReceiveNext]_receiveVars => ReceiveInv'
  BY ReceiveSteps, Zenon
<1>3. QED BY <1>1, <1>2, PTL DEF ReceiveSpec

\* _ack_http and the live acknowledgement: what left the Server's queue is durably
\* classified or was dropped by a denial.
THEOREM ReceiveAckedIsClassified == ReceiveSpec => []AckedIsClassified
<1>1. ReceiveInv => AckedIsClassified
  BY Zenon DEF ReceiveInv
<1>2. QED BY <1>1, ReceiveInvariant, PTL

\* dm_gate.py: a stranger's message is readable only after an applied yes.
THEOREM ReceiveUnapprovedUnread == ReceiveSpec => []UnapprovedUnread
<1>1. ReceiveInv => UnapprovedUnread
  BY Zenon DEF ReceiveInv
<1>2. QED BY <1>1, ReceiveInvariant, PTL

=============================================================================
