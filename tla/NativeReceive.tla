---------------------------- MODULE NativeReceive ----------------------------
(***************************************************************************)
(* The signed receive path of one Agent: crypto/ws_client.py (catch-up,     *)
(* live frames, acknowledgement), agent/inbound_receipts.py (one delivery   *)
(* to one receipt) and agent/dm_gate.py (operator approval of a stranger's  *)
(* direct messages), committing into InboxStore.                            *)
(*                                                                          *)
(* Two tasks dispatch deliveries: the listener (catch-up, then live) and    *)
(* the held-send recovery (recover_pending_until).  They share the catch-up *)
(* lock but not the live path.  One stranger writes the DMs; the operator   *)
(* answers the approval prompts with messages of their own, which the same  *)
(* path delivers.  An action is the code between two awaits.                *)
(***************************************************************************)
EXTENDS InboxStore, Sequences, SequencesExt

CONSTANTS
    Dms,       \* direct messages of the stranger
    Yes, No,   \* the operator's answers
    Broken,    \* deliveries no key of the sender opens
    Prompts,   \* approval prompts that can be sent
    Chunk,     \* acknowledgements per HTTP call during catch-up (25)
    Recovery,  \* whether held-send recovery runs beside the listener
    MaxFaults, \* failed requests
    MaxCrashes

ASSUME ReceiveAssumption ==
    /\ Dms \subseteq Msgs /\ Yes \subseteq Msgs /\ No \subseteq Msgs /\ Broken \subseteq Msgs
    /\ Dms \cap (Yes \cup No) = {} /\ Yes \cap No = {}
    /\ None \notin Msgs /\ None \notin Prompts
    /\ Chunk \in Nat \ {0} /\ Recovery \in BOOLEAN
    /\ MaxFaults \in Nat /\ MaxCrashes \in Nat

VARIABLES
    log,     \* the messages the Server accepted, in server sequence order
    queue,   \* /messages/pending: those not acknowledged
    frames,  \* live frames on the open socket
    link,    \* the listener's connection
    job,     \* what each task is doing
    lists,   \* the Server's allow and block lists for the stranger
    prompt,  \* each prompt: its entry in pending_dm_approvals.json
    replyTo, \* the prompt an operator message answers
    faults, crashes,
    dropped, \* history: deliveries acknowledged by a denial
    through, \* history: watermarks recover_pending_until vouched for
    applied  \* history: operator messages whose decision took effect

serverVars == <<log, queue, frames, link>>
gateVars == <<lists, prompt, replyTo>>
histVars == <<dropped, through, applied>>
boundVars == <<faults, crashes>>
receiveVars == <<storeVars, serverVars, job, gateVars, histVars, boundVars>>

Tasks == {"listen", "recover"}
Replies == Yes \cup No
Steps == {"off", "scan", "judge", "prompt", "promote", "store", "ack", "allow", "drain",
          "drained", "block", "discard", "drop", "dropack", "close"}

\* A task: the deliveries left in its batch, the one in hand, the verdict on it,
\* the ids to acknowledge, the watermark it must reach, and the operator message
\* whose approval it interrupted itself to apply.
NoJob == [step |-> "off", batch |-> <<>>, cur |-> None, verdict |-> "terminal", acks |-> {},
          required |-> None, found |-> FALSE,
          outer |-> None, obatch |-> <<>>, oacks |-> {}]

SentMsgs == ToSet(log)
InQueue(S) == SelectSeq(log, LAMBDA m : m \in queue \cap S)
Gated == {m \in Msgs : disp[m] = "foreign_dm_gated"}

ReceiveTypeOK ==
    /\ log \in Seq(Msgs) /\ IsInjective(log) /\ queue \subseteq SentMsgs
    /\ frames \in Seq(Msgs) /\ link \in {"down", "catchup", "live"}
    /\ \A t \in Tasks :
         /\ job[t].step \in Steps /\ job[t].batch \in Seq(Msgs) /\ job[t].obatch \in Seq(Msgs)
         /\ {job[t].cur, job[t].outer, job[t].required} \subseteq Msgs \cup {None}
         /\ job[t].verdict \in {"eligible", "terminal", "foreign_dm_gated"}
         /\ job[t].acks \subseteq Msgs /\ job[t].oacks \subseteq Msgs
         /\ job[t].found \in BOOLEAN
    /\ lists \subseteq {"allowed", "blocked"}
    /\ prompt \in [Prompts -> {"unsent", "unrecorded", "open", "closed"}]
    /\ replyTo \in [Msgs -> Prompts \cup {None}]
    /\ faults \in 0..MaxFaults /\ crashes \in 0..MaxCrashes
    /\ dropped \subseteq Dms /\ through \subseteq Msgs /\ applied \subseteq Replies

ReceiveInit ==
    /\ StoreInit
    /\ log = <<>> /\ queue = {} /\ frames = <<>> /\ link = "down"
    /\ job = [t \in Tasks |-> NoJob]
    /\ lists = {} /\ prompt = [p \in Prompts |-> "unsent"] /\ replyTo = [m \in Msgs |-> None]
    /\ faults = 0 /\ crashes = 0
    /\ dropped = {} /\ through = {} /\ applied = {}

\* A request or a send fails.
Fault == faults < MaxFaults /\ faults' = faults + 1 /\ UNCHANGED crashes

-----------------------------------------------------------------------------
\* The Server and the people behind it (external).

Accept(m) ==
    /\ m \notin SentMsgs
    /\ log' = Append(log, m) /\ queue' = queue \cup {m}
    /\ frames' = IF link = "down" THEN frames ELSE Append(frames, m)
    /\ UNCHANGED <<storeVars, link, job, lists, prompt, histVars, boundVars>>

\* Anybody but the operator writes.
Send(m) == m \notin Replies /\ Accept(m) /\ UNCHANGED replyTo

\* The operator answers a prompt they have seen.
OperatorReplies(m, p) ==
    /\ m \in Replies /\ prompt[p] # "unsent"
    /\ Accept(m) /\ replyTo' = [replyTo EXCEPT ![m] = p]

\* An acknowledgement reaches the Server.
Acknowledge(ids) == queue' = queue \ ids /\ UNCHANGED <<log, frames>>

\* The socket closes under the listener; it notices when it reads next.
Disconnect ==
    /\ link = "live" /\ job["listen"].step = "scan" /\ job["listen"].outer = None
    /\ job["listen"].acks = {}
    /\ link' = "down" /\ frames' = <<>> /\ job' = [job EXCEPT !["listen"] = NoJob]
    /\ UNCHANGED <<storeVars, log, queue, gateVars, histVars, boundVars>>

-----------------------------------------------------------------------------
\* Catch-up and live delivery.

CatchupLockFree == link # "catchup" /\ job["recover"].step = "off"

\* connect_once up to the reply of /messages/pending: the session is registered
\* first, so nothing sent in between is lost.
Connect ==
    /\ link = "down" /\ job["listen"].step = "off"
    /\ CatchupLockFree
    /\ link' = "catchup"
    /\ job' = [job EXCEPT !["listen"] = [NoJob EXCEPT !.step = "scan", !.batch = InQueue(Msgs)]]
    /\ UNCHANGED <<storeVars, log, queue, frames, gateVars, histVars, boundVars>>

\* The fetch fails: _catchup logs it and goes on to live listen.
ConnectWithoutCatchup ==
    /\ link = "down" /\ job["listen"].step = "off"
    /\ CatchupLockFree
    /\ Fault
    /\ link' = "live" /\ job' = [job EXCEPT !["listen"] = [NoJob EXCEPT !.step = "scan"]]
    /\ UNCHANGED <<storeVars, log, queue, frames, gateVars, histVars>>

\* recover_pending_until, for a watermark a held send named.
RecoverPendingUntil(m) ==
    /\ Recovery /\ CatchupLockFree /\ m \in SentMsgs
    /\ job' = [job EXCEPT !["recover"] = [NoJob EXCEPT !.step = "scan", !.batch = InQueue(Msgs),
                                                       !.required = m]]
    /\ UNCHANGED <<storeVars, serverVars, gateVars, histVars, boundVars>>

ChunkFull(t) == job[t].outer = None /\ Cardinality(job[t].acks) >= Chunk

\* The next delivery of the batch, or the next live frame.
TakeDelivery(t, m) ==
    /\ job[t].step = "scan" /\ job[t].batch # <<>> /\ m = Head(job[t].batch)
    /\ ~ChunkFull(t)
    /\ job' = [job EXCEPT ![t].step = "judge", ![t].cur = m, ![t].batch = Tail(job[t].batch)]
    /\ UNCHANGED <<storeVars, serverVars, gateVars, histVars, boundVars>>

TakeFrame(m) ==
    /\ link = "live" /\ job["listen"].step = "scan" /\ job["listen"].outer = None
    /\ frames # <<>> /\ m = Head(frames)
    /\ frames' = Tail(frames)
    /\ job' = [job EXCEPT !["listen"].step = "judge", !["listen"].cur = m]
    /\ UNCHANGED <<storeVars, log, queue, link, gateVars, histVars, boundVars>>

\* What a task does with the outcome of one delivery: a drain goes on whatever
\* it is; a live listener acknowledges, or stops the stream at a held delivery; a
\* catch-up skips a held one, unless it must vouch for everything before it.
Live(t) == t = "listen" /\ link = "live"

StopAlways(j) == [j EXCEPT !.cur = None, !.step = "scan", !.batch = <<>>]
SkipAlways(j) == [j EXCEPT !.cur = None, !.step = "scan"]
StopAtHeld(j) == [j EXCEPT !.cur = None, !.step = "scan",
                           !.batch = IF j.required = None THEN j.batch ELSE <<>>]

Conclude(t, outcome) ==
    LET j == job[t]
        on == [j EXCEPT !.cur = None, !.step = "scan"]
        hold == StopAtHeld(j)
        ack == IF j.outer = None /\ j.cur = j.required
               THEN [on EXCEPT !.acks = j.acks \cup {j.cur}, !.found = TRUE, !.batch = <<>>]
               ELSE [on EXCEPT !.acks = j.acks \cup {j.cur}]
    IN  IF j.outer = None /\ Live(t) /\ outcome = "hold"
        THEN job' = [job EXCEPT ![t] = NoJob] /\ link' = "down" /\ frames' = <<>>
        ELSE /\ job' = [job EXCEPT ![t] =
                   CASE outcome = "ack" -> ack
                     [] outcome = "hold" /\ j.outer = None -> hold
                     [] OTHER -> on]
             /\ UNCHANGED <<link, frames>>

\* _ack_http of a full chunk, of the rest of a batch, or of one live frame.
AckDue(t) ==
    /\ job[t].step = "scan" /\ job[t].acks # {}
    /\ job[t].batch = <<>> \/ ChunkFull(t)

SendAck(t) ==
    /\ AckDue(t)
    /\ Acknowledge(job[t].acks)
    /\ job' = [job EXCEPT ![t].acks = {}]
    /\ UNCHANGED <<storeVars, link, gateVars, histVars, boundVars>>

\* The acknowledgement is lost: the Server will deliver again.  On the live
\* socket the failed send ends the connection.
AckLost(t) ==
    /\ AckDue(t)
    /\ Fault
    /\ IF Live(t) /\ job[t].outer = None
       THEN job' = [job EXCEPT ![t] = NoJob] /\ link' = "down" /\ frames' = <<>>
       ELSE job' = [job EXCEPT ![t].acks = {}] /\ UNCHANGED <<link, frames>>
    /\ UNCHANGED <<storeVars, log, queue, gateVars, histVars>>

BatchDone(t) == /\ job[t].step = "scan" /\ job[t].outer = None
                /\ job[t].batch = <<>> /\ job[t].acks = {}

CatchupDone ==
    /\ link = "catchup" /\ BatchDone("listen")
    /\ link' = "live"
    /\ UNCHANGED <<storeVars, log, queue, frames, job, gateVars, histVars, boundVars>>

\* _run_catchup returns whether the watermark was reached with nothing skipped.
RecoverDone ==
    /\ BatchDone("recover")
    /\ through' = IF job["recover"].found THEN through \cup {job["recover"].required} ELSE through
    /\ job' = [job EXCEPT !["recover"] = NoJob]
    /\ UNCHANGED <<storeVars, serverVars, gateVars, dropped, applied, boundVars>>

-----------------------------------------------------------------------------
\* One delivery to one receipt: InboundReceiptHandler.handle.

Rule(t, verdict) ==
    job' = [job EXCEPT ![t].verdict = verdict,
                       ![t].step = IF verdict = "eligible" THEN "promote" ELSE "store"]

\* The payload does not open, its sender's keys or the blocklist are unavailable.
Unopened(t) ==
    /\ job[t].step = "judge"
    /\ \/ job[t].cur \in Broken /\ UNCHANGED boundVars
       \/ job[t].cur \notin Broken /\ Fault
    /\ Conclude(t, "hold")
    /\ UNCHANGED <<storeVars, log, queue, gateVars, histVars>>

Opened(t) == job[t].step = "judge" /\ job[t].cur \notin Broken

\* Everything that needs no approval: eligible, or too old for the model.
JudgePlain(t, verdict) ==
    /\ Opened(t) /\ job[t].cur \notin Dms \cup Replies
    /\ verdict \in {"eligible", "terminal"}
    /\ Rule(t, verdict)
    /\ UNCHANGED <<storeVars, serverVars, gateVars, histVars, boundVars>>

\* blocked_gate and foreign_dm_gate: one prompt per sender, further DMs ride it.
AlreadyPrompted == \E p \in Prompts : prompt[p] = "open"

DmVerdict == CASE "blocked" \in lists -> "terminal"
               [] "blocked" \notin lists /\ "allowed" \in lists -> "eligible"
               [] OTHER -> "foreign_dm_gated"

JudgeDm(t) ==
    /\ Opened(t) /\ job[t].cur \in Dms
    /\ IF DmVerdict = "foreign_dm_gated" /\ ~AlreadyPrompted
       THEN job' = [job EXCEPT ![t].step = "prompt"]
       ELSE Rule(t, DmVerdict)
    /\ UNCHANGED <<storeVars, serverVars, gateVars, histVars, boundVars>>

\* maybe_gate_foreign_dm: the prompt reaches the operator and is recorded, or
\* reaches them and the call fails, or fails outright.  The DM is held anyway.
PromptOperator(t, p) ==
    /\ job[t].step = "prompt" /\ prompt[p] = "unsent"
    /\ \/ prompt' = [prompt EXCEPT ![p] = "open"] /\ UNCHANGED boundVars
       \/ prompt' = [prompt EXCEPT ![p] = "unrecorded"] /\ Fault
    /\ Rule(t, "foreign_dm_gated")
    /\ UNCHANGED <<storeVars, serverVars, lists, replyTo, histVars>>

PromptFails(t) ==
    /\ job[t].step = "prompt"
    /\ \/ Fault
       \/ (\A p \in Prompts : prompt[p] # "unsent") /\ UNCHANGED boundVars
    /\ Rule(t, "foreign_dm_gated")
    /\ UNCHANGED <<storeVars, serverVars, gateVars, histVars>>

\* operator_control_gate: an answer to an open prompt is consumed; any other
\* operator message is chat.
JudgeReply(t) ==
    /\ Opened(t) /\ job[t].cur \in Replies
    /\ IF prompt[replyTo[job[t].cur]] = "open"
       THEN job' = [job EXCEPT ![t].step = IF job[t].cur \in Yes THEN "allow" ELSE "block"]
       ELSE Rule(t, "eligible")
    /\ UNCHANGED <<storeVars, serverVars, gateVars, histVars, boundVars>>

-----------------------------------------------------------------------------
\* _ReceiptCommitter.commit: promote_gated_receipt, then store_receipt.

AckAlways(d) == "ack"
ReceiptAck(d) == IF d = "foreign_dm_gated" THEN "defer" ELSE "ack"

Promote(t) ==
    LET m == job[t].cur
    IN  /\ job[t].step = "promote"
        /\ \/ /\ PromoteGatedReceipt(m) /\ Conclude(t, "ack")
           \/ /\ disp[m] = "eligible" /\ pst[m] = "pending"
              /\ Conclude(t, "ack") /\ UNCHANGED storeVars
           \/ /\ disp[m] # "foreign_dm_gated" /\ ~(disp[m] = "eligible" /\ pst[m] = "pending")
              /\ job' = [job EXCEPT ![t].step = "store"]
              /\ UNCHANGED <<storeVars, link, frames>>
        /\ UNCHANGED <<log, queue, gateVars, histVars, boundVars>>

Store(t) ==
    LET m == job[t].cur
    IN  /\ job[t].step = "store"
        /\ \/ InsertReceipt(m, job[t].verdict) /\ Conclude(t, ReceiptAck(job[t].verdict))
           \/ disp[m] # "absent" /\ Conclude(t, ReceiptAck(disp[m])) /\ UNCHANGED storeVars
        /\ UNCHANGED <<log, queue, gateVars, histVars, boundVars>>

-----------------------------------------------------------------------------
\* maybe_handle_dm_approval_reply.

\* POST /allowlists or /blocklists, then what it entails.
ApplyDecision(t) ==
    LET yes == job[t].step = "allow"
    IN  /\ job[t].step \in {"allow", "block"}
        /\ lists' = lists \cup {IF yes THEN "allowed" ELSE "blocked"}
        /\ applied' = applied \cup {job[t].cur}
        /\ job' = [job EXCEPT ![t].step = IF yes THEN "drain" ELSE "discard"]
        /\ UNCHANGED <<storeVars, serverVars, prompt, replyTo, dropped, through, boundVars>>

\* The request fails: the answer is consumed, the prompt stays open.
DecisionFails(t) ==
    /\ job[t].step \in {"allow", "block"}
    /\ Fault
    /\ job' = [job EXCEPT ![t].step = "store", ![t].verdict = "terminal"]
    /\ UNCHANGED <<storeVars, serverVars, gateVars, histVars>>

\* drain_pending_from_sender: the held DMs go through dispatch_delivery again.
Drain(t) ==
    /\ job[t].step = "drain"
    /\ job' = [job EXCEPT ![t].step = "scan", ![t].outer = job[t].cur, ![t].cur = None,
                          ![t].obatch = job[t].batch, ![t].oacks = job[t].acks,
                          ![t].batch = InQueue(Dms), ![t].acks = {}]
    /\ UNCHANGED <<storeVars, serverVars, gateVars, histVars, boundVars>>

Drained(t) ==
    /\ job[t].step = "scan" /\ job[t].outer # None
    /\ job[t].batch = <<>> /\ job[t].acks = {}
    /\ job' = [job EXCEPT ![t].step = "close", ![t].cur = job[t].outer, ![t].outer = None,
                          ![t].batch = job[t].obatch, ![t].acks = job[t].oacks,
                          ![t].obatch = <<>>, ![t].oacks = {}]
    /\ UNCHANGED <<storeVars, serverVars, gateVars, histVars, boundVars>>

\* The drain's fetch, or the drop's, fails: the decision stands all the same.
FetchFails(t) ==
    /\ job[t].step \in {"drain", "drop"}
    /\ Fault
    /\ job' = [job EXCEPT ![t].step = "close"]
    /\ UNCHANGED <<storeVars, serverVars, gateVars, histVars>>

\* drop_pending_from_sender: tombstone the held rows, then acknowledge whatever
\* the Server still holds of that sender.
DiscardNothing(t) ==
    /\ job[t].step = "discard"
    /\ job' = [job EXCEPT ![t].step = "drop"]
    /\ UNCHANGED <<storeVars, serverVars, gateVars, histVars, boundVars>>

Discard(t) ==
    /\ job[t].step = "discard"
    /\ IF Gated = {} THEN UNCHANGED storeVars ELSE TombstoneGated(Gated)
    /\ job' = [job EXCEPT ![t].step = "drop"]
    /\ UNCHANGED <<serverVars, gateVars, histVars, boundVars>>

Drop(t) ==
    /\ job[t].step = "drop"
    /\ job' = [job EXCEPT ![t].step = "dropack", ![t].obatch = InQueue(Dms)]
    /\ UNCHANGED <<storeVars, serverVars, gateVars, histVars, boundVars>>

DropAck(t) ==
    LET ids == ToSet(job[t].obatch)
    IN  /\ job[t].step = "dropack"
        /\ \/ Acknowledge(ids) /\ dropped' = dropped \cup ids /\ UNCHANGED boundVars
           \/ ids # {} /\ Fault /\ UNCHANGED <<log, queue, frames, dropped>>
        /\ job' = [job EXCEPT ![t].step = "close", ![t].obatch = <<>>]
        /\ UNCHANGED <<storeVars, link, gateVars, through, applied>>

\* The entry is popped and saved; the confirmation is sent before the answer's
\* own receipt is stored.
Close(t) ==
    /\ job[t].step = "close"
    /\ prompt' = [prompt EXCEPT ![replyTo[job[t].cur]] = "closed"]
    /\ job' = [job EXCEPT ![t].step = "store", ![t].verdict = "terminal"]
    /\ UNCHANGED <<storeVars, serverVars, lists, replyTo, histVars, boundVars>>

\* The process dies: rows, approvals on disk and the Server's state remain.
Crash ==
    /\ crashes < MaxCrashes /\ crashes' = crashes + 1
    /\ job' = [t \in Tasks |-> NoJob]
    /\ link' = "down" /\ frames' = <<>>
    /\ prompt' \in {q \in [Prompts -> {"unsent", "unrecorded", "open", "closed"}] :
                      \A p \in Prompts : q[p] # prompt[p] =>
                         /\ prompt[p] = "unsent" /\ q[p] = "unrecorded"
                         /\ \E t \in Tasks : job[t].step = "prompt"}
    /\ UNCHANGED <<storeVars, log, queue, lists, replyTo, faults, histVars>>

-----------------------------------------------------------------------------
TaskStep(t) ==
    \/ (\E m \in Msgs : TakeDelivery(t, m)) \/ SendAck(t) \/ AckLost(t)
    \/ Unopened(t) \/ JudgeDm(t) \/ JudgeReply(t)
    \/ \E v \in {"eligible", "terminal"} : JudgePlain(t, v)
    \/ (\E p \in Prompts : PromptOperator(t, p)) \/ PromptFails(t)
    \/ Promote(t) \/ Store(t)
    \/ ApplyDecision(t) \/ DecisionFails(t) \/ Drain(t) \/ Drained(t) \/ FetchFails(t)
    \/ Discard(t) \/ Drop(t) \/ DropAck(t) \/ Close(t)

ListenStep == Connect \/ ConnectWithoutCatchup \/ (\E m \in Msgs : TakeFrame(m)) \/ CatchupDone

ReceiveNext ==
    \/ \E m \in Msgs : Send(m) \/ RecoverPendingUntil(m)
    \/ \E m \in Replies, p \in Prompts : OperatorReplies(m, p)
    \/ Disconnect \/ ListenStep \/ RecoverDone \/ Crash
    \/ \E t \in Tasks : TaskStep(t)

ReceiveSpec == ReceiveInit /\ [][ReceiveNext]_receiveVars

\* Fairness: a task goes on whenever it can, no connection lasts for ever, and the
\* listener, which waits for the catch-up lock in arrival order, gets it in the end
\* however often recovery takes it.
ReceiveFairness ==
    /\ SF_receiveVars(ListenStep) /\ WF_receiveVars(RecoverDone) /\ WF_receiveVars(Disconnect)
    /\ \A t \in Tasks : WF_receiveVars(TaskStep(t))
FairReceiveSpec == ReceiveSpec /\ ReceiveFairness

-----------------------------------------------------------------------------
\* Properties.

\* A delivery leaves the Server's queue only once it is durably classified here,
\* or was thrown away because its sender was denied: no interleaving of catch-up,
\* live frames, recovery and drains, and no crash, acknowledges a message the
\* Agent could still lose.
AckedIsClassified ==
    \A m \in SentMsgs \ queue : m \in dropped \/ disp[m] \in {"eligible", "terminal"}

\* A stranger's message becomes readable only after the operator allowed them.
UnapprovedUnread ==
    \A m \in Dms : disp[m] = "eligible" => applied \cap Yes # {}

\* A held message can still be released or refused: the Server keeps its copy, so
\* an approval finds it.  One whose copy was acknowledged would stay held for ever.
GatedIsRedeliverable == Gated \subseteq queue

\* recover_pending_until answers whether everything through its watermark is
\* durably here.
VouchedPrefix ==
    \A w \in through, i, k \in 1..Len(log) :
        i <= k /\ log[k] = w => log[i] \in dropped \/ disp[log[i]] # "absent"

\* A delivery nobody can open never wedges the ones behind it: every message that
\* opens is eventually owned.
EventuallyOwned ==
    \A m \in Msgs \ Broken : m \in SentMsgs ~> m \in dropped \/ disp[m] # "absent"
=============================================================================
