--------------------------- MODULE KeylessReceive ---------------------------
(***************************************************************************)
(* The keyless receive path of one Agent: agent/bridge_transport.py (the    *)
(* frame pump, the ingress gates, acknowledgement) and                      *)
(* agent/keyless_dm_approval_flow.py (operator approval of a stranger's     *)
(* direct messages), committing into InboxStore.                            *)
(*                                                                          *)
(* The pump handles one frame at a time and never waits for a reply; the    *)
(* approval work it schedules runs in tasks of its own, one at a time and   *)
(* in order under _approval_lock, each between the pump's steps.  The       *)
(* approval records are a JSON file with an in-memory mirror that is rolled *)
(* back when a write fails, so one variable stands for both.  One stranger  *)
(* writes the DMs and one operator answers.                                 *)
(***************************************************************************)
EXTENDS InboxStore, Sequences, SequencesExt

CONSTANTS
    Dms,        \* direct messages of the stranger
    Yes, No,    \* the operator's answers
    Prompts,    \* prompt envelopes the Server can hand out
    Lanes,      \* whether the Server's frames carry seq at first: TRUE, FALSE, either
    MayUpgrade, \* whether it may start to carry them at a reconnect
    FaultKinds, \* what may fail: "send", "disk" (an OSError), "frame" (an
                \* exception in the handler), "crash" (the process)
    MaxFaults

ASSUME KeylessAssumption ==
    /\ Dms \subseteq Msgs /\ Yes \subseteq Msgs /\ No \subseteq Msgs
    /\ Dms \cap (Yes \cup No) = {} /\ Yes \cap No = {}
    /\ None \notin Msgs /\ None \notin Prompts
    /\ Lanes \subseteq BOOLEAN /\ MayUpgrade \in BOOLEAN
    /\ FaultKinds \subseteq {"send", "disk", "frame", "crash"}
    /\ MaxFaults \in Nat

VARIABLES
    log,     \* the messages the Server accepted, in order
    queue,   \* those not acknowledged
    lane,    \* whether frames carry seq
    link,    \* the bridge socket
    frames,  \* frames sent on it and not yet dispatched
    pump,    \* the frame in hand
    acks,    \* ack_bridge_envelope tasks
    todo,    \* approval tasks waiting for _approval_lock, in order
    hold,    \* the task that holds it
    rec,     \* pending_dm_approvals.json: the record of each held envelope
    contact, \* the stranger in the local contact file
    sent,    \* prompts that reached the operator
    replyTo, \* the prompt an operator message answers
    faults

wireVars == <<log, queue, lane, link, frames>>
peopleVars == <<sent, replyTo>>
keylessVars == <<storeVars, wireVars, pump, acks, todo, hold, rec, contact, peopleVars, faults>>

Replies == Yes \cup No
PendingDelivered == "pending_delivered"
NoRecord == [decision |-> "none", phase |-> "pending", seq |-> FALSE, prompt |-> None]
NoFrame == [step |-> "idle", cur |-> None, seq |-> FALSE, verdict |-> "terminal", defer |-> FALSE]
NoTask == [kind |-> "free", id |-> None, seq |-> FALSE, step |-> "start", left |-> <<>>, cur |-> None]

Records == {m \in Msgs : rec[m] # NoRecord}
Decided == {m \in Records : rec[m].decision # "pending"}
Matched(r) == {m \in Records : rec[m].prompt # None /\ rec[m].prompt = replyTo[r]}
Admitted(m) == disp[m] \in {"eligible", "local_runtime"}
SentMsgs == ToSet(log)

KeylessTypeOK ==
    /\ log \in Seq(Msgs) /\ IsInjective(log) /\ queue \subseteq SentMsgs
    /\ lane \in BOOLEAN /\ link \in {"up", "down"}
    /\ frames \in Seq(Msgs \cup {PendingDelivered})
    /\ pump.step \in {"idle", "judge", "store"} /\ pump.cur \in Msgs \cup {None}
    /\ pump.verdict \in {"eligible", "terminal", "foreign_dm_gated"}
    /\ acks \subseteq Msgs
    /\ \A k \in {todo[i] : i \in DOMAIN todo} \cup {hold} :
         /\ k.kind \in {"free", "record", "reply", "resume"} /\ k.id \in Msgs \cup {None}
         /\ k.step \in {"start", "next", "apply", "save", "ack", "prompt"}
         /\ k.left \in Seq(Msgs) /\ k.cur \in Msgs \cup {None}
    /\ \A m \in Msgs : /\ rec[m].decision \in {"none", "pending", "approved", "denied"}
                       /\ rec[m].phase \in {"pending", "applied"}
                       /\ rec[m].prompt \in Prompts \cup {None}
    /\ contact \in {"unknown", "allowed", "blocked"}
    /\ sent \subseteq Prompts /\ replyTo \in [Msgs -> Prompts \cup {None}]
    /\ faults \in 0..MaxFaults

KeylessInit ==
    /\ StoreInit
    /\ log = <<>> /\ queue = {} /\ lane \in Lanes /\ link = "down" /\ frames = <<>>
    /\ pump = NoFrame /\ acks = {} /\ todo = <<>> /\ hold = NoTask
    /\ rec = [m \in Msgs |-> NoRecord] /\ contact = "unknown"
    /\ sent = {} /\ replyTo = [m \in Msgs |-> None]
    /\ faults = 0

Fault(kind) ==
    /\ kind \in FaultKinds
    /\ faults < MaxFaults /\ faults' = faults + 1

-----------------------------------------------------------------------------
\* The Server and the people behind it (external).

Accept(m) ==
    /\ m \notin SentMsgs
    /\ log' = Append(log, m) /\ queue' = queue \cup {m}
    /\ frames' = IF link = "up" THEN Append(frames, m) ELSE frames
    /\ UNCHANGED <<storeVars, lane, link, pump, acks, todo, hold, rec, contact, sent, faults>>

Send(m) == m \notin Replies /\ Accept(m) /\ UNCHANGED replyTo

OperatorReplies(m, p) ==
    /\ m \in Replies /\ p \in sent
    /\ Accept(m) /\ replyTo' = [replyTo EXCEPT ![m] = p]

\* GlobalInboxRuntime admits a pending row and completes the turn.
RuntimeProcesses(m) ==
    LET p == [pst EXCEPT ![m] = "processed"]
    IN  /\ m \in VisiblePending
        /\ pst' = p /\ RefreshNotice(p, contrib)
        /\ UNCHANGED <<disp, seqd, turnOf, seen, renotified, covered, turnVars>>
        /\ UNCHANGED <<wireVars, pump, acks, todo, hold, rec, contact, peopleVars, faults>>

-----------------------------------------------------------------------------
\* listen_bridge: connect, fetch_pending, drain frames.

Connect ==
    /\ link = "down" /\ pump.step = "idle"
    /\ link' = "up"
    /\ lane' \in {lane, lane \/ MayUpgrade}
    /\ frames' = Append(SelectSeq(log, LAMBDA m : m \in queue), PendingDelivered)
    /\ UNCHANGED <<storeVars, log, queue, pump, acks, todo, hold, rec, contact, peopleVars, faults>>

Hangup == link = "up" /\ link' = "down" /\ frames' = <<>>

\* The socket closes with nothing going on.
Disconnect ==
    /\ Hangup /\ frames = <<>> /\ pump.step = "idle"
    /\ acks = {} /\ todo = <<>> /\ hold = NoTask
    /\ UNCHANGED <<storeVars, log, queue, lane, pump, acks, todo, hold, rec, contact, peopleVars, faults>>

\* The socket closes under frames, the pump or a task.
Drop ==
    /\ Hangup /\ Fault("send")
    /\ UNCHANGED <<storeVars, log, queue, lane, pump, acks, todo, hold, rec, contact, peopleVars>>

\* A spawned task: it runs until it asks for _approval_lock.
Task(kind, m, seq) == [NoTask EXCEPT !.kind = kind, !.id = m, !.seq = seq]

\* dispatch_bridge_frame.
IsMessage(f) == f # PendingDelivered

TakeMessage ==
    /\ pump.step = "idle" /\ frames # <<>> /\ IsMessage(Head(frames))
    /\ frames' = Tail(frames)
    /\ pump' = [NoFrame EXCEPT !.step = "judge", !.cur = Head(frames), !.seq = lane]
    /\ UNCHANGED <<storeVars, log, queue, lane, link, acks, todo, hold, rec, contact, peopleVars, faults>>

TakePendingDelivered ==
    /\ pump.step = "idle" /\ frames # <<>> /\ ~IsMessage(Head(frames))
    /\ frames' = Tail(frames)
    /\ todo' = Append(todo, Task("resume", None, FALSE))
    /\ UNCHANGED <<storeVars, log, queue, lane, link, pump, acks, hold, rec, contact, peopleVars, faults>>

\* An exception while a frame is handled: it is logged and not acknowledged.
FrameFails ==
    /\ pump.step # "idle" /\ Fault("frame")
    /\ pump' = NoFrame
    /\ UNCHANGED <<storeVars, wireVars, acks, todo, hold, rec, contact, peopleVars>>

\* The frame is done with; ack says whether its acknowledgement is scheduled.
FrameDone(ack) ==
    /\ pump' = NoFrame
    /\ acks' = IF ack THEN acks \cup {pump.cur} ELSE acks

\* store_bridge_payload of a sequence-less frame already stored: the pending
\* approval work is scheduled again, and _redelivery_ack answers for the rest.
RedeliveredAck(m) == disp[m] # "foreign_dm_gated"

JudgeRedelivered ==
    LET m == pump.cur
        reply == m \in Replies /\ disp[m] = "terminal" /\ Matched(m) # {}
    IN  /\ pump.step = "judge" /\ ~pump.seq /\ disp[m] # "absent"
        /\ todo' = CASE disp[m] = "foreign_dm_gated" -> Append(todo, Task("record", m, FALSE))
                     [] reply -> Append(todo, Task("reply", m, FALSE))
                     [] OTHER -> todo
        /\ FrameDone(RedeliveredAck(m) /\ ~reply)
        /\ UNCHANGED <<storeVars, wireVars, hold, rec, contact, peopleVars, faults>>

FirstSight == pump.step = "judge" /\ (pump.seq \/ disp[pump.cur] = "absent")
Rule(verdict, defer) ==
    pump' = [pump EXCEPT !.step = "store", !.verdict = verdict, !.defer = defer]

\* blocked_gate and foreign_dm_gate, for a keyless client: what stops a DM.
DmVerdict == CASE contact = "blocked" -> {"terminal"}
               [] contact = "allowed" -> {}
               [] OTHER -> {"foreign_dm_gated"}

JudgeDm ==
    /\ FirstSight /\ pump.cur \in Dms
    /\ \E v \in DmVerdict : Rule(v, FALSE)
    /\ UNCHANGED <<storeVars, wireVars, acks, todo, hold, rec, contact, peopleVars, faults>>

\* _keyless_operator_reply_gate: an answer to a recorded prompt is consumed, and
\* acknowledged by its own task.
AckAtOnce == FALSE
AckWhenDurable == TRUE

JudgeReply ==
    /\ FirstSight /\ pump.cur \in Replies /\ Matched(pump.cur) # {}
    /\ todo' = Append(todo, Task("reply", pump.cur, FALSE))
    /\ Rule("terminal", AckWhenDurable)
    /\ UNCHANGED <<storeVars, wireVars, acks, hold, rec, contact, peopleVars, faults>>

\* No gate stops the message: it is eligible, or too old for the model.
JudgeUngated(verdict) ==
    /\ FirstSight /\ verdict \in {"eligible", "terminal"}
    /\ pump.cur \in Dms => DmVerdict = {}
    /\ pump.cur \in Replies => Matched(pump.cur) = {}
    /\ Rule(verdict, FALSE)
    /\ UNCHANGED <<storeVars, wireVars, acks, todo, hold, rec, contact, peopleVars, faults>>

-----------------------------------------------------------------------------
\* _commit_bridge_verdict and _persist_eligible_bridge_payload.

\* What the store does with the receipt: insert it, give a sequence to a row
\* that has none, or leave a row that is already there.
Persist(m) ==
    \/ pump.seq /\ InsertReceipt(m, pump.verdict)
    \/ pump.seq /\ BackfillSequence(m, pump.verdict)
    \/ ~pump.seq /\ pump.verdict # "eligible" /\ StoreLocalReceipt(m, pump.verdict)
    \/ ~pump.seq /\ pump.verdict = "eligible" /\ StoreLocalEvent(m)
    \/ disp[m] # "absent" /\ (pump.seq => seqd[m]) /\ UNCHANGED storeVars

\* Whether the envelope may be acknowledged.  A verdict takes the store's own
\* answer: that of the row when it was there with its sequence, that of the
\* verdict otherwise.  An admitted frame is acknowledged whatever the row is.
StoredVerdict(m) == IF seqd[m] THEN disp[m] ELSE pump.verdict
AckUnlessDeferred(m) == ~pump.defer
MayAck(m) == \/ pump.verdict = "eligible"
             \/ StoredVerdict(m) # "foreign_dm_gated" /\ ~pump.defer

\* record_gated_dm is scheduled for a row that was written and for one that was
\* there, with the sequence the frame carried.
NeedsRecord(m) == pump.verdict = "foreign_dm_gated"

StoreFrame ==
    LET m == pump.cur
    IN  /\ pump.step = "store"
        /\ Persist(m)
        /\ todo' = IF NeedsRecord(m) THEN Append(todo, Task("record", m, pump.seq)) ELSE todo
        /\ FrameDone(MayAck(m))
        /\ UNCHANGED <<wireVars, hold, rec, contact, peopleVars, faults>>

\* ack_bridge_envelope: a failed acknowledgement is only logged.
AckEnvelope(m) ==
    /\ m \in acks /\ acks' = acks \ {m}
    /\ \/ link = "up" /\ queue' = queue \ {m} /\ UNCHANGED faults
       \/ link = "up" /\ Fault("send") /\ UNCHANGED queue
       \/ link = "down" /\ UNCHANGED <<queue, faults>>
    /\ UNCHANGED <<storeVars, log, lane, link, frames, pump, todo, hold, rec, contact, peopleVars>>

-----------------------------------------------------------------------------
\* Approval tasks, under _approval_lock.

TakeLock ==
    /\ hold = NoTask /\ todo # <<>>
    /\ hold' = Head(todo) /\ todo' = Tail(todo)
    /\ UNCHANGED <<storeVars, wireVars, pump, acks, rec, contact, peopleVars, faults>>

Running(kind, step) == hold.kind = kind /\ hold.step = step
Go(step) == hold' = [hold EXCEPT !.step = step]
Finalize(ids) == hold' = [hold EXCEPT !.step = "next", !.left = ids]
Release == hold' = NoTask

\* _persist_or_restore: the change is written, or undone.
Write(f) == rec' = f /\ UNCHANGED faults
WriteFails == Fault("disk") /\ UNCHANGED rec

\* A record that joins a group takes its prompt and its decision, not its phase.
Join(new, base) == [new EXCEPT !.prompt = base.prompt, !.decision = base.decision]

\* record_gated_dm of an envelope with a record, of the first of its group, and
\* of one that joins the group.
RecordGatedDm ==
    LET m == hold.id
        new == [NoRecord EXCEPT !.decision = "pending", !.seq = hold.seq]
        done == UNCHANGED <<storeVars, wireVars, pump, acks, todo, contact, peopleVars>>
    IN  /\ Running("record", "start") /\ done
        /\ \/ m \in Records /\ Release /\ UNCHANGED <<rec, faults>>
           \/ m \notin Records /\ WriteFails /\ Release
           \/ /\ Records = {}
              /\ Write([rec EXCEPT ![m] = new]) /\ Go("prompt")
           \/ /\ m \notin Records
              /\ \E base \in Records :
                   /\ Write([rec EXCEPT ![m] = Join(new, rec[base])])
                   /\ IF rec[base].decision = "pending" THEN Release ELSE Finalize(<<m>>)

\* _send_prompt: the prompt reaches the operator and its id is recorded across
\* the group; or it does, and the answer or the write is lost; or it does not.
SendPrompt(p) ==
    /\ hold.step = "prompt" /\ link = "up" /\ p \notin sent
    /\ sent' = sent \cup {p}
    /\ \/ Write([m \in Msgs |-> IF m \in Records THEN [rec[m] EXCEPT !.prompt = p] ELSE rec[m]])
       \/ WriteFails
       \/ Fault("send") /\ UNCHANGED rec
    /\ Release
    /\ UNCHANGED <<storeVars, wireVars, pump, acks, todo, contact, replyTo>>

PromptFails ==
    /\ hold.step = "prompt" /\ (link = "down" \/ sent = Prompts)
    /\ Release
    /\ UNCHANGED <<storeVars, wireVars, pump, acks, todo, rec, contact, peopleVars, faults>>

\* maybe_handle_operator_reply: the decision is durable across the matched group
\* before any of its members is finalized.
Answer(r) == IF r \in Yes THEN "approved" ELSE "denied"
Decide(ms, d) == [m \in Msgs |-> IF m \in ms /\ rec[m].decision = "pending"
                                 THEN [rec[m] EXCEPT !.decision = d] ELSE rec[m]]

HandleOperatorReply ==
    LET r == hold.id
        ms == Matched(r)
        before == {rec[m].decision : m \in ms} \ {"pending"}
    IN  /\ Running("reply", "start")
        /\ \/ ms = {} /\ Release /\ UNCHANGED <<rec, acks, faults>>
           \/ /\ before \ {Answer(r)} # {}
              /\ acks' = acks \cup {r} /\ Release /\ UNCHANGED <<rec, faults>>
           \/ /\ ms # {} /\ before \subseteq {Answer(r)}
              /\ Write(Decide(ms, Answer(r)))
              /\ \E ids \in SetToSeqs(ms) : Finalize(ids)
              /\ UNCHANGED acks
           \/ /\ ms # {} /\ before = {}
              /\ WriteFails /\ Release /\ UNCHANGED acks
        /\ UNCHANGED <<storeVars, wireVars, pump, todo, contact, peopleVars>>

\* resume_pending_approvals: decided records are finalized, then a missing prompt
\* is sent again.
ResumePendingApprovals ==
    /\ Running("resume", "start")
    /\ \E ids \in SetToSeqs(Decided) : Finalize(ids)
    /\ UNCHANGED <<storeVars, wireVars, pump, acks, todo, rec, contact, peopleVars, faults>>

\* No member is left to finalize.
FinalizeDone ==
    LET unprompted == Records # Decided /\ \A m \in Records \ Decided : rec[m].prompt = None
    IN  /\ hold.step = "next" /\ hold.left = <<>>
        /\ IF hold.kind = "resume" /\ unprompted THEN Go("prompt") ELSE Release
        /\ acks' = IF hold.kind = "reply" THEN acks \cup {hold.id} ELSE acks
        /\ UNCHANGED <<storeVars, wireVars, pump, todo, rec, contact, peopleVars, faults>>

\* _finalize_record up to the store call: the record is read again and the
\* contact is noted and saved.
FinalizeNext ==
    LET m == Head(hold.left)
        at(step) == hold' = [hold EXCEPT !.step = step, !.cur = m, !.left = Tail(@)]
        noted == IF rec[m].decision = "approved" THEN "allowed" ELSE "blocked"
    IN  /\ hold.step = "next" /\ hold.left # <<>>
        /\ \/ m \notin Records /\ at("next") /\ UNCHANGED <<contact, faults>>
           \/ /\ m \in Records /\ rec[m].phase = "applied"
              /\ at("ack") /\ UNCHANGED <<contact, faults>>
           \/ /\ m \in Records /\ rec[m].phase = "pending"
              /\ \/ contact' = noted /\ at("apply") /\ UNCHANGED faults
                 \/ contact # noted /\ Fault("disk") /\ at("next") /\ UNCHANGED contact
        /\ UNCHANGED <<storeVars, wireVars, pump, acks, todo, rec, peopleVars>>

\* promote_gated_receipt or tombstone_gated_dm: COMMITTED, IDEMPOTENT, and a
\* CONFLICT or an exception, which leave the record as it is and never acknowledge.
ApplyTransition ==
    LET m == hold.cur
        yes == rec[m].decision = "approved"
        associated == disp[m] # "absent" /\ seqd[m] = rec[m].seq
        already == IF yes THEN Admitted(m) /\ pst[m] = "pending" ELSE disp[m] = "terminal"
        held == disp[m] = "foreign_dm_gated" /\ pst[m] = "null"
    IN  /\ hold.step = "apply"
        /\ \/ /\ associated /\ held /\ Go("save")
              /\ IF yes THEN PromoteGatedReceipt(m) ELSE TombstoneGated({m})
              /\ UNCHANGED faults
           \/ associated /\ already /\ Go("save") /\ UNCHANGED <<storeVars, faults>>
           \/ /\ ~(associated /\ (held \/ already))
              /\ Go("next") /\ UNCHANGED <<storeVars, faults>>
           \/ Fault("disk") /\ Go("next") /\ UNCHANGED storeVars
        /\ UNCHANGED <<wireVars, pump, acks, todo, rec, contact, peopleVars>>

\* phase=applied is saved before the acknowledgement is sent.
SaveApplied ==
    /\ hold.step = "save"
    /\ \/ Write([rec EXCEPT ![hold.cur].phase = "applied"]) /\ Go("ack")
       \/ WriteFails /\ Go("next")
    /\ UNCHANGED <<storeVars, wireVars, pump, acks, todo, contact, peopleVars>>

\* send_ack, then the record is removed; any failure keeps it for the next resume.
AckRecord ==
    LET acked == queue' = queue \ {hold.cur}
    IN  /\ hold.step = "ack" /\ Go("next")
        /\ \/ link = "up" /\ acked /\ Write([rec EXCEPT ![hold.cur] = NoRecord])
           \/ link = "up" /\ acked /\ WriteFails
           \/ link = "up" /\ (acked \/ UNCHANGED queue) /\ Fault("send") /\ UNCHANGED rec
           \/ link = "down" /\ UNCHANGED <<queue, rec, faults>>
        /\ UNCHANGED <<storeVars, log, lane, link, frames, pump, acks, todo, contact, peopleVars>>

\* The process dies: the database, the records and the contacts remain.  A send
\* in flight may still arrive.
Crash ==
    /\ Fault("crash")
    /\ link' = "down" /\ frames' = <<>> /\ pump' = NoFrame
    /\ acks' = {} /\ todo' = <<>> /\ hold' = NoTask
    /\ \/ UNCHANGED sent
       \/ \E p \in Prompts \ sent : hold.step = "prompt" /\ link = "up" /\ sent' = sent \cup {p}
    /\ UNCHANGED <<storeVars, log, queue, lane, rec, contact, replyTo>>

-----------------------------------------------------------------------------
PumpStep ==
    \/ TakeMessage \/ TakePendingDelivered
    \/ JudgeRedelivered \/ JudgeDm \/ JudgeReply
    \/ \E v \in {"eligible", "terminal"} : JudgeUngated(v)
    \/ StoreFrame

ApprovalStep ==
    \/ TakeLock \/ RecordGatedDm \/ (\E p \in Prompts : SendPrompt(p)) \/ PromptFails
    \/ HandleOperatorReply \/ ResumePendingApprovals
    \/ FinalizeNext \/ FinalizeDone \/ ApplyTransition \/ SaveApplied \/ AckRecord

AckStep == \E m \in acks : AckEnvelope(m)

KeylessNext ==
    \/ \E m \in Msgs : Send(m) \/ RuntimeProcesses(m) \/ \E p \in Prompts : OperatorReplies(m, p)
    \/ Connect \/ Disconnect \/ Drop \/ FrameFails
    \/ PumpStep \/ ApprovalStep \/ AckStep
    \/ Crash

KeylessSpec == KeylessInit /\ [][KeylessNext]_keylessVars

\* The event loop runs every ready task; the listener reconnects for ever, and
\* no connection lasts for ever.
FairKeylessSpec ==
    /\ KeylessSpec
    /\ WF_keylessVars(Connect) /\ WF_keylessVars(Disconnect)
    /\ WF_keylessVars(PumpStep) /\ WF_keylessVars(ApprovalStep) /\ WF_keylessVars(AckStep)

-----------------------------------------------------------------------------
\* Properties.

\* A stranger's DM becomes readable only after the operator said yes to a prompt:
\* no order of frames, redeliveries, resumed approvals and crashes admits it by
\* another way (foreign_dm_gate, _apply_local_transition).
UnapprovedUnread ==
    \A m \in Dms : Admitted(m) => \E y \in Yes : y \in SentMsgs

\* A held DM stays with the Server until its sender is decided upon, and when every
\* frame carries its sequence until its sender is allowed: whatever is redelivered,
\* resumed or lost, no acknowledgement is sent for a row that is still gated
\* (_commit_bridge_verdict, _redelivery_ack, _finalize_record).
HeldStaysQueued ==
    \A m \in Dms : disp[m] = "foreign_dm_gated" =>
        \/ m \in queue
        \/ contact = "allowed"
        \/ contact = "blocked" /\ Lanes # {TRUE}

\* A held DM can still be released or refused: the Server has it, or an approval
\* record does that the store will accept (_redelivery_ack: otherwise "the message
\* would then exist nowhere it could be read").
HeldNotLost ==
    \A m \in Dms : disp[m] = "foreign_dm_gated" =>
        \/ m \in queue
        \/ m \in Records /\ rec[m].phase = "pending" /\ rec[m].seq = seqd[m]

\* An operator's answer to a recorded prompt leaves the Server's queue only once
\* its decision is durable, so that a crash can lose neither
\* (_finish_keyless_dm_operator_reply).
AnswerOutlivesItsAck ==
    \A r \in Replies : r \in SentMsgs \ queue =>
        \A m \in Matched(r) : rec[m].decision # "pending"

\* The two lists agree with the records: nothing the operator refused is readable
\* and nothing they allowed is tombstoned, through any interleaving of the group's
\* finalizations (_finalize_record, _maybe_handle_operator_reply_locked).
AppliedAsDecided ==
    \A m \in Records : rec[m].phase = "applied" =>
        IF rec[m].decision = "approved" THEN Admitted(m) ELSE disp[m] = "terminal"

\* An answer to a recorded prompt takes effect in the end, whatever was lost on
\* the way: redelivery brings it back until a decision is durable, and resume
\* carries the decision to the contact list.
AnswerTakesEffect ==
    \A r \in Replies : (r \in queue /\ Matched(r) # {}) ~> contact # "unknown"

\* Until its sender is decided upon, every held DM gets its record, and hence its
\* prompt, in the end: redelivery schedules record_gated_dm until one is durable.
HeldIsRecorded ==
    \A m \in Dms : disp[m] = "foreign_dm_gated" ~>
        (m \in Records \/ disp[m] # "foreign_dm_gated" \/ contact # "unknown")
=============================================================================
