--------------------------- MODULE SendCoordinator ---------------------------
(***************************************************************************)
(* Model-authored channel sends: agent/send_coordinator.py with the         *)
(* freshness sources the runtime injects (global_inbox_types.py,            *)
(* global_inbox_held.py), the reply contract (send_response_validation.py)  *)
(* and the admission of a held send's context (global_inbox_admission.py).  *)
(*                                                                          *)
(* A call is one send_message tool call.  It runs in a handler task of its  *)
(* own, which the end of the turn does not cancel.  An action is the code   *)
(* between two awaits; the held lock is never held across one, so it is not *)
(* a variable.  A channel's messages are numbered by position: the server   *)
(* sequence and the envelope id of a row are the same number here.          *)
(***************************************************************************)
EXTENDS Values, Integers, Sequences, FiniteSets, SequencesExt, FiniteSetsExt

CONSTANTS
    MaxCalls,       \* send_message calls
    Channels,
    Drafts,         \* the arguments of a call without send_anyway
    FileBytes,      \* contents the attached file can have
    MaxPeerPosts,   \* the most messages of others in a channel
    MaxTurns,
    SendStarts,     \* lane (FALSE signed, TRUE keyless), stored baseline, how many
                    \* replies are lost or steps fail, and messages of others
    SendSessions,   \* provider sessions
    MaxHeldRecords, \* _MAX_HELD_RECORDS (8)
    RowLimit        \* rows a held recovery returns (50)

ASSUME SendAssumption ==
    /\ MaxCalls \in Nat
    /\ MaxPeerPosts \in Nat /\ MaxTurns \in Nat /\ MaxHeldRecords \in Nat \ {0}
    /\ RowLimit \in Nat \ {0}
    /\ SendStarts \subseteq BOOLEAN \X (Nat \cup {Nothing}) \X Nat \X (0..MaxPeerPosts)

VARIABLES
    keylessLane, \* which transport this Agent has
    peers,       \* how many messages others post in a channel
    sendWire,        \* the Server's log of each channel: whose message, which envelope
    row,         \* the local row of each message
    ctxBaseline, \* channel_context_state
    turn,        \* active.turn_id and the provider session
    turnCount,
    adopted,     \* the turn is one the provider started
    through,     \* active.through_by_channel
    heldMap,     \* _held_evidence, in insertion order
    heldGen,     \* _held_generation
    recovered,   \* _held_admission_evidence
    staged,      \* held results whose admission callback is registered
    attempts,    \* SendAttemptState.states
    chanLock,    \* _channel_locks
    call,        \* each call's task
    heldOnce,    \* history: what the Server held
    established, \* history: the baseline a commit without one established
    lateAdvance, \* history: a boundary was written after its turn ended
    sendFaults   \* losses and failures still to come

sceneVars == <<keylessLane, peers>>
serverSide == <<sendWire, sceneVars>>
sendTurnVars == <<turn, turnCount, adopted, through, lateAdvance>>
lockVars == <<chanLock, attempts>>
heldVars == <<heldMap, heldGen, recovered, staged, heldOnce, established>>
sendVars == <<serverSide, row, ctxBaseline, sendTurnVars, heldVars, lockVars, call,
              sendFaults>>

Unbound == -1   \* no turn was active when the boundary was asked for
NoTurn == [id |-> 0, session |-> Nothing]
Calls == 1..MaxCalls
Seqs == 1..(MaxPeerPosts + MaxCalls)
RowStates == {"absent", "pending", "in_turn", "processed", "terminal"}

\* A call: its arguments, the boundary it resolved, the held head it is
\* recovering and for whom, and what it returned.
NoSendCall == [step |-> "idle", chan |-> Nothing, draft |-> Nothing, anyway |-> FALSE,
           gen |-> 0, base |-> Nothing, shown |-> Nothing, bytes |-> Nothing, seen |-> 0,
           key |-> NoTurn, watermark |-> 0, owner |-> NoTurn, sync |-> FALSE,
           asker |-> "send", tries |-> 0, env |-> 1, latest |-> 0, proven |-> Nothing,
           result |-> "none", context |-> FALSE]

WireHead(c) == Len(sendWire[c])
FullIdentity(t) == t.id # 0 /\ t.session # Nothing

SendInit ==
    /\ \E s \in SendStarts :
          /\ keylessLane = s[1] /\ ctxBaseline = [c \in Channels |-> s[2]]
          /\ sendFaults = s[3] /\ peers = s[4]
    /\ sendWire = [c \in Channels |-> <<>>]
    /\ row = [c \in Channels |-> [i \in Seqs |-> "absent"]]
    /\ turn = NoTurn /\ turnCount = 0 /\ adopted = FALSE /\ attempts = <<>>
    /\ through = [c \in Channels |-> Nothing]
    /\ heldMap = <<>> /\ heldGen = 0 /\ recovered = {} /\ staged = {} /\ heldOnce = {}
    /\ established = [c \in Channels |-> 0]
    /\ chanLock = [c \in Channels |-> Nothing]
    /\ call = [p \in Calls |-> NoSendCall] /\ lateAdvance = FALSE

CallIs(p, s) == call[p].step = s
CallAt(p, s) == [call[p] EXCEPT !.step = s]
SendFault == sendFaults > 0 /\ sendFaults' = sendFaults - 1

-----------------------------------------------------------------------------
\* What the model has seen of a channel.

KnownRows(r, b, c) == {i \in Seqs : r[c][i] # "absent" /\ i > OrZero(b[c])}

\* Whether a row lets the boundary past it.
AnyKnown(r, c, i, candidate) == TRUE
RowAdmissible(r, c, i, candidate) ==
    r[c][i] \in {"terminal", "in_turn", "processed"} \/ i = candidate

\* get_model_visible_through_seq over the rows r and the baselines b: the
\* highest row with no blocker below it.
VisibleThrough(r, b, c, candidate) ==
    LET known == {i \in KnownRows(r, b, c) : candidate = Nothing \/ i <= candidate}
    IN MaxOrNone({i \in known : \A j \in known : j <= i => RowAdmissible(r, c, j, candidate)})

\* The value advance_active_turn_through_seq stores for a candidate.
Advanced(r, b, c, candidate) ==
    LET proven == VisibleThrough(r, b, c, candidate)
    IN IF proven # Nothing THEN proven
       ELSE IF KnownRows(r, b, c) = {} THEN candidate ELSE through[c]

\* get_active_turn_through_seq, from what the store answered.
ActiveBoundary(p) ==
    IF call[p].shown = Unbound THEN Nothing
    ELSE MaxOrNone({call[p].shown, through[call[p].chan]} \ {Nothing})

\* The store's half of it, which an await separates from the rest.
StoreBoundary(p) ==
    IF turn.id = 0 THEN Unbound ELSE VisibleThrough(row, ctxBaseline, call[p].chan, Nothing)

-----------------------------------------------------------------------------
\* Held evidence.

KeyOf(t, c) == [turn |-> t, chan |-> c]
HeldOf(key) == {r \in ToSet(heldMap) : r.key = key}
HeldWithout(map, key) == SelectSeq(map, LAMBDA r : r.key # key)

\* _prune_stale_held_locked
HeldPruned(map) ==
    LET mine == IF FullIdentity(turn) THEN SelectSeq(map, LAMBDA r : r.key.turn = turn) ELSE map
        over == Len(mine) - MaxHeldRecords
    IN IF over > 0 THEN SubSeq(mine, over + 1, Len(mine)) ELSE mine

\* The turn that owned the call tore down while it was in flight.
TornDown(p) == call[p].gen # heldGen

\* A record of the call replaces the one of its turn and channel.
HeldReplaced(key, new) == Append(HeldWithout(heldMap, key), new)

\* _record_held: the newest attempt owns the record of its turn and channel.
HeldRecorded(p, watermark) ==
    LET key == KeyOf(call[p].key, call[p].chan)
        new == [key |-> key, latest |-> watermark, draft |-> call[p].draft,
                bytes |-> call[p].bytes, sync |-> FALSE]
        stays == \E r \in HeldOf(key) : watermark <= r.latest /\ r.draft = call[p].draft
    IN IF TornDown(p) THEN heldMap
       ELSE HeldPruned(IF stays THEN heldMap ELSE HeldReplaced(key, new))

\* _held_evidence_matches, and the compare in _commit_held_recovery.
HeldMatches(p) ==
    \E r \in HeldOf(KeyOf(call[p].owner, call[p].chan)) :
        r.latest = call[p].watermark /\ r.draft = call[p].draft

MarkSynchronized(p) ==
    [i \in DOMAIN heldMap |->
        IF heldMap[i].key = KeyOf(call[p].owner, call[p].chan)
        THEN [heldMap[i] EXCEPT !.sync = TRUE] ELSE heldMap[i]]

-----------------------------------------------------------------------------
\* Finishing a call.

ChannelUnlock(p) ==
    IF call[p].chan = Nothing THEN UNCHANGED chanLock
    ELSE chanLock' = [chanLock EXCEPT ![call[p].chan] = Nothing]

\* Only the keyless lane recovers and reads the context inside the lock, and
\* under the identity the request was made with.
HeldUnlocks(p) == IF keylessLane THEN UNCHANGED chanLock ELSE ChannelUnlock(p)
HeldContextTurn(p) == IF keylessLane THEN call[p].key ELSE turn

\* The delegate's states[-1] = state: the newest attempt gets the outcome,
\* whichever call returns it; after a reset there is none and the call raises.
SendSettled(r) == IF attempts = <<>> THEN attempts ELSE [attempts EXCEPT ![Len(attempts)] = r]
CallDone(r) ==
    [NoSendCall EXCEPT !.step = "done", !.result = IF attempts = <<>> THEN "raised" ELSE r]

\* A call that is done has left the channel's lock and settled its attempt.
CallContinues(p, state) ==
    /\ call' = [call EXCEPT ![p] = state]
    /\ attempts' = IF state.step = "done" THEN SendSettled(state.result) ELSE attempts
    /\ IF state.step = "done" THEN ChannelUnlock(p) ELSE UNCHANGED chanLock

\* The boundary of a send: the key is the identity of the turn active now.
CallBound(p, active, state) ==
    [state EXCEPT !.step = "post", !.key = turn,
                  !.seen = Max({OrZero(state.base), OrZero(active)})]

-----------------------------------------------------------------------------
\* A call up to its boundary.

\* send, up to the wait for the channel's lock; b is what the attached file
\* will hold when _materialize_attachments reads it.  Calls are numbered in the
\* order they are made.
SendMessage(p, c, d, b, anyway) ==
    /\ CallIs(p, "idle") /\ \A q \in Calls : q < p => ~CallIs(q, "idle")
    /\ call' = [call EXCEPT ![p] = [NoSendCall EXCEPT !.step = "lock", !.chan = c, !.draft = d,
                                                  !.bytes = b, !.anyway = anyway]]
    /\ attempts' = Append(attempts, "attempting")
    /\ UNCHANGED <<serverSide, row, ctxBaseline, sendTurnVars, heldVars, chanLock, sendFaults>>

\* A direct message has no boundary: one request, whose reply is lost or refused
\* or does not validate.
SendDm(p) ==
    /\ CallIs(p, "idle") /\ \A q \in Calls : q < p => ~CallIs(q, "idle")
    /\ call' = [call EXCEPT ![p] = [NoSendCall EXCEPT !.step = "dm"]]
    /\ attempts' = Append(attempts, "attempting")
    /\ UNCHANGED <<serverSide, row, ctxBaseline, sendTurnVars, heldVars, chanLock, sendFaults>>

DmAnswered(p) ==
    /\ CallIs(p, "dm")
    /\ \/ CallContinues(p, CallDone("sent")) /\ UNCHANGED sendFaults
       \/ CallContinues(p, CallDone("failed")) /\ SendFault
    /\ UNCHANGED <<serverSide, row, ctxBaseline, sendTurnVars, heldVars>>

\* The lock, the discard generation, the context baseline (which only the
\* holder of this lock writes) and the store's part of the active boundary.
TakeChannelLock(p) ==
    /\ CallIs(p, "lock") /\ chanLock[call[p].chan] = Nothing
    /\ chanLock' = [chanLock EXCEPT ![call[p].chan] = p]
    /\ call' = [call EXCEPT ![p] = [CallAt(p, "boundary") EXCEPT !.gen = heldGen,
                                      !.base = ctxBaseline[call[p].chan],
                                      !.shown = StoreBoundary(p)]]
    /\ UNCHANGED <<serverSide, row, ctxBaseline, sendTurnVars, heldVars, attempts, sendFaults>>

\* _resolve_send_boundary of an ordinary send.
ResolveBoundary(p) ==
    /\ CallIs(p, "boundary") /\ ~call[p].anyway
    /\ call' = [call EXCEPT ![p] = CallBound(p, ActiveBoundary(p), call[p])]
    /\ UNCHANGED <<serverSide, row, ctxBaseline, sendTurnVars, heldVars, lockVars, sendFaults>>

\* The record a reconsideration may rest on: of this turn and channel, of this
\* draft with the bytes it had (_held_draft_reason).
HeldFitting(map, state) ==
    {r \in ToSet(map) : /\ r.key = KeyOf(state.owner, state.chan)
                        /\ r.draft = state.draft /\ r.bytes = state.bytes}

\* The second look at the record, after any recovery, and the store's part of
\* the boundary it is graded against.
HeldRegraded(p, map, state) ==
    LET rs == HeldFitting(map, state)
    IN IF rs = {} THEN CallDone("failed")
       ELSE LET r == CHOOSE r \in rs : TRUE
            IN [state EXCEPT !.step = "verdict", !.sync = r.sync, !.watermark = r.latest,
                             !.shown = StoreBoundary(p)]

\* _reconsideration_decision up to its first await: no identity, no record or
\* another draft is ineligible; a record not yet synchronized is recovered.
Reconsider(p) ==
    LET me == [call[p] EXCEPT !.owner = turn, !.asker = "decide"]
        rs == HeldFitting(heldMap, me)
    IN /\ CallIs(p, "boundary") /\ call[p].anyway
       /\ CallContinues(p, IF ~FullIdentity(turn) \/ rs = {} THEN CallDone("failed")
                       ELSE IF \E r \in rs : r.sync THEN HeldRegraded(p, heldMap, me)
                       ELSE [me EXCEPT !.step = "wait", !.watermark = (CHOOSE r \in rs : TRUE).latest])
       /\ UNCHANGED <<serverSide, row, ctxBaseline, sendTurnVars, heldVars, sendFaults>>

\* _admission_verdict: synchronized, admitted through the held head, same turn.
OverrideEligible(p) ==
    /\ call[p].sync
    /\ ActiveBoundary(p) # Nothing /\ ActiveBoundary(p) >= call[p].watermark
    /\ turn = call[p].owner

AdmissionVerdict(p) ==
    /\ CallIs(p, "verdict")
    /\ CallContinues(p, IF OverrideEligible(p) THEN CallBound(p, ActiveBoundary(p), call[p])
                        ELSE CallDone("failed"))
    /\ UNCHANGED <<serverSide, row, ctxBaseline, sendTurnVars, heldVars, sendFaults>>

-----------------------------------------------------------------------------
\* Held recovery: wait for the exact row, query the rows below it, mark the
\* record synchronized if it is still the one that was held.

\* Where a recovery returns to: the send that was held reads its context, the
\* reconsideration looks at the record again.
SendRecoveryNext(p, map, state) ==
    IF state.asker = "decide" THEN HeldRegraded(p, map, state)
    ELSE [state EXCEPT !.step = "context"]

RecoveryFails(p) == CallContinues(p, SendRecoveryNext(p, heldMap, call[p])) /\ UNCHANGED heldMap

\* _wait_for_held_delivery answers, and the record is looked at again.
HeldDelivered(p) ==
    /\ CallIs(p, "wait") /\ row[call[p].chan][call[p].watermark] # "absent"
    /\ IF HeldMatches(p) /\ FullIdentity(turn)
       THEN /\ CallContinues(p, [CallAt(p, "rows") EXCEPT !.proven = turn.session])
            /\ UNCHANGED heldMap
       ELSE RecoveryFails(p)
    /\ UNCHANGED <<serverSide, row, ctxBaseline, sendTurnVars, heldGen, recovered, staged,
                   heldOnce, established, sendFaults>>

\* The wait timed out and the pending catch-up did not bring the row either.
HeldWaitTimesOut(p) ==
    /\ CallIs(p, "wait") /\ row[call[p].chan][call[p].watermark] = "absent"
    /\ RecoveryFails(p)
    /\ UNCHANGED <<serverSide, row, ctxBaseline, sendTurnVars, heldGen, recovered, staged,
                   heldOnce, established, sendFaults>>

\* query_held_messages after its awaits, and _commit_held_recovery.  The
\* evidence goes under the turn that is active by now.
QueryHeldMessages(p) ==
    LET c == call[p].chan
        w == call[p].watermark
        rows == {i \in Seqs : /\ row[c][i] # "absent" /\ i <= w
                              /\ i > OrZero(VisibleThrough(row, ctxBaseline, c, Nothing))}
        evidence == [key |-> KeyOf([id |-> turn.id, session |-> call[p].proven], c),
                     latest |-> w, displayed |-> rows]
        commits == call[p].proven = call[p].owner.session /\ turn = call[p].owner /\ HeldMatches(p)
    IN /\ CallIs(p, "rows")
       /\ IF Cardinality(rows) > RowLimit
          THEN RecoveryFails(p) /\ UNCHANGED recovered
          ELSE /\ recovered' = {e \in recovered : e.key # evidence.key \/ e.latest # w}
                                 \cup {evidence}
               /\ heldMap' = IF commits THEN MarkSynchronized(p) ELSE heldMap
               /\ CallContinues(p, SendRecoveryNext(p, heldMap', call[p]))
       /\ UNCHANGED <<serverSide, row, ctxBaseline, sendTurnVars, heldGen, staged, heldOnce,
                      established, sendFaults>>

-----------------------------------------------------------------------------
\* The request and its answer.

PeerPost == [by |-> Nothing, env |-> 0]
CallEnvelope(p) == [by |-> p, env |-> call[p].env]
OnWire(p) == CallEnvelope(p) \in ToSet(sendWire[call[p].chan])
PlaceOf(p) == CHOOSE i \in DOMAIN sendWire[call[p].chan] : sendWire[call[p].chan][i] = CallEnvelope(p)

\* The Server (external): a known envelope is replayed; require_current is held
\* when the channel went past the boundary; without a baseline it may commit
\* and establish one at the head.
ServerReplays(p) == OnWire(p)
ServerHolds(p) ==
    /\ ~OnWire(p) /\ ~call[p].anyway
    /\ WireHead(call[p].chan) > Max({OrZero(call[p].base), call[p].seen})
ServerCommits(p) ==
    /\ ~OnWire(p)
    /\ call[p].anyway \/ ~ServerHolds(p) \/ call[p].base = Nothing

\* An accepted sent reply; latest_seq_before_send is the place below.
PostSent(p) ==
    /\ CallIs(p, "post")
    /\ ServerReplays(p) \/ ServerCommits(p)
    /\ sendWire' = IF OnWire(p) THEN sendWire
               ELSE [sendWire EXCEPT ![call[p].chan] = Append(@, CallEnvelope(p))]
    /\ LET at == IF OnWire(p) THEN PlaceOf(p) ELSE WireHead(call[p].chan) + 1
       IN call' = [call EXCEPT ![p] = [CallAt(p, "sent") EXCEPT !.latest = at - 1]]
    /\ UNCHANGED <<sceneVars, row, ctxBaseline, sendTurnVars, heldVars, lockVars, sendFaults>>

\* A held reply: the record of it, then the recovery.  The keyless lane keeps
\* the channel lock until the call returns.
PostHeld(p) ==
    LET w == WireHead(call[p].chan)
        map == HeldRecorded(p, w)
        me == [CallAt(p, "wait") EXCEPT !.watermark = w, !.owner = turn, !.asker = "send",
                                    !.result = "held"]
        begins == FullIdentity(turn) /\ \E r \in ToSet(map) :
                     r.key = KeyOf(turn, me.chan) /\ r.latest = w /\ r.draft = me.draft
    IN /\ CallIs(p, "post") /\ ServerHolds(p)
       /\ heldMap' = map
       /\ heldOnce' = heldOnce \cup {[turn |-> call[p].key, chan |-> me.chan, draft |-> me.draft,
                                      bytes |-> me.bytes, latest |-> w]}
       /\ call' = [call EXCEPT ![p] = IF begins THEN me ELSE [me EXCEPT !.step = "context"]]
       /\ HeldUnlocks(p)
       /\ UNCHANGED <<serverSide, row, ctxBaseline, sendTurnVars, heldGen, recovered, staged,
                      established, attempts, sendFaults>>

\* A request of the call that is sent again is the same request.
RebuiltRequest(p) == [call[p] EXCEPT !.tries = @ + 1, !.env = 2]
SameRequest(p) == [call[p] EXCEPT !.tries = @ + 1]

\* No reply: the same body once more, then the outcome is unknown.  The Server
\* may have acted on it.
PostUnanswered(p) ==
    /\ CallIs(p, "post") /\ SendFault
    /\ \/ UNCHANGED sendWire
       \/ ServerCommits(p) /\ sendWire' = [sendWire EXCEPT ![call[p].chan] = Append(@, CallEnvelope(p))]
    /\ CallContinues(p, IF call[p].tries = 0 THEN SameRequest(p) ELSE CallDone("unknown"))
    /\ UNCHANGED <<sceneVars, row, ctxBaseline, sendTurnVars, heldVars>>

\* CHANNEL_FORMAT_MISMATCH: the channel's policy is read again and, if it
\* changed, the message is built anew in the other format, once.
PostReformatted(p) ==
    /\ CallIs(p, "post") /\ ~OnWire(p) /\ call[p].env = 1 /\ SendFault
    /\ call' = [call EXCEPT ![p] = [call[p] EXCEPT !.tries = 0, !.env = 2]]
    /\ UNCHANGED <<serverSide, row, ctxBaseline, sendTurnVars, heldVars, lockVars>>

\* The route, the recipients or an attachment cannot be prepared.
PrepareFails(p) ==
    /\ CallIs(p, "post") /\ call[p].tries = 0 /\ SendFault /\ CallContinues(p, CallDone("failed"))
    /\ UNCHANGED <<serverSide, row, ctxBaseline, sendTurnVars, heldVars>>

\* The Server refuses, or its reply breaks the contract: it may have committed.
PostFails(p) ==
    /\ CallIs(p, "post") /\ SendFault /\ CallContinues(p, CallDone("failed"))
    /\ \/ UNCHANGED sendWire
       \/ ServerCommits(p) /\ sendWire' = [sendWire EXCEPT ![call[p].chan] = Append(@, CallEnvelope(p))]
    /\ UNCHANGED <<sceneVars, row, ctxBaseline, sendTurnVars, heldVars>>

-----------------------------------------------------------------------------
\* After the answer.

\* The boundary follows an own message only when it was sent over no gap.
NoGap(p) ==
    call[p].latest = Max({call[p].seen, IF call[p].base = Nothing THEN call[p].latest
                                        ELSE call[p].base})

\* _consume_held, persist_baseline (the baseline the Server established, if the
\* request had none; a failed write is only noted in the result) and the
\* store's part of the advance.
FinishSent(p) ==
    /\ CallIs(p, "sent")
    /\ heldMap' = HeldPruned(HeldWithout(heldMap, KeyOf(call[p].key, call[p].chan)))
    /\ \/ call[p].base # Nothing /\ UNCHANGED <<ctxBaseline, sendFaults>>
       \/ /\ call[p].base = Nothing /\ UNCHANGED sendFaults
          /\ ctxBaseline' = [ctxBaseline EXCEPT ![call[p].chan] = call[p].latest]
       \/ call[p].base = Nothing /\ SendFault /\ UNCHANGED ctxBaseline
    /\ CallContinues(p, IF NoGap(p) /\ turn.id # 0
                    THEN [CallAt(p, "advance") EXCEPT !.owner = turn, !.proven =
                            Advanced(row, ctxBaseline', call[p].chan, call[p].latest + 1)]
                    ELSE CallDone("sent"))
    /\ established' = IF call[p].base # Nothing THEN established
                      ELSE [established EXCEPT ![call[p].chan] = call[p].latest]
    /\ UNCHANGED <<serverSide, row, sendTurnVars, heldGen, recovered, staged, heldOnce>>

\* What the store proved is written into the active union.
AdvanceThrough(p) ==
    /\ CallIs(p, "advance")
    /\ through' = [through EXCEPT ![call[p].chan] = call[p].proven]
    /\ lateAdvance' = (lateAdvance \/ turn.id # call[p].owner.id)
    /\ CallContinues(p, CallDone("sent"))
    /\ UNCHANGED <<serverSide, row, ctxBaseline, turn, turnCount, adopted, heldVars,
                   sendFaults>>

\* _held_context_output after its network read, and stage_held_send_result: the
\* record must still be this draft's; a synchronized one whose evidence is at
\* hand registers an admission callback for exactly the rows displayed.
HeldContext(p) ==
    LET key == KeyOf(HeldContextTurn(p), call[p].chan)
        own == {r \in HeldOf(key) : r.draft = call[p].draft}
        ready == {e \in recovered : /\ FullIdentity(turn) /\ e.key = KeyOf(turn, call[p].chan)
                                    /\ \E r \in own : r.sync /\ r.latest = e.latest}
    IN /\ CallIs(p, "context")
       /\ call' = [call EXCEPT ![p] = [CallDone("held") EXCEPT !.context = own # {}]]
       /\ attempts' = SendSettled("held")
       /\ staged' = staged \cup ready
       /\ IF keylessLane THEN ChannelUnlock(p) ELSE UNCHANGED chanLock
       /\ UNCHANGED <<serverSide, row, ctxBaseline, sendTurnVars, heldMap, heldGen, recovered,
                      heldOnce, established, sendFaults>>

-----------------------------------------------------------------------------
\* Around the calls: the channel, the model's reads, the turn.

PeerPosts(c) ==
    /\ Len(SelectSeq(sendWire[c], LAMBDA e : e = PeerPost)) < peers
    /\ sendWire' = [sendWire EXCEPT ![c] = Append(@, PeerPost)]
    /\ UNCHANGED <<sceneVars, row, ctxBaseline, sendTurnVars, heldVars, lockVars, call,
                   sendFaults>>

\* The receive path stores a message: the Agent's own are terminal receipts.
ReceiveRow(c, i) ==
    /\ i \in DOMAIN sendWire[c] /\ row[c][i] = "absent"
    /\ \A j \in 1..(i - 1) : row[c][j] # "absent"
    /\ row' = [row EXCEPT ![c][i] = IF sendWire[c][i] = PeerPost THEN "pending" ELSE "terminal"]
    /\ UNCHANGED <<serverSide, ctxBaseline, sendTurnVars, heldVars, lockVars, call, sendFaults>>

RowsAdmitted(c, S) == [row EXCEPT ![c] = [i \in Seqs |->
                      IF i \in S /\ row[c][i] = "pending" THEN "in_turn" ELSE row[c][i]]]

\* _admit_visible_read: a page of channel history reached the provider.
AdmitVisibleRead(c, from, to) ==
    LET page == {i \in from..to : row[c][i] # "absent"}
    IN /\ FullIdentity(turn) /\ to \in page
       /\ row' = RowsAdmitted(c, page)
       /\ through' = [through EXCEPT ![c] = Advanced(row', ctxBaseline, c, to)]
       /\ UNCHANGED <<serverSide, ctxBaseline, turn, turnCount, adopted, lateAdvance,
                      heldVars, lockVars, call, sendFaults>>

\* The displayed rows are still this turn's to admit.
EvidenceFits(e) ==
    /\ e.key.turn = turn
    /\ \A i \in e.displayed : row[e.key.chan][i] # "processed"
    /\ e.latest \in e.displayed \/ row[e.key.chan][e.latest] # "pending"

\* _admit_held_recovery: the provider consumed a held result.
AdmitHeldRecovery(e) ==
    /\ e \in staged /\ staged' = staged \ {e}
    /\ IF EvidenceFits(e)
       THEN /\ row' = RowsAdmitted(e.key.chan, e.displayed)
            /\ through' = [through EXCEPT ![e.key.chan] =
                             Advanced(row', ctxBaseline, e.key.chan, e.latest)]
            /\ recovered' = recovered \ {e}
       ELSE UNCHANGED <<row, through, recovered>>
    /\ UNCHANGED <<serverSide, ctxBaseline, turn, turnCount, adopted, lateAdvance, heldMap,
                   heldGen, heldOnce, established, lockVars, call, sendFaults>>

\* _start_local_turn leaves through_by_channel alone, _adopt clears it.
SendTurnStarts(session, autonomous) ==
    /\ turn = NoTurn /\ turnCount < MaxTurns
    /\ turnCount' = turnCount + 1
    /\ turn' = [id |-> turnCount + 1, session |-> session]
    /\ adopted' = autonomous /\ attempts' = <<>>
    /\ through' = IF autonomous THEN [c \in Channels |-> Nothing] ELSE through
    /\ UNCHANGED <<serverSide, row, ctxBaseline, lateAdvance, heldVars, chanLock, call,
                   sendFaults>>

\* A retry is admitted by a replacement session.
RollSession(session) ==
    /\ turn.id # 0 /\ session # turn.session
    /\ turn' = [turn EXCEPT !.session = session]
    /\ UNCHANGED <<serverSide, row, ctxBaseline, turnCount, adopted, through, lateAdvance,
                   heldVars, lockVars, call, sendFaults>>

\* discard_held_evidence
HeldDiscarded == heldMap' = <<>> /\ heldGen' = heldGen + 1

\* _clear_terminal_turn, with the store's completion or release of the rows.
EndTurn(completed) ==
    /\ turn.id # 0
    /\ row' = [c \in Channels |-> [i \in Seqs |->
                 IF row[c][i] # "in_turn" THEN row[c][i]
                 ELSE IF completed THEN "processed" ELSE "pending"]]
    /\ turn' = NoTurn /\ adopted' = FALSE /\ through' = [c \in Channels |-> Nothing]
    /\ recovered' = {e \in recovered : e.key.turn.id # turn.id}
    /\ HeldDiscarded
    /\ attempts' = IF adopted THEN <<>> ELSE attempts
    /\ UNCHANGED <<serverSide, ctxBaseline, turnCount, lateAdvance, staged, heldOnce,
                   established, chanLock, call, sendFaults>>

SendCallStep(p) ==
    \/ TakeChannelLock(p) \/ ResolveBoundary(p) \/ Reconsider(p) \/ AdmissionVerdict(p)
    \/ HeldDelivered(p) \/ HeldWaitTimesOut(p) \/ QueryHeldMessages(p)
    \/ DmAnswered(p) \/ PostSent(p) \/ PostHeld(p)
    \/ FinishSent(p) \/ AdvanceThrough(p) \/ HeldContext(p)

SendNext ==
    \/ \E p \in Calls : \/ \E c \in Channels, d \in Drafts, b \in FileBytes, a \in BOOLEAN :
                               SendMessage(p, c, d, b, a)
                        \/ SendDm(p) \/ SendCallStep(p)
                        \/ PostUnanswered(p) \/ PostReformatted(p)
                        \/ PrepareFails(p) \/ PostFails(p)
    \/ \E c \in Channels : \/ PeerPosts(c)
                           \/ \E i \in Seqs : ReceiveRow(c, i)
                           \/ \E i, j \in Seqs : AdmitVisibleRead(c, i, j)
    \/ \E e \in staged : AdmitHeldRecovery(e)
    \/ \E s \in SendSessions \cup {Nothing}, a \in BOOLEAN : SendTurnStarts(s, a)
    \/ \E s \in SendSessions : RollSession(s)
    \/ \E ok \in BOOLEAN : EndTurn(ok)

SendSpec == SendInit /\ [][SendNext]_sendVars

-----------------------------------------------------------------------------
\* Properties.

\* The state has its types: one record per turn and channel, at most
\* _MAX_HELD_RECORDS of them; a channel lock belongs to a call that uses it.
SendTypeOK ==
    /\ \A c \in Channels : /\ row[c] \in [Seqs -> RowStates]
                           /\ ctxBaseline[c] \in Nat \cup {Nothing}
                           /\ through[c] \in Nat \cup {Nothing}
                           /\ chanLock[c] # Nothing => call[chanLock[c]].chan = c
    /\ turn.id \in 0..turnCount /\ turnCount <= MaxTurns /\ heldGen \in 0..MaxTurns
    /\ Len(heldMap) <= MaxHeldRecords
    /\ \A i, j \in DOMAIN heldMap : heldMap[i].key = heldMap[j].key => i = j
    /\ \A p \in Calls : call[p].result \in
                             {"none", "sent", "held", "failed", "unknown", "raised"}

\* Decrypted held context never outlives its turn: a send that was in flight
\* when the turn tore down does not put its record back behind the discard.
HeldBelongsToTurn == \A r \in ToSet(heldMap) : r.key.turn.id \in {0, turn.id}

\* A call commits at most one message, however its replies are lost and its
\* envelope rebuilt: _post_channel_exact repeats the very same request.
SentAtMostOnce ==
    \A c \in Channels : \A i, j \in DOMAIN sendWire[c] :
        i # j /\ sendWire[c][i] # PeerPost => sendWire[c][i].by # sendWire[c][j].by

\* Nothing others wrote in channel c up to n, above an established baseline, is
\* unread: each such message is terminal or was shown to the model.
SeenUpTo(c, n) ==
    \A i \in DOMAIN sendWire[c] :
        i > established[c] /\ i <= n /\ sendWire[c][i] = PeerPost
            => row[c][i] \in {"in_turn", "processed", "terminal"}

\* The freshness boundary of the active turn crosses no unread message
\* (get_model_visible_through_seq: a later row is not safe to expose while an
\* earlier one is pending).
BoundaryIsSeen ==
    \A c \in Channels : turn.id # 0 /\ through[c] # Nothing => SeenUpTo(c, through[c])

\* The same, unless a send of an earlier turn wrote its boundary into the
\* union after that turn was torn down.
TimelyBoundaryIsSeen == lateAdvance \/ BoundaryIsSeen

\* send_anyway overrides only what this very turn was held for: the same draft
\* with the same bytes, after the model saw everything up to the held head.
OverrideIsInformed ==
    [][\A p \in Calls :
        call[p].step = "verdict" /\ call'[p].step = "post" =>
          /\ \E h \in heldOnce :
                /\ h.turn = turn /\ h.chan = call[p].chan /\ h.draft = call[p].draft
                /\ h.bytes = call[p].bytes /\ h.latest <= call'[p].seen
          /\ lateAdvance \/ SeenUpTo(call[p].chan, call'[p].seen)]_sendVars
=============================================================================
