----------------------------- MODULE BridgeWire -----------------------------
(***************************************************************************)
(* The keyless agent's one WebSocket (agent/bridge_client.py) and the loop *)
(* that keeps it up (listen_bridge of agent/bridge_transport.py).          *)
(*                                                                         *)
(* One task, the frame pump, reads every inbound frame: it hands answers   *)
(* to the requests that wait for them and dispatches the rest, one at a    *)
(* time.  Requests are made by background tasks, by the invitation poller  *)
(* of the connection, and by the pump itself when a frame it dispatches    *)
(* ends in a DM to the operator.  Sends and decisions carry a reference    *)
(* that their answer repeats; the other requests are answered in order.    *)
(***************************************************************************)
EXTENDS Values, Sequences, SequencesExt

CONSTANTS BridgeKinds,    \* kinds of request a background task makes
          MaxBridgeReqs,  \* requests ever made
          MaxPushes,      \* frames the server pushes
          MaxOutages,     \* times a connection is refused, lost or frozen
          MaxBackoff      \* cap of the count of attempts

BReqs == 1..MaxBridgeReqs

\* send_send and send_decide_invitation carry a client_ref, send_ack,
\* send_list_spaces and send_list_invites have only their order
ByReference(k) == k \in {"send", "decide"}

VARIABLES bConn,   \* [up, sock, frozen, lived]: the socket as client and network see it
          bPump,   \* 0: reading; r: dispatching a frame that waits for request r
          bReq,    \* requests: [kind, by, st, got]
          bFifo,   \* waiter queues of the kinds answered in order
          bSrv,    \* requests the server has not answered, in order
          bWire,   \* frames on their way to the client
          bPoll,   \* [slot, running]: the poller the client owns, pollers alive
          bRetry,  \* [attempt, quick]: listen_bridge's schedule, and the immediate
                   \* attempts since a connection last proved stable
          bHist    \* [outages, pushes, missed]: missed, the kinds of which a request
                   \* stopped waiting on this connection

bVars == <<bConn, bPump, bReq, bFifo, bSrv, bWire, bPoll, bRetry, bHist>>

NoBReq == [kind |-> "none", by |-> "none", st |-> "free", got |-> 0]
DownConn == [up |-> FALSE, sock |-> "none", frozen |-> "no", lived |-> FALSE]
FifoKinds == {"ack", "spaces", "invites"}

BInit ==
  /\ bConn = DownConn
  /\ bPump = 0
  /\ bReq = [r \in BReqs |-> NoBReq]
  /\ bFifo = [k \in FifoKinds |-> <<>>]
  /\ bSrv = <<>>
  /\ bWire = <<>>
  /\ bPoll = [slot |-> FALSE, running |-> 0]
  /\ bRetry = [attempt |-> 0, quick |-> 0]
  /\ bHist = [outages |-> 0, pushes |-> 0, missed |-> {}]

BWaiting(r) == bReq[r].st = "waiting"

(***************************************************************************)
(* Requests.  A waiter is registered before its frame is sent; a request   *)
(* ends with an answer, after 30 s, or when the socket is closed.          *)
(***************************************************************************)
CanAsk == bConn.up /\ \E r \in BReqs : bReq[r].st = "free"
NextReq == CHOOSE r \in BReqs :
             bReq[r].st = "free" /\ \A q \in 1..(r - 1) : bReq[q].st # "free"

Registered(r, k) ==
  bFifo' = IF ByReference(k) THEN bFifo ELSE [bFifo EXCEPT ![k] = Append(@, r)]

RequestMade(r, k, who) ==
  /\ bReq' = [bReq EXCEPT ![r] = [kind |-> k, by |-> who, st |-> "waiting", got |-> 0]]
  /\ Registered(r, k)
  /\ bSrv' = IF bConn.sock = "live" THEN Append(bSrv, r) ELSE bSrv

\* a task makes a request: an acknowledgement, a refresh of the spaces, a prompt
TaskAsks(k) ==
  /\ CanAsk
  /\ RequestMade(NextReq, k, "task")
  /\ UNCHANGED <<bConn, bPump, bWire, bPoll, bRetry, bHist>>

\* the frame cannot be sent: the request fails, its waiter stays until close()
AskFails(k) ==
  /\ CanAsk /\ bConn.sock = "closed"
  /\ bReq' = [bReq EXCEPT ![NextReq] = [kind |-> k, by |-> "task", st |-> "failed", got |-> 0]]
  /\ Registered(NextReq, k)
  /\ UNCHANGED <<bConn, bPump, bSrv, bWire, bPoll, bRetry, bHist>>

PollerAsks ==
  /\ bPoll.running > 0
  /\ ~\E r \in BReqs : bReq[r].by = "poller" /\ BWaiting(r)
  /\ CanAsk
  /\ RequestMade(NextReq, "invites", "poller")
  /\ UNCHANGED <<bConn, bPump, bWire, bPoll, bRetry, bHist>>

\* wait_for gives up; the waiter leaves its queue
DiscardWaiter(r) ==
  bFifo' = IF ByReference(bReq[r].kind) THEN bFifo
           ELSE [bFifo EXCEPT ![bReq[r].kind] = SelectSeq(@, LAMBDA q : q # r)]

AskTimesOut(r) ==
  /\ BWaiting(r)
  /\ bReq' = [bReq EXCEPT ![r].st = "timeout"]
  /\ DiscardWaiter(r)
  /\ bHist' = [bHist EXCEPT !.missed = @ \union {bReq[r].kind}]
  /\ UNCHANGED <<bConn, bPump, bSrv, bWire, bPoll, bRetry>>

(***************************************************************************)
(* The server answers in the order it was asked; it pushes what it likes.  *)
(* "control" is a membership event about this agent or the operator's      *)
(* answer to a leave request, both of which end in a DM to the operator.   *)
(***************************************************************************)
ServerReplies ==
  /\ bSrv # <<>> /\ bConn.sock = "live"
  /\ bWire' = Append(bWire, [type |-> "answer", re |-> Head(bSrv)])
  /\ bSrv' = Tail(bSrv)
  /\ UNCHANGED <<bConn, bPump, bReq, bFifo, bPoll, bRetry, bHist>>

ServerPushes(t) ==
  /\ bConn.sock = "live" /\ bHist.pushes < MaxPushes
  /\ bWire' = Append(bWire, [type |-> t, re |-> 0])
  /\ bHist' = [bHist EXCEPT !.pushes = @ + 1]
  /\ UNCHANGED <<bConn, bPump, bReq, bFifo, bSrv, bPoll, bRetry>>

(***************************************************************************)
(* frames(): one frame at a time.                                          *)
(***************************************************************************)
\* the waiter an answer to request q is handed to: the one with its reference,
\* else the oldest of its kind
WaiterFor(q) ==
  LET k == bReq[q].kind IN
  IF ByReference(k) THEN (IF BWaiting(q) THEN q ELSE 0)
  ELSE IF bFifo[k] = <<>> THEN 0 ELSE Head(bFifo[k])

RouteFrame(q) ==
  LET w == WaiterFor(q) IN
  /\ bReq' = IF w = 0 THEN bReq ELSE [bReq EXCEPT ![w].st = "answered", ![w].got = q]
  /\ bFifo' = IF w = 0 \/ ByReference(bReq[q].kind) THEN bFifo
              ELSE [bFifo EXCEPT ![bReq[q].kind] = Tail(@)]

ArmPoller ==
  bPoll' = IF bPoll.slot THEN bPoll
           ELSE [slot |-> TRUE, running |-> bPoll.running + 1]

\* after a freeze the frame that was buffered is handed on, and no other
NextFrame == bConn.up /\ bPump = 0 /\ bWire # <<>> /\ bConn.frozen # "last"
FrameRead ==
  /\ bWire' = Tail(bWire)
  /\ bConn' = IF bConn.frozen = "yes" THEN [bConn EXCEPT !.frozen = "last"] ELSE bConn

TakeAnswer ==
  /\ NextFrame
  /\ Head(bWire).type = "answer"
  /\ RouteFrame(Head(bWire).re)
  /\ FrameRead
  /\ UNCHANGED <<bPump, bSrv, bPoll, bRetry, bHist>>

\* pending_delivered proves the pump is live: the poller starts
TakePending ==
  /\ NextFrame
  /\ Head(bWire).type = "pending_delivered"
  /\ ArmPoller
  /\ FrameRead
  /\ UNCHANGED <<bPump, bReq, bFifo, bSrv, bRetry, bHist>>

\* _handle_event and the reply handlers of operator_control_gate run in the pump,
\* down to the send_send of their DM: the pump waits for request r
TakeControl ==
  /\ NextFrame
  /\ Head(bWire).type = "control"
  /\ FrameRead
  /\ IF CanAsk /\ bConn.sock # "closed"
     THEN RequestMade(NextReq, "send", "pump") /\ bPump' = NextReq
     ELSE UNCHANGED <<bReq, bFifo, bSrv, bPump>>
  /\ UNCHANGED <<bPoll, bRetry, bHist>>

\* the request the pump waited for is over
PumpResumes ==
  /\ bPump # 0 /\ ~BWaiting(bPump)
  /\ bPump' = 0
  /\ UNCHANGED <<bConn, bReq, bFifo, bSrv, bWire, bPoll, bRetry, bHist>>

(***************************************************************************)
(* The connection and its loss.                                            *)
(***************************************************************************)
Outage == bHist' = [bHist EXCEPT !.outages = @ + 1]

SocketDies ==
  /\ bConn.sock = "live" /\ bHist.outages < MaxOutages
  /\ \E s \in {"silent", "closed"} : bConn' = [bConn EXCEPT !.sock = s]
  /\ bSrv' = <<>>
  /\ Outage
  /\ UNCHANGED <<bPump, bReq, bFifo, bWire, bPoll, bRetry>>

\* the sandbox is paused and resumed: the far end is gone; the clocks show it when
\* the pump was reading
SandboxFreezes ==
  /\ bConn.sock = "live" /\ bPump = 0 /\ bHist.outages < MaxOutages
  /\ bConn' = [bConn EXCEPT !.sock = "silent", !.frozen = "yes"]
  /\ bSrv' = <<>>
  /\ Outage
  /\ UNCHANGED <<bPump, bReq, bFifo, bWire, bPoll, bRetry>>

\* ten seconds pass
ConnectionLives ==
  /\ bConn.up /\ ~bConn.lived /\ bConn.sock = "live"
  /\ bConn' = [bConn EXCEPT !.lived = TRUE]
  /\ UNCHANGED <<bPump, bReq, bFifo, bSrv, bWire, bPoll, bRetry, bHist>>

\* close(): every waiter ends with BridgeClosed
ClosedReqs == [r \in BReqs |-> IF BWaiting(r) THEN [bReq[r] EXCEPT !.st = "closed"]
                               ELSE bReq[r]]
KeptFifo == bFifo
ClosedFifo == [k \in FifoKinds |-> <<>>]

StopPoller ==
  bPoll' = [slot |-> FALSE,
            running |-> bPoll.running - (IF bPoll.slot THEN 1 ELSE 0)]

\* attempt 0 is immediate, later ones are delayed
Backoff(lived) ==
  LET a == IF lived THEN 0 ELSE bRetry.attempt
  IN bRetry' = [attempt |-> Min({a + 1, MaxBackoff}),
                quick |-> (IF lived THEN 0 ELSE bRetry.quick) + (IF a = 0 THEN 1 ELSE 0)]

\* frames() sees a close frame, a jump of its clocks, or 70 s without a frame
SeesLoss(s) == s # "live"

\* the stream ends: a freeze, a close frame, or 70 s without a frame; a frame that
\* was buffered is read first
StreamEnds ==
  /\ bConn.up /\ bPump = 0 /\ SeesLoss(bConn.sock)
  /\ bWire = <<>> \/ bConn.frozen = "last"
  /\ StopPoller
  /\ bReq' = ClosedReqs
  /\ bFifo' = ClosedFifo
  /\ bConn' = DownConn
  /\ Backoff(bConn.lived)
  /\ bWire' = <<>>
  /\ bHist' = [bHist EXCEPT !.missed = {}]
  /\ UNCHANGED <<bPump, bSrv>>

Connects ==
  /\ ~bConn.up
  /\ bConn' = [up |-> TRUE, sock |-> "live", frozen |-> "no", lived |-> FALSE]
  /\ bWire' = <<[type |-> "pending_delivered", re |-> 0]>>
  /\ bPoll' = [bPoll EXCEPT !.slot = FALSE]
  /\ UNCHANGED <<bPump, bReq, bFifo, bSrv, bRetry, bHist>>

ConnectFails ==
  /\ ~bConn.up /\ bHist.outages < MaxOutages
  /\ Backoff(FALSE)
  /\ Outage
  /\ UNCHANGED <<bConn, bPump, bReq, bFifo, bSrv, bWire, bPoll>>

BNext ==
  \/ \E k \in BridgeKinds : TaskAsks(k)
  \/ \E k \in BridgeKinds : AskFails(k)
  \/ PollerAsks
  \/ \E r \in BReqs : AskTimesOut(r)
  \/ ServerReplies
  \/ \E t \in {"pending_delivered", "control"} : ServerPushes(t)
  \/ TakeAnswer
  \/ TakePending
  \/ TakeControl
  \/ PumpResumes
  \/ SocketDies
  \/ SandboxFreezes
  \/ ConnectionLives
  \/ StreamEnds
  \/ Connects
  \/ ConnectFails

BSpec == BInit /\ [][BNext]_bVars

(***************************************************************************)
(* The loop is a task that always runs, a request has its timer, and a     *)
(* server that is up accepts a connection.                                 *)
(***************************************************************************)
FairBSpec ==
  /\ BSpec
  /\ WF_bVars(TakeAnswer \/ TakePending \/ TakeControl \/ PumpResumes)
  /\ WF_bVars(StreamEnds)
  /\ WF_bVars(Connects)
  /\ \A r \in BReqs : WF_bVars(AskTimesOut(r))

(***************************************************************************)
(* Properties.                                                             *)
(***************************************************************************)
\* A request that gets an answer gets its own, whatever timed out before it, if it
\* carries a reference; one that is answered in order gets its own as long as no
\* request of its kind stopped waiting on this connection (_route_frame,
\* _discard_waiter, close): a lost connection never shifts the next one's answers.
AnswersStayInStep ==
  [][\A r \in BReqs :
       BWaiting(r) /\ bReq'[r].st = "answered" /\ bReq'[r].got # r =>
         ~ByReference(bReq[r].kind) /\ bReq[r].kind \in bHist.missed]_bVars

\* Nobody waits for a frame that cannot come: while the client has no socket no
\* request is waiting, and a request that waits in order is in its queue (close
\* fails every waiter, a waiter is registered before its frame is sent).
WaitersAreKnown ==
  /\ ~bConn.up => \A r \in BReqs : ~BWaiting(r)
  /\ \A k \in FifoKinds : {r \in BReqs : bReq[r].kind = k /\ BWaiting(r)} \subseteq ToSet(bFifo[k])

\* A connection has at most one invitation poller and a poller never outlives its
\* connection (_arm_keyless_invite_poller, _stop_keyless_invite_poller).
OnePollerPerConnection ==
  bPoll.running <= 1 /\ (~bConn.up => bPoll.running = 0)

\* A server that accepts and drops the agent is not hit in a hot loop: without a
\* connection that lived ten seconds only one attempt is immediate (listen_bridge,
\* reconnect_delay).
NoHotLoop == bRetry.quick <= 1

\* A socket that died is left and replaced, whatever the pump is doing when it dies
\* (frames: clock_jump, read_timeout, closed; listen_bridge).
DeadSocketIsReplaced ==
  (bConn.up /\ bConn.sock # "live") ~> (bConn.up /\ bConn.sock = "live")

=============================================================================
