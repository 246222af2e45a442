------------------------------- MODULE WsLocal -------------------------------
(***************************************************************************)
(* A local tool attached to an agent (portal/ws_local: endpoint.py,        *)
(* registry.py, hub.py, route.py, session.py, bundles.py, bridge.py, and   *)
(* ws_local_client.py for the tool's side of the socket).                  *)
(*                                                                         *)
(* A connection claims the agent's only slot, gets a runtime of its own    *)
(* and publishes it on the agent's long-lived client.  Then three tasks    *)
(* share it: the session's frame loop, its watchdog, and the runtime,      *)
(* which sends one bundle per turn and waits for the tool to end it.       *)
(* Whoever ends first takes the others down.                               *)
(*                                                                         *)
(* A bundle announces a turn and has the number of the turn; the tool      *)
(* reads the one Inbox message with a tool call, reports the bundle        *)
(* admitted, and ends it.  The v1 wire shape, in which delivery admits, is *)
(* left out, and so are statuses and the words of frames.                  *)
(***************************************************************************)
EXTENDS Values, Sequences, FiniteSets

CONSTANTS MaxWlConns, MaxWlTurns, MaxWlWire,
          MaxWlEnds      \* times the Server stream ends under the consumer

VARIABLES wlConn,    \* connections so far; the last one may hold the slot
          wlStep,    \* of the slot: "off", "claimed", "attached", "closing"
          wlPub,     \* connection whose runtime is published on the client, 0 if none
          wlOwn,     \* connection whose runtime the session runs on
          wlAlive,   \* the session's _alive
          wlFly,     \* bundle in flight, 0 if none
          wlAdm,     \* it was admitted
          wlLoop,    \* frame loop
          wlWatch,   \* watchdog
          wlAge,     \* time since the last frame: 0, 1 or 2
          wlTool,    \* the tool: "open", "gone" without a word, or "closed"
          wlWire,    \* frames of the tool not yet read
          wlTurn,    \* the runtime's active turn, 0 if none
          wlPlan,    \* turns planned so far; the last may be running
          wlRun,     \* runtime task: "off", "idle", "waiting", "acked", "closed", "finish"
          wlLock,    \* holder of _turn_state_lock: "free", "watch" or "loop"
          wlMsg,     \* the message: "queued", "turn" or "done"
          wlMsgTurn, \* the turn that last held it
          wlSaid,    \* bundles the tool ended
          wlEnded,   \* bundles reported as succeeded
          wlEnds

wlSession == <<wlAlive, wlFly, wlAdm, wlLoop, wlWatch, wlAge>>
wlRuntime == <<wlTurn, wlPlan, wlRun, wlLock, wlMsg, wlMsgTurn>>
wlSlot == <<wlConn, wlStep, wlPub, wlOwn>>
wlPeer == <<wlTool, wlWire, wlSaid>>
wlVars == <<wlSlot, wlSession, wlPeer, wlRuntime, wlEnded, wlEnds>>

WlInit ==
  /\ wlConn = 0 /\ wlStep = "off" /\ wlPub = 0 /\ wlOwn = 0
  /\ wlAlive = FALSE /\ wlFly = 0 /\ wlAdm = FALSE /\ wlLoop = "done" /\ wlWatch = "off" /\ wlAge = 0
  /\ wlTool = "closed" /\ wlWire = <<>> /\ wlSaid = {}
  /\ wlTurn = 0 /\ wlPlan = 0 /\ wlRun = "off" /\ wlLock = "free" /\ wlMsg = "queued" /\ wlMsgTurn = 0
  /\ wlEnded = {} /\ wlEnds = 0

WlFrames == [kind : {"admitted", "end", "read", "ping"}, bundle : 1..MaxWlTurns]
LockIsFree == wlLock = "free"

(***************************************************************************)
(* The slot (serve_connection, SessionRegistry, _make_ws_session).         *)
(***************************************************************************)
\* The runtime of the connection is published only once the attachment has begun.
PublishesLater(k) == wlPub

SlotIsFree == wlStep = "off"
\* The session reuses the runtime it finds on the client, else it gets one of its own.
SessionRunsOn(k) == IF wlPub = 0 THEN k ELSE wlPub

\* A connection for a slot that is held is rejected and leaves nothing behind; the tool tries again
\* with the next one.
ServeConnection ==
  /\ SlotIsFree /\ wlConn < MaxWlConns
  /\ wlConn' = wlConn + 1 /\ wlStep' = "claimed" /\ wlTool' = "open" /\ wlWire' = <<>>
  /\ wlOwn' = SessionRunsOn(wlConn') /\ wlPub' = PublishesLater(wlConn')
  /\ wlAlive' = TRUE /\ wlFly' = 0 /\ wlAdm' = FALSE /\ wlLoop' = "recv" /\ wlWatch' = "off" /\ wlAge' = 0
  /\ UNCHANGED <<wlRuntime, wlSaid, wlEnded, wlEnds>>

\* The answer to the handshake cannot be written: the slot is released.
HandshakeFails ==
  /\ wlStep = "claimed" /\ wlTool # "open" /\ wlStep' = "off" /\ wlTool' = "closed" /\ wlLoop' = "done"
  /\ UNCHANGED <<wlConn, wlPub, wlOwn, wlAlive, wlFly, wlAdm, wlWatch, wlAge, wlWire, wlSaid, wlRuntime,
                 wlEnded, wlEnds>>

\* Both tasks start; the runtime first puts back what an earlier one left in a turn.
RunAttached ==
  /\ wlStep = "claimed" /\ wlStep' = "attached" /\ wlPub' = wlOwn
  /\ wlWatch' = "on" /\ wlRun' = "idle" /\ wlMsg' = IF wlMsg = "turn" THEN "queued" ELSE wlMsg
  /\ UNCHANGED <<wlConn, wlOwn, wlAlive, wlFly, wlAdm, wlLoop, wlAge, wlPeer, wlTurn, wlPlan, wlLock,
                 wlMsgTurn, wlEnded, wlEnds>>

(***************************************************************************)
(* The tool.                                                               *)
(***************************************************************************)
ToolSends(f) ==
  /\ wlTool = "open" /\ wlStep \in {"attached", "closing"} /\ Len(wlWire) < MaxWlWire
  /\ f.bundle \in 1..wlPlan /\ (f.kind \in {"read", "ping"} => f.bundle = wlPlan)
  /\ wlWire' = Append(wlWire, f) /\ wlSaid' = IF f.kind = "end" THEN wlSaid \cup {f.bundle} ELSE wlSaid
  /\ UNCHANGED <<wlSlot, wlSession, wlTool, wlRuntime, wlEnded, wlEnds>>

ToolLeaves ==
  /\ wlTool = "open" /\ wlTool' \in {"gone", "closed"}
  /\ UNCHANGED <<wlSlot, wlSession, wlWire, wlSaid, wlRuntime, wlEnded, wlEnds>>

(***************************************************************************)
(* Death of the session (_die, on_dead), in the loop or in the watchdog.   *)
(***************************************************************************)
Dies(next) ==
  /\ wlAlive' = FALSE /\ wlFly' = 0 /\ wlAdm' = FALSE
  /\ wlRun' = IF wlRun = "waiting" THEN "closed" ELSE wlRun
  /\ next = IF wlTurn # 0 THEN "lock" ELSE "close"

\* on_dead puts the messages of the active turn back under the turn lock.
PutBack ==
  /\ wlMsg' = IF wlMsg = "turn" THEN "queued" ELSE wlMsg
  /\ wlTurn' = 0

DeathUnchanged ==
  UNCHANGED <<wlSlot, wlAlive, wlFly, wlAdm, wlAge, wlPlan, wlMsgTurn, wlEnded, wlEnds, wlSaid>>

DeathStep(who, at, to) ==
  \/ /\ at = "lock" /\ LockIsFree /\ wlLock' = who /\ to = "requeue" /\ UNCHANGED <<wlTurn, wlMsg, wlTool, wlWire, wlRun>>
  \/ /\ at = "requeue" /\ PutBack /\ wlLock' = "free" /\ to = "close" /\ UNCHANGED <<wlTool, wlWire, wlRun>>
  \/ /\ at = "close" /\ wlTool' = "closed" /\ wlWire' = <<>> /\ to = IF who = "watch" THEN "off" ELSE "done"
     /\ UNCHANGED <<wlTurn, wlMsg, wlLock, wlRun>>

LoopDies == DeathStep("loop", wlLoop, wlLoop') /\ UNCHANGED wlWatch /\ DeathUnchanged
WatchdogDies == DeathStep("watch", wlWatch, wlWatch') /\ UNCHANGED wlLoop /\ DeathUnchanged

(***************************************************************************)
(* The watchdog.                                                           *)
(***************************************************************************)
\* Only a frame read resets the age.
OwnPingsCount == wlAge > 2   \* the pings the daemon sends would keep the age at most there
QuietTooLong == wlAge > 1

WatchdogTick ==
  /\ wlWatch = "on" /\ wlAlive /\ QuietTooLong
  /\ Dies(wlWatch')
  /\ UNCHANGED <<wlSlot, wlLoop, wlAge, wlPeer, wlTurn, wlPlan, wlLock, wlMsg, wlMsgTurn, wlEnded, wlEnds>>

WlClock ==
  /\ wlWatch = "on" /\ wlAge < 2 /\ wlAge' = wlAge + 1
  /\ UNCHANGED <<wlSlot, wlAlive, wlFly, wlAdm, wlLoop, wlWatch, wlPeer, wlRuntime, wlEnded, wlEnds>>

(***************************************************************************)
(* The frame loop (run, _dispatch).                                        *)
(***************************************************************************)
NamesInFlight(f) == wlFly # 0 /\ wlFly = f.bundle

\* Where the loop goes with a frame: to the admission, the tool call, the end of the bundle, or on.
Dispatched(f) ==
  CASE f.kind = "admitted" /\ NamesInFlight(f) /\ ~wlAdm -> "admit"
    [] f.kind = "read" -> "tool"
    [] f.kind = "end" /\ NamesInFlight(f) /\ ~wlAdm -> "reject"
    [] f.kind = "end" /\ NamesInFlight(f) /\ wlAdm -> "end"
    [] OTHER -> "recv"

RecvFrame ==
  /\ wlStep # "claimed" /\ wlLoop = "recv" /\ wlAlive /\ wlWire # <<>>
  /\ wlAge' = 0 /\ wlWire' = Tail(wlWire) /\ wlLoop' = Dispatched(Head(wlWire))
  /\ wlFly' = IF wlLoop' = "end" THEN 0 ELSE wlFly
  /\ UNCHANGED <<wlSlot, wlAlive, wlAdm, wlWatch, wlTool, wlSaid, wlRuntime, wlEnded, wlEnds>>

\* The socket is closed, or the watchdog declared the session dead before this frame.
LoopEnds ==
  /\ wlStep # "claimed" /\ wlLoop = "recv" /\ (wlTool = "closed" \/ (~wlAlive /\ wlWire # <<>>))
  /\ (wlAlive => wlWire = <<>>) /\ wlLoop' = "out"
  /\ UNCHANGED <<wlSlot, wlAlive, wlFly, wlAdm, wlWatch, wlAge, wlPeer, wlRuntime, wlEnded, wlEnds>>

\* The admission is bound to the turn that was planned for it.
EmitAdmission == wlTurn # 0

\* on_admitted: the runtime binds the turn if it is still the active one; otherwise the loop fails.
OnAdmitted ==
  /\ wlLoop = "admit" /\ LockIsFree
  /\ IF EmitAdmission THEN wlAdm' = TRUE /\ wlLoop' = "recv" ELSE wlLoop' = "out" /\ UNCHANGED wlAdm
  /\ UNCHANGED <<wlSlot, wlAlive, wlFly, wlWatch, wlAge, wlPeer, wlRuntime, wlEnded, wlEnds>>

\* read_inbox, called by the tool, brings the message into the active turn.
RunToolCall ==
  /\ wlLoop = "tool" /\ LockIsFree /\ wlLoop' = "recv"
  /\ IF wlTurn # 0 /\ wlMsg = "queued" THEN wlMsg' = "turn" /\ wlMsgTurn' = wlTurn
     ELSE UNCHANGED <<wlMsg, wlMsgTurn>>
  /\ UNCHANGED <<wlSlot, wlAlive, wlFly, wlAdm, wlWatch, wlAge, wlPeer, wlTurn, wlPlan, wlRun, wlLock,
                 wlEnded, wlEnds>>

\* Ended before it was admitted: the session dies.
RejectEnd ==
  /\ wlLoop = "reject"
  /\ IF wlAlive THEN Dies(wlLoop') ELSE wlLoop' = "recv" /\ UNCHANGED <<wlAlive, wlFly, wlAdm, wlRun>>
  /\ UNCHANGED <<wlSlot, wlWatch, wlAge, wlPeer, wlTurn, wlPlan, wlLock, wlMsg, wlMsgTurn, wlEnded, wlEnds>>

\* The turn is reported as succeeded, then the runtime is told.
OnEnd ==
  /\ wlLoop = "end" /\ wlLoop' = "recv" /\ wlAdm' = FALSE
  /\ wlEnded' = wlEnded \cup {wlPlan} /\ wlRun' = IF wlRun = "waiting" THEN "acked" ELSE wlRun
  /\ UNCHANGED <<wlSlot, wlAlive, wlFly, wlWatch, wlAge, wlPeer, wlTurn, wlPlan, wlLock, wlMsg, wlMsgTurn,
                 wlEnds>>

\* The loop's finally cancels the watchdog, even inside on_dead, and dies unless that was begun.
LoopOut ==
  /\ wlLoop = "out" /\ wlWatch' = "off"
  /\ IF wlAlive THEN Dies(wlLoop') ELSE wlLoop' = "done" /\ UNCHANGED <<wlAlive, wlFly, wlAdm, wlRun>>
  /\ wlLock' = IF wlLock = "watch" THEN "free" ELSE wlLock
  /\ UNCHANGED <<wlSlot, wlAge, wlPeer, wlTurn, wlPlan, wlMsg, wlMsgTurn, wlEnded, wlEnds>>

(***************************************************************************)
(* The runtime (process_once around dispatch_planned).                     *)
(***************************************************************************)
RunUnchanged == UNCHANGED <<wlSlot, wlAlive, wlAdm, wlLoop, wlWatch, wlAge, wlPeer, wlEnded, wlEnds>>

\* One bundle is in flight at a time.
DeliverPlanned(n) == wlAlive /\ wlFly = 0 /\ wlFly' = n

DispatchPlanned ==
  /\ wlStep = "attached" /\ wlRun = "idle" /\ wlMsg = "queued" /\ wlPlan < MaxWlTurns
  /\ wlPlan' = wlPlan + 1 /\ wlTurn' = wlPlan' /\ DeliverPlanned(wlPlan') /\ wlRun' = "waiting"
  /\ UNCHANGED <<wlLock, wlMsg, wlMsgTurn>> /\ RunUnchanged

\* The turn is settled only if it is still the active one when the tool's end is seen.
SeesEnd ==
  /\ wlRun = "acked" /\ wlRun' = IF wlTurn = wlPlan THEN "finish" ELSE "idle"
  /\ UNCHANGED <<wlFly, wlTurn, wlPlan, wlLock, wlMsg, wlMsgTurn>> /\ RunUnchanged

MarkActiveProcessed ==
  /\ wlRun = "finish" /\ LockIsFree /\ wlRun' = "idle" /\ wlTurn' = 0
  /\ wlMsg' = IF wlTurn = wlPlan /\ wlMsg = "turn" THEN "done" ELSE wlMsg
  /\ UNCHANGED <<wlFly, wlPlan, wlLock, wlMsgTurn>> /\ RunUnchanged

HandleProcessFailure ==
  /\ wlRun = "closed" /\ LockIsFree /\ wlRun' = "idle" /\ PutBack
  /\ UNCHANGED <<wlFly, wlPlan, wlLock, wlMsgTurn>> /\ RunUnchanged

(***************************************************************************)
(* Teardown (_run_attached, _stop_ws_consumer).                            *)
(***************************************************************************)
SessionEnded ==
  /\ wlStep = "attached" /\ wlLoop = "done" /\ wlStep' = "closing"
  /\ UNCHANGED <<wlConn, wlPub, wlOwn, wlSession, wlPeer, wlRuntime, wlEnded, wlEnds>>

\* The Server stream ends: the session is cancelled wherever it waits.
ConsumerEnds ==
  /\ wlStep = "attached" /\ wlEnds < MaxWlEnds /\ wlEnds' = wlEnds + 1 /\ wlStep' = "closing"
  /\ wlLoop' = (IF wlLoop \in {"lock", "requeue", "close", "done"} THEN "done" ELSE "out")
  /\ wlLock' = IF wlLock = "loop" THEN "free" ELSE wlLock
  /\ UNCHANGED <<wlConn, wlPub, wlOwn, wlAlive, wlFly, wlAdm, wlWatch, wlAge, wlPeer, wlTurn, wlPlan, wlRun,
                 wlMsg, wlMsgTurn, wlEnded>>

\* A cancelled turn puts its messages back.
CancelledTurn == PutBack

RuntimeCancelled ==
  /\ wlStep = "closing" /\ wlRun # "off" /\ (wlRun # "idle" => LockIsFree) /\ wlRun' = "off"
  /\ IF wlRun = "idle" THEN UNCHANGED <<wlMsg, wlTurn>> ELSE CancelledTurn
  /\ UNCHANGED <<wlFly, wlPlan, wlLock, wlMsgTurn>> /\ RunUnchanged

\* The client is reset before the slot is free.
StopWsConsumer ==
  /\ wlStep = "closing" /\ wlRun = "off" /\ wlLoop = "done"
  /\ wlStep' = "off" /\ wlPub' = 0 /\ wlTool' = "closed" /\ wlWire' = <<>>
  /\ UNCHANGED <<wlConn, wlOwn, wlSession, wlSaid, wlRuntime, wlEnded, wlEnds>>

WlNext ==
  \/ ServeConnection \/ HandshakeFails \/ RunAttached \/ ToolLeaves \/ \E f \in WlFrames : ToolSends(f)
  \/ LoopDies \/ WatchdogDies \/ WatchdogTick \/ WlClock
  \/ RecvFrame \/ LoopEnds \/ OnAdmitted \/ RunToolCall \/ RejectEnd \/ OnEnd \/ LoopOut
  \/ DispatchPlanned \/ SeesEnd \/ MarkActiveProcessed \/ HandleProcessFailure
  \/ SessionEnded \/ ConsumerEnds \/ RuntimeCancelled \/ StopWsConsumer

WlSpec == WlInit /\ [][WlNext]_wlVars

\* The daemon's tasks run and its clock advances; the tool owes nothing.
WlDaemon ==
  \/ HandshakeFails \/ RunAttached \/ LoopDies \/ WatchdogDies \/ WatchdogTick
  \/ RecvFrame \/ LoopEnds \/ OnAdmitted \/ RunToolCall \/ RejectEnd \/ OnEnd \/ LoopOut
  \/ SeesEnd \/ MarkActiveProcessed \/ HandleProcessFailure \/ SessionEnded \/ RuntimeCancelled
  \/ StopWsConsumer
FairWlSpec == WlSpec /\ WF_wlVars(WlDaemon) /\ WF_wlVars(WlClock) /\ WF_wlVars(WatchdogTick)

(***************************************************************************)
(* Properties.                                                             *)
(***************************************************************************)
\* A runtime stands on the client only while the connection that owns it is attached, and a session
\* never runs on a runtime of an earlier connection (_install_owned_runtime, _stop_ws_consumer).
OwnedRuntimeIsLive ==
  /\ wlPub # 0 => wlPub = wlConn /\ wlStep \in {"attached", "closing"}
  /\ wlStep # "off" => wlOwn = wlConn

\* A message is processed only by the end the tool sent for the bundle of the turn that held it
\* (_on_end, BundleQueue.ack).
DoneWasEnded == wlMsg = "done" => wlMsgTurn \in wlSaid

\* When the slot is free again no message is left in a turn, whichever of the session's death, the
\* failure of the turn and the cancellation of the runtime came first or was cut short (on_dead,
\* _requeue_active_turn, _run_attached).
DetachedLeavesNothing == wlStep = "off" => wlMsg # "turn" /\ wlTurn = 0

\* A tool that vanished without closing its socket loses the slot (_watchdog_tick).
VanishedToolIsDetached == (wlStep = "attached" /\ wlTool = "gone") ~> (wlStep = "off")

=============================================================================
