---------------------------- MODULE CodexDriver ----------------------------
(***************************************************************************)
(* The Codex driver (agent/harness/drivers/codex.py): a JSON-RPC client of *)
(* a persistent app-server child.  A command of the daemon registers a     *)
(* future, writes its request and waits for it with a timeout              *)
(* (support/jsonl_rpc.py); the read loop settles the futures and turns the *)
(* server's notifications into events.  The reader may handle any number   *)
(* of frames between a response and the moment the waiting command runs.   *)
(***************************************************************************)
EXTENDS Integers, Sequences, FiniteSets

CONSTANTS MaxXTurns,     \* turns started
          MaxXCalls,     \* requests written
          MaxXPerms,     \* permission requests of the server
          MaxXSpends,    \* model requests the server makes
          MaxXWire       \* frames waiting in stdout before the server pauses

XTurns == 1 .. MaxXTurns
NoBase == -1

ASSUME CodexAssumption == MaxXTurns \in Nat

VARIABLES
    cx,       \* the driver's fields
    xCall,    \* the daemon command in progress and its future
    xEnds,    \* terminal events emitted, per turn (history)
    xUsage,   \* per completed turn: tokens reported and tokens spent (history)
    xSrv,      \* the app-server (external)
    wire      \* frames the read loop has not handled yet

xVars == <<cx, xCall, xEnds, xUsage, xSrv, wire>>

NoCall == [k |-> "none", n |-> 0, st |-> "none"]

\* turn, native: _active and _active_native_turn_id; base, used: the output
\* half of _usage_baseline and _usage_latest; perms: _permission_requests, each
\* with the turn it was asked in.  ok is FALSE once the manager must close;
\* compacting is the manager's wait for COMPACTION_COMPLETED, before which it
\* starts no turn.
XInit ==
    /\ cx = [turn |-> 0, native |-> 0, base |-> NoBase, used |-> 0, perms |-> {}, last |-> 0,
             ok |-> TRUE, compacting |-> FALSE]
    /\ xCall = NoCall
    /\ xEnds = [t \in XTurns |-> 0]
    /\ xUsage = [t \in XTurns |-> <<0, 0>>]
    /\ xSrv = [proc |-> "up", req |-> NoCall, turn |-> 0, compact |-> FALSE, total |-> 0, spent |-> 0,
              calls |-> 0, perms |-> 0, spends |-> 0]
    /\ wire = <<>>

-----------------------------------------------------------------------------
\* Commands

\* _reset_usage
ResetUsage(c) == [c EXCEPT !.base = NoBase, !.used = 0]

\* _request: register the future, write the frame
Request(k) ==
    /\ xSrv.calls < MaxXCalls
    /\ xCall' = [k |-> k, n |-> xSrv.calls + 1, st |-> "waiting"]
    /\ xSrv' = [xSrv EXCEPT !.calls = @ + 1, !.req = xCall']

XReady == xSrv.proc \in {"up", "dead"} /\ cx.ok /\ xCall = NoCall

\* start_turn clears the accounting before it issues turn/start
ResetAtStart(c) == ResetUsage(c)

\* start_turn up to its await
StartCall ==
    /\ XReady /\ cx.turn = 0 /\ ~cx.compacting /\ cx.last < MaxXTurns
    /\ cx' = [ResetAtStart(cx) EXCEPT !.turn = cx.last + 1, !.last = @ + 1]
    /\ Request("start")
    /\ UNCHANGED <<xEnds, xUsage, wire>>

\* steer_turn and cancel_turn (_require_active), compact
OtherCall ==
    /\ XReady
    /\ \/ /\ cx.turn # 0 /\ cx.native # 0
          /\ Request("steer") \/ Request("interrupt")
          /\ UNCHANGED cx
       \/ /\ cx.turn = 0 /\ cx.native = 0 /\ ~cx.compacting
          /\ Request("compact")
          /\ cx' = [cx EXCEPT !.compacting = TRUE]
    /\ UNCHANGED <<xEnds, xUsage, wire>>

\* start_turn resumes: the native id, or back to idle and an exception
StartReturns ==
    /\ xCall.k = "start" /\ xCall.st # "waiting"
    /\ cx' = IF xCall.st = "ok"
             THEN [cx EXCEPT !.native = cx.last]
             ELSE [ResetUsage(cx) EXCEPT !.turn = 0, !.ok = FALSE]
    /\ xCall' = NoCall
    /\ UNCHANGED <<xEnds, xUsage, xSrv, wire>>

OtherReturns ==
    /\ xCall.k \in {"steer", "interrupt", "compact"} /\ xCall.st # "waiting"
    /\ cx' = IF xCall.k = "compact" /\ xCall.st = "error"
             THEN [cx EXCEPT !.compacting = FALSE] ELSE cx
    /\ xCall' = NoCall
    /\ UNCHANGED <<xEnds, xUsage, xSrv, wire>>

\* await_rpc_response: a waiting request may time out
MayTimeOut == xCall.st = "waiting"

CallTimesOut ==
    /\ MayTimeOut
    /\ xCall' = [xCall EXCEPT !.st = "timeout"]
    /\ UNCHANGED <<cx, xEnds, xUsage, xSrv, wire>>

\* resolve_permission answers a request that is still on record
ResolvePermission ==
    /\ XReady
    /\ \E p \in cx.perms : cx' = [cx EXCEPT !.perms = @ \ {p}]
    /\ UNCHANGED <<xCall, xEnds, xUsage, xSrv, wire>>

\* close, then open again (_prepare_reopen): every field of the old process goes
CloseCodex ==
    /\ xCall.st # "ok" /\ xSrv.proc # "closed"
    /\ cx' = [ResetUsage(cx) EXCEPT !.turn = 0, !.native = 0, !.perms = {},
                              !.compacting = FALSE]
    /\ xCall' = IF xCall.st = "waiting" THEN [xCall EXCEPT !.st = "failed"] ELSE xCall
    /\ xSrv' = [xSrv EXCEPT !.proc = "closed", !.req = NoCall, !.turn = 0, !.spent = 0,
                          !.compact = FALSE]
    /\ wire' = <<>>
    /\ UNCHANGED <<xEnds, xUsage>>

OpenCodex ==
    /\ xSrv.proc = "closed" /\ xCall = NoCall
    /\ xSrv' = [xSrv EXCEPT !.proc = "up"]
    /\ cx' = [cx EXCEPT !.ok = TRUE]
    /\ UNCHANGED <<xCall, xEnds, xUsage, wire>>

-----------------------------------------------------------------------------
\* _read_loop, _dispatch_frame, _server_request and _notification

\* a response settles the future still pending under its id
HandleResponse(f) ==
    /\ xCall' = IF f.n = xCall.n /\ xCall.st = "waiting"
                THEN [xCall EXCEPT !.st = f.s] ELSE xCall
    /\ UNCHANGED <<cx, xEnds, xUsage>>

HandlePermission(f) ==
    /\ cx' = [cx EXCEPT !.perms = @ \cup {<<f.n, cx.turn>>}]
    /\ UNCHANGED <<xCall, xEnds, xUsage>>

\* thread/tokenUsage/updated: _update_usage; the baseline freezes on the first
\* totals seen, less the request they report
HandleUsage(f) ==
    LET base == IF cx.base = NoBase THEN f.total - f.n ELSE cx.base
    IN  /\ cx' = [cx EXCEPT !.base = base, !.used = f.total - base]
        /\ UNCHANGED <<xCall, xEnds, xUsage>>

\* item/completed of a contextCompaction item: COMPACTION_COMPLETED
HandleCompacted ==
    /\ cx' = [cx EXCEPT !.compacting = FALSE]
    /\ UNCHANGED <<xCall, xEnds, xUsage>>

\* the fields _complete_turn leaves behind
TurnOver(c) == ResetUsage([c EXCEPT !.turn = 0, !.native = 0, !.perms = {}])

\* mutant: completion leaves the turn current
StillCurrent(t) == [xEnds EXCEPT ![t] = @ + 2]

\* one TURN_COMPLETED
EndEvent(t) == [xEnds EXCEPT ![t] = @ + 1]

\* turn/completed: _complete_turn; without a current turn the event names none
HandleCompleted(f) ==
    /\ xEnds' = IF cx.turn = 0 THEN xEnds ELSE EndEvent(cx.turn)
    /\ xUsage' = IF cx.turn = 0 THEN xUsage
                 ELSE [xUsage EXCEPT ![cx.turn] = <<cx.used, f.n>>]
    /\ cx' = TurnOver(cx)
    /\ UNCHANGED xCall

ReadWire ==
    /\ xSrv.proc \in {"up", "dead"} /\ wire # <<>>
    /\ LET f == Head(wire)
       IN  \/ f.k = "response" /\ HandleResponse(f)
           \/ f.k = "permission" /\ HandlePermission(f)
           \/ f.k = "usage" /\ HandleUsage(f)
           \/ f.k = "compacted" /\ HandleCompacted
           \/ f.k = "completed" /\ HandleCompleted(f)
    /\ wire' = Tail(wire)
    /\ UNCHANGED xSrv

\* the reader's finally: every pending request fails, RUNTIME_EXITED
ReadEnds ==
    /\ xSrv.proc = "dead" /\ wire = <<>>
    /\ xCall' = IF xCall.st = "waiting" THEN [xCall EXCEPT !.st = "failed"] ELSE xCall
    /\ xSrv' = [xSrv EXCEPT !.proc = "exited"]
    /\ cx' = [cx EXCEPT !.ok = FALSE]
    /\ UNCHANGED <<xEnds, xUsage, wire>>

-----------------------------------------------------------------------------
\* The app-server, from the frames the driver expects of it

SrvCan == xSrv.proc = "up" /\ Len(wire) < MaxXWire
XFrame(k, n, s) == [k |-> k, n |-> n, s |-> s, total |-> xSrv.total]

SrvAnswers ==
    /\ SrvCan /\ xSrv.req # NoCall
    /\ \/ /\ wire' = Append(wire, XFrame("response", xSrv.req.n, "ok"))
          /\ xSrv' = [xSrv EXCEPT !.req = NoCall,
                                !.turn = IF xSrv.req.k = "start" THEN 1 ELSE @,
                                !.compact = xSrv.req.k = "compact"]
       \/ /\ wire' = Append(wire, XFrame("response", xSrv.req.n, "error"))
          /\ xSrv' = [xSrv EXCEPT !.req = NoCall]
    /\ UNCHANGED <<cx, xCall, xEnds, xUsage>>

\* a model request: of the turn, or of a compaction between turns
SrvSpends ==
    /\ SrvCan /\ xSrv.spends < MaxXSpends /\ (xSrv.turn # 0 \/ xSrv.compact)
    /\ \E k \in 1 .. 2 :
          /\ xSrv' = [xSrv EXCEPT !.total = @ + k, !.spends = @ + 1,
                                !.spent = IF xSrv.turn = 0 THEN 0 ELSE @ + k]
          /\ wire' = Append(wire, [XFrame("usage", k, "") EXCEPT !.total = @ + k])
    /\ UNCHANGED <<cx, xCall, xEnds, xUsage>>

SrvCompacts ==
    /\ SrvCan /\ xSrv.compact
    /\ xSrv' = [xSrv EXCEPT !.compact = FALSE]
    /\ wire' = Append(wire, XFrame("compacted", 0, ""))
    /\ UNCHANGED <<cx, xCall, xEnds, xUsage>>

SrvAsks ==
    /\ SrvCan /\ xSrv.turn # 0 /\ xSrv.perms < MaxXPerms
    /\ xSrv' = [xSrv EXCEPT !.perms = @ + 1]
    /\ wire' = Append(wire, XFrame("permission", xSrv.perms + 1, ""))
    /\ UNCHANGED <<cx, xCall, xEnds, xUsage>>

SrvCompletes ==
    /\ SrvCan /\ xSrv.turn # 0
    /\ xSrv' = [xSrv EXCEPT !.turn = 0, !.spent = 0]
    /\ wire' = Append(wire, XFrame("completed", xSrv.spent, ""))
    /\ UNCHANGED <<cx, xCall, xEnds, xUsage>>

SrvDies ==
    /\ xSrv.proc = "up"
    /\ xSrv' = [xSrv EXCEPT !.proc = "dead", !.req = NoCall, !.turn = 0, !.spent = 0,
                          !.compact = FALSE]
    /\ UNCHANGED <<cx, xCall, xEnds, xUsage, wire>>

CallStep == StartReturns \/ OtherReturns \/ CallTimesOut

XNext ==
    \/ StartCall \/ OtherCall \/ CallStep \/ ResolvePermission \/ CloseCodex \/ OpenCodex
    \/ ReadWire \/ ReadEnds
    \/ SrvAnswers \/ SrvSpends \/ SrvCompacts \/ SrvAsks \/ SrvCompletes \/ SrvDies

XSpec == XInit /\ [][XNext]_xVars

\* the event loop runs a command whose future is settled or timed out; nothing
\* is assumed of the server
FairXSpec == XSpec /\ WF_xVars(CallStep)

-----------------------------------------------------------------------------
XContract == INSTANCE DriverTurns WITH DTurns <- XTurns, dturn <- cx.turn, dends <- xEnds

\* The driver keeps the turn contract of driver.py although the turn may
\* complete before start_turn has resumed from its response.
CodexKeepsContract == XContract!DSpec

\* The tokens reported with a turn are the ones its own requests spent, also
\* when a usage notification is handled before start_turn resumes or came
\* between turns ("Clear the previous turn before issuing turn/start").
TurnUsageIsItsOwn == \A t \in XTurns : xUsage[t][1] = xUsage[t][2]

\* No permission request of an earlier turn can still be resolved
\* ("Permission requests are scoped to the sole active turn").
PermissionsEndWithTurn == cx.ok => \A p \in cx.perms : p[2] = cx.turn

\* A command of the daemon always returns, whatever the server does: "Provider
\* silence must surface as a bounded, retryable failure" (_request).
CodexCallReturns == \A k \in {"start", "steer", "interrupt", "compact"} :
                        (xCall.k = k) ~> (xCall.k # k)
=============================================================================
