-------------------------- MODULE ChannelDirectory --------------------------
(***************************************************************************)
(* What the agent knows of the channels of a space                         *)
(* (agent/directory_cache.py, agent/membership_events.py,                  *)
(* agent/membership_actions.py and their callers in puffo_core_client.py). *)
(*                                                                         *)
(* The listen loop handles membership events in order.  Warm tasks read    *)
(* the Server's channel list and write it to the caches one channel at a   *)
(* time: one runs at every connection, one inside a lookup that missed,    *)
(* one inside a send that needs the channel's encryption policy and one    *)
(* inside an announcement of an unknown channel.                           *)
(***************************************************************************)
EXTENDS Values, Sequences, FiniteSets, SequencesExt

CONSTANTS DirChannels,   \* channels of the space
          DirScenes,     \* what happens together, of exit, leave, policy, peer, send
          MaxDirEvents,  \* changes the Server makes
          MaxDirFaults   \* failed requests, failed writes, lost connections

Warmers == {"connect", "tool", "ws"}

VARIABLES dSrv,     \* the Server: [in, ch, plain]: membership and plaintext channels
          dQueue,   \* events on their way: [kind, ch, id]
          dMap,     \* channels of the memory map (_channel_space)
          dStore,   \* channels of the table channel_space_map
          dMsgs,    \* channels with a stored message
          dPol,     \* policies in memory: "none", "enc" or "plain"
          dDisk,    \* policies on disk
          dWarm,    \* warm tasks: [pc, todo, plain, cur]
          dWs,      \* step of the listen loop in its event
          dTool,    \* the send of the agent: [pc, ch, enc, calm]
          dGate,    \* the space is in _gate_left_spaces
          dLeave,   \* the agent's request to leave: "none", "asked" or "approved"
          dOwed,    \* ids of the exits the operator has to be told of
          dMissed,  \* ids dropped though the agent was, and stayed, in the channel
          dClash,   \* a warm answer and an exit were outstanding together
          dEver,    \* channels that were ever plaintext
          dEvents, dFaults,
          dScene    \* what may happen

dVars == <<dScene, dSrv, dQueue, dMap, dStore, dMsgs, dPol, dDisk, dWarm, dWs, dTool, dGate, dLeave,
           dOwed, dMissed, dClash, dEver, dEvents, dFaults>>
dCaches == <<dMap, dStore, dMsgs, dPol, dDisk>>
dHistory == <<dScene, dOwed, dMissed, dEver>>

NoWarm == [pc |-> "idle", todo |-> {}, plain |-> {}, cur |-> Nothing]
AskWarm == [NoWarm EXCEPT !.pc = "ask"]
NoSend == [pc |-> "idle", ch |-> Nothing, enc |-> TRUE, calm |-> FALSE]
DirExits == {"cascade", "kick", "left"}

DirInit ==
  /\ dSrv \in {[in |-> TRUE, ch |-> DirChannels, plain |-> p] : p \in SUBSET DirChannels}
  /\ dQueue = <<>> /\ dMap = {} /\ dStore = {} /\ dMsgs = {}
  /\ dPol = [c \in DirChannels |-> "none"] /\ dDisk = dPol
  /\ dWarm = [t \in Warmers |-> IF t = "connect" THEN AskWarm ELSE NoWarm]
  /\ dWs = "idle" /\ dTool = NoSend /\ dGate = FALSE /\ dLeave = "none"
  /\ dOwed = {} /\ dMissed = {} /\ dClash = FALSE
  /\ dEver = dSrv.plain /\ dScene \in DirScenes /\ dEvents = 0 /\ dFaults = 0

DirFault == dFaults < MaxDirFaults /\ dFaults' = dFaults + 1
DirEvent(kind, c) == [kind |-> kind, ch |-> c, id |-> dEvents + 1]
WarmIsOut == \E t \in Warmers : dWarm[t].pc \in {"apply", "mark"}
ExitIsOut == \E i \in DOMAIN dQueue : dQueue[i].kind \in DirExits \union {"chkick"}

(***************************************************************************)
(* The Server.                                                             *)
(***************************************************************************)
SrvSays(kind, c) ==
  /\ dEvents < MaxDirEvents
  /\ dEvents' = dEvents + 1
  /\ dTool' = [dTool EXCEPT !.calm = FALSE]
  /\ dQueue' = Append(dQueue, DirEvent(kind, c))
  /\ dOwed' = IF kind \in DirExits THEN dOwed \union {dEvents + 1} ELSE dOwed
  /\ dClash' = (dClash \/ (kind \in DirExits \union {"chkick"} /\ WarmIsOut))

Outside == [dSrv EXCEPT !.in = FALSE, !.ch = {}]

\* the operator left and took the agent along, or the space removed it
SrvExit(kind) ==
  /\ kind \in {"cascade", "kick"} /\ dSrv.in /\ "exit" \in dScene
  /\ SrvSays(kind, Nothing)
  /\ dSrv' = Outside
  /\ UNCHANGED <<dCaches, dWarm, dWs, dGate, dLeave, dMissed, dScene, dEver, dFaults>>

SrvChannelKick(c) ==
  /\ c \in dSrv.ch /\ "exit" \in dScene
  /\ SrvSays("chkick", c)
  /\ dSrv' = [dSrv EXCEPT !.ch = @ \ {c}]
  /\ UNCHANGED <<dCaches, dWarm, dWs, dGate, dLeave, dMissed, dScene, dEver, dFaults>>

\* the agent is in the space, and in channel c, again
SrvAdmits(c) ==
  /\ c \notin dSrv.ch
  /\ SrvSays("added", c)
  /\ dSrv' = [dSrv EXCEPT !.in = TRUE, !.ch = @ \union {c}]
  /\ UNCHANGED <<dCaches, dWarm, dWs, dGate, dLeave, dMissed, dScene, dEver, dFaults>>

SrvPolicy(c) ==
  /\ c \in dSrv.ch /\ "policy" \in dScene
  /\ SrvSays(IF c \in dSrv.plain THEN "enc" ELSE "plain", c)
  /\ dSrv' = [dSrv EXCEPT !.plain = (@ \union {c}) \ (@ \intersect {c})]
  /\ dEver' = dEver \union {c}
  /\ UNCHANGED <<dCaches, dWarm, dWs, dGate, dLeave, dMissed, dScene, dFaults>>

\* somebody joins channel c by an invite link
SrvPeer(c) ==
  /\ c \in dSrv.ch /\ "peer" \in dScene
  /\ SrvSays("peer", c)
  /\ UNCHANGED <<dSrv, dCaches, dWarm, dWs, dGate, dLeave, dMissed, dScene, dEver, dFaults>>

SrvMessage(c) ==
  /\ "send" \in dScene /\ c \in dSrv.ch \ dMsgs /\ dQueue = <<>> /\ dWs = "idle"
  /\ dMsgs' = dMsgs \union {c}
  /\ dMap' = dMap \union {c}
  /\ UNCHANGED <<dSrv, dQueue, dStore, dPol, dDisk, dWarm, dWs, dTool, dGate, dLeave, dHistory,
                 dClash, dEvents, dFaults>>

(***************************************************************************)
(* warm_channels_for_space.                                                *)
(***************************************************************************)
WarmReads(t) ==
  /\ dWarm[t].pc = "ask"
  /\ dWarm' = [dWarm EXCEPT ![t] = [pc |-> "apply", todo |-> dSrv.ch,
                                    plain |-> dSrv.plain, cur |-> Nothing]]
  /\ dClash' = (dClash \/ ExitIsOut \/ dWs # "idle")
  /\ dTool' = IF t = "tool" THEN dTool ELSE [dTool EXCEPT !.calm = FALSE]
  /\ UNCHANGED <<dSrv, dQueue, dCaches, dWs, dGate, dLeave, dHistory, dEvents, dFaults>>

\* the map keeps what it has, the policy is overwritten, an absent one is "enc"
PolicyOf(c, plain) == IF c \in plain THEN "plain" ELSE "enc"

WarmCaches(t, c) ==
  /\ dWarm[t].pc = "apply" /\ c \in dWarm[t].todo
  /\ dMap' = dMap \union {c}
  /\ dPol' = [dPol EXCEPT ![c] = PolicyOf(c, dWarm[t].plain)]
  /\ dDisk' = [dDisk EXCEPT ![c] = PolicyOf(c, dWarm[t].plain)]
  /\ dWarm' = [dWarm EXCEPT ![t].pc = "mark", ![t].cur = c]
  /\ UNCHANGED <<dSrv, dQueue, dStore, dMsgs, dWs, dTool, dGate, dLeave, dHistory, dClash,
                 dEvents, dFaults>>

WarmMarks(t) ==
  LET w == dWarm[t] IN
  /\ w.pc = "mark"
  /\ dStore' = dStore \union {w.cur}
  /\ dWarm' = [dWarm EXCEPT ![t] = [w EXCEPT !.pc = "apply", !.todo = @ \ {w.cur},
                                             !.cur = Nothing]]
  /\ UNCHANGED <<dSrv, dQueue, dMap, dMsgs, dPol, dDisk, dWs, dTool, dGate, dLeave, dHistory,
                 dClash, dEvents, dFaults>>

WarmDone(t) == dWarm[t].pc = "apply" /\ dWarm[t].todo = {}
WarmOver(t) == dWarm' = [dWarm EXCEPT ![t] = NoWarm]

WarmConnectEnds ==
  /\ WarmDone("connect")
  /\ WarmOver("connect")
  /\ UNCHANGED <<dSrv, dQueue, dCaches, dWs, dTool, dGate, dLeave, dHistory, dClash, dEvents,
                 dFaults>>

\* a failed request ends the warm without a word
WarmFails(t) ==
  /\ dWarm[t].pc = "ask"
  /\ DirFault
  /\ dWarm' = [dWarm EXCEPT ![t] = [NoWarm EXCEPT !.pc = "apply"]]
  /\ dTool' = [dTool EXCEPT !.calm = FALSE]
  /\ UNCHANGED <<dSrv, dQueue, dCaches, dWs, dGate, dLeave, dHistory, dClash, dEvents>>

(***************************************************************************)
(* The listen loop.                                                        *)
(***************************************************************************)
DirHead == Head(dQueue)
WsTakes(kinds) == dWs = "idle" /\ dQueue # <<>> /\ DirHead.kind \in kinds
WsDone == dWs' = "idle" /\ dQueue' = Tail(dQueue)

\* maybe_cache_channel_space and the introduction's report
OnChannelAdded ==
  /\ WsTakes({"added"})
  /\ dStore' = dStore \union {DirHead.ch} /\ dMap' = dMap \union {DirHead.ch}
  /\ WsDone
  /\ UNCHANGED <<dSrv, dMsgs, dPol, dDisk, dWarm, dTool, dGate, dLeave, dHistory, dClash,
                 dEvents, dFaults>>

HandleChannelUpdate ==
  /\ WsTakes({"enc", "plain"})
  /\ dMap' = dMap \union {DirHead.ch}
  /\ dPol' = [dPol EXCEPT ![DirHead.ch] = DirHead.kind]
  /\ dDisk' = [dDisk EXCEPT ![DirHead.ch] = DirHead.kind]
  /\ dTool' = [dTool EXCEPT !.calm = FALSE]
  /\ WsDone
  /\ UNCHANGED <<dSrv, dStore, dMsgs, dWarm, dGate, dLeave, dHistory, dClash, dEvents, dFaults>>

\* _handle_self_exit_event: only a cascade is checked against the Server's list
ExitBegins ==
  /\ WsTakes(DirExits \union {"chkick"})
  /\ dWs' = IF DirHead.kind = "cascade" THEN "check" ELSE "evict"
  /\ UNCHANGED <<dSrv, dQueue, dCaches, dWarm, dTool, dGate, dLeave, dHistory, dClash, dEvents,
                 dFaults>>

\* still_member_of_space
StillMember ==
  /\ dWs = "check"
  /\ IF dSrv.in THEN WsDone ELSE dWs' = "evict" /\ UNCHANGED dQueue
  /\ dOwed' = IF dSrv.in THEN dOwed \ {DirHead.id} ELSE dOwed
  /\ UNCHANGED <<dSrv, dCaches, dWarm, dTool, dGate, dLeave, dMissed, dScene, dClash, dEver, dEvents,
                 dFaults>>

StillMemberFails ==
  /\ dWs = "check"
  /\ DirFault
  /\ dWs' = "evict"
  /\ UNCHANGED <<dSrv, dQueue, dCaches, dWarm, dTool, dGate, dLeave, dHistory, dClash, dEvents>>

\* the channels an exit takes from the caches
OnlyNamed == {DirHead.ch}
Evicted == IF DirHead.kind = "chkick" THEN {DirHead.ch} ELSE DirChannels

EvictCaches ==
  /\ dWs = "evict"
  /\ dMap' = dMap \ Evicted
  /\ dPol' = [c \in DirChannels |-> IF c \in dMap \intersect Evicted THEN "none" ELSE dPol[c]]
  /\ dWs' = "unmark"
  /\ UNCHANGED <<dSrv, dQueue, dStore, dMsgs, dDisk, dWarm, dTool, dGate, dLeave, dHistory,
                 dClash, dEvents, dFaults>>

\* the echo of an approved leave is not reported again
Silent == dGate /\ DirHead.kind = "left"

EvictStore ==
  /\ dWs = "unmark"
  /\ dStore' = dStore \ Evicted
  /\ dOwed' = IF Silent THEN dOwed ELSE dOwed \ {DirHead.id}
  /\ dGate' = IF Silent THEN FALSE ELSE dGate
  /\ WsDone
  /\ UNCHANGED <<dSrv, dMap, dMsgs, dPol, dDisk, dWarm, dTool, dLeave, dMissed, dScene, dClash,
                 dEver, dEvents, dFaults>>

\* maybe_announce_membership_change: an unknown channel is looked up once
WarmsFirst == DirHead.ch \notin dMap
AnnounceWarms ==
  /\ WsTakes({"peer"}) /\ WarmsFirst /\ dTool.pc # "rewarm"
  /\ dWs' = "announce"
  /\ dWarm' = [dWarm EXCEPT !["ws"] = AskWarm]
  /\ UNCHANGED <<dSrv, dQueue, dCaches, dTool, dGate, dLeave, dHistory, dClash, dEvents, dFaults>>

\* _enqueue_once, for a channel of the map
Announces ==
  LET known == DirHead.ch \in dMap IN
  /\ \/ WsTakes({"peer"}) /\ ~WarmsFirst /\ UNCHANGED dWarm
     \/ dWs = "announce" /\ WarmDone("ws") /\ WarmOver("ws")
  /\ dMissed' = IF ~known /\ DirHead.ch \in dSrv.ch /\ ~ExitIsOut
                THEN dMissed \union {DirHead.id} ELSE dMissed
  /\ WsDone
  /\ UNCHANGED <<dSrv, dCaches, dTool, dGate, dLeave, dOwed, dScene, dClash, dEver, dEvents, dFaults>>

(***************************************************************************)
(* Leaving with the operator's approval.                                   *)
(***************************************************************************)
RequestLeave ==
  /\ dLeave = "none" /\ dSrv.in /\ "leave" \in dScene
  /\ dLeave' = "asked"
  /\ UNCHANGED <<dSrv, dQueue, dCaches, dWarm, dWs, dTool, dGate, dHistory, dClash, dEvents,
                 dFaults>>

\* the reply comes in the order of the events
OperatorApproves ==
  /\ dLeave = "asked"
  /\ dLeave' = "approved"
  /\ dQueue' = Append(dQueue, [kind |-> "approve", ch |-> Nothing, id |-> 0])
  /\ UNCHANGED <<dSrv, dCaches, dWarm, dWs, dTool, dGate, dHistory, dClash, dEvents, dFaults>>

\* _maybe_handle_leave_reply with y: the leave is posted, its echo is expected, the
\* thread is told of the outcome.  A lost answer counts as a failure.
LeaveApproved(sure) ==
  /\ WsTakes({"approve"})
  /\ dLeave' = "none"
  /\ IF dSrv.in
     THEN /\ dEvents < MaxDirEvents
          /\ dEvents' = dEvents + 1
          /\ dQueue' = Append(Tail(dQueue), DirEvent("left", Nothing))
          /\ dSrv' = Outside
          /\ dOwed' = IF sure THEN dOwed ELSE dOwed \union {dEvents + 1}
          /\ dClash' = (dClash \/ WarmIsOut)
          /\ dGate' = (dGate \/ sure)
     ELSE dQueue' = Tail(dQueue) /\ UNCHANGED <<dSrv, dGate, dOwed, dClash, dEvents>>
  /\ IF sure THEN UNCHANGED dFaults ELSE DirFault
  /\ dTool' = [dTool EXCEPT !.calm = FALSE]
  /\ UNCHANGED <<dCaches, dWarm, dWs, dMissed, dScene, dEver>>

\* events on their way are lost, the caches are warmed anew
DirOutage ==
  /\ dWs = "idle" /\ dQueue # <<>> /\ dWarm["connect"].pc = "idle"
  /\ DirFault
  /\ dQueue' = SelectSeq(dQueue, LAMBDA e : e.kind = "approve")
  /\ dOwed' = dOwed \ {dQueue[i].id : i \in DOMAIN dQueue}
  /\ dWarm' = [dWarm EXCEPT !["connect"] = AskWarm]
  /\ UNCHANGED <<dSrv, dCaches, dWs, dTool, dGate, dLeave, dMissed, dScene, dClash, dEver, dEvents>>

(***************************************************************************)
(* A send of the agent: lookup, policy, post, and one retry under the      *)
(* policy read again.                                                      *)
(***************************************************************************)
ToolWarms(pc) == dTool' = [dTool EXCEPT !.pc = pc] /\ dWarm' = [dWarm EXCEPT !["tool"] = AskWarm]

\* lookup_channel_space: the table first, then the messages
Resolves(c) == c \in dStore \union dMsgs

SendToChannel(c) ==
  /\ dTool.pc = "idle" /\ "send" \in dScene
  /\ IF Resolves(c) THEN /\ dTool' = [NoSend EXCEPT !.pc = "policy", !.ch = c]
                         /\ UNCHANGED dWarm
     ELSE /\ dWs # "announce"
          /\ dTool' = [NoSend EXCEPT !.pc = "rewarm", !.ch = c]
          /\ dWarm' = [dWarm EXCEPT !["tool"] = AskWarm]
  /\ UNCHANGED <<dSrv, dQueue, dCaches, dWs, dGate, dLeave, dHistory, dClash, dEvents, dFaults>>

LookupAgain ==
  /\ dTool.pc = "rewarm" /\ WarmDone("tool")
  /\ WarmOver("tool")
  /\ dTool' = IF Resolves(dTool.ch) THEN [dTool EXCEPT !.pc = "policy"] ELSE NoSend
  /\ UNCHANGED <<dSrv, dQueue, dCaches, dWs, dGate, dLeave, dHistory, dClash, dEvents, dFaults>>

\* channel_policy: memory, then disk, and encrypted when neither knows
ChannelPolicy(c) ==
  LET p == IF dPol[c] # "none" THEN dPol[c] ELSE dDisk[c] IN p # "plain"

\* ensure_channel_policy
EnsurePolicy ==
  LET c == dTool.ch IN
  /\ dTool.pc = "policy"
  /\ IF dPol[c] = "none" /\ dDisk[c] = "none"
     THEN ToolWarms("ensure") /\ UNCHANGED dPol
     ELSE /\ dTool' = [dTool EXCEPT !.pc = "post", !.enc = ChannelPolicy(c)]
          /\ dPol' = IF dPol[c] = "none" THEN [dPol EXCEPT ![c] = dDisk[c]] ELSE dPol
          /\ UNCHANGED dWarm
  /\ UNCHANGED <<dSrv, dQueue, dMap, dStore, dMsgs, dDisk, dWs, dGate, dLeave, dHistory, dClash,
                 dEvents, dFaults>>

EnsureEnds ==
  /\ dTool.pc = "ensure" /\ WarmDone("tool")
  /\ WarmOver("tool")
  /\ dTool' = [dTool EXCEPT !.pc = "post", !.enc = ChannelPolicy(dTool.ch)]
  /\ UNCHANGED <<dSrv, dQueue, dCaches, dWs, dGate, dLeave, dHistory, dClash, dEvents, dFaults>>

FormatFits == dTool.enc = (dTool.ch \notin dSrv.plain)

\* refresh_channel_policy reads the list again, whatever the caches hold
RereadsPolicy == TRUE
Posts ==
  LET calm == \A t \in Warmers : dWarm[t].pc = "idle" IN
  /\ dTool.pc = "post"
  /\ IF dTool.ch \notin dSrv.ch \/ FormatFits THEN dTool' = NoSend /\ UNCHANGED dWarm
     ELSE IF RereadsPolicy
          THEN /\ dTool' = [dTool EXCEPT !.pc = "refresh", !.calm = calm]
               /\ dWarm' = [dWarm EXCEPT !["tool"] = AskWarm]
          ELSE dTool' = [dTool EXCEPT !.pc = "refused", !.calm = calm] /\ UNCHANGED dWarm
  /\ UNCHANGED <<dSrv, dQueue, dCaches, dWs, dGate, dLeave, dHistory, dClash, dEvents, dFaults>>

\* the same policy again ends the send, another one is tried once
RefreshEnds ==
  LET enc == ChannelPolicy(dTool.ch) IN
  /\ dTool.pc = "refresh" /\ WarmDone("tool")
  /\ WarmOver("tool")
  /\ dTool' = IF enc = dTool.enc THEN [dTool EXCEPT !.pc = "refused"]
              ELSE [dTool EXCEPT !.pc = "repost", !.enc = enc]
  /\ UNCHANGED <<dSrv, dQueue, dCaches, dWs, dGate, dLeave, dHistory, dClash, dEvents, dFaults>>

Reposts ==
  /\ dTool.pc = "repost"
  /\ dTool' = IF dTool.ch \notin dSrv.ch \/ FormatFits THEN NoSend
              ELSE [dTool EXCEPT !.pc = "refused"]
  /\ UNCHANGED <<dSrv, dQueue, dCaches, dWarm, dWs, dGate, dLeave, dHistory, dClash, dEvents,
                 dFaults>>

SendGivenUp ==
  /\ dTool.pc = "refused"
  /\ dTool' = NoSend
  /\ UNCHANGED <<dSrv, dQueue, dCaches, dWarm, dWs, dGate, dLeave, dHistory, dClash, dEvents,
                 dFaults>>

DirNext ==
  \/ \E kind \in {"cascade", "kick"} : SrvExit(kind)
  \/ \E c \in DirChannels :
       \/ SrvChannelKick(c) \/ SrvAdmits(c) \/ SrvPolicy(c) \/ SrvPeer(c) \/ SrvMessage(c)
       \/ \E t \in Warmers : WarmCaches(t, c)
       \/ SendToChannel(c)
  \/ \E t \in Warmers : WarmReads(t) \/ WarmMarks(t) \/ WarmFails(t)
  \/ WarmConnectEnds
  \/ OnChannelAdded \/ HandleChannelUpdate
  \/ ExitBegins \/ StillMember \/ StillMemberFails \/ EvictCaches \/ EvictStore
  \/ AnnounceWarms \/ Announces
  \/ RequestLeave \/ OperatorApproves \/ (\E sure \in BOOLEAN : LeaveApproved(sure))
  \/ DirOutage
  \/ LookupAgain \/ EnsurePolicy \/ EnsureEnds \/ Posts \/ RefreshEnds \/ Reposts \/ SendGivenUp

DirSpec == DirInit /\ [][DirNext]_dVars

(***************************************************************************)
(* Properties.                                                             *)
(***************************************************************************)
DirQuiet == dQueue = <<>> /\ dWs = "idle" /\ \A t \in Warmers : dWarm[t].pc = "idle"

\* Once every event is handled, neither the memory map nor the table of
\* mark_channel_space names a channel the agent is out of, unless a channel list
\* was read or written while an exit was under way, or events were lost.
ExitForgets == DirQuiet /\ ~dClash /\ dFaults = 0 => dMap \union dStore \subseteq dSrv.ch

\* Once every event is handled, the operator was told of every exit from the
\* space: by the report, in the thread of the leave they approved, or not at all
\* when the Server lists the agent again.  One request may fail.
ExitIsReported == DirQuiet /\ dFaults <= 1 => dOwed = {}

\* Somebody joining a channel of the agent is never dropped as foreign because the
\* first warm has not landed yet, as long as no request fails and the agent stayed.
PeerIsAnnounced == dFaults = 0 => dMissed = {}

\* A send is refused for its format for good only if, during its retry, the Server
\* changed something, another list was read or an update was applied, or the
\* request failed.
FormatMismatchHeals == ~(dTool.pc = "refused" /\ dTool.calm)

\* A message is posted in plaintext only to a channel that the Server has once
\* declared plaintext: what is unknown is encrypted.
UnknownIsEncrypted == dTool.pc = "post" /\ ~dTool.enc => dTool.ch \in dEver

=============================================================================
