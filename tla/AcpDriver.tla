------------------------------ MODULE AcpDriver ------------------------------
(***************************************************************************)
(* The ACP driver (agent/harness/drivers/acp.py, acp_attach.py).  The SDK's *)
(* receive loop settles a response inline and gives every notification and *)
(* request a task of its own, so the prompt's task waits until the updates *)
(* that preceded its response are handled before it ends the turn.         *)
(* Permission requests of the agent wait for a decision.                   *)
(***************************************************************************)
EXTENDS Integers, FiniteSets, Sequences

CONSTANTS MaxATurns,      \* turns the driver starts
          MaxAUpdates,    \* session/update notifications
          MaxAPerms       \* permission requests

ATurns == 1 .. MaxATurns
APerms == 1 .. MaxAPerms

ASSUME AcpAssumption == MaxATurns \in Nat

VARIABLES
    ac,          \* the driver: current turn, open or not, permission mode
    aPrompt,     \* the prompt task
    aCount,      \* _updates_received and _updates_handled
    aTasks,      \* handler tasks of updates, in wire order: the turn they were sent in
    aPerm,       \* permission requests: state and the turn they are asked in
    aEnds,       \* terminal events emitted, per turn (history)
    aShown,      \* updates shown: the turn they were sent in, the turn they name (history)
    aSlow        \* a settle gave up on a handler that was still to run (history)

aVars == <<ac, aPrompt, aCount, aTasks, aPerm, aEnds, aShown, aSlow>>

NoPrompt == [st |-> "none", turn |-> 0, target |-> 0]

AInit ==
    /\ ac \in [turn : {0}, last : {0}, proc : {"up"}, bypass : BOOLEAN]
    /\ aPrompt = NoPrompt
    /\ aCount = [recv |-> 0, hand |-> 0, sent |-> 0]
    /\ aTasks = <<>>
    /\ aPerm = [p \in APerms |-> [st |-> "none", turn |-> 0]]
    /\ aEnds = [t \in ATurns |-> 0]
    /\ aShown = {}
    /\ aSlow = FALSE

-----------------------------------------------------------------------------
\* Turns

\* start_turn up to its wait for the written request
StartAcp ==
    /\ ac.proc \in {"up", "dead"} /\ ac.turn = 0 /\ aPrompt = NoPrompt /\ ac.last < MaxATurns
    /\ ac' = [ac EXCEPT !.turn = ac.last + 1, !.last = @ + 1]
    /\ aPrompt' = [NoPrompt EXCEPT !.st = "unsent", !.turn = ac.last + 1]
    /\ UNCHANGED <<aCount, aTasks, aPerm, aEnds, aShown, aSlow>>

\* _observe_stream: the request is on the wire
PromptSent ==
    /\ aPrompt.st = "unsent" /\ ac.proc = "up"
    /\ aPrompt' = [aPrompt EXCEPT !.st = "waiting"]
    /\ UNCHANGED <<ac, aCount, aTasks, aPerm, aEnds, aShown, aSlow>>

\* conn.prompt returns or raises: a stop reason, an error response, a lost connection
PromptReturns ==
    /\ \/ aPrompt.st = "waiting"
       \/ aPrompt.st = "unsent" /\ ac.proc = "dead"
    /\ aPrompt' = [aPrompt EXCEPT !.st = "returned"]
    /\ UNCHANGED <<ac, aCount, aTasks, aPerm, aEnds, aShown, aSlow>>

\* _settle_updates reads its target when the prompt's task resumes
SettleBegins ==
    /\ aPrompt.st = "returned"
    /\ aPrompt' = [aPrompt EXCEPT !.st = "settling", !.target = aCount.recv]
    /\ UNCHANGED <<ac, aCount, aTasks, aPerm, aEnds, aShown, aSlow>>

\* the wait of _settle_updates is over
Settled == aCount.hand >= aPrompt.target

\* pending permission requests are denied when the turn or the session ends
Denied(ps) == [p \in APerms |-> IF ps[p].st = "pending" THEN [ps[p] EXCEPT !.st = "denied"]
                                ELSE ps[p]]

\* _finish_turn
FinishAcp(t) ==
    IF t # ac.turn THEN UNCHANGED <<ac, aPerm, aEnds>>
    ELSE /\ aPerm' = Denied(aPerm)
         /\ ac' = [ac EXCEPT !.turn = 0]
         /\ aEnds' = [aEnds EXCEPT ![t] = @ + 1]

SettleEnds ==
    /\ aPrompt.st = "settling" /\ Settled
    /\ FinishAcp(aPrompt.turn)
    /\ aPrompt' = NoPrompt
    /\ UNCHANGED <<aCount, aTasks, aShown, aSlow>>

\* the bound passes: the missing updates count as handled, a warning, the turn ends
SettleTimesOut ==
    /\ aPrompt.st = "settling" /\ aCount.hand < aPrompt.target
    /\ aCount' = [aCount EXCEPT !.hand = aPrompt.target]
    /\ aSlow' = (aSlow \/ aTasks # <<>>)
    /\ FinishAcp(aPrompt.turn)
    /\ aPrompt' = NoPrompt
    /\ UNCHANGED <<aTasks, aShown>>

\* close, and open again with fresh counters; an attached agent is only disconnected
CloseAcp ==
    /\ ac.proc # "closed"
    /\ ac' = [ac EXCEPT !.turn = 0, !.proc = "closed"]
    /\ aPrompt' = NoPrompt /\ aTasks' = <<>>
    /\ aPerm' = [p \in APerms |-> IF aPerm[p].st \in {"asked", "pending"}
                                  THEN [aPerm[p] EXCEPT !.st = "denied"] ELSE aPerm[p]]
    /\ UNCHANGED <<aCount, aEnds, aShown, aSlow>>

OpenAcp ==
    /\ ac.proc = "closed"
    /\ ac' = [ac EXCEPT !.proc = "up"]
    /\ aCount' = [aCount EXCEPT !.recv = 0, !.hand = 0]
    /\ aSlow' = FALSE /\ aShown' = {}
    /\ UNCHANGED <<aPrompt, aTasks, aPerm, aEnds>>

\* _watch_process: the agent is gone, RUNTIME_EXITED
AcpExits ==
    /\ ac.proc = "up" /\ ac.last > 0
    /\ ac' = [ac EXCEPT !.proc = "dead"]
    /\ UNCHANGED <<aPrompt, aCount, aTasks, aPerm, aEnds, aShown, aSlow>>

-----------------------------------------------------------------------------
\* What the agent sends, as the receive loop takes it

\* a session/update is counted by the observer; its task follows, unless the
\* SDK drops the notification.  It belongs to the turn whose prompt is running.
UpdateArrives ==
    /\ ac.proc = "up" /\ aCount.sent < MaxAUpdates
    /\ aCount' = [aCount EXCEPT !.recv = @ + 1, !.sent = @ + 1]
    /\ \/ aTasks' = Append(aTasks, IF aPrompt.st = "waiting" THEN aPrompt.turn ELSE 0)
       \/ UNCHANGED aTasks
    /\ UNCHANGED <<ac, aPrompt, aPerm, aEnds, aShown, aSlow>>

\* session_update and _update_handled
UpdateHandled ==
    /\ aTasks # <<>>
    /\ aShown' = aShown \cup {<<Head(aTasks), ac.turn>>}
    /\ aTasks' = Tail(aTasks)
    /\ aCount' = [aCount EXCEPT !.hand = @ + 1]
    /\ UNCHANGED <<ac, aPrompt, aPerm, aEnds, aSlow>>

PermissionAsked ==
    /\ ac.proc = "up"
    /\ \E p \in APerms : /\ aPerm[p].st = "none" /\ \A q \in 1 .. p - 1 : aPerm[q].st # "none"
                         /\ aPerm' = [aPerm EXCEPT ![p].st = "asked"]
    /\ UNCHANGED <<ac, aPrompt, aCount, aTasks, aEnds, aShown, aSlow>>

\* _request_permission up to its await: denied outside a turn, allowed at once
\* where the mode says so and an option grants, otherwise put to a person
RequestPermission(p) ==
    /\ aPerm[p].st = "asked"
    /\ \/ ac.turn = 0 /\ aPerm' = [aPerm EXCEPT ![p].st = "denied"]
       \/ ac.turn # 0 /\ ac.bypass /\ aPerm' = [aPerm EXCEPT ![p].st = "allowed"]
       \/ ac.turn # 0 /\ aPerm' = [aPerm EXCEPT ![p] = [st |-> "pending", turn |-> ac.turn]]
    /\ UNCHANGED <<ac, aPrompt, aCount, aTasks, aEnds, aShown, aSlow>>

\* resolve_permission
ResolveAcp(p) ==
    /\ aPerm[p].st = "pending"
    /\ \E d \in {"allowed", "denied"} : aPerm' = [aPerm EXCEPT ![p].st = d]
    /\ UNCHANGED <<ac, aPrompt, aCount, aTasks, aEnds, aShown, aSlow>>

ANext ==
    \/ StartAcp \/ PromptSent \/ PromptReturns \/ SettleBegins \/ SettleEnds \/ SettleTimesOut
    \/ CloseAcp \/ OpenAcp \/ AcpExits
    \/ UpdateArrives \/ UpdateHandled \/ PermissionAsked
    \/ \E p \in APerms : RequestPermission(p) \/ ResolveAcp(p)

ASpec == AInit /\ [][ANext]_aVars

-----------------------------------------------------------------------------
AContract == INSTANCE DriverTurns WITH DTurns <- ATurns, dturn <- ac.turn, dends <- aEnds

\* The driver keeps the turn contract of driver.py: a prompt that ends after its
\* turn was closed emits nothing (_finish_turn compares the turn).
AcpKeepsContract == AContract!DSpec

\* "text sent immediately before the end of a turn would otherwise be handled
\* after the turn completed" (_settle_updates): an update the agent sent during
\* a turn is shown under that turn, also when earlier updates were dropped,
\* unless a settle gave up on a handler that still ran later.
UpdatesStayWithTurn ==
    ~aSlow => \A u \in aShown : u[1] # 0 => u[1] = u[2]

\* A permission request that waits for a decision belongs to the turn in
\* progress; one that is asked between turns is answered at once.
AcpPermissionsEndWithTurn ==
    \A p \in APerms : aPerm[p].st = "pending" => aPerm[p].turn = ac.turn
=============================================================================
