--------------------------- MODULE MachineControl ---------------------------
(***************************************************************************)
(* The machine's control connection (portal/control/client.py, envelope.py,*)
(* provision.py, preflight.py and link.py).                                *)
(*                                                                         *)
(* An operator signs a command with the time of signing and a nonce; the   *)
(* Server queues it and delivers it again at every connection until it is  *)
(* acknowledged.  The client runs most commands inside its receive loop;   *)
(* a create runs as a task of its own and outlives the connection.  What   *)
(* the client remembers of a command - its nonce, its result, the          *)
(* acknowledgement still to send - it remembers in memory, for a window of *)
(* time.  Unlinking runs in another process.                               *)
(*                                                                         *)
(* Each command has one nonce, so a nonce is its command.  Commands of one *)
(* operator about one agent are modelled; signatures, the words of results *)
(* and the fields of an edit are left out.                                 *)
(***************************************************************************)
EXTENDS Values, Sequences, FiniteSets, SequencesExt

CONSTANTS CtlCommands,    \* commands, each [id, op]
          CtlWindow,      \* TS_WINDOW_MS
          CtlAhead,       \* how far the operator's clock may run ahead
          MaxCtlClock,
          CtlBudgets      \* what may go wrong: records [drops, crashes, faults, unlinks]

VARIABLES mcNow,     \* the machine's clock
          mcSrv,     \* command -> [st, ts, res]: queued, signed at, first acknowledgement
          mcMem,     \* command -> [seen, done, pend]: nonce time, result, unsent ack
          mcRun,     \* command -> step of its execution, "none" when it does not run
          mcRuns,    \* command -> executions since the daemon started
          mcConn,    \* "down", "open" or "ready"
          mcWire,    \* commands delivered and not yet read
          mcUnlink,  \* "linked", "revoked", "paused" or "unlinked"
          mcHears,   \* the Server still serves this pairing
          mcAgent,   \* the agent: "none", "paused" or "running"
          mcIdent,   \* the identity: "pending" or "registered"
          mcWrong,   \* a command inside its window was rejected though it ran
          mcLeft     \* lost connections, restarts, failing steps and unlinks still to come

mcVars == <<mcNow, mcSrv, mcMem, mcRun, mcRuns, mcConn, mcWire, mcUnlink, mcHears, mcAgent, mcIdent,
            mcWrong, mcLeft>>
mcLink == <<mcUnlink, mcHears>>
mcWorld == <<mcAgent, mcIdent>>

CtlNever == -1
CtlForgotten == [seen |-> CtlNever, done |-> "none", pend |-> "none"]
CtlBackground == {"create"}
CtlPaired == mcUnlink # "unlinked"

CtlInit ==
  /\ mcNow = 1
  /\ mcSrv = [c \in CtlCommands |-> [st |-> "idle", ts |-> 0, res |-> "none"]]
  /\ mcMem = [c \in CtlCommands |-> CtlForgotten]
  /\ mcRun = [c \in CtlCommands |-> "none"] /\ mcRuns = [c \in CtlCommands |-> 0]
  /\ mcConn = "down" /\ mcWire = <<>> /\ mcUnlink = "linked" /\ mcHears = TRUE
  /\ mcAgent \in {"none", "paused"} /\ mcIdent = IF mcAgent = "none" THEN "pending" ELSE "registered"
  /\ mcWrong = FALSE /\ mcLeft \in CtlBudgets

CtlInFlight(c) == mcRun[c] # "none"
CtlSpends(what) == mcLeft[what] > 0 /\ mcLeft' = [mcLeft EXCEPT ![what] = @ - 1]
CtlFault == CtlSpends("faults")

\* The receive loop waits for the command it runs itself.
LoopBusy == \E c \in CtlCommands : CtlInFlight(c) /\ c.op \notin CtlBackground

(***************************************************************************)
(* Acknowledgements.                                                       *)
(***************************************************************************)
AckedOnServer(srv, mem) ==
  [c \in CtlCommands |->
     IF mem[c].pend = "none" THEN srv[c]
     ELSE [srv[c] EXCEPT !.st = "acked", !.res = IF @ = "none" THEN mem[c].pend ELSE @]]

AcksSent(mem) == [c \in CtlCommands |-> [mem[c] EXCEPT !.pend = "none"]]

\* _flush_pending_acks on the current socket.  The socket may die under a write, which then
\* failed, and stays queued, or only seemed to succeed.
FlushPendingAcks ==
  \/ mcSrv' = AckedOnServer(mcSrv, mcMem) /\ mcMem' = AcksSent(mcMem) /\ UNCHANGED mcLeft /\ mcConn' = "ready"
  \/ /\ CtlSpends("drops") /\ mcConn' = "down"
     /\ mcMem' \in {mcMem, AcksSent(mcMem)} /\ UNCHANGED mcSrv

\* _send_ack queues the result and flushes at once; the write is a step of its own.
SendCommandAck(mem, c, res) == [mem EXCEPT ![c].pend = res]

AcksWaiting == \E c \in CtlCommands : mcMem[c].pend # "none"

AckWrites ==
  /\ mcConn = "ready" /\ AcksWaiting /\ FlushPendingAcks
  /\ mcWire' = IF mcConn' = "ready" THEN mcWire ELSE <<>>
  /\ UNCHANGED <<mcNow, mcRun, mcRuns, mcLink, mcWorld, mcWrong>>

(***************************************************************************)
(* The connection.                                                         *)
(***************************************************************************)
ConnectOnce ==
  /\ mcConn = "down" /\ CtlPaired /\ ~LoopBusy /\ mcConn' = "open"
  /\ UNCHANGED <<mcNow, mcSrv, mcMem, mcRun, mcRuns, mcWire, mcLink, mcWorld, mcWrong, mcLeft>>

\* The Server accepts the socket; queued results go first, then it delivers again what was not
\* acknowledged.
Connected ==
  /\ mcConn = "open" /\ FlushPendingAcks
  /\ mcWire' = IF mcConn' = "ready" THEN SetToSeq({c \in CtlCommands : mcHears /\ mcSrv'[c].st = "sent"})
               ELSE <<>>
  /\ UNCHANGED <<mcNow, mcRun, mcRuns, mcLink, mcWorld, mcWrong>>

ConnectionDrops ==
  /\ mcConn # "down" /\ CtlSpends("drops")
  /\ mcConn' = "down" /\ mcWire' = <<>>
  /\ UNCHANGED <<mcNow, mcSrv, mcMem, mcRun, mcRuns, mcLink, mcWorld, mcWrong>>

\* ControlManager.run finds no pairing and cancels the client; a command that runs apart goes on.
ManagerCancels ==
  /\ ~CtlPaired /\ mcConn # "down" /\ mcConn' = "down" /\ mcWire' = <<>>
  /\ mcRun' = [c \in CtlCommands |-> IF c.op \in CtlBackground THEN mcRun[c] ELSE "none"]
  /\ UNCHANGED <<mcNow, mcSrv, mcMem, mcRuns, mcLink, mcWorld, mcWrong, mcLeft>>

(***************************************************************************)
(* A delivered command (_handle).                                          *)
(***************************************************************************)
InWindow(c) == mcNow - mcSrv[c].ts \in (-CtlWindow)..CtlWindow

\* Nonces older than the window are forgotten with their results, except those in flight.
Expired(c) == mcMem[c].seen <= mcNow - CtlWindow /\ ~CtlInFlight(c)
Pruned == [c \in CtlCommands |-> IF Expired(c) THEN [CtlForgotten EXCEPT !.pend = mcMem[c].pend]
                                 ELSE mcMem[c]]

\* What a delivery with a known nonce is answered with; nothing while the command runs.
DuplicateDelivery(c) ==
  IF mcMem[c].done # "none" THEN mcMem[c].done ELSE IF CtlInFlight(c) THEN "none" ELSE "rejected"

RejectedFalsely(c) == InWindow(c) /\ CtlPaired /\ mcRuns[c] > 0

Answers(c, res) ==
  /\ mcMem' = IF res = "none" THEN mcMem ELSE SendCommandAck(mcMem, c, res)
  /\ mcWrong' = (mcWrong \/ (res = "rejected" /\ RejectedFalsely(c)))
  /\ UNCHANGED <<mcRun, mcRuns>>

Executes(c) ==
  /\ mcMem' = [Pruned EXCEPT ![c] = [seen |-> mcSrv[c].ts, done |-> "none", pend |-> mcMem[c].pend]]
  /\ mcRun' = [mcRun EXCEPT ![c] = IF c.op = "create" THEN "verify" ELSE "apply"]
  /\ mcRuns' = [mcRuns EXCEPT ![c] = @ + 1] /\ UNCHANGED mcWrong

\* The loop reads a frame once it has run and answered the one before.  A command reaches the
\* machine later than it was signed, except where the operator's clock is ahead.
Handle(c) ==
  /\ mcConn = "ready" /\ mcWire # <<>> /\ Head(mcWire) = c /\ ~LoopBusy /\ ~AcksWaiting
  /\ mcWire' = Tail(mcWire)
  /\ IF ~CtlPaired THEN Answers(c, "rejected")
     ELSE IF mcMem[c].seen # CtlNever THEN Answers(c, DuplicateDelivery(c))
     ELSE IF ~InWindow(c) THEN Answers(c, "rejected")
     ELSE Executes(c)
  /\ UNCHANGED <<mcNow, mcSrv, mcConn, mcLink, mcWorld, mcLeft>>

(***************************************************************************)
(* Execution (_execute_and_ack, execute_command).                          *)
(***************************************************************************)
\* The nonce is kept for a full window after completion too.
NonceAsSigned(c) == mcMem[c].seen
NonceRenewed(c) == mcNow

Finished(c, res) ==
  /\ mcRun' = [mcRun EXCEPT ![c] = "none"]
  /\ mcMem' = SendCommandAck([mcMem EXCEPT ![c].seen = NonceRenewed(c), ![c].done = res], c, res)

StepTo(c, step) == mcRun' = [mcRun EXCEPT ![c] = step] /\ UNCHANGED mcMem

ExecUnchanged == UNCHANGED <<mcNow, mcSrv, mcRuns, mcConn, mcWire, mcLink, mcWrong>>

\* verify_agent_bundle and the preflight of the runtime.
VerifyCreate(c) ==
  /\ mcRun[c] = "verify"
  /\ \/ StepTo(c, "register") /\ UNCHANGED mcLeft
     \/ Finished(c, "failed") /\ CtlFault
  /\ UNCHANGED mcWorld /\ ExecUnchanged

\* The pending identity can be made permanent once.
MaterializeSlugBinding(c) ==
  /\ mcRun[c] = "register"
  /\ \/ mcIdent = "pending" /\ mcIdent' = "registered" /\ StepTo(c, "write") /\ UNCHANGED mcLeft
     \/ mcIdent = "registered" /\ Finished(c, "failed") /\ UNCHANGED <<mcIdent, mcLeft>>
     \/ Finished(c, "failed") /\ UNCHANGED mcIdent /\ CtlFault
  /\ UNCHANGED mcAgent /\ ExecUnchanged

\* An existing agent is left alone; a failure midway removes the directory.
WriteAgentFromContext(c) ==
  /\ mcRun[c] = "write"
  /\ \/ mcAgent = "none" /\ mcAgent' = "running" /\ StepTo(c, "start") /\ UNCHANGED mcLeft
     \/ mcAgent # "none" /\ Finished(c, "failed") /\ UNCHANGED <<mcAgent, mcLeft>>
     \/ mcAgent = "none" /\ Finished(c, "failed") /\ UNCHANGED mcAgent /\ CtlFault
  /\ UNCHANGED mcIdent /\ ExecUnchanged

\* The agent stays configured whatever its first start does.
WaitForAgentStart(c) ==
  /\ mcRun[c] = "start"
  /\ \/ mcAgent = "running" /\ Finished(c, "ok") /\ UNCHANGED mcLeft
     \/ Finished(c, "failed") /\ CtlFault
     \/ mcAgent # "running" /\ Finished(c, "failed") /\ UNCHANGED mcLeft
  /\ UNCHANGED mcWorld /\ ExecUnchanged

\* pause and resume save the agent's state for the reconciler.
SetAgentState(c) ==
  /\ mcRun[c] = "apply"
  /\ \/ /\ mcAgent # "none" /\ Finished(c, "ok")
        /\ mcAgent' = IF c.op = "pause" THEN "paused" ELSE "running"
     \/ mcAgent = "none" /\ Finished(c, "failed") /\ UNCHANGED mcAgent
  /\ UNCHANGED <<mcIdent, mcLeft>> /\ ExecUnchanged

ExecuteCommand(c) ==
  \/ VerifyCreate(c) \/ MaterializeSlugBinding(c) \/ WriteAgentFromContext(c) \/ WaitForAgentStart(c)
  \/ SetAgentState(c)

(***************************************************************************)
(* Unlinking (run_unlink), in another process.                             *)
(***************************************************************************)
\* The Server may be out of reach: the unlink goes on locally.
RevokeLink ==
  /\ mcUnlink = "linked" /\ mcUnlink' = "revoked" /\ CtlSpends("unlinks") /\ mcHears' \in {FALSE, mcHears}
  /\ UNCHANGED <<mcNow, mcSrv, mcMem, mcRun, mcRuns, mcConn, mcWire, mcWorld, mcWrong>>

PauseOwned ==
  /\ mcUnlink = "revoked" /\ mcUnlink' = "paused"
  /\ mcAgent' = IF mcAgent = "running" THEN "paused" ELSE mcAgent
  /\ UNCHANGED <<mcNow, mcSrv, mcMem, mcRun, mcRuns, mcConn, mcWire, mcHears, mcIdent, mcWrong, mcLeft>>

DeletePairing ==
  /\ mcUnlink = "paused" /\ mcUnlink' = "unlinked"
  /\ UNCHANGED <<mcNow, mcSrv, mcMem, mcRun, mcRuns, mcConn, mcWire, mcHears, mcWorld, mcWrong, mcLeft>>

(***************************************************************************)
(* The operator, time and restarts.                                        *)
(***************************************************************************)
OperatorSends(c) ==
  /\ mcSrv[c].st = "idle" /\ mcHears
  /\ \E ts \in (mcNow - 1)..(mcNow - 1 + CtlAhead) : mcSrv' = [mcSrv EXCEPT ![c].st = "sent", ![c].ts = ts]
  /\ mcWire' = IF mcConn = "ready" THEN Append(mcWire, c) ELSE mcWire
  /\ UNCHANGED <<mcNow, mcMem, mcRun, mcRuns, mcConn, mcLink, mcWorld, mcWrong, mcLeft>>

CtlTick ==
  /\ mcNow < MaxCtlClock /\ mcNow' = mcNow + 1
  /\ UNCHANGED <<mcSrv, mcMem, mcRun, mcRuns, mcConn, mcWire, mcLink, mcWorld, mcWrong, mcLeft>>

\* The daemon is killed and started again: what the client remembered is gone.
CtlRestart ==
  /\ CtlSpends("crashes")
  /\ mcMem' = [c \in CtlCommands |-> CtlForgotten] /\ mcRun' = [c \in CtlCommands |-> "none"]
  /\ mcRuns' = [c \in CtlCommands |-> 0] /\ mcConn' = "down" /\ mcWire' = <<>>
  /\ UNCHANGED <<mcNow, mcSrv, mcLink, mcWorld, mcWrong>>

CtlNext ==
  \/ AckWrites \/ ConnectOnce \/ Connected \/ ConnectionDrops \/ ManagerCancels
  \/ \E c \in CtlCommands : Handle(c) \/ ExecuteCommand(c) \/ OperatorSends(c)
  \/ RevokeLink \/ PauseOwned \/ DeletePairing \/ CtlTick \/ CtlRestart

CtlSpec == CtlInit /\ [][CtlNext]_mcVars

\* The client reconnects, reads, runs and writes; nobody has to send, unlink or restart.
FairCtlSpec ==
  /\ CtlSpec /\ WF_mcVars(AckWrites) /\ WF_mcVars(ConnectOnce) /\ WF_mcVars(Connected)
  /\ WF_mcVars(\E c \in CtlCommands : Handle(c))
  /\ \A c \in CtlCommands : WF_mcVars(ExecuteCommand(c))

(***************************************************************************)
(* Properties.                                                             *)
(***************************************************************************)
\* While the operator's clock does not run ahead, a daemon executes a command once however often it is
\* delivered: the nonce outlives the window in which the command would be accepted, through a long
\* execution and through lost acknowledgements (_handle, _execute_and_ack).
CommandRunsOnce == \A c \in CtlCommands : mcRuns[c] <= 1

\* A command that ran, or runs, is not answered as rejected while it is young enough to be recognised
\* (_handle, the duplicate branch).
RunIsNotRejected == ~mcWrong

\* A command the Server holds is answered in the end, through lost connections, lost acknowledgements
\* and a restart, unless the machine is unlinked (_flush_pending_acks, _handle).
CommandIsAnswered ==
  \A c \in CtlCommands : (mcSrv[c].st = "sent") ~> (mcSrv[c].st = "acked" \/ mcUnlink # "linked")

=============================================================================
