------------------------------ MODULE PiDriver ------------------------------
(***************************************************************************)
(* The Pi driver (agent/harness/drivers/pi.py, pi_protocol.py): an RPC     *)
(* session whose runs end at agent_settled and nowhere else; agent_end may *)
(* be followed by a retry or a queued continuation.  The outcome of a turn *)
(* is accumulated from the events of the run.  A run the daemon did not    *)
(* start is adopted at its agent_start.  Dialogs of an extension block the *)
(* agent until they are answered.                                          *)
(***************************************************************************)
EXTENDS Integers, Sequences, FiniteSets

CONSTANTS MaxPTurns,     \* turn references the driver issues (one per run is kept back)
          MaxPRuns,      \* runs of the agent
          MaxPWire       \* frames waiting in stdout before the agent pauses

PTurns == 1 .. MaxPTurns

ASSUME PiAssumption == MaxPTurns \in Nat /\ MaxPRuns \in Nat

VARIABLES
    pi,       \* the driver: current turn and what it has heard of its outcome
    pCall,    \* the command in progress: its kind and its response
    pEnds,    \* terminal events emitted, per turn (history)
    pTold,    \* per turn: the outcome reported, the run it was started with (history)
    agent,    \* the Pi process (external)
    pWire     \* frames the read loop has not handled yet

pVars == <<pi, pCall, pEnds, pTold, agent, pWire>>

NoPCall == [k |-> "none", st |-> "none"]

\* outcome, failure, error: _turn_outcome, whether _assistant_failure and
\* _turn_error_code are set
Fresh0 == [outcome |-> "succeeded", failure |-> FALSE, error |-> FALSE]

PInit ==
    /\ pi = [turn |-> 0, last |-> 0, ok |-> TRUE, acc |-> Fresh0]
    /\ pCall = NoPCall
    /\ pEnds = [t \in PTurns |-> 0]
    /\ pTold = [t \in PTurns |-> [outcome |-> "", run |-> 0, alone |-> FALSE, cancel |-> FALSE]]
    /\ agent = [proc |-> "up", req |-> "none", run |-> 0, runs |-> 0, phase |-> "idle",
                broken |-> {}, settled |-> {}, dialog |-> FALSE, aborted |-> FALSE]
    /\ pWire = <<>>

-----------------------------------------------------------------------------
\* Commands

PReady == agent.proc \in {"up", "dead"} /\ pi.ok /\ pCall = NoPCall /\ agent.req = "none"

Ask(k) ==
    /\ pCall' = [k |-> k, st |-> "waiting"]
    /\ agent' = [agent EXCEPT !.req = k]

\* start_turn up to its await
StartPrompt ==
    /\ PReady /\ pi.turn = 0 /\ pi.last + MaxPRuns < MaxPTurns
    /\ pi' = [pi EXCEPT !.turn = pi.last + 1, !.last = @ + 1, !.acc = Fresh0]
    /\ pTold' = [pTold EXCEPT ![pi.last + 1].alone = (pWire = <<>> /\ agent.phase = "idle")]
    /\ Ask("prompt")
    /\ UNCHANGED <<pEnds, pWire>>

\* cancel_turn records the outcome, then asks; the terminal still comes with
\* agent_settled.  steer_turn queues its input in the agent.
CancelTurn ==
    /\ PReady /\ pi.turn # 0
    /\ pi' = [pi EXCEPT !.acc.outcome = "cancelled"]
    /\ pTold' = [pTold EXCEPT ![pi.turn].cancel = TRUE]
    /\ Ask("abort")
    /\ UNCHANGED <<pEnds, pWire>>

SteerPi ==
    /\ PReady /\ pi.turn # 0
    /\ Ask("steer")
    /\ UNCHANGED <<pi, pTold, pEnds, pWire>>

\* a waiting command times out (await_rpc_response), or resumes on its response
CallTimeout ==
    /\ pCall.st = "waiting"
    /\ pCall' = [pCall EXCEPT !.st = "error"]
    /\ UNCHANGED <<pi, pEnds, pTold, agent, pWire>>

CallResumes ==
    /\ pCall.st \in {"ok", "error"}
    /\ pi' = IF pCall.k = "prompt" /\ pCall.st = "error"
             THEN [pi EXCEPT !.turn = 0, !.acc = Fresh0, !.ok = FALSE] ELSE pi
    /\ pCall' = NoPCall
    /\ UNCHANGED <<pEnds, pTold, agent, pWire>>

\* close, and open again
ClosePi ==
    /\ agent.proc # "closed" /\ pCall.st \in {"none", "waiting"}
    /\ pi' = [pi EXCEPT !.turn = 0, !.acc = Fresh0]
    /\ pCall' = IF pCall.st = "waiting" THEN [pCall EXCEPT !.st = "error"] ELSE pCall
    /\ agent' = [agent EXCEPT !.proc = "closed", !.req = "none", !.run = 0, !.phase = "idle",
                              !.dialog = FALSE, !.aborted = FALSE]
    /\ pWire' = <<>>
    /\ UNCHANGED <<pEnds, pTold>>

\* open: verify_pi_tool_bridge, the session, and the bridge's own attestation
OpenPi ==
    /\ agent.proc = "closed" /\ pCall = NoPCall
    /\ agent' = [agent EXCEPT !.proc = "up"]
    /\ pi' = [pi EXCEPT !.ok = TRUE]
    /\ UNCHANGED <<pCall, pEnds, pTold, pWire>>

-----------------------------------------------------------------------------
\* _read_loop and _dispatch_frame

OnResponse(f) ==
    /\ pCall' = IF pCall.st = "waiting" /\ pCall.k = f.x THEN [pCall EXCEPT !.st = f.s] ELSE pCall
    /\ UNCHANGED <<pi, pEnds, pTold, agent>>

\* agent_start without a current turn: an autonomous run
OnStart ==
    /\ pi.turn # 0 \/ pi.last < MaxPTurns
    /\ pi' = IF pi.turn # 0 THEN pi
             ELSE [pi EXCEPT !.turn = pi.last + 1, !.last = @ + 1, !.acc = Fresh0]
    /\ UNCHANGED <<pCall, pEnds, pTold, agent>>

\* auto_retry_end, succeeded: the assistant error is forgiven
Forgiven(a) == [a EXCEPT !.failure = FALSE]

\* message_end with an error; auto_retry_end
OnError == pi' = [pi EXCEPT !.acc.failure = TRUE] /\ UNCHANGED <<pCall, pEnds, pTold, agent>>
OnRetried == pi' = [pi EXCEPT !.acc = Forgiven(@)] /\ UNCHANGED <<pCall, pEnds, pTold, agent>>
OnGaveUp ==
    /\ pi' = [pi EXCEPT !.acc = [@ EXCEPT !.outcome = "failed", !.error = TRUE]]
    /\ UNCHANGED <<pCall, pEnds, pTold, agent>>

\* a dialog is cancelled at once (_handle_extension_ui_request)
OnDialog == agent' = [agent EXCEPT !.dialog = FALSE] /\ UNCHANGED <<pi, pCall, pEnds, pTold>>

\* the outcome _complete_turn reports
Outcome(a) == IF (a.error \/ a.failure) /\ a.outcome # "cancelled" THEN "failed" ELSE a.outcome

\* TERMINAL_EVENT
Terminal == {"settled"}

\* _complete_turn leaves the driver idle before the event is put
Released(p) == [p EXCEPT !.turn = 0, !.acc = Fresh0]

\* _complete_turn; a run that settles with no current turn names none
OnSettled ==
    /\ IF pi.turn = 0 THEN UNCHANGED <<pi, pEnds, pTold>>
       ELSE /\ pEnds' = [pEnds EXCEPT ![pi.turn] = @ + 1]
            /\ pTold' = [pTold EXCEPT ![pi.turn].outcome = Outcome(pi.acc)]
            /\ pi' = Released(pi)
    /\ UNCHANGED <<pCall, agent>>

ReadPi ==
    /\ agent.proc \in {"up", "dead"} /\ pWire # <<>>
    /\ LET f == Head(pWire)
       IN  \/ f.k = "response" /\ OnResponse(f)
           \/ f.k = "start" /\ OnStart
           \/ f.k = "error" /\ OnError
           \/ f.k = "retried" /\ OnRetried
           \/ f.k = "gaveup" /\ OnGaveUp
           \/ f.k = "dialog" /\ OnDialog
           \/ f.k \in Terminal /\ OnSettled
           \/ f.k = "end" /\ "end" \notin Terminal /\ UNCHANGED <<pi, pCall, pEnds, pTold, agent>>
    /\ pWire' = Tail(pWire)

\* the reader's finally: pending commands fail, RUNTIME_EXITED
ReadPiEnds ==
    /\ agent.proc = "dead" /\ pWire = <<>>
    /\ pCall' = IF pCall.st = "waiting" THEN [pCall EXCEPT !.st = "error"] ELSE pCall
    /\ agent' = [agent EXCEPT !.proc = "exited"]
    /\ pi' = [pi EXCEPT !.ok = FALSE]
    /\ UNCHANGED <<pEnds, pTold, pWire>>

-----------------------------------------------------------------------------
\* The Pi process

AgentCan == agent.proc = "up" /\ Len(pWire) < MaxPWire /\ ~agent.dialog
Say(fs) == pWire' = pWire \o fs
PF(k) == [k |-> k, x |-> "", s |-> ""]
Reply(k, s) == [k |-> "response", x |-> k, s |-> s]

\* a prompt starts a run when the agent is idle and is rejected otherwise
AgentPrompted ==
    /\ AgentCan /\ agent.req = "prompt"
    /\ IF agent.phase = "idle"
       THEN /\ agent.runs < MaxPRuns
            /\ agent' = [agent EXCEPT !.req = "none", !.run = agent.runs + 1, !.runs = @ + 1,
                                      !.phase = "run"]
            /\ pTold' = IF pi.turn = 0 THEN pTold
                        ELSE [pTold EXCEPT ![pi.turn].run = agent.runs + 1]
            /\ Say(<<Reply("prompt", "ok"), PF("start")>>)
       ELSE /\ agent' = [agent EXCEPT !.req = "none"]
            /\ Say(<<Reply("prompt", "error")>>)
            /\ UNCHANGED pTold
    /\ UNCHANGED <<pi, pCall, pEnds>>

AgentObeys ==
    /\ AgentCan /\ agent.req \in {"abort", "steer"}
    /\ agent' = [agent EXCEPT !.aborted = @ \/ (agent.req = "abort" /\ agent.phase # "idle"),
                              !.req = "none"]
    /\ Say(<<Reply(agent.req, "ok")>>)
    /\ UNCHANGED <<pi, pCall, pEnds, pTold>>

\* an extension or a queued continuation wakes the model
AgentWakes ==
    /\ AgentCan /\ agent.phase = "idle" /\ agent.runs < MaxPRuns /\ agent.runs > 0
    /\ agent' = [agent EXCEPT !.run = agent.runs + 1, !.runs = @ + 1, !.phase = "run"]
    /\ Say(<<PF("start")>>)
    /\ pTold' = [t \in PTurns |-> IF t = pi.turn /\ pTold[t].run = 0
                                  THEN [pTold[t] EXCEPT !.alone = FALSE] ELSE pTold[t]]
    /\ UNCHANGED <<pi, pCall, pEnds>>

\* within a run: an assistant error that is retried, and how the retry goes
AgentErrs ==
    /\ AgentCan /\ agent.phase = "run" /\ agent.run \notin agent.broken
    /\ agent' = [agent EXCEPT !.phase = "retry", !.broken = @ \cup {agent.run}]
    /\ Say(<<PF("error")>>)
    /\ UNCHANGED <<pi, pCall, pEnds, pTold>>

AgentRetries ==
    /\ AgentCan /\ agent.phase = "retry"
    /\ \/ /\ ~agent.aborted
          /\ agent' = [agent EXCEPT !.phase = "run", !.broken = @ \ {agent.run}]
          /\ Say(<<PF("retried")>>)
       \/ agent' = [agent EXCEPT !.phase = "ending"] /\ Say(<<PF("gaveup")>>)
    /\ UNCHANGED <<pi, pCall, pEnds, pTold>>

AgentAsks ==
    /\ AgentCan /\ agent.phase = "run"
    /\ agent' = [agent EXCEPT !.dialog = TRUE]
    /\ Say(<<PF("dialog")>>)
    /\ UNCHANGED <<pi, pCall, pEnds, pTold>>

\* a low-level run ends; it may be continued, and settles in the end
AgentEnds ==
    /\ AgentCan /\ agent.phase \in {"run", "ending"}
    /\ agent' = [agent EXCEPT !.phase = "ended"]
    /\ Say(<<PF("end")>>)
    /\ UNCHANGED <<pi, pCall, pEnds, pTold>>

AgentSettles ==
    /\ AgentCan /\ agent.phase = "ended"
    /\ agent' = [agent EXCEPT !.phase = "idle", !.run = 0, !.settled = @ \cup {agent.run},
                              !.aborted = FALSE]
    /\ Say(<<PF("settled")>>)
    /\ UNCHANGED <<pi, pCall, pEnds, pTold>>

AgentDies ==
    /\ agent.proc = "up" /\ agent.runs > 0
    /\ agent' = [agent EXCEPT !.proc = "dead", !.req = "none", !.phase = "idle", !.run = 0,
                              !.dialog = FALSE, !.aborted = FALSE]
    /\ UNCHANGED <<pi, pCall, pEnds, pTold, pWire>>

PNext ==
    \/ StartPrompt \/ CancelTurn \/ SteerPi \/ CallTimeout \/ CallResumes \/ ClosePi \/ OpenPi
    \/ ReadPi \/ ReadPiEnds
    \/ AgentPrompted \/ AgentObeys \/ AgentWakes \/ AgentErrs \/ AgentRetries \/ AgentAsks
    \/ AgentEnds \/ AgentSettles \/ AgentDies

PSpec == PInit /\ [][PNext]_pVars

\* the read loop handles the frames that are there
FairPSpec == PSpec /\ WF_pVars(ReadPi)

-----------------------------------------------------------------------------
PContract == INSTANCE DriverTurns WITH DTurns <- PTurns, dturn <- pi.turn, dends <- pEnds

\* The driver keeps the turn contract of driver.py: "Emitting one here would
\* produce two terminals" (cancel_turn), one terminal per settled run.
PiKeepsContract == PContract!DSpec

\* A turn whose prompt met the agent at rest ends only when its own run has
\* settled: "doing that here would finalize a Puffo turn while the model is
\* still running" (pi_protocol.py on agent_end).
TerminalMeansSettled ==
    \A t \in PTurns : (pEnds[t] > 0 /\ pTold[t].alone) => pTold[t].run \in agent.settled

\* The outcome reported is the run's: an error that a retry recovered does not
\* fail the turn, one that it did not recover does.
OutcomeIsTheRuns ==
    \A t \in PTurns :
        (pEnds[t] > 0 /\ pTold[t].alone /\ ~pTold[t].cancel) =>
            (pTold[t].outcome = "failed" <=> pTold[t].run \in agent.broken)

\* A dialog never stalls the agent for ever ("an unanswered one is a stall").
DialogIsAnswered == agent.dialog ~> ~agent.dialog

=============================================================================
