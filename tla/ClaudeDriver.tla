---------------------------- MODULE ClaudeDriver ----------------------------
(***************************************************************************)
(* The Claude Code driver (agent/harness/drivers/claude_code.py): a        *)
(* persistent CLI child that takes user frames (commands) on stdin and     *)
(* reports on stdout.  The read loop handles one stdout frame at a time    *)
(* and never yields inside a handler; steer_turn waits for the queue       *)
(* acknowledgement of its command beside it, with a timeout.  With the     *)
(* msg_lifecycle_v1 capability a turn ends when every command it owns is   *)
(* terminal; without it, at the first result frame.                        *)
(***************************************************************************)
EXTENDS Integers, Sequences, FiniteSets

CONSTANTS MaxCTurns,     \* turn references the driver issues
          MaxCmds,       \* user frames written (start_turn and steer_turn)
          MaxWakes,      \* runs the CLI starts by itself
          MaxRepeats,    \* assistant frames the CLI sends once more
          MaxFrames      \* frames waiting in stdout before the CLI pauses

Cmds == 1 .. MaxCmds
CTurns == 1 .. MaxCTurns
Wakes == MaxCmds + 1 .. MaxCmds + MaxWakes   \* outputs of the CLI's own runs
NoCmd == 0

ASSUME ClaudeAssumption == MaxCTurns \in Nat

VARIABLES
    cd,       \* the driver's fields
    steer,    \* the steer_turn call in progress: its command, the acknowledgement
    cdEnds,   \* terminal events emitted, per turn (history)
    shownIn,  \* the turns each output was shown in (history)
    cmd,      \* per command: where the CLI has it, and what the daemon was told
    cli,      \* the child process (external)
    stdout    \* frames the read loop has not handled yet

clVars == <<cd, steer, cdEnds, shownIn, cmd, cli, stdout>>

NoSteer == [c |-> NoCmd, ack |-> "none"]

\* turn: _active; auto: _autonomous; owned, ended: _owned_commands and
\* _terminal_commands; gated, waiting: _gated_command_id and whether _gated_ack
\* is set; shown, past: _active_assistant_ids and _completed_assistant_ids;
\* v1: _message_lifecycle_v1.  last numbers the turns; reusable is the last
\* receipt's session_reusable, on which the manager retires the session.
ClInit ==
    /\ cd = [turn |-> 0, auto |-> FALSE, owned |-> {}, ended |-> {}, gated |-> NoCmd,
             waiting |-> FALSE, shown |-> {}, past |-> {}, v1 |-> FALSE, last |-> 0,
             reusable |-> TRUE]
    /\ steer = NoSteer
    /\ cdEnds = [t \in CTurns |-> 0]
    /\ shownIn = [i \in Cmds \cup Wakes |-> {}]
    /\ cmd = [c \in Cmds |-> [at |-> "unsent", auto |-> FALSE, told |-> FALSE]]
    /\ cli = [proc |-> "up", greeted |-> FALSE, v1 |-> FALSE, run |-> 0, said |-> {},
              wakes |-> 0, repeats |-> 0]
    /\ stdout = <<>>

-----------------------------------------------------------------------------
\* The driver's bookkeeping, on the triple of what its methods change

Now == [d |-> cd, st |-> steer, e |-> cdEnds]

Becomes(s) ==
    /\ cd' = s.d /\ steer' = s.st /\ cdEnds' = s.e
    /\ shownIn' = [i \in DOMAIN shownIn |->
                     IF i \in s.d.shown THEN shownIn[i] \cup {s.d.turn} ELSE shownIn[i]]

\* _settle_gated_ack
SettleAck(s, outcome) ==
    IF s.d.waiting
    THEN [s EXCEPT !.d.waiting = FALSE, !.st.ack = outcome]
    ELSE s

\* _reset_turn_tracking
ResetTracking(s, primary) ==
    [SettleAck(s, "rejected") EXCEPT !.d = [@ EXCEPT !.shown = {}, !.gated = NoCmd,
                                                     !.owned = primary, !.ended = {}]]

\* _finish_turn: the terminal event, then back to idle
FinishTurn(s) ==
    LET r == ResetTracking(s, {})
    IN  [r EXCEPT !.d = [@ EXCEPT !.turn = 0, !.auto = FALSE, !.past = s.d.past \cup s.d.shown],
                  !.e = [s.e EXCEPT ![s.d.turn] = @ + 1]]

\* _maybe_complete_lifecycle_turn's condition
AllCommandsDone(s) == s.d.turn # 0 /\ s.d.owned \subseteq s.d.ended

MaybeComplete(s) == IF AllCommandsDone(s) THEN FinishTurn(s) ELSE s

\* _drop_unacknowledged_gated_command
DropGated(s, c) ==
    [SettleAck(s, "rejected") EXCEPT !.d = [@ EXCEPT !.owned = s.d.owned \ {c},
                                                     !.ended = s.d.ended \ {c},
                                                     !.gated = NoCmd]]

-----------------------------------------------------------------------------
\* What the daemon calls; the manager's command lock serialises these

\* the next user frame, its uuid
NextCmd == CHOOSE c \in Cmds : cmd[c].at = "unsent" /\ \A b \in 1 .. c - 1 : cmd[b].at # "unsent"

CmdsLeft == \E c \in Cmds : cmd[c].at = "unsent"

\* start_turn.  A write that fails restores the idle fields it started from
\* and raises, so only the written frame changes anything.
ClaudeStartTurn ==
    /\ cli.proc = "up" /\ cd.reusable /\ steer = NoSteer
    /\ cd.turn = 0 /\ cd.last < MaxCTurns /\ CmdsLeft
    /\ LET s == ResetTracking(Now, {NextCmd})
       IN  Becomes([s EXCEPT !.d = [@ EXCEPT !.turn = cd.last + 1, !.last = cd.last + 1]])
    /\ cmd' = [cmd EXCEPT ![NextCmd] = [at |-> "stdin", auto |-> FALSE, told |-> TRUE]]
    /\ UNCHANGED <<cli, stdout>>

\* steer_turn up to its write: the command is owned before it is written
OwnCommand(s, c) ==
    [s EXCEPT !.d = [@ EXCEPT !.gated = c, !.waiting = TRUE, !.owned = s.d.owned \cup {c}],
              !.st = [c |-> c, ack |-> "none"]]

\* steer_turn, called with the current turn (a foreign reference raises, a
\* second gated command is refused, without v1 steering is unsupported)
SteerTurn ==
    /\ cli.proc \in {"up", "dead"} /\ cd.reusable /\ steer = NoSteer
    /\ cd.v1 /\ cd.turn # 0 /\ cd.gated = NoCmd /\ CmdsLeft
    /\ IF cli.proc = "up"
       THEN /\ Becomes(OwnCommand(Now, NextCmd))
            /\ cmd' = [cmd EXCEPT ![NextCmd] = [at |-> "stdin", auto |-> cd.auto, told |-> FALSE]]
       ELSE \* the write raises: drop the command, the caller sees the exception
            /\ Becomes([MaybeComplete(DropGated(OwnCommand(Now, NextCmd), NextCmd))
                           EXCEPT !.st = NoSteer])
            /\ cmd' = [cmd EXCEPT ![NextCmd].at = "done"]
    /\ UNCHANGED <<cli, stdout>>

\* steer_turn resumes on its acknowledgement; an ambiguous one is not reusable
SteerReturns ==
    /\ steer.ack # "none"
    /\ cmd' = [cmd EXCEPT ![steer.c].told = (steer.ack = "queued")]
    /\ cd' = [cd EXCEPT !.reusable = steer.ack # "ambiguous"]
    /\ steer' = NoSteer
    /\ UNCHANGED <<cdEnds, shownIn, cli, stdout>>

\* the acknowledgement timeout, when none has come
SteerTimesOut ==
    /\ steer.c # NoCmd /\ steer.ack = "none"
    /\ LET s == MaybeComplete(DropGated(Now, steer.c))
       IN  Becomes([s EXCEPT !.st = NoSteer, !.d.reusable = FALSE])
    /\ UNCHANGED <<cmd, cli, stdout>>

\* close: the child is gone, pending futures fail, the fields are reset
CloseDriver ==
    /\ cli.proc # "closed"
    /\ steer = NoSteer
    /\ LET s == ResetTracking(SettleAck(Now, "ambiguous"), {})
       IN  Becomes([s EXCEPT !.d = [@ EXCEPT !.turn = 0, !.auto = FALSE, !.v1 = FALSE,
                                             !.reusable = TRUE]])
    /\ cli' = [cli EXCEPT !.proc = "closed", !.run = 0]
    /\ cmd' = [c \in Cmds |-> IF cmd[c].at \in {"stdin", "queue", "run"}
                              THEN [cmd[c] EXCEPT !.at = "done"] ELSE cmd[c]]
    /\ stdout' = <<>>

\* open (after _prepare_reopen): a new child that resumes the session
OpenDriver ==
    /\ cli.proc = "closed"
    /\ cli' = [cli EXCEPT !.proc = "up", !.greeted = FALSE, !.v1 = FALSE]
    /\ UNCHANGED <<cd, steer, cdEnds, shownIn, cmd, stdout>>

-----------------------------------------------------------------------------
\* _read_loop and _handle: one frame of stdout

\* _complete_init: the capabilities the CLI announces
HandleInit(f) == Becomes([Now EXCEPT !.d.v1 = f.v1])

\* the terminal branch of _handle_command_lifecycle
TerminalRecord(s, c) ==
    IF c = s.d.gated /\ s.d.waiting
    THEN MaybeComplete(DropGated(s, c))
    ELSE MaybeComplete([s EXCEPT !.d.ended = @ \cup {c}])

\* _handle_command_lifecycle, for a command this turn owns
HandleLifecycle(f) ==
    IF ~cd.v1 \/ f.c \notin cd.owned
    THEN Becomes(Now)
    ELSE \/ /\ f.s = "queued"
            /\ Becomes(IF f.c = cd.gated THEN SettleAck(Now, "queued") ELSE Now)
         \/ f.s = "started" /\ Becomes(Now)
         \/ f.s = "terminal" /\ Becomes(TerminalRecord(Now, f.c))
         \/ /\ f.s = "unknown"
            /\ LET s == IF f.c = cd.gated THEN SettleAck(Now, "ambiguous") ELSE Now
               IN  Becomes(MaybeComplete([s EXCEPT !.d.ended = @ \cup {f.c}]))

\* _handle_assistant: output with no current turn opens an autonomous one
HandleAssistant(f) ==
    IF f.c \in cd.past
    THEN Becomes(Now)
    ELSE LET s == [Now EXCEPT !.d.shown = @ \cup {f.c}]
         IN  IF cd.turn # 0
             THEN Becomes(s)
             ELSE /\ cd.last < MaxCTurns
                  /\ Becomes([s EXCEPT !.d = [@ EXCEPT !.turn = cd.last + 1, !.last = cd.last + 1,
                                                        !.auto = TRUE]])

\* _handle_result: with v1 a result ends a turn only when it is the result of
\* an autonomous run; the commands of a daemon turn end with their records
ResultEnds(c) == ~cd.v1 \/ (c \notin cd.owned /\ cd.auto)

HandleResult(f) ==
    Becomes(IF cd.turn # 0 /\ ResultEnds(f.c) THEN FinishTurn(Now) ELSE Now)

ReadFrame ==
    /\ cli.proc \in {"up", "dead"}
    /\ stdout # <<>>
    /\ LET f == Head(stdout)
       IN  \/ f.k = "init" /\ HandleInit(f)
           \/ f.k = "life" /\ HandleLifecycle(f)
           \/ f.k = "assistant" /\ HandleAssistant(f)
           \/ f.k = "result" /\ HandleResult(f)
    /\ stdout' = Tail(stdout)
    /\ UNCHANGED <<cmd, cli>>

\* the end of stdout: pending futures fail, RUNTIME_EXITED; the turn stays
\* current until the manager closes the driver
ReadEof ==
    /\ cli.proc = "dead" /\ stdout = <<>>
    /\ Becomes([SettleAck(Now, "ambiguous") EXCEPT !.d.reusable = FALSE])
    /\ cli' = [cli EXCEPT !.proc = "exited"]
    /\ UNCHANGED <<cmd, stdout>>

-----------------------------------------------------------------------------
\* The CLI, from the frames the driver expects of it

Fr(k, c, s) == [k |-> k, c |-> c, s |-> s, v1 |-> cli.v1]
Life(c, s) == IF cli.v1 THEN <<Fr("life", c, s)>> ELSE <<>>
CliCan == cli.proc = "up" /\ Len(stdout) < MaxFrames

\* system/init goes out with the first user frame
CliGreets ==
    /\ CliCan /\ ~cli.greeted
    /\ \E c \in Cmds : cmd[c].at = "stdin"
    /\ \E v \in BOOLEAN :
          /\ cli' = [cli EXCEPT !.greeted = TRUE, !.v1 = v]
          /\ stdout' = Append(stdout, [k |-> "init", c |-> NoCmd, s |-> "", v1 |-> v])
    /\ UNCHANGED <<cd, steer, cdEnds, shownIn, cmd>>

CliQueues(c) ==
    /\ CliCan /\ cli.greeted /\ cmd[c].at = "stdin"
    /\ cmd' = [cmd EXCEPT ![c].at = "queue"]
    /\ stdout' = stdout \o Life(c, "queued")
    /\ UNCHANGED <<cd, steer, cdEnds, shownIn, cli>>

\* cancelled or discarded before it ran, or finished with a state of a later version
CliCancels(c) ==
    /\ CliCan /\ cli.v1 /\ cmd[c].at \in {"stdin", "queue"} /\ cli.greeted
    /\ cmd' = [cmd EXCEPT ![c].at = "done"]
    /\ \E s \in {"terminal", "unknown"} : stdout' = stdout \o Life(c, s)
    /\ UNCHANGED <<cd, steer, cdEnds, shownIn, cli>>

CliRuns(c) ==
    /\ CliCan /\ cli.run = 0 /\ cmd[c].at = "queue"
    /\ cmd' = [cmd EXCEPT ![c].at = "run"]
    /\ cli' = [cli EXCEPT !.run = c, !.said = @ \cup {c}]
    /\ stdout' = stdout \o Life(c, "started") \o <<Fr("assistant", c, "")>>
    /\ UNCHANGED <<cd, steer, cdEnds, shownIn>>

CliFinishes(c) ==
    /\ CliCan /\ cmd[c].at = "run"
    /\ cmd' = [cmd EXCEPT ![c].at = "done"]
    /\ cli' = [cli EXCEPT !.run = 0]
    /\ stdout' = stdout \o <<Fr("result", c, "")>> \o Life(c, "terminal")
    /\ UNCHANGED <<cd, steer, cdEnds, shownIn>>

\* a background task wakes the model
CliWakes ==
    /\ CliCan /\ cli.greeted /\ cli.run = 0 /\ cli.wakes < MaxWakes
    /\ LET w == MaxCmds + cli.wakes + 1
       IN  /\ cli' = [cli EXCEPT !.run = w, !.said = @ \cup {w}, !.wakes = @ + 1]
           /\ stdout' = Append(stdout, Fr("assistant", w, ""))
    /\ UNCHANGED <<cd, steer, cdEnds, shownIn, cmd>>

CliSettles ==
    /\ CliCan /\ cli.run \in Wakes
    /\ cli' = [cli EXCEPT !.run = 0]
    /\ stdout' = Append(stdout, Fr("result", cli.run, ""))
    /\ UNCHANGED <<cd, steer, cdEnds, shownIn, cmd>>

\* an assistant frame sent a second time (a resumed session replays output)
CliRepeats ==
    /\ CliCan /\ cli.greeted /\ cli.repeats < MaxRepeats
    /\ \E i \in cli.said : stdout' = Append(stdout, Fr("assistant", i, ""))
    /\ cli' = [cli EXCEPT !.repeats = @ + 1]
    /\ UNCHANGED <<cd, steer, cdEnds, shownIn, cmd>>

CliDies ==
    /\ cli.proc = "up" /\ cli.greeted
    /\ cli' = [cli EXCEPT !.proc = "dead", !.run = 0]
    /\ cmd' = [c \in Cmds |-> IF cmd[c].at \in {"stdin", "queue", "run"}
                              THEN [cmd[c] EXCEPT !.at = "done"] ELSE cmd[c]]
    /\ UNCHANGED <<cd, steer, cdEnds, shownIn, stdout>>

ClNext ==
    \/ ClaudeStartTurn \/ SteerTurn \/ SteerReturns \/ SteerTimesOut \/ CloseDriver \/ OpenDriver
    \/ ReadFrame \/ ReadEof
    \/ CliGreets \/ CliWakes \/ CliSettles \/ CliRepeats \/ CliDies
    \/ \E c \in Cmds : CliQueues(c) \/ CliCancels(c) \/ CliRuns(c) \/ CliFinishes(c)

ClSpec == ClInit /\ [][ClNext]_clVars

-----------------------------------------------------------------------------
ClTurns == INSTANCE DriverTurns WITH DTurns <- CTurns, dturn <- cd.turn, dends <- cdEnds

\* The driver keeps the turn contract of driver.py: one current turn, whose
\* terminal event is emitted once and ends it, over every order of frames,
\* acknowledgements, timeouts, closes and exits.
ClaudeKeepsContract == ClTurns!DSpec

\* A command of a daemon turn that the daemon believes accepted stays owned
\* by the current turn as long as the CLI still has to run it: "Own the
\* command before writing so a concurrent result cannot close the logical
\* Puffo turn and orphan an accepted native command" (steer_turn).
PendingCmd(c) == cmd[c].at \in {"stdin", "queue", "run"} /\ cmd[c].told
NoOrphanCommand ==
    (cli.v1 /\ cd.reusable) =>
        \A c \in Cmds : (PendingCmd(c) /\ ~cmd[c].auto) => c \in cd.owned

\* Output the CLI repeats after its turn completed opens no turn
\* (_completed_assistant_ids: "Keep completed identities across process
\* reopen/resume").
CompletedOutputIsNotReplayed ==
    \A i \in DOMAIN shownIn : \A t, u \in shownIn[i] : t < u => cdEnds[t] = 0
=============================================================================
