----------------------------- MODULE RuntimeManager -----------------------------
(***************************************************************************)
(* RuntimeManager and RuntimeManagerAdapter                                 *)
(* (agent/harness/runtime/runtime_manager.py) with the durable recovery     *)
(* gate of agent/turn_recovery.py, over one provider process.               *)
(*                                                                          *)
(* Commands and the event reader hold _command_lock from end to end, so a   *)
(* command is one step, except where the recovery gate is written in the    *)
(* middle of one: there the lock stays taken between the steps.  Outside    *)
(* the lock run: the provider, the adapter's run_turn (start, consume, time *)
(* out, retry), the watchdog's clock and the waiter of a compaction.  A     *)
(* turn has one number as logical and as driver turn; a work item stands    *)
(* for the input a turn carries; sessions are numbered as the provider      *)
(* creates them, 0 being none.                                              *)
(***************************************************************************)
EXTENDS Values, Integers, Sequences, FiniteSets, SequencesExt

CONSTANTS
    MaxHTurns,     \* turns the provider starts, or is asked to start
    MaxNative,     \* native sessions the provider creates
    MaxWorks,      \* inputs of the Inbox
    MaxAttempts,   \* max_api_retries
    FallbackAfter, \* _RESUME_FAILURE_FALLBACK_AFTER
    MaxMgrFaults,  \* failures of the provider, of the sink, crashes
    MaxQueue       \* provider events not yet read

ASSUME MgrAssumption ==
    /\ MaxHTurns \in Nat \ {0} /\ MaxNative \in Nat \ {0} /\ MaxWorks \in Nat \ {0}
    /\ MaxAttempts \in Nat /\ FallbackAfter \in Nat \ {0} /\ MaxMgrFaults \in Nat
    /\ MaxQueue \in Nat \ {0}

VARIABLES
    mgr,      \* the manager's fields
    prov,     \* the provider process it owns
    evq,      \* events of the driver
    rec,      \* turn_recovery.json
    cmdLock,  \* where the holder of _command_lock is, if it is held between steps
    runner,   \* the Inbox worker inside run_turn or run_retry_turn
    terms,    \* history: terminal events published per turn
    orphans,  \* history: turns a crash left running
    content,  \* history: inputs in the transcript of a session
    rejected, \* history: sessions the provider called unusable
    numbers,  \* the last turn, session and work numbers
    mgrFaults

histVars == <<terms, orphans, content, rejected>>
mgrVars == <<mgr, prov, evq, rec, cmdLock, runner, histVars, numbers, mgrFaults>>

HTurns == 1..MaxHTurns
Natives == 1..MaxNative
NewManager(native, owner) ==
    [closed |-> FALSE, opened |-> FALSE, native |-> native, confirmed |-> 0,
     unconfirmed |-> FALSE, admitted |-> FALSE, streak |-> 0, active |-> 0, auto |-> 0,
     watched |-> FALSE, waiting |-> FALSE, compaction |-> FALSE, owner |-> owner]
NoProcess == [alive |-> FALSE, running |-> 0, compacting |-> FALSE]
NewProcess == [NoProcess EXCEPT !.alive = TRUE]
RunnerIdle == [step |-> "idle", work |-> 0, turn |-> 0, tries |-> 0, kick |-> FALSE,
               mail |-> "none"]

MgrInit ==
    /\ mgr = NewManager(0, 0) /\ prov = NoProcess /\ evq = <<>> /\ rec = Nothing
    /\ cmdLock = "free" /\ runner = RunnerIdle /\ terms = [t \in HTurns |-> 0]
    /\ orphans = {} /\ content = [s \in Natives |-> {}] /\ rejected = {}
    /\ numbers = [turn |-> 0, native |-> 0, work |-> 0] /\ mgrFaults = 0

MgrFault == mgrFaults < MaxMgrFaults /\ mgrFaults' = mgrFaults + 1
NoMgrFault == UNCHANGED mgrFaults
Free == cmdLock = "free" /\ ~mgr.closed
RecoveryRequired == rec # Nothing /\ ~rec.resolved
\* _require_open and the recovery gate, which every command consults first
Refused == mgr.closed \/ RecoveryRequired

\* _clear_native_session
Cleared(m) ==
    [m EXCEPT !.native = 0, !.admitted = FALSE, !.streak = 0,
              !.confirmed = IF @ = m.native THEN 0 ELSE @]

-----------------------------------------------------------------------------
\* Opening and retiring the provider.

\* An outcome of _open_locked: the manager after it, whether it opened, failed
\* or failed in a way that is retried, and the session it gave up.
OpenResult(m, r, gave, fault) == [m |-> m, r |-> r, gave |-> gave, fault |-> fault]
OpenedOn(m, s, resumed) ==
    [m EXCEPT !.opened = TRUE, !.native = s, !.streak = 0,
              !.unconfirmed = resumed /\ s # m.confirmed]
FreshOpen(m, gave, fault) ==
    {OpenResult(m, "failed", gave, TRUE)}
    \cup {OpenResult(OpenedOn(m, n, FALSE), "ok", gave, fault) :
            n \in {numbers.native + 1} \cap Natives}

\* A session the provider refuses is given up at once, one that fails without
\* a reason after a streak, one that fails for want of the provider never.
ResumeOpen(m) ==
    {OpenResult(OpenedOn(m, m.native, TRUE), "ok", 0, FALSE),
     OpenResult([m EXCEPT !.streak = 0], "transient", 0, TRUE)}
    \cup FreshOpen(Cleared(m), m.native, TRUE)
    \cup IF m.streak + 1 < FallbackAfter
         THEN {OpenResult([m EXCEPT !.streak = @ + 1], "failed", 0, TRUE)}
         ELSE FreshOpen(Cleared(m), 0, TRUE)

\* A resolved recovery never resumes the session of the turn it settled.
PastRecovery(m) == IF rec # Nothing /\ m.native = rec.session THEN Cleared(m) ELSE m
OpenOutcomes(m0, resume) ==
    LET m == PastRecovery(m0)
    IN IF m.opened THEN {OpenResult(m, "ok", 0, FALSE)}
       ELSE IF resume /\ m.native # 0 THEN ResumeOpen(m)
       ELSE FreshOpen(m, 0, FALSE)

\* The process, its events and the numbers after an outcome.
AfterOpen(o, opened) ==
    /\ prov' = IF opened THEN prov ELSE IF o.r = "ok" THEN NewProcess ELSE NoProcess
    /\ evq' = IF opened THEN evq ELSE <<>>
    /\ numbers' = [numbers EXCEPT !.native = Max({@, o.m.native})]
    /\ rejected' = rejected \cup ({o.gave} \ {0})
    /\ IF o.fault THEN MgrFault ELSE NoMgrFault

\* _retire_runtime_locked: the reader stops, the process dies.
Retired(m, preserve) ==
    LET r == [m EXCEPT !.opened = FALSE, !.compaction = FALSE]
    IN IF preserve THEN r ELSE Cleared(r)
ProcessGone == prov' = NoProcess /\ evq' = <<>>

\* _publish_terminal_locked and _complete_turn: one terminal event reaches the
\* subscribers and the turn is released.
TurnReleased(m) ==
    [m EXCEPT !.active = 0, !.auto = 0, !.waiting = FALSE, !.watched = FALSE]
Publish(t, outcome) ==
    /\ terms' = [terms EXCEPT ![t] = @ + 1]
    /\ runner' = IF runner.step = "consume" /\ runner.turn = t
                 THEN [runner EXCEPT !.mail = outcome] ELSE runner
PublishNone == UNCHANGED <<terms, runner>>

-----------------------------------------------------------------------------
\* The Inbox worker in the adapter.

RunnerDone == [RunnerIdle EXCEPT !.work = runner.work]
\* An AgentAPIError is retried by _invoke_turn_with_retries up to its budget.
RunnerRetry ==
    IF runner.tries < MaxAttempts
    THEN [RunnerDone EXCEPT !.step = "reopen", !.tries = runner.tries + 1]
    ELSE RunnerDone

RunTurn ==
    /\ runner.step = "idle" /\ numbers.work < MaxWorks
    /\ numbers' = [numbers EXCEPT !.work = @ + 1]
    /\ runner' = [RunnerIdle EXCEPT !.step = "start", !.work = numbers.work + 1]
    /\ UNCHANGED <<mgr, prov, evq, rec, cmdLock, histVars, mgrFaults>>

\* run_retry_turn: the session is opened before the payload is chosen.
RunRetryTurn ==
    /\ runner.step = "reopen" /\ cmdLock = "free"
    /\ IF Refused
       THEN runner' = RunnerDone /\ UNCHANGED <<mgr, prov, evq, rejected, numbers, mgrFaults>>
       ELSE \E o \in OpenOutcomes(mgr, TRUE) :
               /\ mgr' = o.m /\ AfterOpen(o, mgr.opened)
               /\ runner' = CASE o.r = "ok" -> [runner EXCEPT !.step = "start",
                                                    !.kick = o.m.native # 0 /\ o.m.admitted]
                              [] o.r = "transient" -> RunnerRetry
                              [] OTHER -> RunnerDone
    /\ UNCHANGED <<rec, cmdLock, terms, orphans, content>>

StartRefused ==
    /\ runner.step = "start" /\ cmdLock = "free"
    /\ Refused \/ (mgr.opened /\ mgr.active # 0)
    /\ runner' = RunnerDone
    /\ UNCHANGED <<mgr, prov, evq, rec, cmdLock, histVars, numbers, mgrFaults>>

StartCannotOpen ==
    /\ runner.step = "start" /\ Free /\ ~Refused /\ ~mgr.opened
    /\ \E o \in OpenOutcomes(mgr, TRUE) :
          /\ o.r # "ok" /\ mgr' = o.m /\ AfterOpen(o, FALSE)
          /\ runner' = IF o.r = "transient" THEN RunnerRetry ELSE RunnerDone
    /\ UNCHANGED <<rec, cmdLock, terms, orphans, content>>

\* start_turn of an input the driver accepts.
Transcript(s) == content' = IF runner.kick THEN content
                            ELSE [content EXCEPT ![s] = @ \cup {runner.work}]
ManagerStartTurn ==
    LET t == numbers.turn + 1
    IN /\ runner.step = "start" /\ Free /\ ~Refused /\ t <= MaxHTurns
       /\ mgr.active = 0 /\ (mgr.opened => prov.alive /\ prov.running = 0)
       /\ \E o \in OpenOutcomes(mgr, TRUE) :
             /\ o.r = "ok"
             /\ mgr' = [o.m EXCEPT !.active = t, !.admitted = TRUE]
             /\ prov' = [(IF mgr.opened THEN prov ELSE NewProcess) EXCEPT !.running = t]
             /\ evq' = IF mgr.opened THEN evq ELSE <<>>
             /\ numbers' = [numbers EXCEPT !.turn = t, !.native = Max({@, o.m.native})]
             /\ rejected' = rejected \cup ({o.gave} \ {0})
             /\ Transcript(o.m.native)
             /\ IF o.fault THEN MgrFault ELSE NoMgrFault
       /\ runner' = [runner EXCEPT !.step = "consume", !.turn = t]
       /\ UNCHANGED <<rec, cmdLock, terms, orphans>>

\* _discard_failed_start_locked: whether the input crossed is unknown, so the
\* process is retired and only its session kept.
StartKeptRunning(m) == [m EXCEPT !.admitted = FALSE]
StartDiscarded(m) == [Retired(m, TRUE) EXCEPT !.admitted = FALSE]
DriverStartFails ==
    LET t == numbers.turn + 1
        crossed == prov.alive /\ prov.running = 0
    IN /\ runner.step = "start" /\ Free /\ ~Refused /\ t <= MaxHTurns
       /\ mgr.active = 0 /\ mgr.opened
       /\ IF crossed THEN MgrFault ELSE NoMgrFault
       /\ mgr' = StartDiscarded(mgr)
       /\ prov' = IF ~StartDiscarded(mgr).opened THEN NoProcess
                  ELSE IF crossed THEN [prov EXCEPT !.running = t] ELSE prov
       /\ evq' = IF ~StartDiscarded(mgr).opened THEN <<>> ELSE evq
       /\ numbers' = [numbers EXCEPT !.turn = t]
       /\ IF crossed THEN Transcript(mgr.native) ELSE UNCHANGED content
       /\ runner' \in {RunnerDone, RunnerRetry}
       /\ UNCHANGED <<rec, cmdLock, terms, orphans, rejected>>

\* _consume_turn_events: the terminal event decides.
TurnReturns ==
    /\ runner.step = "consume" /\ runner.mail # "none"
    /\ runner' = IF runner.mail = "retryable" THEN RunnerRetry ELSE RunnerDone
    /\ UNCHANGED <<mgr, prov, evq, rec, cmdLock, histVars, numbers, mgrFaults>>

\* The idle deadline runs from the start of the turn and is renewed by activity.
DeadlinePasses == TRUE

\* timeout_turn: abandoned and retired in one step, unless it ended meanwhile.
TurnTimesOut ==
    /\ runner.step = "consume" /\ DeadlinePasses /\ cmdLock = "free"
    /\ IF mgr.active = runner.turn
       THEN /\ mgr' = Retired(TurnReleased(mgr), FALSE) /\ ProcessGone
            /\ terms' = [terms EXCEPT ![runner.turn] = @ + 1]
       ELSE UNCHANGED <<mgr, prov, evq, terms>>
    /\ runner' = RunnerDone
    /\ UNCHANGED <<rec, cmdLock, orphans, content, rejected, numbers, mgrFaults>>

\* steer_turn whose admission is ambiguous.
SteerAmbiguous ==
    /\ runner.step = "consume" /\ Free /\ mgr.active = runner.turn /\ MgrFault
    /\ mgr' = Retired(TurnReleased(mgr), FALSE) /\ ProcessGone
    /\ Publish(runner.turn, "retryable")
    /\ UNCHANGED <<rec, cmdLock, orphans, content, rejected, numbers>>

-----------------------------------------------------------------------------
\* The provider, as the drivers report it.

Emit(kind, t, outcome) ==
    /\ prov.alive /\ Len(evq) < MaxQueue
    /\ evq' = Append(evq, [kind |-> kind, turn |-> t, outcome |-> outcome])
ProviderStep == UNCHANGED <<mgr, rec, cmdLock, runner, histVars>>

ProviderFinishes ==
    \E outcome \in {"succeeded", "retryable", "failed", "invalid"} :
        /\ prov.running # 0 /\ Emit("done", prov.running, outcome)
        /\ IF outcome = "succeeded" THEN NoMgrFault ELSE MgrFault
        /\ prov' = [prov EXCEPT !.running = 0]
        /\ ProviderStep /\ UNCHANGED numbers

ProviderStartsAutonomous ==
    /\ prov.running = 0 /\ numbers.turn < MaxHTurns
    /\ Emit("auto", numbers.turn + 1, "none")
    /\ prov' = [prov EXCEPT !.running = numbers.turn + 1]
    /\ numbers' = [numbers EXCEPT !.turn = @ + 1]
    /\ ProviderStep /\ NoMgrFault

\* A tool call or a permission question begins or ends in an autonomous turn.
ProviderTool ==
    /\ mgr.auto # 0 /\ prov.running = mgr.auto /\ evq = <<>>
    /\ Emit(IF mgr.waiting THEN "toolEnd" ELSE "tool", mgr.auto, "none")
    /\ ProviderStep /\ UNCHANGED <<prov, numbers, mgrFaults>>

ProviderCompacts ==
    /\ prov.compacting /\ Emit("compacted", 0, "none")
    /\ prov' = [prov EXCEPT !.compacting = FALSE]
    /\ ProviderStep /\ UNCHANGED <<numbers, mgrFaults>>

ProviderExits ==
    /\ Emit("exit", 0, "none") /\ MgrFault /\ prov' = NoProcess
    /\ ProviderStep /\ UNCHANGED numbers

-----------------------------------------------------------------------------
\* _consume_events: one event under the lock.

Reading(kind) ==
    /\ Free /\ mgr.opened /\ evq # <<>> /\ Head(evq).kind = kind
ReaderOnly == UNCHANGED <<rec, cmdLock, orphans, content, numbers>>

\* _adopt_driver_turn_locked
ReadAutonomousStarted ==
    /\ Reading("auto")
    /\ mgr' = IF mgr.active # 0 \/ RecoveryRequired THEN mgr
              ELSE [mgr EXCEPT !.active = Head(evq).turn, !.auto = Head(evq).turn,
                               !.watched = TRUE, !.waiting = FALSE]
    /\ evq' = Tail(evq)
    /\ ReaderOnly /\ PublishNone /\ UNCHANGED <<prov, rejected, mgrFaults>>

\* _observe_autonomous_activity
ReadToolActivity ==
    /\ Reading("tool") \/ Reading("toolEnd")
    /\ mgr' = IF Head(evq).turn = mgr.auto
              THEN [mgr EXCEPT !.waiting = Head(evq).kind = "tool"] ELSE mgr
    /\ evq' = Tail(evq)
    /\ ReaderOnly /\ PublishNone /\ UNCHANGED <<prov, rejected, mgrFaults>>

ReadCompactionEvent ==
    /\ Reading("compacted")
    /\ mgr' = [mgr EXCEPT !.compaction = FALSE] /\ evq' = Tail(evq)
    /\ ReaderOnly /\ PublishNone /\ UNCHANGED <<prov, rejected, mgrFaults>>

\* A terminal of a turn that is no longer active is dropped.
ReadStaleTerminal ==
    /\ Reading("done") /\ Head(evq).turn # mgr.active /\ evq' = Tail(evq)
    /\ ReaderOnly /\ PublishNone /\ UNCHANGED <<mgr, prov, rejected, mgrFaults>>

\* A success confirms the session it ran on.
Confirmed(m, outcome) ==
    IF outcome = "succeeded" THEN [m EXCEPT !.unconfirmed = FALSE, !.confirmed = m.native]
    ELSE m
TerminalHead(t) == Reading("done") /\ Head(evq).turn = t /\ t = mgr.active /\ t # 0

ReadTerminal ==
    \E t \in HTurns :
        /\ TerminalHead(t) /\ Head(evq).outcome # "invalid"
        /\ mgr' = TurnReleased(Confirmed(mgr, Head(evq).outcome))
        /\ Publish(t, Head(evq).outcome) /\ evq' = Tail(evq)
        /\ ReaderOnly /\ UNCHANGED <<prov, rejected, mgrFaults>>

\* The event sink raises: the turn is abandoned and the runtime failed.
ReadTerminalSinkFails ==
    \E t \in HTurns :
        /\ TerminalHead(t) /\ Head(evq).outcome # "invalid" /\ MgrFault
        /\ mgr' = Retired(TurnReleased(Confirmed(mgr, Head(evq).outcome)), TRUE)
        /\ Publish(t, "retryable") /\ ProcessGone
        /\ ReaderOnly /\ UNCHANGED rejected

\* _retire_invalid_resume_locked
InvalidRetired(m) == Retired(TurnReleased([m EXCEPT !.unconfirmed = FALSE]), FALSE)
ReadInvalidResume ==
    \E t \in HTurns :
        /\ TerminalHead(t) /\ Head(evq).outcome = "invalid"
        /\ mgr' = InvalidRetired(mgr) /\ ProcessGone
        /\ rejected' = rejected \cup {mgr.native}
        /\ Publish(t, "retryable")
        /\ ReaderOnly /\ NoMgrFault

\* _handle_runtime_exit_locked: a resumed session nothing has confirmed is
\* given up with the process.
ExitSession(m) == IF m.unconfirmed THEN Cleared([m EXCEPT !.unconfirmed = FALSE]) ELSE m
ReadExit ==
    /\ Reading("exit") /\ ProcessGone
    /\ mgr' = Retired(TurnReleased(ExitSession(mgr)), TRUE)
    /\ IF mgr.active # 0 THEN \E r \in {"retryable", "failed"} : Publish(mgr.active, r)
       ELSE PublishNone
    /\ ReaderOnly /\ UNCHANGED <<rejected, mgrFaults>>

-----------------------------------------------------------------------------
\* Recovery of an autonomous turn.

RecoveryRecord(t) ==
    [turn |-> t, session |-> mgr.native, owner |-> mgr.owner, attempted |-> FALSE,
     stopped |-> FALSE, retry |-> FALSE, resolved |-> FALSE]

\* The deadline of a silent autonomous turn passes.  A turn that waits for a
\* tool or a permission is recorded and left alone.
WatchdogFires ==
    /\ Free /\ mgr.watched /\ ~RecoveryRequired
    /\ rec' = RecoveryRecord(mgr.auto)
    /\ mgr' = [mgr EXCEPT !.watched = FALSE]
    /\ cmdLock' = IF mgr.waiting THEN "free" ELSE "stopping"
    /\ UNCHANGED <<prov, evq, runner, histVars, numbers, mgrFaults>>

\* The Inbox could not settle the end of an autonomous turn.
AutonomousEndFails ==
    \E t \in HTurns :
        /\ TerminalHead(t) /\ t = mgr.auto /\ MgrFault
        /\ mgr' = TurnReleased(Confirmed(mgr, Head(evq).outcome))
        /\ Publish(t, Head(evq).outcome) /\ evq' = Tail(evq)
        /\ IF RecoveryRequired THEN UNCHANGED <<rec, cmdLock>>
           ELSE rec' = RecoveryRecord(t) /\ cmdLock' = "stopping"
        /\ UNCHANGED <<prov, orphans, content, rejected, numbers>>

\* _stop_recovery_provider: the attempt is written before the process is closed.
StopAttempted ==
    /\ cmdLock = "stopping"
    /\ rec' = [rec EXCEPT !.attempted = TRUE] /\ cmdLock' = "closing"
    /\ UNCHANGED <<mgr, prov, evq, runner, histVars, numbers, mgrFaults>>

StopSucceeds ==
    /\ cmdLock = "closing" /\ ProcessGone
    /\ rec' = [rec EXCEPT !.stopped = TRUE] /\ cmdLock' = "free"
    /\ mgr' = [TurnReleased(mgr) EXCEPT !.opened = FALSE]
    /\ IF mgr.active # 0 THEN Publish(mgr.active, "retryable") ELSE PublishNone
    /\ UNCHANGED <<orphans, content, rejected, numbers, mgrFaults>>

StopFails ==
    /\ cmdLock = "closing" /\ MgrFault /\ cmdLock' = "free"
    /\ UNCHANGED <<mgr, prov, evq, rec, runner, histVars, numbers>>

\* recover_turn("stop"): only the process that owns the turn may stop it, once.
OwnerStops == rec.owner = mgr.owner /\ ~rec.attempted
RecoverStop ==
    /\ Free /\ RecoveryRequired /\ ~rec.stopped /\ OwnerStops
    /\ cmdLock' = "stopping"
    /\ UNCHANGED <<mgr, prov, evq, rec, runner, histVars, numbers, mgrFaults>>

\* recover_turn("retry"): the request is written, then the Inbox replays the
\* turn and resolves the record, then the manager forgets the turn.
RetryAllowed == rec.stopped
RecoverRetry ==
    /\ Free /\ RecoveryRequired /\ RetryAllowed
    /\ \/ /\ rec' = [rec EXCEPT !.retry = TRUE, !.resolved = TRUE]
          /\ mgr' = Cleared(TurnReleased(mgr)) /\ NoMgrFault
       \/ /\ rec' = [rec EXCEPT !.retry = TRUE] /\ UNCHANGED mgr /\ MgrFault
    /\ UNCHANGED <<prov, evq, cmdLock, runner, histVars, numbers>>

\* A restarted Inbox finishes a replay that was requested.
ReplayRequested ==
    /\ Free /\ RecoveryRequired /\ rec.retry /\ rec.stopped /\ rec.owner # mgr.owner
    /\ rec' = [rec EXCEPT !.resolved = TRUE]
    /\ UNCHANGED <<mgr, prov, evq, cmdLock, runner, histVars, numbers, mgrFaults>>

-----------------------------------------------------------------------------
\* Compaction, reload, rollover, close, restart.

\* begin_compaction: a second request joins the pending one.
BeginCompaction ==
    /\ Free /\ mgr.opened /\ mgr.active = 0 /\ ~mgr.compaction /\ ~RecoveryRequired
    /\ prov.alive /\ prov.running = 0
    /\ mgr' = [mgr EXCEPT !.compaction = TRUE]
    /\ prov' = [prov EXCEPT !.compacting = TRUE]
    /\ UNCHANGED <<evq, rec, cmdLock, runner, histVars, numbers, mgrFaults>>

\* reload keeps the session, rollover and a reload without it start another.
Reopen(preserve) ==
    /\ Free /\ mgr.active = 0 /\ ~RecoveryRequired /\ mgr.opened
    /\ \E o \in OpenOutcomes(Retired(mgr, preserve), preserve) :
          mgr' = o.m /\ AfterOpen(o, FALSE)
    /\ UNCHANGED <<rec, cmdLock, runner, terms, orphans, content>>
Reload == Reopen(TRUE)
Rollover == Reopen(FALSE)

\* close: a runner without a terminal event sees its stream end.
CloseManager ==
    /\ Free /\ ProcessGone
    /\ mgr' = [TurnReleased(mgr) EXCEPT !.closed = TRUE, !.opened = FALSE, !.compaction = FALSE]
    /\ terms' = IF mgr.auto # 0 THEN [terms EXCEPT ![mgr.auto] = @ + 1] ELSE terms
    /\ runner' = IF runner.step = "consume" THEN RunnerDone ELSE runner
    /\ UNCHANGED <<rec, cmdLock, orphans, content, rejected, numbers, mgrFaults>>

Reborn == NewManager(mgr.native, mgr.owner + 1)
RestartManager ==
    /\ mgr.closed /\ cmdLock = "free" /\ runner.step = "idle" /\ mgr.owner < MaxMgrFaults
    /\ mgr' = Reborn
    /\ UNCHANGED <<prov, evq, rec, cmdLock, runner, histVars, numbers, mgrFaults>>

\* The daemon dies; its provider dies with it or runs on unowned.
Crash ==
    /\ MgrFault /\ mgr' = Reborn /\ ProcessGone /\ cmdLock' = "free"
    /\ runner' = RunnerDone
    /\ orphans' \in {orphans, orphans \cup ({prov.running} \ {0})}
    /\ UNCHANGED <<rec, terms, content, rejected, numbers>>

-----------------------------------------------------------------------------
RunnerNext ==
    \/ RunTurn \/ RunRetryTurn \/ StartRefused \/ StartCannotOpen \/ ManagerStartTurn
    \/ DriverStartFails \/ TurnReturns \/ TurnTimesOut \/ SteerAmbiguous
ProviderNext ==
    \/ ProviderFinishes \/ ProviderStartsAutonomous \/ ProviderTool \/ ProviderCompacts
    \/ ProviderExits
ReaderNext ==
    \/ ReadAutonomousStarted \/ ReadToolActivity \/ ReadCompactionEvent
    \/ ReadStaleTerminal \/ ReadTerminal \/ ReadTerminalSinkFails \/ ReadInvalidResume
    \/ ReadExit
RecoveryNext ==
    \/ WatchdogFires \/ AutonomousEndFails \/ StopAttempted \/ StopSucceeds \/ StopFails
    \/ RecoverStop \/ RecoverRetry \/ ReplayRequested
MgrNext ==
    \/ RunnerNext \/ ProviderNext \/ ReaderNext \/ RecoveryNext
    \/ BeginCompaction \/ Reload \/ Rollover \/ CloseManager \/ RestartManager \/ Crash
MgrSpec == MgrInit /\ [][MgrNext]_mgrVars

\* The runner is a task and its turn has an idle timeout; the command lock is
\* released by whoever holds it.
FairMgrSpec ==
    MgrSpec /\ WF_mgrVars(RunRetryTurn \/ StartRefused \/ StartCannotOpen
                            \/ ManagerStartTurn \/ DriverStartFails)
            /\ WF_mgrVars(TurnReturns \/ TurnTimesOut)
            /\ WF_mgrVars(StopAttempted) /\ WF_mgrVars(StopSucceeds)

-----------------------------------------------------------------------------
\* A live provider never works on a turn the manager does not track: the turn is
\* the active one, or its start is still in the event stream, or the recovery
\* record keeps the agent from starting another (_discard_failed_start_locked
\* closes the process: "close prevents overlap").
NoUntrackedTurn ==
    prov.running # 0 /\ ~RecoveryRequired =>
        \/ mgr.active = prov.running
        \/ \E i \in 1..Len(evq) : evq[i].kind = "auto" /\ evq[i].turn = prov.running

\* Subscribers see at most one terminal event of a turn, whichever of the
\* reader, the timeout, an ambiguous steer, an exit, a recovery stop and close
\* comes first.
OneTerminalPerTurn == \A t \in HTurns : terms[t] <= 1

\* A quarantined turn is given back to the Inbox for replay only when its
\* provider no longer works on it, also across crashes of the daemon.
ReplayAfterStop ==
    rec # Nothing /\ rec.resolved => rec.turn \notin orphans \cup ({prov.running} \ {0})

\* A session the provider called unusable is never the one the next open
\* resumes.
InvalidIsForgotten == mgr.native \notin rejected

\* While a recovery record is open no turn is adopted and no provider opened.
RecoveryIsolates ==
    [][RecoveryRequired /\ RecoveryRequired' =>
          /\ mgr'.active \in {0, mgr.active}
          /\ mgr'.opened => mgr.opened]_mgrVars

\* The Inbox worker comes back from the adapter: no silent provider, exit,
\* compaction or recovery keeps it in a turn.  (A start that has no turn or
\* session number left under the bounds is not waited for.)
OutOfNumbers == numbers.turn = MaxHTurns \/ numbers.native = MaxNative
RunnerComesBack ==
    runner.step # "idle" ~> runner.step = "idle" \/ (OutOfNumbers /\ runner.step # "consume")

====
