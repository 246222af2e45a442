---------------------------- MODULE DaemonWorkers ----------------------------
(***************************************************************************)
(* One agent's worker under the portal daemon: the reconcile loop          *)
(* (portal/daemon.py), the worker it owns (portal/worker.py, and           *)
(* portal/worker_run.py for the life of its task) and the unarchive command *)
(* that must not change the agent's keys under a running worker            *)
(* (portal/unarchive.py).                                                  *)
(*                                                                         *)
(* Both schedulings are modelled.  Off Windows the loop itself performs    *)
(* the operation on the agent and looks at nothing else until it ends; on  *)
(* Windows each agent has an operation task, and a tick that finds one     *)
(* running may only cancel the observation of a start that was superseded. *)
(* A step of the model is the code between two awaits.                     *)
(***************************************************************************)
EXTENDS Integers, FiniteSets

CONSTANTS MaxWorkers,   \* workers the daemon may start for the agent
          MaxDiskEdits, \* edits of agent.yml and flag files
          MaxWkFaults,  \* failures: init, fatal exits, wedged stops, moves
          MaxUnarchives \* unarchive commands

VARIABLES wDisk,  \* the agent's directory: yml, flags
          wDmn,   \* the daemon: loop phase and the operation on the agent
          wk,     \* every worker started so far
          wStop,  \* stop tasks, _stop_tasks and _unconfirmed_stops
          wUn,    \* the unarchive command
          wHist   \* budgets, and what was running when the keys changed

wVars == <<wDisk, wDmn, wk, wStop, wUn, wHist>>

Workers == 1..MaxWorkers
\* Stop tasks at once: two awaited ones that ended, and the running ones.
MaxTasks == 4
LifecycleFlags == {"archive", "delete", "restart"}

NoWorker == [life |-> "none", open |-> FALSE, cfg |-> 0, told |-> FALSE]

-----------------------------------------------------------------------------
(* The worker *)

\* Worker.start: the task is spawned.
Spawned(c) == [life |-> "init", open |-> TRUE, cfg |-> c, told |-> FALSE]

Alive(w) == wk[w].life \in {"init", "warm", "running"}
WorkerFault == wHist.faults < MaxWkFaults
Faulted == wHist' = [wHist EXCEPT !.faults = @ + 1]

\* StandardWorkerRun._initialize succeeds, then _warm opens the provider.
WorkerAdvances(w) ==
    /\ wk[w].life \in {"init", "warm"}
    /\ wk' = [wk EXCEPT ![w].life = IF @ = "init" THEN "warm" ELSE "running"]
    /\ UNCHANGED <<wDisk, wDmn, wStop, wUn, wHist>>

\* _fail_initialization and _fail_local_warm: status "error"; the adapter is
\* closed, or kept for Worker.stop to close when closing it fails.
WorkerFails(w) ==
    /\ wk[w].life \in {"init", "warm"} /\ WorkerFault
    /\ \E open \in BOOLEAN : wk' = [wk EXCEPT ![w].life = "error", ![w].open = open]
    /\ Faulted
    /\ UNCHANGED <<wDisk, wDmn, wStop, wUn>>

\* _listen after the inbox runtime died: restart_required, then _cleanup.  The
\* message client stays open: only Worker.stop closes it.
WorkerDiesFatally(w) ==
    /\ wk[w].life = "running" /\ WorkerFault
    /\ wk' = [wk EXCEPT ![w].life = "fatal"]
    /\ Faulted
    /\ UNCHANGED <<wDisk, wDmn, wStop, wUn>>

\* Worker.stop of task t returns.  It cancels the task, closes adapter and
\* client, each within a bound; stop_confirmed says whether all of it ended.
StopEnds(t) ==
    /\ wStop.tasks[t] # 0
    /\ LET w == wStop.tasks[t] IN
       \E confirmed \in BOOLEAN :
          /\ IF confirmed \/ ~wk[w].open THEN UNCHANGED wHist ELSE WorkerFault /\ Faulted
          /\ wk' = [wk EXCEPT ![w].life = IF confirmed \/ @ \in {"error", "fatal"}
                                             THEN "ended" ELSE "wedged",
                              ![w].open = @ /\ ~confirmed]
          /\ wStop' = [wStop EXCEPT !.tasks[t] = 0, !.latest = IF @ = t THEN 0 ELSE @,
                                    !.unconfirmed = IF confirmed THEN 0 ELSE w]
    /\ UNCHANGED <<wDisk, wDmn, wUn>>

-----------------------------------------------------------------------------
(* Stopping the agent's worker *)

FreeTask == CHOOSE t \in DOMAIN wStop.tasks : wStop.tasks[t] = 0 /\ t \notin {wDmn.wait, wUn.wait}
NewTask(w) == [wStop EXCEPT !.tasks[FreeTask] = w, !.latest = FreeTask]
StopRunning(t) == t # 0 /\ wStop.tasks[t] # 0

\* _stop_worker up to its await: the worker leaves the table, a stop task of its
\* own starts.
StopsOwned(own) ==
    IF own = 0 THEN UNCHANGED <<wk, wStop>>
    ELSE /\ wk' = [wk EXCEPT ![own].told = TRUE]
         /\ wStop' = NewTask(own)

\* The task the caller of _stop_worker then awaits.
Awaited(own) == IF own = 0 THEN 0 ELSE FreeTask

-----------------------------------------------------------------------------
(* The operation on the agent *)

Looping == wDmn.phase = "loop"
Op(at) == [wDmn EXCEPT !.at = at, !.wait = 0]
StopThen(at) == /\ StopsOwned(wDmn.own)
                /\ wDmn' = [wDmn EXCEPT !.at = at, !.own = 0, !.wait = Awaited(wDmn.own)]

\* _consume_agent_lifecycle_flags, in its order: archive, delete, restart.
FlagFirst ==
    CASE "archive" \in wDisk.flags -> "archive"
      [] "delete" \in wDisk.flags -> "delete"
      [] "restart" \in wDisk.flags -> "restart"
      [] OTHER -> "none"

\* _reconcile_once (off Windows) or the start of _reconcile_windows_agent: a
\* removed agent is stopped, then flags are consumed.
OperationBegins ==
    /\ Looping /\ ~wDmn.stop /\ wDmn.at = "idle"
    /\ \/ ~wDisk.present /\ wDmn.own # 0 /\ StopThen("removed")
       \/ wDisk.present /\ FlagFirst # "none" /\ StopThen(FlagFirst)
       \/ wDisk.present /\ FlagFirst = "none" /\ wDmn' = Op("refresh") /\ UNCHANGED <<wk, wStop>>
    /\ UNCHANGED <<wDisk, wUn, wHist>>

Stopped(at) == wDmn.at = at /\ ~StopRunning(wDmn.wait)

\* _archive_on_flag and _delete_on_flag once the worker stopped: the directory
\* moves, flag included; a move that fails leaves the flag for the next tick.
ArchiveMoves ==
    /\ Stopped("archive") \/ Stopped("delete")
    /\ \/ wDisk' = [wDisk EXCEPT !.present = FALSE, !.flags = {}] /\ UNCHANGED wHist
       \/ WorkerFault /\ Faulted /\ UNCHANGED wDisk
    /\ wDmn' = Op("idle")
    /\ UNCHANGED <<wk, wStop, wUn>>

\* _stop_removed_agents ends.
RemovedStopped ==
    /\ Stopped("removed") /\ wDmn' = Op("idle")
    /\ UNCHANGED <<wDisk, wk, wStop, wUn, wHist>>

\* _consume_restart_flag: the flag goes only after the stop; the same
\* operation then goes on with refresh flags and state.
RestartConsumed ==
    /\ Stopped("restart")
    /\ wDisk' = [wDisk EXCEPT !.flags = @ \ {"restart"}]
    /\ wDmn' = Op("refresh")
    /\ UNCHANGED <<wk, wStop, wUn, wHist>>

\* _worker_needs_restart: identity, profile, runtime or overrides changed.
NeedsRestart(old, new) == old # new

\* Worker.restart_required.
NeverRequired(w) == FALSE
RestartRequired(w) == wk[w].life = "fatal"

\* _process_daemon_refresh_flags (refresh_model.flag edits agent.yml and goes)
\* followed without a pause by _reconcile_agent up to its first await.
Reconcile ==
    LET disk == IF "model" \in wDisk.flags
                   THEN [wDisk EXCEPT !.cfg = @ + 1, !.flags = @ \ {"model"}] ELSE wDisk
        own == wDmn.own
        respawn == own # 0 /\ (RestartRequired(own) \/ NeedsRestart(wk[own].cfg, disk.cfg))
    IN  /\ wDmn.at = "refresh" /\ wDisk.present
        /\ wDisk' = disk
        /\ \/ /\ disk.want = "running" /\ own = 0
              /\ wDmn' = [Op("start") EXCEPT !.reported = FALSE] /\ UNCHANGED <<wk, wStop>>
           \/ /\ disk.want = "running" /\ respawn /\ StopsOwned(own)
              /\ wDmn' = [wDmn EXCEPT !.at = "start", !.own = 0, !.wait = Awaited(own),
                                      !.reported = FALSE]
           \/ /\ disk.want = "running" /\ own # 0 /\ ~respawn
              /\ wDmn' = [Op("idle") EXCEPT !.reported = FALSE] /\ UNCHANGED <<wk, wStop>>
           \/ /\ disk.want = "paused" /\ (own # 0 \/ ~wDmn.reported) /\ StopThen("report")
           \/ /\ disk.want = "paused" /\ own = 0 /\ wDmn.reported
              /\ wDmn' = Op("idle") /\ UNCHANGED <<wk, wStop>>
        /\ UNCHANGED <<wUn, wHist>>

\* The directory went away between the flags and the state: agent.yml fails to
\* load and the operation ends.
ReconcileGone ==
    /\ wDmn.at = "refresh" /\ ~wDisk.present /\ wDmn' = Op("idle")
    /\ UNCHANGED <<wDisk, wk, wStop, wUn, wHist>>

\* _report_lifecycle(..., "paused"): settled, or failed and tried next tick.
PausedReport ==
    /\ Stopped("report")
    /\ \/ wDmn' = [Op("idle") EXCEPT !.reported = TRUE] /\ UNCHANGED wHist
       \/ WorkerFault /\ Faulted /\ wDmn' = Op("idle")
    /\ UNCHANGED <<wDisk, wk, wStop, wUn>>

\* is_held: the agent is mid-unarchive.
Held == wUn.at # "idle"

\* _start_worker.  Off Windows it starts at once; on Windows it first waits for
\* a startup slot and then looks at the agent again.
MayStart == \/ ~wDmn.win
            \/ /\ ~wDmn.stop /\ wDisk.present /\ wDisk.want = "running"
               /\ wDisk.flags \cap LifecycleFlags = {}

\* _start_and_observe_worker: nothing while the agent is held; otherwise the
\* worker enters the table before it is started and observed.
StartsAndObserves(w) ==
    /\ wk' = [wk EXCEPT ![w] = Spawned(wDisk.cfg)]
    /\ wDmn' = [Op("observe") EXCEPT !.own = w]

StartWorker ==
    /\ Stopped("start")
    /\ IF ~MayStart \/ Held
          THEN wDmn' = Op("idle") /\ UNCHANGED wk
          ELSE \E w \in Workers : /\ wk[w] = NoWorker
                                  /\ \A v \in 1..(w - 1) : wk[v] # NoWorker
                                  /\ StartsAndObserves(w)
    /\ UNCHANGED <<wDisk, wStop, wUn, wHist>>

\* _observe_worker_start: warm, failed, or the observation window passed.
ObserveEnds ==
    /\ wDmn.at = "observe" /\ wDmn' = Op("idle")
    /\ UNCHANGED <<wDisk, wk, wStop, wUn, wHist>>

\* _dispatch_windows_reconcile over a running start: _start_superseded cancels
\* the slot wait or the observation; the worker stays in the table.
Superseded ==
    \/ ~wDisk.present \/ wDisk.want # "running" \/ wDisk.flags # {}
    \/ wDmn.own # 0 /\ NeedsRestart(wk[wDmn.own].cfg, wDisk.cfg)
CancelledStart == Op("idle")
DispatchCancels ==
    /\ Looping /\ wDmn.win /\ ~wDmn.stop
    /\ wDmn.at = "observe" \/ Stopped("start")
    /\ Superseded /\ wDmn' = CancelledStart
    /\ UNCHANGED <<wDisk, wk, wStop, wUn, wHist>>

-----------------------------------------------------------------------------
(* Shutdown *)

\* request_stop, the stop file, or an external stop.
StopRequested ==
    /\ Looping /\ ~wDmn.stop /\ wHist.edits < MaxDiskEdits
    /\ wDmn' = [wDmn EXCEPT !.stop = TRUE]
    /\ wHist' = [wHist EXCEPT !.edits = @ + 1]
    /\ UNCHANGED <<wDisk, wk, wStop, wUn>>

\* The loop sees the stop: off Windows only between two operations.  On Windows
\* _settle_agent_operations cancels a start and lets anything else finish.
Settles ==
    /\ Looping /\ wDmn.stop
    /\ \/ wDmn.at = "idle" /\ wDmn' = [wDmn EXCEPT !.phase = "settle"]
       \/ wDmn.win /\ wDmn.at = "observe"
          /\ wDmn' = [CancelledStart EXCEPT !.phase = "settle"]
       \/ wDmn.win /\ wDmn.at \notin {"idle", "observe"}
          /\ wDmn' = [wDmn EXCEPT !.phase = "settle"]
    /\ UNCHANGED <<wDisk, wk, wStop, wUn, wHist>>

\* _shutdown_runtime waits for the operation before it looks for workers.
OperationsSettled == wDmn.at = "idle"
StopAllWorkers ==
    /\ wDmn.phase = "settle" /\ OperationsSettled
    /\ StopsOwned(wDmn.own)
    /\ wDmn' = [wDmn EXCEPT !.phase = "stopall", !.own = 0]
    /\ UNCHANGED <<wDisk, wUn, wHist>>

\* Every stop in _stop_tasks ended; the process exits.
ShutDownDone ==
    /\ wDmn.phase = "stopall" /\ ~StopRunning(wStop.latest)
    /\ wDmn' = [wDmn EXCEPT !.phase = "down"]
    /\ UNCHANGED <<wDisk, wk, wStop, wUn, wHist>>

-----------------------------------------------------------------------------
(* Unarchive in place (portal/unarchive.py, _restore with in_place) *)

Un(at) == [wUn EXCEPT !.at = at, !.wait = 0]
DaemonUp == wDmn.phase # "down"

\* unarchive_agent takes its lock, holds the agent and posts the restore.
UnarchiveBegins ==
    /\ DaemonUp /\ wUn.at = "idle" /\ wUn.n < MaxUnarchives /\ wDisk.present
    /\ wUn' = [Un("post") EXCEPT !.n = @ + 1]
    /\ UNCHANGED <<wDisk, wDmn, wk, wStop, wHist>>

\* The server accepted: agent.yml says paused, then _stop_worker_and_wait stops
\* the worker it finds.
RestoreAccepted ==
    /\ DaemonUp /\ wUn.at = "post" /\ wDisk.present
    /\ wDisk' = [wDisk EXCEPT !.want = "paused"]
    /\ StopsOwned(wDmn.own)
    /\ wUn' = [wUn EXCEPT !.at = "stop", !.wait = Awaited(wDmn.own)]
    /\ wDmn' = [wDmn EXCEPT !.own = 0]
    /\ UNCHANGED wHist

\* ... then a stop already under way ...
WaitsForTask ==
    /\ DaemonUp /\ wUn.at = "stop" /\ ~StopRunning(wUn.wait)
    /\ wUn' = [wUn EXCEPT !.at = "task", !.wait = wStop.latest]
    /\ UNCHANGED <<wDisk, wDmn, wk, wStop, wHist>>

\* ... then it stops again a worker whose exit was not confirmed ...
StopsStale ==
    /\ DaemonUp /\ wUn.at = "task" /\ ~StopRunning(wUn.wait)
    /\ IF wStop.unconfirmed = 0 THEN wUn' = Un("install") /\ UNCHANGED wStop
       ELSE /\ wStop' = NewTask(wStop.unconfirmed)
            /\ wUn' = [wUn EXCEPT !.at = "stale", !.wait = FreeTask]
    /\ UNCHANGED <<wDisk, wDmn, wk, wHist>>

\* ... and refuses when it is still not confirmed.
StaleChecked ==
    /\ DaemonUp /\ wUn.at = "stale" /\ ~StopRunning(wUn.wait)
    /\ wUn' = IF wStop.unconfirmed = 0 THEN Un("install") ELSE Un("idle")
    /\ UNCHANGED <<wDisk, wDmn, wk, wStop, wHist>>

\* The server refuses, or STOP_TIMEOUT_S passed: the stop goes on without its
\* waiter.
UnarchiveGivesUp ==
    /\ DaemonUp /\ wUn.at \in {"post", "stop", "task", "stale"} /\ wUn' = Un("idle")
    /\ UNCHANGED <<wDisk, wDmn, wk, wStop, wHist>>

\* _install_identity: the agent's keys are replaced; the rest follows at once.
InstallIdentity ==
    /\ DaemonUp /\ wUn.at = "install"
    /\ wUn' = Un("idle")
    /\ wHist' = [wHist EXCEPT !.swapped = {w \in Workers : wk[w].open}]
    /\ UNCHANGED <<wDisk, wDmn, wk, wStop>>

-----------------------------------------------------------------------------
(* The operator: `agent pause`, `resume`, `restart`, `archive`, edits of      *)
(* agent.yml, the refresh flags the tools write.                           *)

Edit(disk) == /\ DaemonUp /\ wHist.edits < MaxDiskEdits /\ wDisk.present
              /\ disk # wDisk /\ wDisk' = disk
              /\ wHist' = [wHist EXCEPT !.edits = @ + 1]
              /\ UNCHANGED <<wDmn, wk, wStop, wUn>>

EditState == \E s \in {"running", "paused"} : Edit([wDisk EXCEPT !.want = s])
EditConfig == Edit([wDisk EXCEPT !.cfg = @ + 1])
WriteFlag == \E f \in LifecycleFlags \cup {"model"} : Edit([wDisk EXCEPT !.flags = @ \cup {f}])
RemoveDirectory == Edit([wDisk EXCEPT !.present = FALSE, !.flags = {}])

-----------------------------------------------------------------------------

WInit ==
    /\ wDisk = [present |-> TRUE, want |-> "running", cfg |-> 0, flags |-> {}]
    /\ \E win \in BOOLEAN :
          wDmn = [phase |-> "loop", stop |-> FALSE, win |-> win, at |-> "idle", wait |-> 0,
                  own |-> 0, reported |-> FALSE]
    /\ wk = [w \in Workers |-> NoWorker]
    /\ wStop = [tasks |-> [t \in 1..MaxTasks |-> 0], latest |-> 0, unconfirmed |-> 0]
    /\ wUn = [at |-> "idle", wait |-> 0, n |-> 0]
    /\ wHist = [edits |-> 0, faults |-> 0, swapped |-> {}]

Operation ==
    \/ OperationBegins \/ ArchiveMoves \/ RemovedStopped \/ RestartConsumed
    \/ Reconcile \/ ReconcileGone \/ PausedReport \/ StartWorker \/ ObserveEnds

Shutdown == Settles \/ StopAllWorkers \/ ShutDownDone

UnarchiveSteps == RestoreAccepted \/ WaitsForTask \/ StopsStale \/ StaleChecked \/ InstallIdentity

WNext ==
    \/ DaemonUp /\ (Operation \/ DispatchCancels \/ Shutdown)
    \/ StopRequested
    \/ DaemonUp /\ \E w \in Workers : WorkerAdvances(w) \/ WorkerFails(w) \/ WorkerDiesFatally(w)
    \/ \E t \in DOMAIN wStop.tasks : DaemonUp /\ StopEnds(t)
    \/ UnarchiveBegins \/ UnarchiveSteps \/ UnarchiveGivesUp
    \/ EditState \/ EditConfig \/ WriteFlag \/ RemoveDirectory

WSpec == WInit /\ [][WNext]_wVars

(* The event loop runs every ready step; Worker.stop and the worker's start   *)
(* are bounded by the timeouts the code gives them.                        *)
FairWSpec ==
    /\ WSpec
    /\ WF_wVars(DaemonUp /\ Operation)
    /\ WF_wVars(DaemonUp /\ Shutdown)
    /\ \A w \in Workers : WF_wVars(WorkerAdvances(w))
    /\ \A t \in 1..MaxTasks : WF_wVars(StopEnds(t))
    /\ WF_wVars(UnarchiveSteps \/ UnarchiveGivesUp)

-----------------------------------------------------------------------------
(* Properties *)

\* A worker that runs and was never told to stop is the one in the daemon's
\* table: no cancelled start, respawn or unarchive loses a live worker
\* (daemon.py: "The Worker stays owned until the next operation stops it").
UnstoppedIsOwned ==
    \A w \in Workers : Alive(w) /\ ~wk[w].told => wDmn.own = w

\* When unarchive replaces the keys, no worker runs that was not told to stop:
\* the hold keeps the reconciler from starting one behind its back, and it
\* stays paused until the operator resumes it.
KeysChangeWithoutRunner ==
    [][wHist'.swapped # wHist.swapped => \A w \in wHist'.swapped : wk[w].told]_wVars

\* A clean shutdown has told every worker to stop: none is started by an
\* operation that outlives the stop of all workers.
ShutdownStopsAll ==
    wDmn.phase = "down" => \A w \in Workers : Alive(w) => wk[w].told

\* What the reconciler aims at: the worker that agent.yml and the flags ask for.
AsAsked ==
    \/ wDmn.stop
    \/ ~wDisk.present /\ wDmn.own = 0
    \/ wDisk.present /\ wDisk.want = "paused" /\ wDmn.own = 0 /\ wDmn.reported
    \/ /\ wDisk.present /\ wDisk.want = "running" /\ wDmn.own # 0
       /\ wk[wDmn.own].life # "fatal" /\ wk[wDmn.own].cfg = wDisk.cfg
       /\ wDisk.flags \cap LifecycleFlags = {}

\* Once edits and failures end, the agent ends as it was asked to be: also after
\* a fatal exit, a superseded start, a move that failed or a start that met an
\* unarchive.
EndsAsAsked == []<>AsAsked

=============================================================================
