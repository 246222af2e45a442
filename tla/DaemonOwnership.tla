--------------------------- MODULE DaemonOwnership ---------------------------
(***************************************************************************)
(* Which process owns a Puffo home: the pid, identity, ready and stop       *)
(* marker files (portal/state.py, portal/daemon_identity.py), the processes *)
(* that start and stop as daemons (run_daemon of portal/daemon.py) and the  *)
(* `stop` command (portal/cli.py).  Each transaction under the marker lock  *)
(* is one step; everything else may happen between two of them.  Operating *)
(* system pids are reused once their process is gone; a process instance   *)
(* (birth time and random token in the code) is its index here.  Markers   *)
(* of daemons older than the identity file are left out.                   *)
(***************************************************************************)
EXTENDS Integers

CONSTANTS MaxProcs,  \* processes ever started
          Pids,      \* operating system pids, positive
          MaxStops,  \* `stop` commands
          MaxKills   \* processes killed

ASSUME OwnAssumption == MaxProcs \in Nat /\ 0 \notin Pids

VARIABLES oProc,  \* the processes
          oFile,  \* the marker files
          oCli,   \* the `stop` command in progress
          oHist   \* budgets, and what reached whom

oVars == <<oProc, oFile, oCli, oHist>>

Procs == 1..MaxProcs
NoStopFile == [pid |-> 0, inst |-> 0]
NoProc == [at |-> "none", pid |-> 0, id |-> 0, told |-> FALSE]

Living(p) == oProc[p].at \notin {"none", "gone"}
At(p, at) == oProc[p].at = at
Moves(p, at) == oProc' = [oProc EXCEPT ![p].at = at]

-----------------------------------------------------------------------------
(* The markers *)

\* inspect_process: the live daemon process with this pid, if any.
Inspected(pid) == {p \in Procs : Living(p) /\ oProc[p].pid = pid}

\* resolve_identity: that process, when the identity file names its birth.
SameBirth(p) == oFile.ident = p
Resolved(pid) == {p \in Inspected(pid) : SameBirth(p)}

\* read_daemon_identity(pid), and with the pid of the file.
IdentityOf(pid) == IF oFile.pid = pid /\ pid # 0 THEN Resolved(pid) ELSE {}
DaemonAlive == IdentityOf(oFile.pid) # {}

\* is_pid_alive(pid, identity=i) of a captured instance, or without one.
CapturedAlive(pid, i) ==
    IF i = 0 THEN IdentityOf(pid) # {} ELSE Living(i) /\ oProc[i].pid = pid

\* is_daemon_ready: the ready marker names the live owner.
DaemonReady == \E p \in IdentityOf(oFile.pid) : oFile.ready = p

\* stop_requested_for(pid, identity): the sentinel names pid and instance.
NamesAnyone(i) == TRUE
NamesInstance(i) == oFile.stop.inst = i
StopRequestedFor(pid, i) ==
    /\ oFile.stop.pid = pid
    /\ i # 0 /\ oProc[i].pid = pid /\ NamesInstance(i)

\* clear_daemon_ready(expected_pid, identity).
ReadyCleared(pid, i) ==
    IF oFile.ready # 0 /\ oProc[oFile.ready].pid = pid /\ oFile.ready = i
       THEN [oFile EXCEPT !.ready = 0] ELSE oFile

\* clear_stop_request(expected_pid, identity).
StopCleared(pid, i) ==
    IF oFile.stop.pid = pid /\ (i = 0 \/ NamesInstance(i))
       THEN [oFile EXCEPT !.stop = NoStopFile] ELSE oFile

\* clear_daemon_pid(expected_pid, identity).
MayClearPid(pid, i) ==
    /\ oFile.pid = pid
    /\ IF i = 0 THEN Resolved(pid) = {} ELSE oFile.ident = i
PidCleared(pid, i) ==
    IF MayClearPid(pid, i) THEN [oFile EXCEPT !.pid = 0, !.ident = 0] ELSE oFile

-----------------------------------------------------------------------------
(* run_daemon *)

\* `start`: a process with a pid no live process has.
ProcessStarts(p) ==
    /\ oProc[p] = NoProc /\ \A q \in 1..(p - 1) : oProc[q] # NoProc
    /\ \E pid \in Pids :
          /\ Inspected(pid) = {}
          /\ oProc' = [oProc EXCEPT ![p] = [NoProc EXCEPT !.at = "check", !.pid = pid]]
    /\ UNCHANGED <<oFile, oCli, oHist>>

\* _existing_daemon_start_result: refuse beside a live daemon.
ExistingDaemonStartResult(p) ==
    /\ At(p, "check")
    /\ Moves(p, IF DaemonAlive THEN "gone" ELSE "sweep")
    /\ UNCHANGED <<oFile, oCli, oHist>>

\* clear_daemon_ready() and clear_stop_request() without conditions.
SweepReady(p) ==
    /\ At(p, "sweep") /\ oFile' = [oFile EXCEPT !.ready = 0] /\ Moves(p, "unstop")
    /\ UNCHANGED <<oCli, oHist>>
SweepStop(p) ==
    /\ At(p, "unstop") /\ oFile' = [oFile EXCEPT !.stop = NoStopFile] /\ Moves(p, "publish")
    /\ oHist' = [oHist EXCEPT !.over = @ \cup {q \in Procs \ {p} : Living(q)}]
    /\ UNCHANGED oCli

\* write_daemon_pid publishes the identity, then the pid, under the lock.
WriteDaemonPid(p) ==
    /\ At(p, "publish")
    /\ oFile' = [oFile EXCEPT !.ident = p, !.pid = oProc[p].pid]
    /\ Moves(p, "capture")
    /\ oHist' = [oHist EXCEPT !.over = @ \cup {q \in Procs \ {p} : Living(q)}]
    /\ UNCHANGED oCli

\* Daemon.__init__ and run_daemon read the identity file back.
CaptureIdentity(p) ==
    /\ At(p, "capture")
    /\ oProc' = [oProc EXCEPT ![p].id = oFile.ident, ![p].at = "start"]
    /\ UNCHANGED <<oFile, oCli, oHist>>

\* write_daemon_ready's test of ownership.
OwnsHome(p) == oProc[p].id = oFile.ident /\ oProc[p].id # 0 /\ oProc[oProc[p].id].pid = oProc[p].pid

\* _start_runtime done: a stop seen now skips readiness; write_daemon_ready
\* refuses when ownership changed, and the process shuts down.
BecomesReady(p) ==
    LET me == oProc[p] IN
    /\ At(p, "start")
    /\ \/ /\ me.told \/ StopRequestedFor(me.pid, me.id)
          /\ Moves(p, "clean ready") /\ UNCHANGED oFile
          /\ oHist' = IF me.told THEN oHist ELSE [oHist EXCEPT !.obeyed = @ \cup {<<p, oFile.stop.inst>>}]
       \/ /\ ~me.told /\ ~StopRequestedFor(me.pid, me.id)
          /\ IF OwnsHome(p)
                THEN oFile' = [oFile EXCEPT !.ready = me.id] /\ Moves(p, "serve")
                ELSE Moves(p, "clean ready") /\ UNCHANGED oFile
          /\ UNCHANGED oHist
    /\ UNCHANGED oCli

\* The reconcile loop sees a stop, and _shutdown_runtime runs.
ObeysStop(p) ==
    LET me == oProc[p] IN
    /\ At(p, "serve") /\ (me.told \/ StopRequestedFor(me.pid, me.id))
    /\ Moves(p, "clean ready")
    /\ oHist' = IF me.told THEN oHist ELSE [oHist EXCEPT !.obeyed = @ \cup {<<p, oFile.stop.inst>>}]
    /\ UNCHANGED <<oFile, oCli>>

\* A signal: request_stop sets the event and leaves a sentinel when it owns the
\* pid file.
Signalled(p) ==
    LET me == oProc[p] IN
    /\ oProc[p].at \in {"start", "serve"} /\ ~me.told /\ oHist.kills < MaxKills
    /\ oProc' = [oProc EXCEPT ![p].told = TRUE]
    /\ oFile' = IF oFile.pid = me.pid THEN [oFile EXCEPT !.stop = [pid |-> me.pid, inst |-> me.id]]
                ELSE oFile
    /\ oHist' = [oHist EXCEPT !.kills = @ + 1]
    /\ UNCHANGED oCli

\* The end of run_daemon clears its own markers, one transaction each.
ClearsReady(p) ==
    /\ At(p, "clean ready") /\ oFile' = ReadyCleared(oProc[p].pid, oProc[p].id)
    /\ Moves(p, "clean stop") /\ UNCHANGED <<oCli, oHist>>
ClearsStop(p) ==
    /\ At(p, "clean stop") /\ oFile' = StopCleared(oProc[p].pid, oProc[p].id)
    /\ Moves(p, "clean pid") /\ UNCHANGED <<oCli, oHist>>
ClearsPid(p) ==
    /\ At(p, "clean pid") /\ oFile' = PidCleared(oProc[p].pid, oProc[p].id)
    /\ Moves(p, "gone") /\ UNCHANGED <<oCli, oHist>>

\* Killed: every marker stays as it is.
Killed(p) ==
    /\ Living(p) /\ oHist.kills < MaxKills /\ Moves(p, "gone")
    /\ oHist' = [oHist EXCEPT !.kills = @ + 1]
    /\ UNCHANGED <<oFile, oCli>>

-----------------------------------------------------------------------------
(* cmd_stop *)

CliAt(at) == oCli' = [oCli EXCEPT !.at = at]

\* It reads the pid file ...
StopReadsPid ==
    /\ oCli.at = "idle" /\ oHist.stops < MaxStops /\ oFile.pid # 0
    /\ oCli' = [at |-> "identity", pid |-> oFile.pid, inst |-> 0]
    /\ oHist' = [oHist EXCEPT !.stops = @ + 1]
    /\ UNCHANGED <<oProc, oFile>>

\* ... captures the instance ...
StopReadsIdentity ==
    /\ oCli.at = "identity"
    /\ oCli' = [oCli EXCEPT !.at = "alive",
                   !.inst = IF IdentityOf(oCli.pid) = {} THEN 0
                            ELSE CHOOSE p \in IdentityOf(oCli.pid) : TRUE]
    /\ UNCHANGED <<oProc, oFile, oHist>>

\* ... and, when nothing lives there, removes the stale pid file; otherwise it
\* leaves a request naming pid and instance.
StopRequests ==
    /\ oCli.at = "alive"
    /\ IF CapturedAlive(oCli.pid, oCli.inst) THEN CliAt("request") ELSE CliAt("unpid")
    /\ UNCHANGED <<oProc, oFile, oHist>>
StopClearsPid ==
    /\ oCli.at = "unpid" /\ oFile' = PidCleared(oCli.pid, oCli.inst) /\ CliAt("idle")
    /\ UNCHANGED <<oProc, oHist>>
WriteStopRequest ==
    /\ oCli.at = "request"
    /\ LET i == IF oCli.inst = 0 /\ IdentityOf(oCli.pid) # {}
                   THEN CHOOSE p \in IdentityOf(oCli.pid) : TRUE ELSE oCli.inst
       IN  oFile' = [oFile EXCEPT !.stop = [pid |-> oCli.pid, inst |-> i]]
    /\ CliAt("poll")
    /\ UNCHANGED <<oProc, oHist>>

\* It polls that instance and removes its own request; or gives up.
StopSeesEnd ==
    /\ oCli.at = "poll" /\ ~CapturedAlive(oCli.pid, oCli.inst)
    /\ oFile' = StopCleared(oCli.pid, oCli.inst) /\ CliAt("idle")
    /\ UNCHANGED <<oProc, oHist>>
StopGivesUp ==
    /\ oCli.at = "poll" /\ CliAt("idle")
    /\ UNCHANGED <<oProc, oFile, oHist>>

-----------------------------------------------------------------------------

OInitial ==
    /\ oProc = [p \in Procs |-> NoProc]
    /\ oFile = [pid |-> 0, ident |-> 0, ready |-> 0, stop |-> NoStopFile]
    /\ oCli = [at |-> "idle", pid |-> 0, inst |-> 0]
    /\ oHist = [stops |-> 0, kills |-> 0, obeyed |-> {}, over |-> {}]

RunDaemon(p) ==
    \/ ExistingDaemonStartResult(p) \/ SweepReady(p) \/ SweepStop(p) \/ WriteDaemonPid(p)
    \/ CaptureIdentity(p) \/ BecomesReady(p) \/ ObeysStop(p)
    \/ ClearsReady(p) \/ ClearsStop(p) \/ ClearsPid(p)

StopCommand == StopReadsPid \/ StopReadsIdentity \/ StopRequests \/ StopClearsPid
               \/ WriteStopRequest \/ StopSeesEnd \/ StopGivesUp

OwnNext ==
    \/ \E p \in Procs : ProcessStarts(p) \/ RunDaemon(p) \/ Signalled(p) \/ Killed(p)
    \/ StopCommand

OwnSpec == OInitial /\ [][OwnNext]_oVars

\* A process runs: every step of run_daemon is taken.
FairOwnSpec == OwnSpec /\ \A p \in Procs : WF_oVars(RunDaemon(p))

-----------------------------------------------------------------------------
(* Properties *)

\* A daemon that stops because of the sentinel file is the very instance the
\* request was written for, also when its pid was used before
\* (_stop_matches_identity).
StopReachesItsTarget == \A x \in oHist.obeyed : x[2] = x[1]

\* A process that ends, and a `stop` that finds a stale pid, never erase the
\* pid file of the live daemon that published it (clear_daemon_pid).
LiveOwnerKeepsPid ==
    [][\A p \in Procs :
          Living(p) /\ oFile.ident = p /\ oFile'.pid = 0 /\ oFile.pid # 0
             => At(p, "clean pid")]_oVars

\* A home that reads as ready is served: the owner named by the markers got
\* past readiness and has not begun to clean up its markers.
ReadyMeansServing ==
    DaemonReady => \A p \in IdentityOf(oFile.pid) : At(p, "serve") \/ At(p, "clean ready")

\* A stop request that names a daemon which is still the published owner is
\* obeyed, unless a second start swept and published over it.
StopIsObeyed ==
    \A p \in Procs :
        (oFile.stop.inst = p /\ At(p, "serve"))
            ~> (~Living(p) \/ p \in oHist.over)

=============================================================================
