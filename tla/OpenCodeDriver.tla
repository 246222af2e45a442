--------------------------- MODULE OpenCodeDriver ---------------------------
(***************************************************************************)
(* The OpenCode driver (agent/harness/drivers/opencode.py): every turn,    *)
(* compaction and model lookup runs a child of its own, with a scratch     *)
(* directory it owns, on one data directory that tolerates one process at  *)
(* a time.  _temporary_children holds the directories and the children's   *)
(* handles, _child_spawns the spawns still under way; a spawn that was     *)
(* cancelled or a shutdown that failed leaves its entry for a later close. *)
(***************************************************************************)
EXTENDS Integers, FiniteSets

CONSTANTS MaxOTurns,     \* turns started
          MaxKids        \* children spawned

OTurns == 1 .. MaxOTurns
Kids == 1 .. MaxKids

ASSUME OpenCodeAssumption == MaxOTurns \in Nat

VARIABLES
    oc,       \* the driver: open, current turn, what it is doing
    oEnds,    \* terminal events emitted, per turn (history)
    reg,      \* _temporary_children: "no", "none" (no handle yet) or "handle"
    spawns,   \* _child_spawns: "no", "pending", "done" or "failed"
    kid       \* the operating system's view of each child

ocVars == <<oc, oEnds, reg, spawns, kid>>

\* job: "idle", "lookup" (open), "start" and "turn" (start_turn before and
\* after its first frame), "compact"; kid: the job's child.  sick is an error
\* the manager answers with close.
OInit ==
    /\ oc = [open |-> FALSE, turn |-> 0, last |-> 0, job |-> "idle", kid |-> 0, sick |-> FALSE]
    /\ oEnds = [t \in OTurns |-> 0]
    /\ reg = [i \in Kids |-> "no"]
    /\ spawns = [i \in Kids |-> "no"]
    /\ kid = [i \in Kids |-> "no"]

\* what _cleanup_child_temps may remove: an entry whose child has exited, or the
\* finished spawn that never registered a task
Cleanable(i, r, s, k, finished) ==
    \/ r[i] = "handle" /\ k[i] = "dead"
    \/ r[i] = "none" /\ i = finished /\ s[i] = "no"

\* _cleanup_child_temps
CleanedReg(r, s, k, finished) ==
    [i \in Kids |-> IF Cleanable(i, r, s, k, finished) THEN "no" ELSE r[i]]
CleanedSpawns(r, s, k, finished) ==
    [i \in Kids |-> IF Cleanable(i, r, s, k, finished) THEN "no" ELSE s[i]]

Cleanup(k) == /\ reg' = CleanedReg(reg, spawns, k, 0)
              /\ spawns' = CleanedSpawns(reg, spawns, k, 0)

\* _new_child_temp refuses while an earlier child is registered
NoChildLeft == \A i \in Kids : CleanedReg(reg, spawns, kid, 0)[i] = "no"

Fresh == \E i \in Kids : kid[i] = "no"
NextKid == CHOOSE i \in Kids : kid[i] = "no" /\ \A j \in 1 .. i - 1 : kid[j] # "no"

\* _new_child_temp and _await_child_spawn up to its await
Spawn ==
    /\ Fresh
    /\ reg' = [CleanedReg(reg, spawns, kid, 0) EXCEPT ![NextKid] = "none"]
    /\ spawns' = [CleanedSpawns(reg, spawns, kid, 0) EXCEPT ![NextKid] = "pending"]
    /\ kid' = [kid EXCEPT ![NextKid] = "spawning"]

Idle(o) == [o EXCEPT !.turn = 0, !.job = "idle", !.kid = 0]

-----------------------------------------------------------------------------
\* open: the model lookup runs before anything else can
OpenOC ==
    /\ ~oc.open
    /\ \/ /\ NoChildLeft
          /\ Spawn
          /\ oc' = [oc EXCEPT !.open = TRUE, !.job = "lookup", !.kid = NextKid, !.sick = FALSE]
       \/ /\ ~NoChildLeft
          /\ Cleanup(kid)
          /\ oc' = [oc EXCEPT !.open = TRUE, !.sick = TRUE]
          /\ UNCHANGED kid
    /\ UNCHANGED oEnds

\* start_turn: refused while a compaction runs (job); a refused directory
\* aborts the start
StartOC ==
    /\ oc.open /\ ~oc.sick /\ oc.job = "idle" /\ oc.last < MaxOTurns
    /\ \/ /\ NoChildLeft
          /\ Spawn
          /\ oc' = [oc EXCEPT !.turn = oc.last + 1, !.last = @ + 1, !.job = "start",
                              !.kid = NextKid]
       \/ /\ ~NoChildLeft
          /\ Cleanup(kid)
          /\ oc' = [oc EXCEPT !.sick = TRUE]
          /\ UNCHANGED kid
    /\ UNCHANGED oEnds

\* compact: _run_compaction in a task of its own, with a transient server
CompactOC ==
    /\ oc.open /\ ~oc.sick /\ oc.job = "idle" /\ oc.last > 0
    /\ \/ /\ NoChildLeft
          /\ Spawn
          /\ oc' = [oc EXCEPT !.job = "compact", !.kid = NextKid]
       \/ ~NoChildLeft /\ Cleanup(kid) /\ UNCHANGED <<oc, kid>>
    /\ UNCHANGED oEnds

\* register(): the handle arrives, whether or not anyone still waits for it
SpawnArrives(i) ==
    /\ spawns[i] = "pending"
    /\ spawns' = [spawns EXCEPT ![i] = "done"]
    /\ reg' = [reg EXCEPT ![i] = "handle"]
    /\ kid' = [kid EXCEPT ![i] = "live"]
    /\ UNCHANGED <<oc, oEnds>>

\* the job whose spawn failed: a start is aborted, a lookup or a compaction ends
JobFails(i) ==
    oc' = IF oc.kid # i THEN oc
          ELSE [Idle(oc) EXCEPT !.sick = @ \/ oc.job = "start"]

\* register(): the exec was refused, and the directory goes; or it failed in a
\* way that may have left a child, and directory and task stay
SpawnFails(i) ==
    /\ spawns[i] = "pending"
    /\ \/ /\ kid' = [kid EXCEPT ![i] = "dead"]
          /\ spawns' = [spawns EXCEPT ![i] = "no"]
          /\ reg' = CleanedReg(reg, spawns', kid', i)
       \/ /\ \E left \in {"dead", "live"} : kid' = [kid EXCEPT ![i] = left]
          /\ spawns' = [spawns EXCEPT ![i] = "failed"]
          /\ reg' = reg
    /\ JobFails(i)
    /\ UNCHANGED oEnds

\* a child exits by itself, on a signal (cancel_turn) or after a failed shutdown
KidExits(i) ==
    /\ kid[i] = "live"
    /\ kid' = [kid EXCEPT ![i] = "dead"]
    /\ UNCHANGED <<oc, oEnds, reg, spawns>>

\* _read_turn_frames: the first frame of the session accepts the turn
TurnAccepted ==
    /\ oc.job = "start" /\ kid[oc.kid] \in {"live", "dead"} /\ reg[oc.kid] = "handle"
    /\ oc' = [oc EXCEPT !.job = "turn"]
    /\ UNCHANGED <<oEnds, reg, spawns, kid>>

\* _finish_turn publishes a terminal event only for an accepted turn
Accepted(job) == job = "turn"

\* _finish_turn, after the child has exited: idle first, then the terminal
\* event; an unaccepted start raises and is aborted
FinishOC ==
    /\ oc.job \in {"start", "turn"} /\ kid[oc.kid] = "dead" /\ reg[oc.kid] = "handle"
    /\ Cleanup(kid)
    /\ oEnds' = IF Accepted(oc.job) THEN [oEnds EXCEPT ![oc.turn] = @ + 1] ELSE oEnds
    /\ oc' = [Idle(oc) EXCEPT !.sick = @ \/ oc.job = "start"]
    /\ UNCHANGED kid

\* the end of a lookup or a compaction: shutdown_process_tree, which may leave
\* the child running, then the directory
JobEnds ==
    /\ oc.job \in {"lookup", "compact"} /\ reg[oc.kid] = "handle"
    /\ \E k \in {[kid EXCEPT ![oc.kid] = "dead"], kid} :
          kid' = k /\ Cleanup(k)
    /\ oc' = Idle(oc)
    /\ UNCHANGED oEnds

\* start_turn cancelled while it waits for its spawn (a handle that is there is
\* shut down, one that is not stays with close) or for the first frame
\* (_abort_failed_start); the shutdown may fail
OpenCodeStartCancelled ==
    /\ oc.job = "start"
    /\ \E k \in {[i \in Kids |-> IF i = oc.kid /\ reg[i] = "handle" THEN "dead" ELSE kid[i]],
                 kid} :
          kid' = k /\ Cleanup(k)
    /\ oc' = [Idle(oc) EXCEPT !.sick = TRUE]
    /\ UNCHANGED oEnds

\* close: end the job, take over the spawns under way, shut every child down;
\* what survives stays registered and a later close retries
CloseOC ==
    /\ oc.open \/ \E i \in Kids : reg[i] # "no"
    /\ \E stopped \in SUBSET {i \in Kids : kid[i] = "live" /\ reg[i] = "handle"} :
          LET k == [i \in Kids |-> IF i \in stopped
                                   THEN "dead" ELSE kid[i]]
          IN  /\ kid' = k
              /\ Cleanup(k)
              /\ oEnds' = IF oc.job = "turn" /\ k[oc.kid] = "dead"
                          THEN [oEnds EXCEPT ![oc.turn] = @ + 1] ELSE oEnds
    /\ oc' = [Idle(oc) EXCEPT !.open = FALSE, !.sick = FALSE]

ONext ==
    \/ OpenOC \/ StartOC \/ CompactOC \/ TurnAccepted \/ FinishOC \/ JobEnds
    \/ OpenCodeStartCancelled \/ CloseOC
    \/ \E i \in Kids : SpawnArrives(i) \/ SpawnFails(i) \/ KidExits(i)

OSpec == OInit /\ [][ONext]_ocVars

-----------------------------------------------------------------------------
OContract == INSTANCE DriverTurns WITH DTurns <- OTurns, dturn <- oc.turn, dends <- oEnds

\* The driver keeps the turn contract of driver.py; in particular a start that
\* raised has no terminal event (_finish_turn, _abort_failed_start).
OpenCodeKeepsContract ==
    /\ OContract!DSpec
    /\ [][\A t \in OTurns : oEnds'[t] > oEnds[t] => oc.job = "turn"]_ocVars

\* Never two children on the agent's data directory, whatever was cancelled or
\* failed to stop before ("the loser dies with 'database is locked'").
OneChildAtATime ==
    \A i, j \in Kids : {kid[i], kid[j]} \subseteq {"spawning", "live"} => i = j

\* A live child keeps its directory ("must never delete a live child's files
\* after an interrupted shutdown").
DirOutlivesChild == \A i \in Kids : kid[i] \in {"live", "spawning"} => reg[i] # "no"
=============================================================================
