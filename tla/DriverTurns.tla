---------------------------- MODULE DriverTurns ----------------------------
(***************************************************************************)
(* What every provider driver promises the runtime manager about turns     *)
(* (agent/harness/driver.py, the Driver class and its event types): one    *)
(* turn is current at a time, whether the daemon or the provider opened    *)
(* it; a terminal event names the current turn and ends it; a turn may     *)
(* also be dropped without a terminal event (the session was closed, the   *)
(* provider process went away, the input was never accepted).              *)
(***************************************************************************)
EXTENDS Naturals

CONSTANT DTurns                      \* the turn references a driver may issue

VARIABLES dturn,                     \* the current turn, 0 when there is none
          dends                      \* terminal events emitted, per turn

dvars == <<dturn, dends>>

DInit == dturn = 0 /\ dends = [t \in DTurns |-> 0]

\* start_turn accepted, or AUTONOMOUS_STARTED emitted
DBegin(t) ==
    /\ dturn = 0
    /\ dends[t] = 0
    /\ dturn' = t
    /\ UNCHANGED dends

\* TURN_COMPLETED, TURN_ABANDONED or AUTONOMOUS_COMPLETED emitted
DFinish ==
    /\ dturn # 0
    /\ dends' = [dends EXCEPT ![dturn] = @ + 1]
    /\ dturn' = 0

\* close, a failed start, a provider that exited
DDrop ==
    /\ dturn # 0
    /\ dturn' = 0
    /\ UNCHANGED dends

DNext == (\E t \in DTurns : DBegin(t)) \/ DFinish \/ DDrop

DSpec == DInit /\ [][DNext]_dvars

\* No turn is reported finished twice, so a turn's waiter in the manager is
\* settled by one outcome only.
EndsAtMostOnce == \A t \in DTurns : dends[t] <= 1

DInv ==
    /\ dturn \in DTurns \cup {0}
    /\ dends \in [DTurns -> {0, 1}]
    /\ dturn # 0 => dends[dturn] = 0
=============================================================================
