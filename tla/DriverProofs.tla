---------------------------- MODULE DriverProofs ----------------------------
(***************************************************************************)
(* The provider drivers keep the turn contract, for any number of turns,   *)
(* commands, frames and children: proofs.  Every driver numbers the turns  *)
(* it issues (last), so the argument is the same five times: the current   *)
(* turn and the turns still to be issued have no terminal event yet.       *)
(***************************************************************************)
EXTENDS ProviderDrivers, DriverTurns, TLAPS

-----------------------------------------------------------------------------
\* The contract itself.

\* A turn that has ended is not current, and a turn begins only before it ended.
\* So no turn has two terminal events, in any implementation of the contract
\* (the one outcome the manager settles a turn's waiter with).
THEOREM ContractEndsOnce ==
    ASSUME DTurns \subseteq Nat \ {0} PROVE DSpec => []EndsAtMostOnce
<1>1. DInit => DInv
  BY DEF DInit, DInv
<1>2. DInv /\ [DNext]_dvars => DInv'
  BY DEF DInv, DNext, DBegin, DFinish, DDrop, dvars
<1>3. DInv => EndsAtMostOnce
  BY DEF DInv, EndsAtMostOnce
<1>4. QED BY <1>1, <1>2, <1>3, PTL DEF DSpec

-----------------------------------------------------------------------------
\* The bookkeeping all five drivers share: the current turn, the last turn issued
\* and the terminal events, of at most n turns.

Serial(turn, last, ends, n) ==
    /\ last \in 0 .. n /\ turn \in 0 .. last
    /\ ends \in [1 .. n -> {0, 1}]
    /\ \A t \in 1 .. n : (t > last \/ t = turn) => ends[t] = 0

Stays(turn, last, ends, turn2, last2, ends2) ==
    turn2 = turn /\ last2 = last /\ ends2 = ends
Begins(turn, last, ends, turn2, last2, ends2, n) ==
    turn = 0 /\ last < n /\ turn2 = last + 1 /\ last2 = last + 1 /\ ends2 = ends
Finishes(turn, last, ends, turn2, last2, ends2) ==
    turn # 0 /\ turn2 = 0 /\ last2 = last /\ ends2 = [ends EXCEPT ![turn] = @ + 1]
Drops(last, ends, turn2, last2, ends2) ==
    turn2 = 0 /\ last2 = last /\ ends2 = ends

Moves(turn, last, ends, turn2, last2, ends2, n) ==
    \/ Stays(turn, last, ends, turn2, last2, ends2)
    \/ Begins(turn, last, ends, turn2, last2, ends2, n)
    \/ Finishes(turn, last, ends, turn2, last2, ends2)
    \/ Drops(last, ends, turn2, last2, ends2)

\* Such a move keeps the bookkeeping serial, and is a step of the contract.
LEMMA MoveKeepsSerial ==
    ASSUME NEW n \in Nat, NEW turn, NEW last, NEW ends, NEW turn2, NEW last2, NEW ends2,
           Serial(turn, last, ends, n), Moves(turn, last, ends, turn2, last2, ends2, n)
    PROVE  Serial(turn2, last2, ends2, n)
<1> USE DEF Serial
<1>1. CASE Stays(turn, last, ends, turn2, last2, ends2)
  BY <1>1 DEF Stays
<1>2. CASE Begins(turn, last, ends, turn2, last2, ends2, n)
  BY <1>2 DEF Begins
<1>3. CASE Finishes(turn, last, ends, turn2, last2, ends2)
  BY <1>3 DEF Finishes
<1>4. CASE Drops(last, ends, turn2, last2, ends2)
  BY <1>4 DEF Drops
<1>5. QED BY <1>1, <1>2, <1>3, <1>4 DEF Moves

\* A move is a step of DriverTurns, or none.
LEMMA MoveIsContractStep ==
    ASSUME NEW n \in Nat, NEW turn, NEW last, NEW ends, NEW turn2, NEW last2, NEW ends2,
           Serial(turn, last, ends, n), Moves(turn, last, ends, turn2, last2, ends2, n)
    PROVE  \/ \E t \in 1 .. n : turn = 0 /\ ends[t] = 0 /\ turn2 = t /\ ends2 = ends
           \/ turn # 0 /\ ends2 = [ends EXCEPT ![turn] = @ + 1] /\ turn2 = 0
           \/ turn # 0 /\ turn2 = 0 /\ ends2 = ends
           \/ turn2 = turn /\ ends2 = ends
<1>1. CASE Begins(turn, last, ends, turn2, last2, ends2, n)
  <2>1. last + 1 \in 1 .. n /\ ends[last + 1] = 0
    BY <1>1 DEF Serial, Begins
  <2>2. QED BY <1>1, <2>1 DEF Begins
<1>2. QED
  BY <1>1 DEF Moves, Stays, Finishes, Drops

\* No turn was issued and none has ended.
LEMMA NothingIssued ==
    ASSUME NEW n \in Nat PROVE Serial(0, 0, [t \in 1 .. n |-> 0], n)
  BY SMTT(30) DEF Serial

-----------------------------------------------------------------------------
\* ACP: the prompt's task names a turn that was issued, so that _finish_turn
\* ends the current turn or does nothing.

AcpInv ==
    /\ ac = [turn |-> ac.turn, last |-> ac.last, proc |-> ac.proc, bypass |-> ac.bypass]
    /\ aPrompt = [st |-> aPrompt.st, turn |-> aPrompt.turn, target |-> aPrompt.target]
    /\ aPrompt.st # "none" => aPrompt.turn # 0
    /\ Serial(ac.turn, ac.last, aEnds, MaxATurns)

\* What a step does to the shape of the records and to the turns.
LEMMA AcpMoves ==
    AcpInv /\ [ANext]_aVars =>
        /\ ac' = [turn |-> ac'.turn, last |-> ac'.last, proc |-> ac'.proc, bypass |-> ac'.bypass]
        /\ aPrompt' = [st |-> aPrompt'.st, turn |-> aPrompt'.turn, target |-> aPrompt'.target]
        /\ aPrompt'.st # "none" => aPrompt'.turn # 0
        /\ Moves(ac.turn, ac.last, aEnds, ac'.turn, ac'.last, aEnds', MaxATurns)
<1> DEFINE Goal ==
        /\ ac' = [turn |-> ac'.turn, last |-> ac'.last, proc |-> ac'.proc, bypass |-> ac'.bypass]
        /\ aPrompt' = [st |-> aPrompt'.st, turn |-> aPrompt'.turn, target |-> aPrompt'.target]
        /\ aPrompt'.st # "none" => aPrompt'.turn # 0
        /\ Moves(ac.turn, ac.last, aEnds, ac'.turn, ac'.last, aEnds', MaxATurns)
<1> SUFFICES ASSUME AcpInv, [ANext]_aVars PROVE Goal
  OBVIOUS
<1>1. ac.last \in Nat
  BY AcpAssumption DEF AcpInv, Serial
<1>2. CASE StartAcp
  <2>1. /\ ac' = [turn |-> ac.last + 1, last |-> ac.last + 1, proc |-> ac.proc,
                  bypass |-> ac.bypass]
        /\ ac.turn = 0 /\ ac.last < MaxATurns /\ aEnds' = aEnds
    BY <1>2, Zenon DEF StartAcp, AcpInv
  <2>2. aPrompt' = [st |-> "unsent", turn |-> ac.last + 1, target |-> 0]
    BY <1>2, Zenon DEF StartAcp, NoPrompt
  <2>3. QED BY <1>1, <2>1, <2>2 DEF Moves, Begins
<1>3. CASE PromptSent \/ PromptReturns \/ SettleBegins
  <2>1. \E s \in {"waiting", "returned", "settling"} : \E g :
            aPrompt' = [st |-> s, turn |-> aPrompt.turn, target |-> g]
    BY <1>3, Zenon DEF PromptSent, PromptReturns, SettleBegins, AcpInv
  <2>2. aPrompt.turn # 0 /\ UNCHANGED <<ac, aEnds>>
    BY <1>3 DEF PromptSent, PromptReturns, SettleBegins, AcpInv
  <2>3. QED BY <2>1, <2>2 DEF AcpInv, Moves, Stays
<1>4. CASE SettleEnds \/ SettleTimesOut
  <2>1. FinishAcp(aPrompt.turn) /\ aPrompt' = NoPrompt /\ aPrompt.turn # 0
    BY <1>4 DEF SettleEnds, SettleTimesOut, AcpInv
  <2>2. QED BY <2>1 DEF FinishAcp, NoPrompt, AcpInv, Moves, Stays, Finishes
<1>5. CASE CloseAcp
  BY <1>5, Zenon DEF CloseAcp, NoPrompt, AcpInv, Moves, Drops
<1>6. CASE OpenAcp \/ AcpExits
  BY <1>6 DEF OpenAcp, AcpExits, AcpInv, Moves, Stays
<1>7. CASE \/ UpdateArrives \/ UpdateHandled \/ PermissionAsked
           \/ \E p \in APerms : RequestPermission(p) \/ ResolveAcp(p)
  <2>1. UNCHANGED <<ac, aPrompt, aEnds>>
    BY <1>7, Zenon DEF UpdateArrives, UpdateHandled, PermissionAsked, RequestPermission, ResolveAcp
  <2>2. QED BY <2>1, Zenon DEF AcpInv, Moves, Stays
<1>8. CASE UNCHANGED aVars
  BY <1>8 DEF aVars, AcpInv, Moves, Stays
<1>9. QED
  BY <1>2, <1>3, <1>4, <1>5, <1>6, <1>7, <1>8, Zenon DEF ANext

\* The invariant is inductive.
LEMMA AcpInvariant == ASpec => []AcpInv
<1>1. AInit => AcpInv
  BY NothingIssued, AcpAssumption DEF AInit, NoPrompt, ATurns, AcpInv
<1>2. AcpInv /\ [ANext]_aVars => AcpInv'
  <2> SUFFICES ASSUME AcpInv, [ANext]_aVars PROVE AcpInv'
    BY Zenon
  <2>1. Serial(ac'.turn, ac'.last, aEnds', MaxATurns)
    BY AcpMoves, MoveKeepsSerial, AcpAssumption DEF AcpInv
  <2>2. QED BY <2>1, AcpMoves DEF AcpInv
<1>3. QED BY <1>1, <1>2, PTL DEF ASpec

\* A prompt that ends after its turn was closed emits nothing, and every other
\* end of a prompt ends the current turn once (acp.py, _finish_turn).
THEOREM AcpImplementsContract == ASpec => AcpKeepsContract
<1>1. AInit => AContract!DInit
  BY Zenon DEF AInit, AContract!DInit
<1>2. AcpInv /\ [ANext]_aVars => [AContract!DNext]_(AContract!dvars)
  BY AcpMoves, MoveIsContractStep, AcpAssumption
  DEF AcpInv, AContract!DNext, AContract!DBegin, AContract!DFinish, AContract!DDrop,
      AContract!dvars, ATurns
<1>3. QED
  BY <1>1, <1>2, AcpInvariant, PTL DEF ASpec, AcpKeepsContract, AContract!DSpec

-----------------------------------------------------------------------------
\* OpenCode: a turn is current exactly while start_turn runs or its child does.

OC(open, turn, last, job, k, sick) ==
    [open |-> open, turn |-> turn, last |-> last, job |-> job, kid |-> k, sick |-> sick]

OpenCodeInv ==
    /\ oc = OC(oc.open, oc.turn, oc.last, oc.job, oc.kid, oc.sick)
    /\ oc.job \in {"start", "turn"} <=> oc.turn # 0
    /\ oc.turn # 0 => oc.open
    /\ Serial(oc.turn, oc.last, oEnds, MaxOTurns)

\* What a step does to the record and to the turns; only an accepted turn ends.
OpenCodeGoal ==
    /\ oc' = OC(oc'.open, oc'.turn, oc'.last, oc'.job, oc'.kid, oc'.sick)
    /\ oc'.job \in {"start", "turn"} <=> oc'.turn # 0
    /\ oc'.turn # 0 => oc'.open
    /\ Moves(oc.turn, oc.last, oEnds, oc'.turn, oc'.last, oEnds', MaxOTurns)
    /\ oEnds' = oEnds \/ oc.job = "turn"

\* What a step of the driver does to its record and to the turns.
LEMMA OpenCodeMoves == OpenCodeInv /\ [ONext]_ocVars => OpenCodeGoal
<1> SUFFICES ASSUME OpenCodeInv, [ONext]_ocVars PROVE OpenCodeGoal
  OBVIOUS
<1>0. oc.last \in Nat
  BY OpenCodeAssumption DEF OpenCodeInv, Serial
\* the driver falls idle without a terminal event
<1>i. ASSUME NEW o, NEW s, oc' = OC(o, 0, oc.last, "idle", 0, s), oEnds' = oEnds
      PROVE  OpenCodeGoal
  BY <1>i DEF OpenCodeGoal, OC, Moves, Drops
\* the driver begins, goes on with or refuses a job that is not a turn
<1>j. ASSUME NEW o, NEW j, NEW k, NEW s, j \notin {"start", "turn"}, oc.turn = 0,
             oc' = OC(o, 0, oc.last, j, k, s), oEnds' = oEnds
      PROVE  OpenCodeGoal
  BY <1>j DEF OpenCodeGoal, OC, Moves, Stays
\* a terminal event for the current turn
<1>t. ASSUME NEW o, NEW s, oc.job = "turn", oc' = OC(o, 0, oc.last, "idle", 0, s),
             oEnds' = [oEnds EXCEPT ![oc.turn] = @ + 1]
      PROVE  OpenCodeGoal
  BY <1>t DEF OpenCodeInv, OpenCodeGoal, OC, Moves, Finishes
<1>u. ASSUME oc' = oc, oEnds' = oEnds PROVE OpenCodeGoal
  BY <1>u DEF OpenCodeInv, OpenCodeGoal, Moves, Stays
<1>1. CASE OpenOC
  <2>1. oc.turn = 0 /\ oc.job \notin {"start", "turn"} /\ oEnds' = oEnds
    BY <1>1 DEF OpenOC, OpenCodeInv
  <2>2. \/ oc' = OC(TRUE, 0, oc.last, "lookup", NextKid, FALSE)
        \/ oc' = OC(TRUE, 0, oc.last, oc.job, oc.kid, TRUE)
    BY <1>1, <2>1, Zenon DEF OpenOC, OpenCodeInv, OC
  <2>3. "lookup" \notin {"start", "turn"}
    OBVIOUS
  <2>4. CASE oc' = OC(TRUE, 0, oc.last, "lookup", NextKid, FALSE)
    BY <2>1, <2>3, <2>4, <1>j, Zenon
  <2>5. CASE oc' = OC(TRUE, 0, oc.last, oc.job, oc.kid, TRUE)
    BY <2>1, <2>5, <1>j, Zenon
  <2>6. QED BY <2>2, <2>4, <2>5, Zenon
<1>2. CASE StartOC
  <2>1. oc.turn = 0 /\ oc.job = "idle" /\ oc.last < MaxOTurns /\ oEnds' = oEnds /\ oc.open
    BY <1>2 DEF StartOC, OpenCodeInv
  <2>2. \/ oc' = OC(oc.open, oc.last + 1, oc.last + 1, "start", NextKid, oc.sick)
        \/ oc' = OC(oc.open, 0, oc.last, "idle", oc.kid, TRUE)
    <3>1. \/ oc' = [oc EXCEPT !.turn = oc.last + 1, !.last = @ + 1, !.job = "start",
                              !.kid = NextKid]
          \/ oc' = [oc EXCEPT !.sick = TRUE]
      BY <1>2 DEF StartOC
    <3>2. CASE oc' = [oc EXCEPT !.turn = oc.last + 1, !.last = @ + 1, !.job = "start",
                                !.kid = NextKid]
      BY <3>2, Zenon DEF OpenCodeInv, OC
    <3>3. CASE oc' = [oc EXCEPT !.sick = TRUE]
      BY <2>1, <3>3, Zenon DEF OpenCodeInv, OC
    <3>4. QED BY <3>1, <3>2, <3>3, Zenon
  <2>3. CASE oc' = OC(oc.open, oc.last + 1, oc.last + 1, "start", NextKid, oc.sick)
    BY <1>0, <2>1, <2>3 DEF OpenCodeGoal, OC, Moves, Begins
  <2>4. QED BY <2>1, <2>2, <2>3, <1>j, Zenon
<1>3. CASE CompactOC
  <2>1. oc.turn = 0 /\ oEnds' = oEnds
    BY <1>3 DEF CompactOC, OpenCodeInv
  <2>2. \/ oc' = OC(oc.open, 0, oc.last, "compact", NextKid, oc.sick)
        \/ oc' = oc
    BY <1>3, <2>1, Zenon DEF CompactOC, OpenCodeInv, OC
  <2>3. QED BY <2>1, <2>2, <1>j, <1>u
<1>4. CASE TurnAccepted
  <2>1. oc.turn # 0 /\ oEnds' = oEnds /\ oc.open
        /\ oc' = OC(oc.open, oc.turn, oc.last, "turn", oc.kid, oc.sick)
    BY <1>4 DEF TurnAccepted, OpenCodeInv, OC
  <2>2. QED BY <2>1 DEF OpenCodeGoal, OC, Moves, Stays
<1>5. CASE FinishOC
  <2>1. oc' = OC(oc.open, 0, oc.last, "idle", 0, oc.sick \/ oc.job = "start")
    BY <1>5, Zenon DEF FinishOC, Idle, OpenCodeInv, OC
  <2>2. \/ oc.job = "turn" /\ oEnds' = [oEnds EXCEPT ![oc.turn] = @ + 1]
        \/ oEnds' = oEnds
    BY <1>5 DEF FinishOC, Accepted
  <2>3. QED BY <2>1, <2>2, <1>i, <1>t
<1>6. CASE JobEnds
  <2>1. oc' = OC(oc.open, 0, oc.last, "idle", 0, oc.sick) /\ oEnds' = oEnds
    BY <1>6, Zenon DEF JobEnds, Idle, OpenCodeInv, OC
  <2>2. QED BY <2>1, <1>i
<1>7. CASE OpenCodeStartCancelled
  <2>1. oc' = OC(oc.open, 0, oc.last, "idle", 0, TRUE) /\ oEnds' = oEnds
    BY <1>7, Zenon DEF OpenCodeStartCancelled, Idle, OpenCodeInv, OC
  <2>2. QED BY <2>1, <1>i, Zenon
<1>8. CASE CloseOC
  <2>1. oc' = OC(FALSE, 0, oc.last, "idle", 0, FALSE)
    BY <1>8, Zenon DEF CloseOC, Idle, OpenCodeInv, OC
  <2>2. \/ oc.job = "turn" /\ oEnds' = [oEnds EXCEPT ![oc.turn] = @ + 1]
        \/ oEnds' = oEnds
    BY <1>8 DEF CloseOC
  <2>3. QED BY <2>1, <2>2, <1>i, <1>t, Zenon
<1>9. ASSUME NEW i \in Kids, SpawnFails(i) PROVE OpenCodeGoal
  <2>1. /\ \/ oc' = oc
           \/ oc' = OC(oc.open, 0, oc.last, "idle", 0, oc.sick \/ oc.job = "start")
        /\ oEnds' = oEnds
    BY <1>9, Zenon DEF SpawnFails, JobFails, Idle, OpenCodeInv, OC
  <2>2. QED BY <2>1, <1>i, <1>u
<1>10. ASSUME NEW i \in Kids, SpawnArrives(i) \/ KidExits(i) PROVE OpenCodeGoal
  BY <1>10, <1>u DEF SpawnArrives, KidExits
<1>11. CASE UNCHANGED ocVars
  BY <1>11, <1>u, Zenon DEF ocVars
<1>12. QED
  BY <1>1, <1>2, <1>3, <1>4, <1>5, <1>6, <1>7, <1>8, <1>9, <1>10, <1>11, Zenon DEF ONext

\* The invariant is inductive.
LEMMA OpenCodeInvariant == OSpec => []OpenCodeInv
<1>1. OInit => OpenCodeInv
  BY NothingIssued, OpenCodeAssumption DEF OInit, OTurns, OpenCodeInv, OC
<1>2. OpenCodeInv /\ [ONext]_ocVars => OpenCodeInv'
  <2> SUFFICES ASSUME OpenCodeInv, [ONext]_ocVars PROVE OpenCodeInv'
    OBVIOUS
  <2>1. OpenCodeGoal
    BY OpenCodeMoves
  <2>2. Serial(oc'.turn, oc'.last, oEnds', MaxOTurns)
    BY <2>1, MoveKeepsSerial, OpenCodeAssumption DEF OpenCodeInv, OpenCodeGoal
  <2>3. QED BY <2>1, <2>2 DEF OpenCodeInv, OpenCodeGoal, OC
<1>3. QED BY <1>1, <1>2, PTL DEF OSpec

\* OpenCode keeps the contract, and a start that raised has no terminal event
\* (opencode.py, _finish_turn and _abort_failed_start).
THEOREM OpenCodeImplementsContract == OSpec => OpenCodeKeepsContract
<1>1. OInit => OContract!DInit
  BY DEF OInit, OContract!DInit
<1>2. OpenCodeInv /\ [ONext]_ocVars => [OContract!DNext]_(OContract!dvars)
  BY OpenCodeMoves, MoveIsContractStep, OpenCodeAssumption
  DEF OpenCodeInv, OpenCodeGoal, OContract!DNext, OContract!DBegin, OContract!DFinish,
      OContract!DDrop, OContract!dvars, OTurns
<1>3. OpenCodeInv /\ [ONext]_ocVars =>
          [\A t \in OTurns : oEnds'[t] > oEnds[t] => oc.job = "turn"]_ocVars
  <2> SUFFICES ASSUME OpenCodeInv, [ONext]_ocVars, NEW t \in OTurns, oEnds'[t] > oEnds[t]
               PROVE  oc.job = "turn"
    OBVIOUS
  <2>1. oEnds' = oEnds \/ oc.job = "turn"
    BY OpenCodeMoves DEF OpenCodeGoal
  <2>2. oEnds[t] \in {0, 1}
    BY DEF OpenCodeInv, Serial, OTurns
  <2>3. QED BY <2>1, <2>2
<1>4. QED
  BY <1>1, <1>2, <1>3, OpenCodeInvariant, PTL DEF OSpec, OpenCodeKeepsContract, OContract!DSpec

-----------------------------------------------------------------------------
\* Pi: a run the daemon did not start is adopted only when no turn is current.

Pi(turn, last, ok, acc) == [turn |-> turn, last |-> last, ok |-> ok, acc |-> acc]

PiInv ==
    /\ pi = Pi(pi.turn, pi.last, pi.ok, pi.acc)
    /\ Serial(pi.turn, pi.last, pEnds, MaxPTurns)

PiGoal ==
    /\ pi' = Pi(pi'.turn, pi'.last, pi'.ok, pi'.acc)
    /\ Moves(pi.turn, pi.last, pEnds, pi'.turn, pi'.last, pEnds', MaxPTurns)

\* What a step does to the record and to the turns.
LEMMA PiMoves == PiInv /\ [PNext]_pVars => PiGoal
<1> SUFFICES ASSUME PiInv, [PNext]_pVars PROVE PiGoal
  OBVIOUS
<1>0. pi.last \in Nat
  BY PiAssumption DEF PiInv, Serial
<1>b. ASSUME pi.turn = 0, pi.last < MaxPTurns, pEnds' = pEnds,
             pi' = [pi EXCEPT !.turn = pi.last + 1, !.last = @ + 1, !.acc = Fresh0]
      PROVE  PiGoal
  <2>1. pi' = Pi(pi.last + 1, pi.last + 1, pi.ok, Fresh0)
    BY <1>b, Zenon DEF PiInv, Pi
  <2>2. QED BY <1>b, <2>1, Zenon DEF PiGoal, Pi, Moves, Begins
<1>s. ASSUME NEW ok, NEW acc, pi' = Pi(pi.turn, pi.last, ok, acc), pEnds' = pEnds PROVE PiGoal
  BY <1>s DEF PiGoal, Pi, Moves, Stays
<1>d. ASSUME NEW ok, pi' = Pi(0, pi.last, ok, Fresh0), pEnds' = pEnds PROVE PiGoal
  BY <1>d DEF PiGoal, Pi, Moves, Drops
<1>u. ASSUME pi' = pi, pEnds' = pEnds PROVE PiGoal
  BY <1>u DEF PiInv, PiGoal, Moves, Stays
<1>1. CASE StartPrompt
  <2>1. pi.last < MaxPTurns
    BY <1>1, <1>0, PiAssumption DEF StartPrompt
  <2>2. QED BY <1>1, <2>1, <1>b DEF StartPrompt
<1>2. CASE CancelTurn
  <2>1. pi' = Pi(pi.turn, pi.last, pi.ok, [pi.acc EXCEPT !.outcome = "cancelled"])
        /\ pEnds' = pEnds
    BY <1>2 DEF CancelTurn, PiInv, Pi
  <2>2. QED BY <2>1, <1>s
<1>3. CASE CallResumes
  <2>1. /\ pEnds' = pEnds
        /\ pi' = pi \/ pi' = [pi EXCEPT !.turn = 0, !.acc = Fresh0, !.ok = FALSE]
    BY <1>3 DEF CallResumes
  <2>2. CASE pi' = [pi EXCEPT !.turn = 0, !.acc = Fresh0, !.ok = FALSE]
    <3>1. pi' = Pi(0, pi.last, FALSE, Fresh0)
      BY <2>2, Zenon DEF PiInv, Pi
    <3>2. QED BY <2>1, <3>1, <1>d, Zenon
  <2>3. QED BY <2>1, <2>2, <1>u
<1>4. CASE ClosePi
  <2>1. pi' = Pi(0, pi.last, pi.ok, Fresh0) /\ pEnds' = pEnds
    BY <1>4, Zenon DEF ClosePi, PiInv, Pi
  <2>2. QED BY <2>1, <1>d
<1>5. CASE OpenPi \/ ReadPiEnds
  <2>1. \E ok : pi' = Pi(pi.turn, pi.last, ok, pi.acc)
    BY <1>5 DEF OpenPi, ReadPiEnds, PiInv, Pi
  <2>2. pEnds' = pEnds
    BY <1>5 DEF OpenPi, ReadPiEnds
  <2>3. QED BY <2>1, <2>2, <1>s
<1>6. CASE ReadPi
  <2>1. ASSUME NEW f, OnResponse(f) \/ OnDialog \/ UNCHANGED <<pi, pCall, pEnds, pTold, agent>>
        PROVE  PiGoal
    BY <2>1, <1>u DEF OnResponse, OnDialog
  <2>2. CASE OnStart
    BY <2>2, <1>b, <1>u DEF OnStart
  <2>3. CASE OnError \/ OnRetried \/ OnGaveUp
    <3>1. \E acc : pi' = Pi(pi.turn, pi.last, pi.ok, acc)
      <4>1. CASE OnError
        <5>1. pi' = Pi(pi.turn, pi.last, pi.ok, [pi.acc EXCEPT !.failure = TRUE])
          BY <4>1, Zenon DEF OnError, PiInv, Pi
        <5>2. QED BY <5>1
      <4>2. CASE OnRetried
        <5>1. pi' = Pi(pi.turn, pi.last, pi.ok, Forgiven(pi.acc))
          BY <4>2 DEF OnRetried, PiInv, Pi
        <5>2. QED BY <5>1
      <4>3. CASE OnGaveUp
        <5>1. pi' = Pi(pi.turn, pi.last, pi.ok,
                       [pi.acc EXCEPT !.outcome = "failed", !.error = TRUE])
          BY <4>3 DEF OnGaveUp, PiInv, Pi
        <5>2. QED BY <5>1
      <4>4. QED BY <2>3, <4>1, <4>2, <4>3
    <3>2. pEnds' = pEnds
      BY <2>3 DEF OnError, OnRetried, OnGaveUp
    <3>3. QED BY <3>1, <3>2, <1>s
  <2>4. CASE OnSettled /\ pi.turn # 0
    <3>1. pi' = Pi(0, pi.last, pi.ok, Fresh0)
      BY <2>4, Zenon DEF OnSettled, Released, PiInv, Pi
    <3>2. pEnds' = [pEnds EXCEPT ![pi.turn] = @ + 1]
      BY <2>4 DEF OnSettled
    <3>3. QED BY <2>4, <3>1, <3>2 DEF PiGoal, Pi, Moves, Finishes
  <2>5. CASE OnSettled /\ pi.turn = 0
    BY <2>5, <1>u DEF OnSettled
  <2>6. QED
    BY <1>6, <2>1, <2>2, <2>3, <2>4, <2>5 DEF ReadPi
<1>7. CASE SteerPi \/ CallTimeout
  BY <1>7, <1>u, Zenon DEF SteerPi, CallTimeout
<1>8. CASE \/ AgentPrompted \/ AgentObeys \/ AgentWakes \/ AgentErrs \/ AgentRetries
           \/ AgentAsks \/ AgentEnds \/ AgentSettles \/ AgentDies
  BY <1>8, <1>u DEF AgentPrompted, AgentObeys, AgentWakes, AgentErrs, AgentRetries, AgentAsks,
     AgentEnds, AgentSettles, AgentDies
<1>9. CASE UNCHANGED pVars
  BY <1>9, <1>u DEF pVars
<1>10. QED
  BY <1>1, <1>2, <1>3, <1>4, <1>5, <1>6, <1>7, <1>8, <1>9, Zenon DEF PNext

\* The invariant is inductive.
LEMMA PiInvariant == PSpec => []PiInv
<1>1. PInit => PiInv
  <2>1. PInit => pi = Pi(0, 0, TRUE, Fresh0) /\ pEnds = [t \in PTurns |-> 0]
    BY Zenon DEF PInit, Pi
  <2>2. QED BY <2>1, NothingIssued, PiAssumption DEF PTurns, PiInv, Pi
<1>2. PiInv /\ [PNext]_pVars => PiInv'
  <2> SUFFICES ASSUME PiInv, [PNext]_pVars PROVE PiInv'
    OBVIOUS
  <2>1. PiGoal
    BY PiMoves
  <2>2. Serial(pi'.turn, pi'.last, pEnds', MaxPTurns)
    BY <2>1, MoveKeepsSerial, PiAssumption, Zenon DEF PiInv, PiGoal
  <2>3. QED BY <2>1, <2>2, Zenon DEF PiInv, PiGoal, Pi
<1>3. QED BY <1>1, <1>2, PTL DEF PSpec

\* One terminal event per settled run, and cancelling a turn emits none ("Emitting
\* one here would produce two terminals", pi.py, cancel_turn).
THEOREM PiImplementsContract == PSpec => PiKeepsContract
<1>1. PInit => PContract!DInit
  <2>1. PInit => pi = Pi(0, 0, TRUE, Fresh0) /\ pEnds = [t \in PTurns |-> 0]
    BY Zenon DEF PInit, Pi
  <2>2. QED BY <2>1 DEF Pi, PContract!DInit
<1>2. PiInv /\ [PNext]_pVars => [PContract!DNext]_(PContract!dvars)
  BY PiMoves, MoveIsContractStep, PiAssumption
  DEF PiInv, PiGoal, PContract!DNext, PContract!DBegin, PContract!DFinish,
      PContract!DDrop, PContract!dvars, PTurns
<1>3. QED
  BY <1>1, <1>2, PiInvariant, PTL DEF PSpec, PiKeepsContract, PContract!DSpec

-----------------------------------------------------------------------------
\* Codex: the turn is current from before turn/start is written.

CX(turn, native, base, used, perms, last, ok, compacting) ==
    [turn |-> turn, native |-> native, base |-> base, used |-> used, perms |-> perms,
     last |-> last, ok |-> ok, compacting |-> compacting]

CodexInv ==
    /\ cx = CX(cx.turn, cx.native, cx.base, cx.used, cx.perms, cx.last, cx.ok, cx.compacting)
    /\ Serial(cx.turn, cx.last, xEnds, MaxXTurns)

CodexGoal ==
    /\ cx' = CX(cx'.turn, cx'.native, cx'.base, cx'.used, cx'.perms, cx'.last, cx'.ok,
                cx'.compacting)
    /\ Moves(cx.turn, cx.last, xEnds, cx'.turn, cx'.last, xEnds', MaxXTurns)

\* What a step does to the record and to the turns.
LEMMA CodexMoves == CodexInv /\ [XNext]_xVars => CodexGoal
<1> SUFFICES ASSUME CodexInv, [XNext]_xVars PROVE CodexGoal
  OBVIOUS
<1>0. cx.last \in Nat
  BY CodexAssumption DEF CodexInv, Serial
<1>s. ASSUME NEW n, NEW b, NEW u, NEW p, NEW ok, NEW c,
             cx' = CX(cx.turn, n, b, u, p, cx.last, ok, c), xEnds' = xEnds
      PROVE  CodexGoal
  BY <1>s, Zenon DEF CodexGoal, CX, Moves, Stays
<1>d. ASSUME NEW n, NEW b, NEW u, NEW p, NEW ok, NEW c,
             cx' = CX(0, n, b, u, p, cx.last, ok, c), xEnds' = xEnds
      PROVE  CodexGoal
  BY <1>d, Zenon DEF CodexGoal, CX, Moves, Drops
<1>u. ASSUME cx' = cx, xEnds' = xEnds PROVE CodexGoal
  BY <1>u, Zenon DEF CodexInv, CodexGoal, Moves, Stays
<1>1. CASE StartCall
  <2>1. /\ cx.turn = 0 /\ cx.last < MaxXTurns /\ xEnds' = xEnds
        /\ cx' = [ResetUsage(cx) EXCEPT !.turn = cx.last + 1, !.last = @ + 1]
    BY <1>1 DEF StartCall, ResetAtStart
  <2>2. cx' = CX(cx.last + 1, cx.native, NoBase, 0, cx.perms, cx.last + 1, cx.ok, cx.compacting)
    BY <2>1, Zenon DEF ResetUsage, CodexInv, CX
  <2>3. cx'.turn = cx.last + 1 /\ cx'.last = cx.last + 1
    BY <2>2 DEF CX
  <2>4. Begins(cx.turn, cx.last, xEnds, cx'.turn, cx'.last, xEnds', MaxXTurns)
    BY <1>0, <2>1, <2>3 DEF Begins
  <2>5. QED BY <2>2, <2>3, <2>4 DEF CodexGoal, CX, Moves
<1>2. CASE OtherCall
  <2>1. (cx' = cx \/ cx' = [cx EXCEPT !.compacting = TRUE]) /\ xEnds' = xEnds
    BY <1>2 DEF OtherCall
  <2>2. CASE cx' = [cx EXCEPT !.compacting = TRUE]
    <3>1. cx' = CX(cx.turn, cx.native, cx.base, cx.used, cx.perms, cx.last, cx.ok, TRUE)
      BY <2>2, Zenon DEF CodexInv, CX
    <3>2. QED BY <2>1, <3>1, <1>s, Zenon
  <2>3. QED BY <2>1, <2>2, <1>u
<1>3. CASE StartReturns
  <2>1. /\ \/ cx' = [cx EXCEPT !.native = cx.last]
           \/ cx' = [ResetUsage(cx) EXCEPT !.turn = 0, !.ok = FALSE]
        /\ xEnds' = xEnds
    BY <1>3 DEF StartReturns
  <2>2. CASE cx' = [cx EXCEPT !.native = cx.last]
    <3>1. cx' = CX(cx.turn, cx.last, cx.base, cx.used, cx.perms, cx.last, cx.ok, cx.compacting)
      BY <2>2 DEF CodexInv, CX
    <3>2. QED BY <2>1, <3>1, <1>s
  <2>3. CASE cx' = [ResetUsage(cx) EXCEPT !.turn = 0, !.ok = FALSE]
    <3>1. cx' = CX(0, cx.native, NoBase, 0, cx.perms, cx.last, FALSE, cx.compacting)
      BY <2>3, Zenon DEF ResetUsage, CodexInv, CX
    <3>2. QED BY <2>1, <3>1, <1>d, Zenon
  <2>4. QED BY <2>1, <2>2, <2>3
<1>4. CASE OtherReturns
  <2>1. (cx' = cx \/ cx' = [cx EXCEPT !.compacting = FALSE]) /\ xEnds' = xEnds
    BY <1>4 DEF OtherReturns
  <2>2. CASE cx' = [cx EXCEPT !.compacting = FALSE]
    <3>1. cx' = CX(cx.turn, cx.native, cx.base, cx.used, cx.perms, cx.last, cx.ok, FALSE)
      BY <2>2, Zenon DEF CodexInv, CX
    <3>2. QED BY <2>1, <3>1, <1>s, Zenon
  <2>3. QED BY <2>1, <2>2, <1>u
<1>5. CASE ResolvePermission
  <2>1. PICK p \in cx.perms : cx' = [cx EXCEPT !.perms = @ \ {p}]
    BY <1>5 DEF ResolvePermission
  <2>2. cx' = CX(cx.turn, cx.native, cx.base, cx.used, cx.perms \ {p}, cx.last, cx.ok,
                 cx.compacting)
    BY <2>1 DEF CodexInv, CX
  <2>3. xEnds' = xEnds
    BY <1>5 DEF ResolvePermission
  <2>4. QED BY <2>2, <2>3, <1>s
<1>6. CASE CloseCodex
  <2>1. /\ cx' = [ResetUsage(cx) EXCEPT !.turn = 0, !.native = 0, !.perms = {},
                                        !.compacting = FALSE]
        /\ xEnds' = xEnds
    BY <1>6 DEF CloseCodex
  <2>2. cx' = CX(0, 0, NoBase, 0, {}, cx.last, cx.ok, FALSE)
    BY <2>1, Zenon DEF ResetUsage, CodexInv, CX
  <2>3. QED BY <2>1, <2>2, <1>d, Zenon
<1>7. CASE OpenCodex \/ ReadEnds
  <2>1. (cx' = [cx EXCEPT !.ok = TRUE] \/ cx' = [cx EXCEPT !.ok = FALSE]) /\ xEnds' = xEnds
    BY <1>7 DEF OpenCodex, ReadEnds
  <2>2. \E ok : cx' = CX(cx.turn, cx.native, cx.base, cx.used, cx.perms, cx.last, ok,
                         cx.compacting)
    BY <2>1 DEF CodexInv, CX
  <2>3. QED BY <2>1, <2>2, <1>s
<1>8. CASE ReadWire
  <2> DEFINE f == Head(wire)
  <2>1. CASE HandleResponse(f)
    BY <2>1, <1>u DEF HandleResponse
  <2>2. CASE HandlePermission(f)
    <3>1. cx' = [cx EXCEPT !.perms = @ \cup {<<f.n, cx.turn>>}] /\ xEnds' = xEnds
      BY <2>2 DEF HandlePermission
    <3>2. \E p : cx' = CX(cx.turn, cx.native, cx.base, cx.used, p, cx.last, cx.ok, cx.compacting)
      BY <3>1, Zenon DEF CodexInv, CX
    <3>3. QED BY <3>1, <3>2, <1>s
  <2>3. CASE HandleUsage(f)
    <3>1. PICK b, n : cx' = [cx EXCEPT !.base = b, !.used = n]
      BY <2>3, Zenon DEF HandleUsage
    <3>2. cx' = CX(cx.turn, cx.native, b, n, cx.perms, cx.last, cx.ok, cx.compacting)
      BY <3>1, Zenon DEF CodexInv, CX
    <3>3. xEnds' = xEnds
      BY <2>3 DEF HandleUsage
    <3>4. QED BY <3>2, <3>3, <1>s
  <2>4. CASE HandleCompacted
    <3>1. cx' = [cx EXCEPT !.compacting = FALSE] /\ xEnds' = xEnds
      BY <2>4 DEF HandleCompacted
    <3>2. cx' = CX(cx.turn, cx.native, cx.base, cx.used, cx.perms, cx.last, cx.ok, FALSE)
      BY <3>1, Zenon DEF CodexInv, CX
    <3>3. QED BY <3>1, <3>2, <1>s, Zenon
  <2>5. CASE HandleCompleted(f)
    <3>1. cx' = ResetUsage([cx EXCEPT !.turn = 0, !.native = 0, !.perms = {}])
      BY <2>5 DEF HandleCompleted, TurnOver
    <3>2. cx' = CX(0, 0, NoBase, 0, {}, cx.last, cx.ok, cx.compacting)
      BY <3>1, Zenon DEF ResetUsage, CodexInv, CX
    <3>3. CASE cx.turn = 0
      <4>1. xEnds' = xEnds
        BY <2>5, <3>3 DEF HandleCompleted
      <4>2. QED BY <3>2, <4>1, <1>d
    <3>4. CASE cx.turn # 0
      <4>1. xEnds' = [xEnds EXCEPT ![cx.turn] = @ + 1]
        BY <2>5, <3>4 DEF HandleCompleted, EndEvent
      <4>2. QED BY <3>2, <3>4, <4>1 DEF CodexGoal, CX, Moves, Finishes
    <3>5. QED BY <3>3, <3>4
  <2>6. QED
    BY <1>8, <2>1, <2>2, <2>3, <2>4, <2>5 DEF ReadWire
<1>9. CASE \/ CallTimesOut \/ SrvAnswers \/ SrvSpends \/ SrvCompacts \/ SrvAsks \/ SrvCompletes
           \/ SrvDies
  BY <1>9, <1>u, Zenon DEF CallTimesOut, SrvAnswers, SrvSpends, SrvCompacts, SrvAsks, SrvCompletes,
     SrvDies
<1>10. CASE UNCHANGED xVars
  BY <1>10, <1>u DEF xVars
<1>11. QED
  BY <1>1, <1>2, <1>3, <1>4, <1>5, <1>6, <1>7, <1>8, <1>9, <1>10, Zenon DEF XNext, CallStep

\* The invariant is inductive.
LEMMA CodexInvariant == XSpec => []CodexInv
<1>1. XInit => CodexInv
  <2>1. XInit => cx = CX(0, 0, NoBase, 0, {}, 0, TRUE, FALSE) /\ xEnds = [t \in XTurns |-> 0]
    BY Zenon DEF XInit, CX
  <2>2. QED BY <2>1, NothingIssued, CodexAssumption DEF XTurns, CodexInv, CX
<1>2. CodexInv /\ [XNext]_xVars => CodexInv'
  <2> SUFFICES ASSUME CodexInv, [XNext]_xVars PROVE CodexInv'
    OBVIOUS
  <2>1. CodexGoal
    BY CodexMoves
  <2>2. Serial(cx'.turn, cx'.last, xEnds', MaxXTurns)
    BY <2>1, MoveKeepsSerial, CodexAssumption, Zenon DEF CodexInv, CodexGoal
  <2>3. QED BY <2>1, <2>2, Zenon DEF CodexInv, CodexGoal, CX
<1>3. QED BY <1>1, <1>2, PTL DEF XSpec

\* A turn that completes before start_turn has resumed from its response, after it
\* was interrupted or after the process went away ends at most once (codex.py,
\* _complete_turn, start_turn, close).
THEOREM CodexImplementsContract == XSpec => CodexKeepsContract
<1>1. XInit => XContract!DInit
  <2>1. XInit => cx = CX(0, 0, NoBase, 0, {}, 0, TRUE, FALSE) /\ xEnds = [t \in XTurns |-> 0]
    BY Zenon DEF XInit, CX
  <2>2. QED BY <2>1 DEF CX, XContract!DInit
<1>2. CodexInv /\ [XNext]_xVars => [XContract!DNext]_(XContract!dvars)
  BY CodexMoves, MoveIsContractStep, CodexAssumption
  DEF CodexInv, CodexGoal, XContract!DNext, XContract!DBegin, XContract!DFinish,
      XContract!DDrop, XContract!dvars, XTurns
<1>3. QED
  BY <1>1, <1>2, CodexInvariant, PTL DEF XSpec, CodexKeepsContract, XContract!DSpec

-----------------------------------------------------------------------------
\* Claude Code: the driver's methods on the triple of what they change.

CL(turn, auto, owned, ended, gated, waiting, shown, past, v1, last, reusable) ==
    [turn |-> turn, auto |-> auto, owned |-> owned, ended |-> ended, gated |-> gated,
     waiting |-> waiting, shown |-> shown, past |-> past, v1 |-> v1, last |-> last,
     reusable |-> reusable]

FieldsOf(d) ==
    d = CL(d.turn, d.auto, d.owned, d.ended, d.gated, d.waiting, d.shown, d.past, d.v1, d.last,
           d.reusable)

Steering(c, ack) == [c |-> c, ack |-> ack]
Triple(d, st, e) == [d |-> d, st |-> st, e |-> e]

Shaped(s) ==
    s = Triple(s.d, s.st, s.e) /\ FieldsOf(s.d) /\ s.st = Steering(s.st.c, s.st.ack)

\* The method leaves the turns alone, or emits the current turn's terminal event.
Keeps(s, r) == Shaped(r) /\ r.d.turn = s.d.turn /\ r.d.last = s.d.last /\ r.e = s.e
Ends(s, r) ==
    /\ Shaped(r) /\ s.d.turn # 0 /\ r.d.turn = 0 /\ r.d.last = s.d.last
    /\ r.e = [s.e EXCEPT ![s.d.turn] = @ + 1]

\* A triple put together from shaped parts.
LEMMA ShapedParts ==
    ASSUME NEW r, NEW d, NEW st, NEW e, FieldsOf(d), st = Steering(st.c, st.ack),
           r = Triple(d, st, e)
    PROVE  Shaped(r) /\ r.d = d /\ r.st = st /\ r.e = e
<1>1. r.d = d /\ r.st = st /\ r.e = e
  BY DEF Triple
<1>2. QED BY <1>1 DEF Shaped

\* _settle_gated_ack
LEMMA SettleAckKeeps ==
    ASSUME NEW s, Shaped(s), NEW o, NEW r, r = SettleAck(s, o) PROVE Keeps(s, r)
<1>1. CASE s.d.waiting
  <2>1. PICK d, st : d = [s.d EXCEPT !.waiting = FALSE] /\ st = [s.st EXCEPT !.ack = o]
    BY Zenon
  <2>2. d = CL(s.d.turn, s.d.auto, s.d.owned, s.d.ended, s.d.gated, FALSE, s.d.shown,
               s.d.past, s.d.v1, s.d.last, s.d.reusable)
    BY <2>1, Zenon DEF Shaped, FieldsOf, CL
  <2>3. FieldsOf(d) /\ d.turn = s.d.turn /\ d.last = s.d.last
    BY <2>2 DEF FieldsOf, CL
  <2>4. st = Steering(st.c, st.ack)
    BY <2>1 DEF Shaped, Steering
  <2>5. r = Triple(d, st, s.e)
    BY <1>1, <2>1, Zenon DEF SettleAck, Shaped, Triple
  <2>6. QED BY <2>3, <2>4, <2>5, ShapedParts DEF Keeps
<1>2. CASE ~s.d.waiting
  BY <1>2, Zenon DEF SettleAck, Keeps
<1>3. QED BY <1>1, <1>2, Zenon

\* _reset_turn_tracking
LEMMA ResetTrackingKeeps ==
    ASSUME NEW s, Shaped(s), NEW p, NEW r, r = ResetTracking(s, p) PROVE Keeps(s, r)
<1>1. PICK a : a = SettleAck(s, "rejected")
  OBVIOUS
<1>2. Keeps(s, a)
  BY <1>1, SettleAckKeeps
<1>3. PICK d : d = [a.d EXCEPT !.shown = {}, !.gated = NoCmd, !.owned = p, !.ended = {}]
  OBVIOUS
<1>4. d = CL(a.d.turn, a.d.auto, p, {}, NoCmd, a.d.waiting, {}, a.d.past, a.d.v1, a.d.last,
             a.d.reusable)
  BY <1>2, <1>3, Zenon DEF Keeps, Shaped, FieldsOf, CL
<1>5. FieldsOf(d) /\ d.turn = a.d.turn /\ d.last = a.d.last
  BY <1>4 DEF FieldsOf, CL
<1>6. r = Triple(d, a.st, a.e)
  BY <1>1, <1>2, <1>3, Zenon DEF ResetTracking, Keeps, Shaped, Triple
<1>7. QED BY <1>2, <1>5, <1>6, ShapedParts DEF Keeps, Shaped

\* _drop_unacknowledged_gated_command
LEMMA DropGatedKeeps ==
    ASSUME NEW s, Shaped(s), NEW c, NEW r, r = DropGated(s, c) PROVE Keeps(s, r)
<1>1. PICK a : a = SettleAck(s, "rejected")
  OBVIOUS
<1>2. Keeps(s, a)
  BY <1>1, SettleAckKeeps
<1>3. PICK d : d = [a.d EXCEPT !.owned = s.d.owned \ {c}, !.ended = s.d.ended \ {c},
                         !.gated = NoCmd]
  OBVIOUS
<1>4. d = CL(a.d.turn, a.d.auto, s.d.owned \ {c}, s.d.ended \ {c}, NoCmd, a.d.waiting,
             a.d.shown, a.d.past, a.d.v1, a.d.last, a.d.reusable)
  BY <1>2, <1>3, Zenon DEF Keeps, Shaped, FieldsOf, CL
<1>5. FieldsOf(d) /\ d.turn = a.d.turn /\ d.last = a.d.last
  BY <1>4 DEF FieldsOf, CL
<1>6. r = Triple(d, a.st, a.e)
  BY <1>1, <1>2, <1>3, Zenon DEF DropGated, Keeps, Shaped, Triple
<1>7. QED BY <1>2, <1>5, <1>6, ShapedParts DEF Keeps, Shaped

\* _finish_turn emits one terminal event, for the turn that was current.
LEMMA FinishTurnEnds ==
    ASSUME NEW s, Shaped(s), s.d.turn # 0, NEW r, r = FinishTurn(s) PROVE Ends(s, r)
<1>1. PICK a : a = ResetTracking(s, {})
  OBVIOUS
<1>2. Keeps(s, a)
  BY <1>1, ResetTrackingKeeps
<1>3. PICK d : d = [a.d EXCEPT !.turn = 0, !.auto = FALSE, !.past = s.d.past \cup s.d.shown]
  OBVIOUS
<1>4. d = CL(0, FALSE, a.d.owned, a.d.ended, a.d.gated, a.d.waiting, a.d.shown,
             s.d.past \cup s.d.shown, a.d.v1, a.d.last, a.d.reusable)
  BY <1>2, <1>3, Zenon DEF Keeps, Shaped, FieldsOf, CL
<1>5. FieldsOf(d) /\ d.turn = 0 /\ d.last = a.d.last
  BY <1>4 DEF FieldsOf, CL
<1>6. PICK e : e = [s.e EXCEPT ![s.d.turn] = @ + 1]
  BY Zenon
<1>7. r = Triple(d, a.st, e)
  BY <1>1, <1>2, <1>3, <1>6, Zenon DEF FinishTurn, Keeps, Shaped, Triple
<1>8. QED BY <1>2, <1>5, <1>6, <1>7, ShapedParts DEF Keeps, Ends, Shaped

\* _maybe_complete_lifecycle_turn
LEMMA MaybeCompleteMoves ==
    ASSUME NEW s, Shaped(s), NEW r, r = MaybeComplete(s) PROVE Keeps(s, r) \/ Ends(s, r)
<1>1. CASE AllCommandsDone(s)
  BY <1>1, FinishTurnEnds DEF MaybeComplete, AllCommandsDone
<1>2. CASE ~AllCommandsDone(s)
  BY <1>2, Zenon DEF MaybeComplete, Keeps
<1>3. QED BY <1>1, <1>2, Zenon

\* Methods compose.
LEMMA KeepsThen ==
    ASSUME NEW s, NEW a, NEW r, Keeps(s, a), Keeps(a, r) \/ Ends(a, r)
    PROVE  Keeps(s, r) \/ Ends(s, r)
BY DEF Keeps, Ends

ClaudeInv ==
    /\ FieldsOf(cd) /\ steer = Steering(steer.c, steer.ack)
    /\ Serial(cd.turn, cd.last, cdEnds, MaxCTurns)

ClaudeGoal ==
    /\ FieldsOf(cd') /\ steer' = Steering(steer'.c, steer'.ack)
    /\ Moves(cd.turn, cd.last, cdEnds, cd'.turn, cd'.last, cdEnds', MaxCTurns)

\* The same fields with the turns' two alone.
SameTurns(s, d) == FieldsOf(d) /\ d.turn = s.d.turn /\ d.last = s.d.last

\* A field the turns do not depend on is set.
LEMMA FieldSet ==
    ASSUME NEW s, Shaped(s), NEW x, NEW d,
           \/ d = [s.d EXCEPT !.v1 = x]
           \/ d = [s.d EXCEPT !.ended = x]
           \/ d = [s.d EXCEPT !.shown = x]
           \/ d = [s.d EXCEPT !.reusable = x]
    PROVE  SameTurns(s, d)
<1>1. CASE d = [s.d EXCEPT !.v1 = x]
  <2>1. d = CL(s.d.turn, s.d.auto, s.d.owned, s.d.ended, s.d.gated, s.d.waiting, s.d.shown,
               s.d.past, x, s.d.last, s.d.reusable)
    BY <1>1, Zenon DEF Shaped, FieldsOf, CL
  <2>2. QED BY <2>1, Zenon DEF SameTurns, FieldsOf, CL
<1>2. CASE d = [s.d EXCEPT !.ended = x]
  <2>1. d = CL(s.d.turn, s.d.auto, s.d.owned, x, s.d.gated, s.d.waiting, s.d.shown,
               s.d.past, s.d.v1, s.d.last, s.d.reusable)
    BY <1>2, Zenon DEF Shaped, FieldsOf, CL
  <2>2. QED BY <2>1 DEF SameTurns, FieldsOf, CL
<1>3. CASE d = [s.d EXCEPT !.shown = x]
  <2>1. d = CL(s.d.turn, s.d.auto, s.d.owned, s.d.ended, s.d.gated, s.d.waiting, x,
               s.d.past, s.d.v1, s.d.last, s.d.reusable)
    BY <1>3, Zenon DEF Shaped, FieldsOf, CL
  <2>2. QED BY <2>1, Zenon DEF SameTurns, FieldsOf, CL
<1>4. CASE d = [s.d EXCEPT !.reusable = x]
  <2>1. d = CL(s.d.turn, s.d.auto, s.d.owned, s.d.ended, s.d.gated, s.d.waiting, s.d.shown,
               s.d.past, s.d.v1, s.d.last, x)
    BY <1>4, Zenon DEF Shaped, FieldsOf, CL
  <2>2. QED BY <2>1, Zenon DEF SameTurns, FieldsOf, CL
<1>5. QED BY <1>1, <1>2, <1>3, <1>4, Zenon

\* Such a method, on the triple.
LEMMA TweakKeeps ==
    ASSUME NEW s, NEW d, SameTurns(s, d), NEW st, st = Steering(st.c, st.ack),
           NEW r, r = Triple(d, st, s.e)
    PROVE  Keeps(s, r)
BY ShapedParts, Zenon DEF Keeps, SameTurns

\* steer_turn up to its write
LEMMA OwnCommandKeeps ==
    ASSUME NEW s, Shaped(s), NEW c, NEW r, r = OwnCommand(s, c) PROVE Keeps(s, r)
<1>1. PICK d, st : /\ d = [s.d EXCEPT !.gated = c, !.waiting = TRUE, !.owned = s.d.owned \cup {c}]
                   /\ st = [c |-> c, ack |-> "none"]
  BY Zenon
<1>2. d = CL(s.d.turn, s.d.auto, s.d.owned \cup {c}, s.d.ended, c, TRUE, s.d.shown, s.d.past,
             s.d.v1, s.d.last, s.d.reusable)
  BY <1>1, Zenon DEF Shaped, FieldsOf, CL
<1>3. SameTurns(s, d)
  BY <1>2 DEF SameTurns, FieldsOf, CL
<1>4. st = Steering(st.c, st.ack)
  BY <1>1 DEF Steering
<1>5. r = Triple(d, st, s.e)
  BY <1>1, Zenon DEF OwnCommand, Shaped, Triple
<1>6. QED BY <1>3, <1>4, <1>5, TweakKeeps

\* the steer_turn call is over
LEMMA SteerOver ==
    ASSUME NEW s, Shaped(s), NEW r, r = [s EXCEPT !.st = NoSteer] PROVE Keeps(s, r)
<1>1. PICK st : st = NoSteer
  OBVIOUS
<1>2. st = Steering(st.c, st.ack)
  BY <1>1 DEF Steering, NoSteer
<1>3. r = Triple(s.d, st, s.e)
  BY <1>1 DEF Shaped, Triple
<1>4. QED BY <1>2, <1>3, TweakKeeps, Zenon DEF SameTurns, Shaped

\* A command reaches a terminal state.
LEMMA CommandDone ==
    ASSUME NEW s, Shaped(s), NEW c, NEW r,
           r = MaybeComplete([s EXCEPT !.d.ended = @ \cup {c}])
    PROVE  Keeps(s, r) \/ Ends(s, r)
<1>1. PICK a : a = [s EXCEPT !.d.ended = s.d.ended \cup {c}]
  OBVIOUS
<1>2. PICK d : d = [s.d EXCEPT !.ended = s.d.ended \cup {c}]
  BY Zenon
<1>3. SameTurns(s, d)
  BY <1>2, FieldSet, Zenon
<1>4. a = Triple(d, s.st, s.e)
  BY <1>1, <1>2 DEF Shaped, Triple
<1>5. Keeps(s, a)
  BY <1>3, <1>4, TweakKeeps, Zenon DEF Shaped
<1>6. r = MaybeComplete(a)
  BY <1>1, Zenon
<1>7. QED BY <1>5, <1>6, MaybeCompleteMoves, KeepsThen, Zenon DEF Keeps

\* A terminal record (_handle_command_lifecycle) keeps the turns or ends the current one.
LEMMA TerminalRecordMoves ==
    ASSUME NEW s, Shaped(s), NEW c, NEW r, r = TerminalRecord(s, c)
    PROVE  Keeps(s, r) \/ Ends(s, r)
<1>1. CASE c = s.d.gated /\ s.d.waiting
  <2>1. PICK a : a = DropGated(s, c)
    OBVIOUS
  <2>2. Keeps(s, a)
    BY <2>1, DropGatedKeeps
  <2>3. r = MaybeComplete(a)
    BY <1>1, <2>1 DEF TerminalRecord
  <2>4. QED BY <2>2, <2>3, MaybeCompleteMoves, KeepsThen, Zenon DEF Keeps
<1>2. CASE ~(c = s.d.gated /\ s.d.waiting)
  <2>1. r = MaybeComplete([s EXCEPT !.d.ended = @ \cup {c}])
    BY <1>2 DEF TerminalRecord
  <2>2. QED BY <2>1, CommandDone
<1>3. QED BY <1>1, <1>2, Zenon

\* A handler whose outcome keeps the turns or ends the current one meets the goal.
LEMMA BecomesGoal ==
    ASSUME NEW s, s.d = cd, s.e = cdEnds, NEW r, Keeps(s, r) \/ Ends(s, r), Becomes(r)
    PROVE  ClaudeGoal
<1>1. cd' = r.d /\ steer' = r.st /\ cdEnds' = r.e
  BY Zenon DEF Becomes
<1>2. FieldsOf(cd') /\ steer' = Steering(steer'.c, steer'.ack)
  BY <1>1, SMTT(30) DEF Keeps, Ends, Shaped
<1>3. CASE Keeps(s, r)
  BY <1>1, <1>2, <1>3, Zenon DEF Keeps, ClaudeGoal, Moves, Stays
<1>4. CASE Ends(s, r)
  BY <1>1, <1>2, <1>4, Zenon DEF Ends, ClaudeGoal, Moves, Finishes
<1>5. QED BY <1>3, <1>4, Zenon

\* What a step does to the driver's fields and to the turns.
LEMMA ClaudeMoves == ClaudeInv /\ [ClNext]_clVars => ClaudeGoal
<1> SUFFICES ASSUME ClaudeInv, [ClNext]_clVars PROVE ClaudeGoal
  OBVIOUS
<1>0. cd.last \in Nat
  BY ClaudeAssumption DEF ClaudeInv, Serial
<1>n. PICK s : s = Now
  OBVIOUS
<1>s. Shaped(s) /\ s.d = cd /\ s.st = steer /\ s.e = cdEnds
  <2>1. s = Triple(cd, steer, cdEnds)
    BY <1>n DEF Now, Triple
  <2>2. QED BY <2>1, ShapedParts DEF ClaudeInv
<1>m. ASSUME NEW r, Becomes(r), Keeps(s, r) \/ Ends(s, r) PROVE ClaudeGoal
  BY <1>m, <1>s, BecomesGoal, Zenon
<1>i. ASSUME Becomes(s) PROVE ClaudeGoal
  BY <1>i, <1>m, <1>s, Zenon DEF Keeps
<1>u. ASSUME cd' = cd, steer' = steer, cdEnds' = cdEnds PROVE ClaudeGoal
  BY <1>u, Zenon DEF ClaudeInv, ClaudeGoal, Moves, Stays
<1>1. CASE ClaudeStartTurn
  <2>1. PICK c : cd.turn = 0 /\ cd.last < MaxCTurns
                 /\ Becomes([ResetTracking(s, {c}) EXCEPT
                               !.d = [@ EXCEPT !.turn = cd.last + 1, !.last = cd.last + 1]])
    BY <1>1, <1>n, Zenon DEF ClaudeStartTurn
  <2>2. PICK a : a = ResetTracking(s, {c})
    OBVIOUS
  <2>3. Keeps(s, a)
    BY <2>2, <1>s, ResetTrackingKeeps
  <2>4. PICK d : d = [a.d EXCEPT !.turn = cd.last + 1, !.last = cd.last + 1]
    OBVIOUS
  <2>5. d = CL(cd.last + 1, a.d.auto, a.d.owned, a.d.ended, a.d.gated, a.d.waiting, a.d.shown,
               a.d.past, a.d.v1, cd.last + 1, a.d.reusable)
    BY <2>3, <2>4, Zenon DEF Keeps, Shaped, FieldsOf, CL
  <2>6. FieldsOf(d) /\ d.turn = cd.last + 1 /\ d.last = cd.last + 1
    BY <2>5 DEF FieldsOf, CL
  <2>7. PICK r : r = [a EXCEPT !.d = d]
    BY Zenon
  <2>8. Becomes(r)
    BY <2>1, <2>2, <2>4, <2>7, Zenon
  <2>9. r.d = d /\ r.st = a.st /\ r.e = cdEnds
    BY <2>3, <2>7, <1>s, Zenon DEF Keeps, Shaped, Triple
  <2>10. cd' = d /\ steer' = a.st /\ cdEnds' = cdEnds
    BY <2>8, <2>9, Zenon DEF Becomes
  <2>11. QED
    BY <2>1, <2>3, <2>6, <2>10, Zenon DEF ClaudeGoal, Moves, Begins, Keeps, Shaped
<1>2. CASE SteerTurn
  <2>1. PICK c : \/ Becomes(OwnCommand(s, c))
                 \/ Becomes([MaybeComplete(DropGated(OwnCommand(s, c), c)) EXCEPT !.st = NoSteer])
    BY <1>2, <1>n DEF SteerTurn
  <2>2. PICK a : a = OwnCommand(s, c)
    OBVIOUS
  <2>3. Keeps(s, a)
    BY <2>2, <1>s, OwnCommandKeeps, Zenon
  <2>4. PICK b : b = DropGated(a, c)
    OBVIOUS
  <2>5. Keeps(a, b)
    BY <2>3, <2>4, DropGatedKeeps, Zenon DEF Keeps
  <2>6. Keeps(s, b)
    BY <2>3, <2>5 DEF Keeps
  <2>7. PICK m : m = MaybeComplete(b)
    BY Zenon
  <2>8. Keeps(s, m) \/ Ends(s, m)
    BY <2>6, <2>7, MaybeCompleteMoves, KeepsThen DEF Keeps
  <2>9. PICK r : r = [m EXCEPT !.st = NoSteer]
    BY Zenon
  <2>10. Keeps(m, r)
    BY <2>8, <2>9, SteerOver, Zenon DEF Keeps, Ends
  <2>11. Keeps(s, r) \/ Ends(s, r)
    BY <2>8, <2>10 DEF Keeps, Ends
  <2>12. Becomes(a) \/ Becomes(r)
    BY <2>1, <2>2, <2>4, <2>7, <2>9, Zenon
  <2>13. QED BY <2>3, <2>11, <2>12, <1>m, Zenon
<1>3. CASE SteerReturns
  <2>1. PICK x : cd' = [cd EXCEPT !.reusable = x]
    BY <1>3, Zenon DEF SteerReturns
  <2>2. SameTurns(s, cd')
    <3>1. PICK d : d = [s.d EXCEPT !.reusable = x]
      BY Zenon
    <3>2. QED BY <3>1, <2>1, <1>s, FieldSet
  <2>3. steer' = NoSteer /\ cdEnds' = cdEnds
    BY <1>3 DEF SteerReturns
  <2>4. steer' = Steering(steer'.c, steer'.ack)
    BY <2>3 DEF Steering, NoSteer
  <2>5. QED BY <2>2, <2>3, <2>4, <1>s DEF SameTurns, ClaudeGoal, Moves, Stays
<1>4. CASE SteerTimesOut
  <2>1. Becomes([MaybeComplete(DropGated(s, steer.c)) EXCEPT !.st = NoSteer,
                                                             !.d.reusable = FALSE])
    BY <1>4, <1>n DEF SteerTimesOut
  <2>2. PICK b : b = DropGated(s, steer.c)
    OBVIOUS
  <2>3. Keeps(s, b)
    BY <2>2, <1>s, DropGatedKeeps, Zenon
  <2>4. PICK m : m = MaybeComplete(b)
    OBVIOUS
  <2>5. Keeps(s, m) \/ Ends(s, m)
    BY <2>3, <2>4, MaybeCompleteMoves, KeepsThen DEF Keeps
  <2>6. PICK d, st : d = [m.d EXCEPT !.reusable = FALSE] /\ st = NoSteer
    BY Zenon
  <2>7. SameTurns(m, d) /\ st = Steering(st.c, st.ack)
    <3>1. SameTurns(m, d)
      BY <2>5, <2>6, FieldSet DEF Keeps, Ends
    <3>2. st = Steering(st.c, st.ack)
      BY <2>6 DEF Steering, NoSteer
    <3>3. QED BY <3>1, <3>2, Zenon
  <2>8. PICK r : r = [m EXCEPT !.st = NoSteer, !.d.reusable = FALSE]
    OBVIOUS
  <2>9. r = Triple(d, st, m.e)
    BY <2>5, <2>6, <2>8, Zenon DEF Keeps, Ends, Shaped, Triple
  <2>10. Keeps(m, r)
    BY <2>7, <2>9, TweakKeeps, Zenon
  <2>11. Keeps(s, r) \/ Ends(s, r)
    BY <2>5, <2>10 DEF Keeps, Ends
  <2>12. Becomes(r)
    BY <2>1, <2>2, <2>4, <2>8, SMTT(30)
  <2>13. QED BY <2>11, <2>12, <1>m
<1>5. CASE CloseDriver
  <2>1. Becomes([ResetTracking(SettleAck(s, "ambiguous"), {}) EXCEPT
                   !.d = [@ EXCEPT !.turn = 0, !.auto = FALSE, !.v1 = FALSE, !.reusable = TRUE]])
    BY <1>5, <1>n DEF CloseDriver
  <2>2. PICK b : b = SettleAck(s, "ambiguous")
    OBVIOUS
  <2>3. Keeps(s, b)
    BY <2>2, <1>s, SettleAckKeeps, Zenon
  <2>4. PICK a : a = ResetTracking(b, {})
    BY Zenon
  <2>5. Keeps(b, a)
    BY <2>3, <2>4, ResetTrackingKeeps DEF Keeps
  <2>6. Keeps(s, a)
    BY <2>3, <2>5 DEF Keeps
  <2>7. PICK d : d = [a.d EXCEPT !.turn = 0, !.auto = FALSE, !.v1 = FALSE, !.reusable = TRUE]
    OBVIOUS
  <2>8. d = CL(0, FALSE, a.d.owned, a.d.ended, a.d.gated, a.d.waiting, a.d.shown, a.d.past,
               FALSE, a.d.last, TRUE)
    BY <2>6, <2>7, Zenon DEF Keeps, Shaped, FieldsOf, CL
  <2>9. FieldsOf(d) /\ d.turn = 0 /\ d.last = cd.last
    BY <2>6, <2>8, <1>s, Zenon DEF FieldsOf, CL, Keeps
  <2>10. PICK r : r = [a EXCEPT !.d = d]
    BY Zenon
  <2>11. Becomes(r)
    BY <2>1, <2>2, <2>4, <2>7, <2>10, Zenon
  <2>12. r.d = d /\ r.st = a.st /\ r.e = cdEnds
    BY <2>6, <2>10, <1>s DEF Keeps, Shaped, Triple
  <2>13. cd' = d /\ steer' = a.st /\ cdEnds' = cdEnds
    BY <2>11, <2>12 DEF Becomes
  <2>14. QED
    BY <2>6, <2>9, <2>13, Zenon DEF ClaudeGoal, Moves, Drops, Keeps, Shaped
<1>6. CASE ReadFrame
  <2> DEFINE f == Head(stdout)
  <2>1. CASE HandleInit(f)
    <3>1. PICK r : r = [s EXCEPT !.d.v1 = f.v1]
      BY Zenon
    <3>2. PICK d : d = [s.d EXCEPT !.v1 = f.v1]
      BY Zenon
    <3>3. SameTurns(s, d)
      BY <3>2, <1>s, FieldSet, Zenon
    <3>4. r = Triple(d, s.st, s.e)
      BY <3>1, <3>2, <1>s, Zenon DEF Shaped, Triple
    <3>5. Keeps(s, r)
      BY <3>3, <3>4, <1>s, TweakKeeps, Zenon DEF Shaped
    <3>6. Becomes(r)
      BY <2>1, <3>1, <1>n DEF HandleInit
    <3>7. QED BY <3>5, <3>6, <1>m
  <2>2. CASE HandleLifecycle(f)
    <3>1. CASE Becomes(Now)
      BY <3>1, <1>n, <1>i, Zenon
    <3>2. CASE Becomes(SettleAck(Now, "queued"))
      <4>1. PICK r : r = SettleAck(s, "queued")
        BY Zenon
      <4>2. QED BY <3>2, <4>1, <1>n, <1>s, <1>m, SettleAckKeeps, Zenon
    <3>3. CASE Becomes(TerminalRecord(Now, f.c))
      <4>1. PICK r : r = TerminalRecord(s, f.c)
        OBVIOUS
      <4>2. QED BY <3>3, <4>1, <1>n, <1>s, <1>m, TerminalRecordMoves, Zenon
    <3>4. CASE Becomes(MaybeComplete([Now EXCEPT !.d.ended = @ \cup {f.c}]))
      <4>1. PICK r : r = MaybeComplete([s EXCEPT !.d.ended = @ \cup {f.c}])
        OBVIOUS
      <4>2. QED BY <3>4, <4>1, <1>n, <1>s, <1>m, CommandDone, Zenon
    <3>5. CASE Becomes(MaybeComplete([SettleAck(Now, "ambiguous") EXCEPT !.d.ended = @ \cup {f.c}]))
      <4>1. PICK a : a = SettleAck(s, "ambiguous")
        OBVIOUS
      <4>2. Keeps(s, a)
        BY <4>1, <1>s, SettleAckKeeps
      <4>3. PICK r : r = MaybeComplete([a EXCEPT !.d.ended = @ \cup {f.c}])
        OBVIOUS
      <4>4. Keeps(a, r) \/ Ends(a, r)
        BY <4>2, <4>3, CommandDone, Zenon DEF Keeps
      <4>5. Becomes(r)
        BY <3>5, <4>1, <4>3, <1>n
      <4>6. QED BY <4>2, <4>4, <4>5, <1>m, KeepsThen, Zenon
    <3>6. QED
      BY <2>2, <3>1, <3>2, <3>3, <3>4, <3>5, Zenon DEF HandleLifecycle
  <2>3. CASE HandleAssistant(f)
    <3>1. CASE f.c \in cd.past
      BY <2>3, <3>1, <1>n, <1>i, Zenon DEF HandleAssistant
    <3>2. CASE f.c \notin cd.past
      <4>1. PICK a : a = [s EXCEPT !.d.shown = s.d.shown \cup {f.c}]
        BY Zenon
      <4>2. PICK d : d = [s.d EXCEPT !.shown = s.d.shown \cup {f.c}]
        BY Zenon
      <4>3. SameTurns(s, d)
        BY <4>2, <1>s, FieldSet, Zenon
      <4>4. a = Triple(d, s.st, s.e)
        BY <4>1, <4>2, <1>s, Zenon DEF Shaped, Triple
      <4>5. Keeps(s, a)
        BY <4>3, <4>4, <1>s, TweakKeeps DEF Shaped
      <4>6. \/ Becomes(a)
            \/ /\ cd.turn = 0 /\ cd.last < MaxCTurns
               /\ Becomes([a EXCEPT !.d = [@ EXCEPT !.turn = cd.last + 1, !.last = cd.last + 1,
                                                    !.auto = TRUE]])
        BY <2>3, <3>2, <4>1, <1>n, Zenon DEF HandleAssistant
      <4>7. CASE Becomes(a)
        BY <4>5, <4>7, <1>m, Zenon
      <4>8. CASE /\ cd.turn = 0 /\ cd.last < MaxCTurns
                 /\ Becomes([a EXCEPT !.d = [@ EXCEPT !.turn = cd.last + 1, !.last = cd.last + 1,
                                                      !.auto = TRUE]])
        <5>1. PICK b : b = [a.d EXCEPT !.turn = cd.last + 1, !.last = cd.last + 1, !.auto = TRUE]
          OBVIOUS
        <5>2. b = CL(cd.last + 1, TRUE, a.d.owned, a.d.ended, a.d.gated, a.d.waiting, a.d.shown,
                     a.d.past, a.d.v1, cd.last + 1, a.d.reusable)
          BY <4>5, <5>1, Zenon DEF Keeps, Shaped, FieldsOf, CL
        <5>3. FieldsOf(b) /\ b.turn = cd.last + 1 /\ b.last = cd.last + 1
          BY <5>2 DEF FieldsOf, CL
        <5>4. PICK r : r = [a EXCEPT !.d = b]
          BY Zenon
        <5>5. Becomes(r)
          BY <4>8, <5>1, <5>4, Zenon
        <5>6. r.d = b /\ r.st = a.st /\ r.e = cdEnds
          BY <4>5, <5>4, <1>s DEF Keeps, Shaped, Triple
        <5>7. cd' = b /\ steer' = a.st /\ cdEnds' = cdEnds
          BY <5>5, <5>6 DEF Becomes
        <5>8. QED BY <4>5, <4>8, <5>3, <5>7, Zenon DEF ClaudeGoal, Moves, Begins, Keeps, Shaped
      <4>9. QED BY <4>6, <4>7, <4>8
    <3>3. QED BY <3>1, <3>2
  <2>4. CASE HandleResult(f)
    <3>1. CASE cd.turn # 0 /\ ResultEnds(f.c)
      <4>1. PICK r : r = FinishTurn(s)
        OBVIOUS
      <4>2. QED BY <2>4, <3>1, <4>1, <1>n, <1>s, <1>m, FinishTurnEnds, Zenon DEF HandleResult
    <3>2. CASE ~(cd.turn # 0 /\ ResultEnds(f.c))
      BY <2>4, <3>2, <1>n, <1>i, Zenon DEF HandleResult
    <3>3. QED BY <3>1, <3>2, SMTT(30)
  <2>5. QED BY <1>6, <2>1, <2>2, <2>3, <2>4, Zenon DEF ReadFrame
<1>7. CASE ReadEof
  <2>1. PICK a : a = SettleAck(s, "ambiguous")
    OBVIOUS
  <2>2. Keeps(s, a)
    BY <2>1, <1>s, SettleAckKeeps
  <2>3. PICK r : r = [a EXCEPT !.d.reusable = FALSE]
    BY Zenon
  <2>4. PICK d : d = [a.d EXCEPT !.reusable = FALSE]
    BY Zenon
  <2>5. SameTurns(a, d)
    BY <2>2, <2>4, FieldSet DEF Keeps
  <2>6. r = Triple(d, a.st, a.e)
    BY <2>2, <2>3, <2>4, Zenon DEF Keeps, Shaped, Triple
  <2>7. Keeps(a, r)
    BY <2>2, <2>5, <2>6, TweakKeeps, SMTT(30) DEF Keeps, Shaped
  <2>8. Becomes(r)
    BY <1>7, <2>1, <2>3, <1>n, Zenon DEF ReadEof
  <2>9. QED BY <2>2, <2>7, <2>8, <1>m, KeepsThen, Zenon
<1>8. CASE OpenDriver \/ CliGreets \/ CliWakes \/ CliSettles \/ CliRepeats \/ CliDies
  BY <1>8, <1>u, Zenon DEF OpenDriver, CliGreets, CliWakes, CliSettles, CliRepeats, CliDies
<1>9. CASE \E c \in Cmds : CliQueues(c) \/ CliCancels(c) \/ CliRuns(c) \/ CliFinishes(c)
  BY <1>9, <1>u, Zenon DEF CliQueues, CliCancels, CliRuns, CliFinishes
<1>10. CASE UNCHANGED clVars
  BY <1>10, <1>u, Zenon DEF clVars
<1>11. QED
  BY <1>1, <1>2, <1>3, <1>4, <1>5, <1>6, <1>7, <1>8, <1>9, <1>10, Zenon DEF ClNext

\* The invariant is inductive.
LEMMA ClaudeInvariant == ClSpec => []ClaudeInv
<1>1. ClInit => ClaudeInv
  <2>1. ClInit => /\ cd = CL(0, FALSE, {}, {}, NoCmd, FALSE, {}, {}, FALSE, 0, TRUE)
                  /\ steer = NoSteer /\ cdEnds = [t \in CTurns |-> 0]
    BY Zenon DEF ClInit, CL
  <2>2. ClInit => FieldsOf(cd) /\ cd.turn = 0 /\ cd.last = 0
    BY <2>1 DEF FieldsOf, CL
  <2>3. ClInit => steer = Steering(steer.c, steer.ack)
    BY <2>1, SMTT(30) DEF Steering, NoSteer
  <2>4. QED BY <2>1, <2>2, <2>3, NothingIssued, ClaudeAssumption, Zenon DEF CTurns, ClaudeInv
<1>2. ClaudeInv /\ [ClNext]_clVars => ClaudeInv'
  <2> SUFFICES ASSUME ClaudeInv, [ClNext]_clVars PROVE ClaudeInv'
    OBVIOUS
  <2>1. ClaudeGoal
    BY ClaudeMoves
  <2>2. Serial(cd'.turn, cd'.last, cdEnds', MaxCTurns)
    BY <2>1, MoveKeepsSerial, ClaudeAssumption, Zenon DEF ClaudeInv, ClaudeGoal
  <2>3. QED BY <2>1, <2>2, Zenon DEF ClaudeInv, ClaudeGoal, FieldsOf
<1>3. QED BY <1>1, <1>2, PTL DEF ClSpec

\* Results, command records, acknowledgement timeouts, closes and exits, in any
\* order, end a turn at most once, autonomous turns included (claude_code.py,
\* _finish_turn, _maybe_complete_lifecycle_turn, _handle_result).
THEOREM ClaudeImplementsContract == ClSpec => ClaudeKeepsContract
<1>1. ClInit => ClTurns!DInit
  <2>1. ClInit => /\ cd = CL(0, FALSE, {}, {}, NoCmd, FALSE, {}, {}, FALSE, 0, TRUE)
                  /\ cdEnds = [t \in CTurns |-> 0]
    BY Zenon DEF ClInit, CL
  <2>2. QED BY <2>1 DEF CL, ClTurns!DInit
<1>2. ClaudeInv /\ [ClNext]_clVars => [ClTurns!DNext]_(ClTurns!dvars)
  BY ClaudeMoves, MoveIsContractStep, ClaudeAssumption
  DEF ClaudeInv, ClaudeGoal, ClTurns!DNext, ClTurns!DBegin, ClTurns!DFinish,
      ClTurns!DDrop, ClTurns!dvars, CTurns
<1>3. QED
  BY <1>1, <1>2, ClaudeInvariant, PTL DEF ClSpec, ClaudeKeepsContract, ClTurns!DSpec

-----------------------------------------------------------------------------
\* Whichever driver an Agent runs, the runtime manager may rely on DriverTurns: for
\* any number of turns, commands, frames and children, each driver of
\* agent/harness/drivers implements the contract.
THEOREM DriversImplementContract ==
    ClSpec /\ XSpec /\ OSpec /\ PSpec /\ ASpec => DriversKeepContract
BY ClaudeImplementsContract, CodexImplementsContract, OpenCodeImplementsContract,
   PiImplementsContract, AcpImplementsContract, Zenon
   DEF DriversKeepContract
=============================================================================
