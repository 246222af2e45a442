----------------------------- MODULE HostProofs -----------------------------
(***************************************************************************)
(* Machine-checked proofs about parts of the host around the Agent: the    *)
(* container of a cli-docker agent, the ownership of the Puffo home, the   *)
(* signed requests and the driver authority server.  Each section has the  *)
(* inductive invariant of its part and the property it was found for.      *)
(***************************************************************************)
EXTENDS DockerContainer, DaemonOwnership, HttpClient, DriverAuthority, TLAPS

-----------------------------------------------------------------------------
(* The container *)

Boxes == [state : DkStates \cup {"absent"}, good : BOOLEAN]

\* A start that is about to remove a container has read the reason.
DockerInv ==
    /\ dkBox \in [DkAgents -> Boxes] /\ dkMark \in [DkAgents -> BOOLEAN] /\ dkSound \in BOOLEAN
    /\ DOMAIN dkPc = DkAgents
    /\ \A a \in DkAgents : dkPc[a] = "remove" => ~dkMark[a] \/ ~dkBox[a].good

\* The containers the steps make are containers.
LEMMA BoxValues ==
    /\ NoBox \in Boxes /\ (dkSound \in BOOLEAN => NewBox \in Boxes)
    /\ NoBox.state = "absent" /\ NewBox.state = "running"
    /\ \A b \in Boxes, s \in DkStates \cup {"absent"} :
                                        /\ [b EXCEPT !.state = s] \in Boxes
                                        /\ [b EXCEPT !.state = s].good = b.good
                                        /\ [b EXCEPT !.state = s].state = s
BY DEF NoBox, NewBox, Boxes, DkStates

\* What one step of a's worker does to its container: nothing, a removal from the step that
\* removes, a new container from the step that runs one, or a change of its state alone.
BoxMoves(a) ==
    \/ dkBox' = dkBox
    \/ \E b \in Boxes :
          /\ dkBox' = [dkBox EXCEPT ![a] = b]
          /\ \/ dkPc[a] = "remove" /\ dkPc'[a] # "remove"
             \/ dkPc[a] # "remove" /\ b.state # "absent" /\ dkPc'[a] # "remove"
             \/ b.good = dkBox[a].good /\ (b.state = "absent" => dkBox[a].state = "absent")

\* And to the steps: only an inspection of another layout and a probe that failed lead to a
\* removal.
StepMoves(a) ==
    /\ DOMAIN dkPc' = DkAgents
    /\ \A x \in DkAgents \ {a} : dkPc'[x] = dkPc[x]
    /\ dkPc'[a] = "remove" /\ dkPc[a] # "remove" =>
          dkBox' = dkBox /\ dkMark' = dkMark /\ (~dkMark[a] \/ ~dkBox[a].good)

MarkMoves(a) == dkMark' = dkMark \/ (dkMark' = [dkMark EXCEPT ![a] = TRUE] /\ dkPc'[a] # "remove")

\* A step moves the one agent it is about.
LEMMA StepLands ==
    ASSUME NEW a \in DkAgents, NEW pc, DOMAIN dkPc = DkAgents, dkPc' = [dkPc EXCEPT ![a] = pc]
    PROVE  /\ dkPc'[a] = pc /\ DOMAIN dkPc' = DkAgents
           /\ \A x \in DkAgents \ {a} : dkPc'[x] = dkPc[x]
OBVIOUS

\* A docker command that changes the state leaves the rest of the container.
LEMMA StateAlone ==
    ASSUME DockerInv, NEW a \in DkAgents, NEW s, s \in DkStates \cup {"absent"},
           s = "absent" => dkBox[a].state = "absent",
           dkBox' = [dkBox EXCEPT ![a].state = s]
    PROVE  BoxMoves(a)
<1>1. PICK b : b = [dkBox[a] EXCEPT !.state = s]
  BY Zenon
<1>2. dkBox[a] \in Boxes
  BY DEF DockerInv
<1>3. b \in Boxes /\ b.good = dkBox[a].good /\ b.state = s
  BY <1>1, <1>2, BoxValues
<1>4. dkBox' = [dkBox EXCEPT ![a] = b]
  BY <1>1
<1>5. QED BY <1>3, <1>4, Zenon DEF BoxMoves

\* `docker stop` changes the state of a container and removes none.
LEMMA StopMoves == ASSUME DockerInv, NEW a \in DkAgents, dkBox' = StoppedBox(a) PROVE BoxMoves(a)
<1>1. PICK s : s = IF dkBox[a].state = "absent" THEN dkBox[a].state ELSE "exited"
  OBVIOUS
<1>2. dkBox' = [dkBox EXCEPT ![a].state = s]
  BY <1>1 DEF StoppedBox
<1>3. s \in DkStates \cup {"absent"} /\ (s = "absent" => dkBox[a].state = "absent")
  BY <1>1, Zenon DEF DkStates
<1>4. QED BY <1>2, <1>3, StateAlone, Zenon

\* What each step of a start, a close or the operator does to the container.
LEMMA ContainerMoves ==
    ASSUME DockerInv, NEW a \in DkAgents,
           PrepareStarts(a) \/ StartSteps(a) \/ Aclose(a) \/ StartCancelled(a) \/ OperatorHandles(a)
    PROVE  BoxMoves(a) /\ StepMoves(a) /\ MarkMoves(a) /\ dkSound' = dkSound
<1> USE DEF DockerInv
<1>1. CASE PrepareStarts(a)
  BY <1>1, StepLands, Zenon DEF PrepareStarts, DkStep, BoxMoves, StepMoves, MarkMoves
<1>2. CASE EnsureContainer(a)
  BY <1>2, StepLands DEF EnsureContainer, AfterInspect, StartFails, DkStep, BoxMoves, StepMoves, MarkMoves
<1>3. CASE RemoveExistingContainer(a)
  <2>1. \E b \in Boxes : dkBox' = [dkBox EXCEPT ![a] = b]
    <3>1. [dkBox[a] EXCEPT !.state = "exited"] \in Boxes
      BY BoxValues, Zenon DEF DkStates
    <3>2. QED BY <1>3, <3>1, BoxValues DEF RemoveExistingContainer
  <2>2. dkPc[a] = "remove" /\ dkPc'[a] # "remove" /\ StepMoves(a) /\ dkMark' = dkMark
        /\ dkSound' = dkSound
    BY <1>3, StepLands DEF RemoveExistingContainer, StartFails, DkStep, StepMoves
  <2>3. QED BY <2>1, <2>2, Zenon DEF BoxMoves, MarkMoves
<1>4. CASE ActivateContainer(a)
  <2>1. dkBox' = dkBox \/ dkBox' = [dkBox EXCEPT ![a].state = "running"]
    BY <1>4 DEF ActivateContainer
  <2>2. BoxMoves(a)
    <3>1. "running" \in DkStates \cup {"absent"} /\ "running" # "absent"
      BY DEF DkStates
    <3>2. CASE dkBox' = dkBox
      BY <3>2 DEF BoxMoves
    <3>3. CASE dkBox' = [dkBox EXCEPT ![a].state = "running"]
      BY <3>1, <3>3, StateAlone, Zenon
    <3>4. QED BY <2>1, <3>2, <3>3
  <2>3. QED
    BY <1>4, <2>2, StepLands DEF ActivateContainer, StartFails, DkStep, StepMoves, MarkMoves
<1>5. CASE EnsureDockerImage(a)
  BY <1>5, StepLands, Zenon DEF EnsureDockerImage, DkStep, BoxMoves, StepMoves, MarkMoves
<1>6. CASE TakeBuildLock(a)
  BY <1>6, StepLands, Zenon DEF TakeBuildLock, DkStep, BoxMoves, StepMoves, MarkMoves
<1>7. CASE BuildImage(a)
  BY <1>7, StepLands, Zenon DEF BuildImage, StartFails, DkStep, BoxMoves, StepMoves, MarkMoves
<1>8. CASE StartContainer(a)
  BY <1>8, StepLands, BoxValues DEF StartContainer, StartFails, DkStep, BoxMoves, StepMoves, MarkMoves
<1>9. CASE ProbeContainer(a)
  BY <1>9, StepLands DEF ProbeContainer, ProbeResult, StartFails, DkStep, BoxMoves, StepMoves, MarkMoves
<1>10. CASE BindDriverRuntime(a)
  <2>1. BoxMoves(a)
    BY <1>10, StopMoves, Zenon DEF BindDriverRuntime, BoxMoves
  <2>2. QED
    BY <1>10, <2>1, StepLands, Zenon DEF BindDriverRuntime, StartFails, DkStep, StepMoves, MarkMoves
<1>11. CASE Aclose(a)
  <2>1. BoxMoves(a)
    BY <1>11, StopMoves, Zenon DEF Aclose, BoxMoves
  <2>2. QED
    BY <1>11, <2>1, StepLands, Zenon DEF Aclose, DkStep, StepMoves, MarkMoves
<1>12. CASE StartCancelled(a)
  BY <1>12, StepLands, BoxValues, Zenon DEF StartCancelled, DkStep, BoxMoves, StepMoves, MarkMoves
<1>13. CASE OperatorHandles(a)
  <2>1. BoxMoves(a)
    <3>1. PICK s \in {"exited", "paused"} : dkBox' = [dkBox EXCEPT ![a].state = s]
      BY <1>13 DEF OperatorHandles
    <3>2. s \in DkStates \cup {"absent"} /\ s # "absent"
      BY DEF DkStates
    <3>3. QED BY <3>1, <3>2, StateAlone, Zenon
  <2>2. QED BY <1>13, <2>1 DEF OperatorHandles, StepMoves, MarkMoves
<1>14. QED
  BY <1>1, <1>2, <1>3, <1>4, <1>5, <1>6, <1>7, <1>8, <1>9, <1>10, <1>11, <1>12, <1>13, Zenon
  DEF StartSteps

\* The invariant is inductive.
LEMMA DockerInvariant == DkSpec => []DockerInv
<1>1. DkInit => DockerInv
  BY DkAssumption, BoxValues DEF DkInit, DockerInv, Boxes, DkStates
<1>2. DockerInv /\ [DkNext]_dkVars => DockerInv'
  <2> SUFFICES ASSUME DockerInv, [DkNext]_dkVars PROVE DockerInv'
    OBVIOUS
  <2>1. CASE UNCHANGED dkVars
    BY <2>1 DEF dkVars, DockerInv
  <2>2. ASSUME NEW a \in DkAgents,
               PrepareStarts(a) \/ StartSteps(a) \/ Aclose(a) \/ StartCancelled(a) \/ OperatorHandles(a)
        PROVE  DockerInv'
    <3>1. BoxMoves(a) /\ StepMoves(a) /\ MarkMoves(a) /\ dkSound' = dkSound
      BY <2>2, ContainerMoves
    <3>2. dkBox' \in [DkAgents -> Boxes] /\ dkMark' \in [DkAgents -> BOOLEAN] /\ dkSound' \in BOOLEAN
      BY <3>1, Zenon DEF BoxMoves, MarkMoves, DockerInv
    <3>3. ASSUME NEW x \in DkAgents, dkPc'[x] = "remove" PROVE ~dkMark'[x] \/ ~dkBox'[x].good
      <4>1. CASE x # a
        BY <3>1, <3>3, <4>1 DEF BoxMoves, StepMoves, MarkMoves, DockerInv
      <4>2. CASE x = a /\ dkPc[a] # "remove"
        BY <3>1, <3>3, <4>2 DEF StepMoves
      <4>3. CASE x = a /\ dkPc[a] = "remove"
        <5>1. dkMark' = dkMark
          BY <3>1, <3>3, <4>3 DEF MarkMoves
        <5>2. dkBox'[a].good = dkBox[a].good
          BY <3>1, <3>3, <4>3 DEF BoxMoves, DockerInv
        <5>3. QED BY <4>3, <5>1, <5>2 DEF DockerInv
      <4>4. QED BY <4>1, <4>2, <4>3
    <3>4. QED BY <3>1, <3>2, <3>3 DEF StepMoves, DockerInv
  <2>3. QED BY <2>1, <2>2 DEF DkNext
<1>3. QED BY <1>1, <1>2, PTL DEF DkSpec

\* A container is removed only for a layout that is not the current one or a package or harness
\* that does not load (docker_runtime.py, ensure_container), whatever fails, is cancelled or is
\* done by hand between the probe and the removal.
THEOREM ContainerRemovedForCause == DkSpec => RemovedForCause
<1>1. ASSUME DockerInv, [DkNext]_dkVars, NEW x \in DkAgents,
             dkBox[x].state # "absent", dkBox'[x].state = "absent"
      PROVE  ~dkMark[x] \/ ~dkBox[x].good
  <2>1. dkBox' # dkBox
    BY <1>1
  <2>2. PICK a \in DkAgents : BoxMoves(a)
    BY <1>1, <2>1, ContainerMoves DEF DkNext, dkVars
  <2>3. PICK b \in Boxes : /\ dkBox' = [dkBox EXCEPT ![a] = b]
                           /\ \/ dkPc[a] = "remove" /\ dkPc'[a] # "remove"
                              \/ dkPc[a] # "remove" /\ b.state # "absent" /\ dkPc'[a] # "remove"
                              \/ b.good = dkBox[a].good /\ (b.state = "absent" => dkBox[a].state = "absent")
    BY <2>1, <2>2 DEF BoxMoves
  <2>4. x = a /\ b.state = "absent"
    BY <1>1, <2>3 DEF DockerInv
  <2>5. dkPc[a] = "remove"
    BY <1>1, <2>3, <2>4
  <2>6. QED BY <1>1, <2>4, <2>5 DEF DockerInv
<1>2. DockerInv /\ [DkNext]_dkVars =>
        [\A a \in DkAgents :
           dkBox[a].state # "absent" /\ dkBox'[a].state = "absent" => ~dkMark[a] \/ ~dkBox[a].good]_dkVars
  BY <1>1
<1>3. QED BY <1>2, DockerInvariant, PTL DEF DkSpec, RemovedForCause

-----------------------------------------------------------------------------
(* The ownership of the home *)

Proc(at, pid, id, told) == [at |-> at, pid |-> pid, id |-> id, told |-> told]
Markers(pid, ident, ready, stop) == [pid |-> pid, ident |-> ident, ready |-> ready, stop |-> stop]
History(stops, kills, obeyed, over) ==
    [stops |-> stops, kills |-> kills, obeyed |-> obeyed, over |-> over]

ProcOf(r) == r = Proc(r.at, r.pid, r.id, r.told)
OwnShape ==
    /\ oProc = [p \in Procs |-> oProc[p]] /\ \A p \in Procs : ProcOf(oProc[p])
    /\ oFile = Markers(oFile.pid, oFile.ident, oFile.ready, oFile.stop)
    /\ oHist = History(oHist.stops, oHist.kills, oHist.obeyed, oHist.over)

\* An instance another process knows by name has been started, and was not given its pid.
Stranger(p, i) == i \in Procs /\ oProc[i].at # "none" /\ (i # p => oProc[i].pid # oProc[p].pid)

\* Live processes have different pids.  A process that reads the identity file back finds
\* itself, nobody, or a process that published while both were alive; so an instance it keeps
\* for its own and is not has another pid.
OwnInv ==
    /\ OwnShape
    /\ \A p, q \in Procs : Living(p) /\ Living(q) /\ p # q => oProc[p].pid # oProc[q].pid
    /\ oFile.ident # 0 => oFile.ident \in Procs /\ oProc[oFile.ident].at # "none"
    /\ \A p \in Procs : At(p, "capture") /\ oFile.ident # 0 => Stranger(p, oFile.ident)
    /\ \A p \in Procs : oProc[p].id # 0 => Stranger(p, oProc[p].id)
    /\ StopReachesItsTarget

\* Fields of the records the steps build.
LEMMA ProcFields ==
    ASSUME NEW r, NEW at, NEW pid, NEW id, NEW told, r = Proc(at, pid, id, told)
    PROVE  ProcOf(r) /\ r.at = at /\ r.pid = pid /\ r.id = id /\ r.told = told
BY DEF Proc, ProcOf

\* Fields of the marker files.
LEMMA MarkerFields ==
    ASSUME NEW r, NEW pid, NEW ident, NEW ready, NEW stop, r = Markers(pid, ident, ready, stop)
    PROVE  /\ r = Markers(r.pid, r.ident, r.ready, r.stop)
           /\ r.pid = pid /\ r.ident = ident /\ r.ready = ready /\ r.stop = stop
BY DEF Markers

\* Fields of the history.
LEMMA HistoryFields ==
    ASSUME NEW r, NEW stops, NEW kills, NEW obeyed, NEW over, r = History(stops, kills, obeyed, over)
    PROVE  r = History(r.stops, r.kills, r.obeyed, r.over) /\ r.obeyed = obeyed
BY DEF History

\* What a step leaves of the processes, the identity file and the requests obeyed.
ProcsKept ==
    /\ oProc' = [p \in Procs |-> oProc'[p]]
    /\ \A p \in Procs : /\ ProcOf(oProc'[p])
                        /\ oProc'[p].pid = oProc[p].pid /\ oProc'[p].id = oProc[p].id
                        /\ oProc'[p].at = "none" <=> oProc[p].at = "none"
                        /\ oProc[p].at = "gone" => oProc'[p].at = "gone"
                        /\ oProc'[p].at = "capture" => oProc[p].at = "capture"
FileKept ==
    /\ oFile' = Markers(oFile'.pid, oFile'.ident, oFile'.ready, oFile'.stop)
    /\ oFile'.ident \in {0, oFile.ident}
HistKept ==
    /\ oHist' = History(oHist'.stops, oHist'.kills, oHist'.obeyed, oHist'.over)
    /\ \A x \in oHist'.obeyed : x \in oHist.obeyed \/ x[2] = x[1]

\* A step that leaves these three parts keeps the invariant.
LEMMA KeptStep == OwnInv /\ ProcsKept /\ FileKept /\ HistKept => OwnInv'
<1> SUFFICES ASSUME OwnInv, ProcsKept, FileKept, HistKept PROVE OwnInv'
  OBVIOUS
<1>1. OwnShape'
  BY Zenon DEF OwnShape, ProcsKept, FileKept, HistKept
<1>2. \A p, q \in Procs : Living(p)' /\ Living(q)' /\ p # q => oProc'[p].pid # oProc'[q].pid
  BY DEF OwnInv, ProcsKept, Living
<1>3. oFile'.ident # 0 => oFile'.ident \in Procs /\ oProc'[oFile'.ident].at # "none"
  BY Zenon DEF OwnInv, ProcsKept, FileKept
<1>4. \A p \in Procs : At(p, "capture")' /\ oFile'.ident # 0 => Stranger(p, oFile.ident)'
  BY DEF OwnInv, ProcsKept, FileKept, At, Stranger
<1>5. \A p \in Procs : oProc'[p].id # 0 => Stranger(p, oProc[p].id)'
  BY DEF OwnInv, ProcsKept, Stranger
<1>6. StopReachesItsTarget'
  BY Zenon DEF OwnInv, HistKept, StopReachesItsTarget
<1>7. QED BY <1>1, <1>2, <1>3, <1>4, <1>5, <1>6 DEF OwnInv

\* A process moves to another step of its program.
LEMMA MovesKeep ==
    ASSUME OwnInv, NEW p \in Procs, NEW at, Moves(p, at), Living(p), at # "none",
           at # "capture"
    PROVE  ProcsKept
<1>1. PICK q : q = [oProc[p] EXCEPT !.at = at]
  BY Zenon
<1>2. ProcOf(oProc[p])
  BY DEF OwnInv, OwnShape
<1>3. q = Proc(at, oProc[p].pid, oProc[p].id, oProc[p].told)
  BY <1>1, <1>2 DEF ProcOf, Proc
<1>4. oProc' = [oProc EXCEPT ![p] = q]
  BY <1>1 DEF Moves
<1>5. ProcOf(q) /\ q.at = at /\ q.pid = oProc[p].pid /\ q.id = oProc[p].id
  BY <1>3, ProcFields
<1>6. QED BY <1>4, <1>5 DEF OwnInv, OwnShape, ProcsKept, Living

\* Edits of the marker files that leave the identity, or remove it with the pid.
LEMMA FileSame == OwnInv /\ oFile' = oFile => FileKept
BY DEF OwnInv, OwnShape, FileKept

\* daemon.ready is written or removed.
LEMMA ReadyEdit == ASSUME OwnInv, NEW v, oFile' = [oFile EXCEPT !.ready = v] PROVE FileKept
<1>1. oFile' = Markers(oFile.pid, oFile.ident, v, oFile.stop)
  BY DEF OwnInv, OwnShape, Markers
<1>2. QED BY <1>1, MarkerFields DEF FileKept

\* The stop sentinel is written or removed.
LEMMA StopEdit == ASSUME OwnInv, NEW v, oFile' = [oFile EXCEPT !.stop = v] PROVE FileKept
<1>1. oFile' = Markers(oFile.pid, oFile.ident, oFile.ready, v)
  BY DEF OwnInv, OwnShape, Markers
<1>2. QED BY <1>1, MarkerFields DEF FileKept

\* clear_daemon_pid removes the identity or leaves the files.
LEMMA PidEdit == ASSUME OwnInv, NEW pid, NEW i, oFile' = PidCleared(pid, i) PROVE FileKept
<1>1. CASE oFile' = oFile
  BY <1>1, FileSame
<1>2. CASE oFile' = [oFile EXCEPT !.pid = 0, !.ident = 0]
  <2>1. oFile' = Markers(0, 0, oFile.ready, oFile.stop)
    BY <1>2, Zenon DEF OwnInv, OwnShape, Markers
  <2>2. QED BY <2>1, MarkerFields DEF FileKept
<1>3. QED BY <1>1, <1>2 DEF PidCleared

\* clear_stop_request removes the sentinel or leaves the files.
LEMMA StopClearedEdit == ASSUME OwnInv, NEW pid, NEW i, oFile' = StopCleared(pid, i) PROVE FileKept
<1>1. CASE oFile' = oFile
  BY <1>1, FileSame
<1>2. CASE oFile' = [oFile EXCEPT !.stop = NoStopFile]
  BY <1>2, StopEdit, Zenon
<1>3. QED BY <1>1, <1>2 DEF StopCleared

\* Nothing is counted.
LEMMA HistSame == OwnInv /\ oHist' = oHist => HistKept
BY DEF OwnInv, OwnShape, HistKept

\* A count or the set of overtaken processes changes.
LEMMA HistEdit ==
    ASSUME OwnInv, NEW v, \/ oHist' = [oHist EXCEPT !.over = v]
                          \/ oHist' = [oHist EXCEPT !.kills = v]
                          \/ oHist' = [oHist EXCEPT !.stops = v]
    PROVE  HistKept
<1>1. PICK s, k, o : oHist' = History(s, k, oHist.obeyed, o)
  BY DEF OwnInv, OwnShape, History
<1>2. QED BY <1>1, HistoryFields DEF HistKept

\* A process that obeys the sentinel obeys its own.
LEMMA ObeysItsOwn ==
    ASSUME OwnInv, NEW p \in Procs, StopRequestedFor(oProc[p].pid, oProc[p].id),
           oHist' = [oHist EXCEPT !.obeyed = @ \cup {<<p, oFile.stop.inst>>}]
    PROVE  HistKept
<1>1. oProc[p].id = p
  BY DEF OwnInv, StopRequestedFor, Stranger
<1>2. oFile.stop.inst = p
  BY <1>1 DEF StopRequestedFor, NamesInstance
<1>3. PICK o : o = oHist.obeyed \cup {<<p, p>>}
  BY Zenon
<1>4. oHist' = History(oHist.stops, oHist.kills, o, oHist.over)
  BY <1>2, <1>3, Zenon DEF OwnInv, OwnShape, History
<1>5. oHist' = History(oHist'.stops, oHist'.kills, oHist'.obeyed, oHist'.over) /\ oHist'.obeyed = o
  BY <1>4, HistoryFields, Zenon
<1>6. \A x \in o : x \in oHist.obeyed \/ x[2] = x[1]
  BY <1>3
<1>7. QED BY <1>5, <1>6 DEF HistKept

\* A signal: the process is told, and the sentinel may be written.
LEMMA SignalKeeps == ASSUME OwnInv, NEW p \in Procs, Signalled(p) PROVE OwnInv'
<1>0. PICK told : told = TRUE
  OBVIOUS
<1>1. PICK q : q = [oProc[p] EXCEPT !.told = told]
  BY Zenon
<1>2. ProcOf(oProc[p])
  BY DEF OwnInv, OwnShape
<1>3. q = Proc(oProc[p].at, oProc[p].pid, oProc[p].id, told)
  BY <1>1, <1>2 DEF ProcOf, Proc
<1>4. oProc' = [oProc EXCEPT ![p] = q]
  BY <1>0, <1>1 DEF Signalled
<1>5. ProcOf(q) /\ q.at = oProc[p].at /\ q.pid = oProc[p].pid /\ q.id = oProc[p].id
  BY <1>3, ProcFields
<1>6. ProcsKept
  BY <1>4, <1>5, Zenon DEF OwnInv, OwnShape, ProcsKept
<1>7. FileKept
  <2>1. CASE oFile' = oFile
    BY <2>1, FileSame
  <2>2. CASE oFile' = [oFile EXCEPT !.stop = [pid |-> oProc[p].pid, inst |-> oProc[p].id]]
    BY <2>2, StopEdit, Zenon
  <2>3. QED BY <2>1, <2>2 DEF Signalled
<1>8. HistKept
  <2>1. oHist' = [oHist EXCEPT !.kills = oHist.kills + 1]
    BY DEF Signalled
  <2>2. QED BY <2>1, HistEdit, Zenon
<1>9. QED BY <1>6, <1>7, <1>8, KeptStep

\* The other steps of run_daemon that leave the identity alone, and a kill.
LEMMA RunKeeps ==
    ASSUME OwnInv, NEW p \in Procs,
           \/ ExistingDaemonStartResult(p) \/ SweepReady(p) \/ SweepStop(p) \/ BecomesReady(p)
           \/ ObeysStop(p) \/ ClearsReady(p) \/ ClearsStop(p) \/ ClearsPid(p) \/ Killed(p)
    PROVE  OwnInv'
<1>1. CASE ExistingDaemonStartResult(p)
  <2>1. PICK at \in {"gone", "sweep"} : Moves(p, at)
    BY <1>1, Zenon DEF ExistingDaemonStartResult
  <2>2. ProcsKept
    BY <1>1, <2>1, MovesKeep DEF ExistingDaemonStartResult, Living, At
  <2>3. QED BY <1>1, <2>2, FileSame, HistSame, KeptStep, Zenon DEF ExistingDaemonStartResult
<1>2. CASE SweepReady(p)
  <2>1. ProcsKept
    BY <1>2, MovesKeep DEF SweepReady, Living, At
  <2>2. oFile' = [oFile EXCEPT !.ready = 0] /\ oHist' = oHist
    BY <1>2 DEF SweepReady
  <2>3. FileKept
    BY <2>2, ReadyEdit, Zenon
  <2>4. QED BY <2>1, <2>2, <2>3, HistSame, KeptStep
<1>3. CASE SweepStop(p)
  <2>1. ProcsKept
    BY <1>3, MovesKeep DEF SweepStop, Living, At
  <2>2. PICK v : oFile' = [oFile EXCEPT !.stop = NoStopFile] /\ oHist' = [oHist EXCEPT !.over = v]
    BY <1>3, Zenon DEF SweepStop
  <2>3. FileKept
    BY <2>2, StopEdit, Zenon
  <2>4. HistKept
    BY <2>2, HistEdit, Zenon
  <2>5. QED BY <2>1, <2>3, <2>4, KeptStep
<1>4. CASE BecomesReady(p)
  <2>1. PICK at \in {"clean ready", "serve"} : Moves(p, at)
    BY <1>4, Zenon DEF BecomesReady
  <2>2. ProcsKept
    BY <1>4, <2>1, MovesKeep, Zenon DEF BecomesReady, Living, At
  <2>3. FileKept
    <3>1. CASE oFile' = oFile
      BY <3>1, FileSame, Zenon
    <3>2. CASE oFile' = [oFile EXCEPT !.ready = oProc[p].id]
      BY <3>2, ReadyEdit, Zenon
    <3>3. QED BY <1>4, <3>1, <3>2, Zenon DEF BecomesReady
  <2>4. HistKept
    <3>1. CASE oHist' = oHist
      BY <3>1, HistSame, Zenon
    <3>2. CASE oHist' # oHist
      <4>1. /\ StopRequestedFor(oProc[p].pid, oProc[p].id)
            /\ oHist' = [oHist EXCEPT !.obeyed = @ \cup {<<p, oFile.stop.inst>>}]
        BY <1>4, <3>2, Zenon DEF BecomesReady
      <4>2. QED BY <4>1, ObeysItsOwn, Zenon
    <3>3. QED BY <3>1, <3>2, Zenon
  <2>5. QED BY <2>2, <2>3, <2>4, KeptStep, Zenon
<1>5. CASE ObeysStop(p)
  <2>1. ProcsKept
    BY <1>5, MovesKeep, Zenon DEF ObeysStop, Living, At
  <2>2. HistKept
    <3>1. CASE oHist' = oHist
      BY <3>1, HistSame
    <3>2. CASE oHist' # oHist
      <4>1. /\ StopRequestedFor(oProc[p].pid, oProc[p].id)
            /\ oHist' = [oHist EXCEPT !.obeyed = @ \cup {<<p, oFile.stop.inst>>}]
        BY <1>5, <3>2, Zenon DEF ObeysStop
      <4>2. QED BY <4>1, ObeysItsOwn, Zenon
    <3>3. QED BY <3>1, <3>2
  <2>3. QED BY <1>5, <2>1, <2>2, FileSame, KeptStep, Zenon DEF ObeysStop
<1>6. CASE ClearsReady(p)
  <2>1. ProcsKept /\ HistKept
    BY <1>6, MovesKeep, HistSame, Zenon DEF ClearsReady, Living, At
  <2>2. oFile' = oFile \/ oFile' = [oFile EXCEPT !.ready = 0]
    BY <1>6, Zenon DEF ClearsReady, ReadyCleared
  <2>3. FileKept
    <3>1. CASE oFile' = oFile
      BY <3>1, FileSame
    <3>2. CASE oFile' = [oFile EXCEPT !.ready = 0]
      BY <3>2, ReadyEdit, Zenon
    <3>3. QED BY <2>2, <3>1, <3>2
  <2>4. QED BY <2>1, <2>3, KeptStep, Zenon
<1>7. CASE ClearsStop(p)
  <2>1. ProcsKept /\ HistKept
    BY <1>7, MovesKeep, HistSame, Zenon DEF ClearsStop, Living, At
  <2>2. QED BY <1>7, <2>1, StopClearedEdit, KeptStep, Zenon DEF ClearsStop
<1>8. CASE ClearsPid(p)
  <2>1. ProcsKept /\ HistKept
    BY <1>8, MovesKeep, HistSame, Zenon DEF ClearsPid, Living, At
  <2>2. QED BY <1>8, <2>1, PidEdit, KeptStep, Zenon DEF ClearsPid
<1>9. CASE Killed(p)
  <2>1. ProcsKept
    BY <1>9, MovesKeep DEF Killed
  <2>2. oHist' = [oHist EXCEPT !.kills = oHist.kills + 1] /\ oFile' = oFile
    BY <1>9 DEF Killed
  <2>3. HistKept
    BY <2>2, HistEdit, Zenon
  <2>4. QED BY <2>1, <2>2, <2>3, FileSame, KeptStep
<1>10. QED BY <1>1, <1>2, <1>3, <1>4, <1>5, <1>6, <1>7, <1>8, <1>9, Zenon

\* A new process: its pid is nobody's, and nobody knows it by name.
LEMMA StartKeeps == ASSUME OwnInv, NEW p \in Procs, ProcessStarts(p) PROVE OwnInv'
<1>1. PICK pid \in Pids : /\ Inspected(pid) = {}
                          /\ oProc' = [oProc EXCEPT ![p] = [NoProc EXCEPT !.at = "check", !.pid = pid]]
  BY Zenon DEF ProcessStarts
<1>2. PICK q : q = [NoProc EXCEPT !.at = "check", !.pid = pid]
  OBVIOUS
<1>3. oProc[p] = NoProc /\ oFile' = oFile /\ oHist' = oHist
  BY DEF ProcessStarts
<1>4. PICK told : told = FALSE
  BY Zenon
<1>5. q = Proc("check", pid, 0, told)
  BY <1>2, <1>4, Zenon DEF NoProc, Proc
<1>6. ProcOf(q) /\ q.at = "check" /\ q.pid = pid /\ q.id = 0
  BY <1>5, ProcFields
<1>7. oProc[p].at = "none"
  BY <1>3 DEF NoProc
<1>8. oProc' = [oProc EXCEPT ![p] = q]
  BY <1>1, <1>2, Zenon
<1>9. oProc'[p] = q /\ \A x \in Procs \ {p} : oProc'[x] = oProc[x]
  BY <1>8, Zenon DEF OwnInv, OwnShape
<1>10. OwnShape'
  BY <1>3, <1>6, <1>8, <1>9 DEF OwnInv, OwnShape
<1>11. \A x, y \in Procs : Living(x)' /\ Living(y)' /\ x # y => oProc'[x].pid # oProc'[y].pid
  BY <1>1, <1>6, <1>9 DEF OwnInv, Living, Inspected
<1>12. oFile'.ident # 0 => oFile'.ident \in Procs /\ oProc'[oFile'.ident].at # "none"
  BY <1>3, <1>6, <1>9, Zenon DEF OwnInv
<1>13. \A x \in Procs : At(x, "capture")' /\ oFile'.ident # 0 => Stranger(x, oFile.ident)'
  BY <1>3, <1>6, <1>7, <1>9, Zenon DEF OwnInv, At, Stranger
<1>14. \A x \in Procs : oProc'[x].id # 0 => Stranger(x, oProc[x].id)'
  BY <1>6, <1>7, <1>9 DEF OwnInv, Stranger
<1>15. StopReachesItsTarget'
  BY <1>3, Zenon DEF OwnInv, StopReachesItsTarget
<1>16. QED BY <1>10, <1>11, <1>12, <1>13, <1>14, <1>15, Zenon DEF OwnInv

\* write_daemon_pid: whoever is about to read the identity back is alive, as the publisher is.
LEMMA PublishKeeps == ASSUME OwnInv, NEW p \in Procs, WriteDaemonPid(p) PROVE OwnInv'
<1>1. PICK q : q = [oProc[p] EXCEPT !.at = "capture"]
  BY Zenon
<1>2. oProc' = [oProc EXCEPT ![p] = q] /\ oProc[p].at = "publish"
  BY <1>1 DEF WriteDaemonPid, Moves, At
<1>3. ProcOf(oProc[p])
  BY DEF OwnInv, OwnShape
<1>4. q = Proc("capture", oProc[p].pid, oProc[p].id, oProc[p].told)
  BY <1>1, <1>3 DEF ProcOf, Proc
<1>5. ProcOf(q) /\ q.at = "capture" /\ q.pid = oProc[p].pid /\ q.id = oProc[p].id
  BY <1>4, ProcFields
<1>6. oProc'[p] = q /\ \A x \in Procs \ {p} : oProc'[x] = oProc[x]
  BY <1>2 DEF OwnInv, OwnShape
<1>7. oFile' = Markers(oProc[p].pid, p, oFile.ready, oFile.stop)
  BY Zenon DEF WriteDaemonPid, OwnInv, OwnShape, Markers
<1>8. oFile' = Markers(oFile'.pid, oFile'.ident, oFile'.ready, oFile'.stop) /\ oFile'.ident = p
  BY <1>7, MarkerFields
<1>9. PICK v : oHist' = [oHist EXCEPT !.over = v]
  BY Zenon DEF WriteDaemonPid
<1>10. HistKept
  BY <1>9, HistEdit, Zenon
<1>11. OwnShape'
  BY <1>2, <1>5, <1>6, <1>8, <1>10 DEF OwnInv, OwnShape, HistKept
<1>12. \A x, y \in Procs : Living(x)' /\ Living(y)' /\ x # y => oProc'[x].pid # oProc'[y].pid
  BY <1>2, <1>5, <1>6 DEF OwnInv, Living
<1>13. oFile'.ident \in Procs /\ oProc'[oFile'.ident].at # "none"
  BY <1>5, <1>6, <1>8
<1>14. \A x \in Procs : At(x, "capture")' => Stranger(x, oFile.ident)'
  BY <1>5, <1>6, <1>8, <1>12 DEF At, Stranger, Living
<1>15. \A x \in Procs : oProc'[x].id # 0 => Stranger(x, oProc[x].id)'
  BY <1>5, <1>6 DEF OwnInv, Stranger
<1>16. StopReachesItsTarget'
  BY <1>10, Zenon DEF OwnInv, HistKept, StopReachesItsTarget
<1>17. QED BY <1>11, <1>12, <1>13, <1>14, <1>15, <1>16 DEF OwnInv

\* The identity read back is a stranger's, the process's own, or nobody's.
LEMMA CaptureKeeps == ASSUME OwnInv, NEW p \in Procs, CaptureIdentity(p) PROVE OwnInv'
<1>1. PICK q : q = [oProc[p] EXCEPT !.id = oFile.ident, !.at = "start"]
  OBVIOUS
<1>2. oProc' = [oProc EXCEPT ![p] = q] /\ oProc[p].at = "capture" /\ oFile' = oFile /\ oHist' = oHist
  BY <1>1, Zenon DEF CaptureIdentity, At
<1>3. ProcOf(oProc[p])
  BY DEF OwnInv, OwnShape
<1>4. q = Proc("start", oProc[p].pid, oFile.ident, oProc[p].told)
  BY <1>1, <1>3, Zenon DEF ProcOf, Proc
<1>5. ProcOf(q) /\ q.at = "start" /\ q.pid = oProc[p].pid /\ q.id = oFile.ident
  BY <1>4, ProcFields
<1>6. oProc'[p] = q /\ \A x \in Procs \ {p} : oProc'[x] = oProc[x]
  BY <1>2, Zenon DEF OwnInv, OwnShape
<1>7. \A x \in Procs : oProc'[x].pid = oProc[x].pid /\ (oProc[x].at # "none" => oProc'[x].at # "none")
  BY <1>5, <1>6, Zenon
<1>8. OwnShape'
  BY <1>2, <1>5, <1>6, Zenon DEF OwnInv, OwnShape
<1>9. \A x, y \in Procs : Living(x)' /\ Living(y)' /\ x # y => oProc'[x].pid # oProc'[y].pid
  BY <1>2, <1>5, <1>6 DEF OwnInv, Living
<1>10. oFile'.ident # 0 => oFile'.ident \in Procs /\ oProc'[oFile'.ident].at # "none"
  BY <1>2, <1>7, Zenon DEF OwnInv
<1>11. \A x \in Procs : At(x, "capture")' /\ oFile'.ident # 0 => Stranger(x, oFile.ident)'
  BY <1>2, <1>5, <1>6, <1>7 DEF OwnInv, At, Stranger
<1>12. \A x \in Procs : oProc'[x].id # 0 => Stranger(x, oProc[x].id)'
  BY <1>2, <1>5, <1>6, <1>7 DEF OwnInv, At, Stranger
<1>13. StopReachesItsTarget'
  BY <1>2 DEF OwnInv, StopReachesItsTarget
<1>14. QED BY <1>8, <1>9, <1>10, <1>11, <1>12, <1>13 DEF OwnInv

\* The `stop` command touches the markers only.
LEMMA CommandKeeps == OwnInv /\ StopCommand => OwnInv'
<1> SUFFICES ASSUME OwnInv, StopCommand PROVE OwnInv'
  BY Zenon
<1>1. oProc' = oProc
  BY Zenon DEF StopCommand, StopReadsPid, StopReadsIdentity, StopRequests, StopClearsPid, WriteStopRequest,
         StopSeesEnd, StopGivesUp
<1>2. ProcsKept
  BY <1>1 DEF OwnInv, OwnShape, ProcsKept
<1>3. CASE StopReadsPid
  <2>1. oHist' = [oHist EXCEPT !.stops = oHist.stops + 1] /\ oFile' = oFile
    BY <1>3 DEF StopReadsPid
  <2>2. HistKept
    BY <2>1, HistEdit, Zenon
  <2>3. QED BY <1>2, <2>1, <2>2, FileSame, KeptStep
<1>4. CASE StopReadsIdentity \/ StopRequests \/ StopGivesUp
  BY <1>2, <1>4, FileSame, HistSame, KeptStep DEF StopReadsIdentity, StopRequests, StopGivesUp
<1>5. CASE StopClearsPid
  BY <1>2, <1>5, PidEdit, HistSame, KeptStep DEF StopClearsPid
<1>6. CASE WriteStopRequest
  <2>1. PICK v : oFile' = [oFile EXCEPT !.stop = v]
    BY <1>6, Zenon DEF WriteStopRequest
  <2>2. FileKept
    BY <2>1, StopEdit, Zenon
  <2>3. QED BY <1>2, <1>6, <2>2, HistSame, KeptStep DEF WriteStopRequest
<1>7. CASE StopSeesEnd
  BY <1>2, <1>7, StopClearedEdit, HistSame, KeptStep DEF StopSeesEnd
<1>8. QED BY <1>3, <1>4, <1>5, <1>6, <1>7 DEF StopCommand

\* The invariant is inductive.
LEMMA OwnershipInvariant == OwnSpec => []OwnInv
<1>1. OInitial => OwnInv
  <2> SUFFICES ASSUME OInitial PROVE OwnInv
    OBVIOUS
  <2>1. PICK told : told = FALSE
    BY Zenon
  <2>2. \A p \in Procs : oProc[p] = Proc("none", 0, 0, told)
    BY <2>1, Zenon DEF OInitial, NoProc, Proc
  <2>3. \A p \in Procs : ProcOf(oProc[p]) /\ oProc[p].at = "none" /\ oProc[p].id = 0
    BY <2>2, ProcFields
  <2>4. oFile = Markers(0, 0, 0, NoStopFile)
    BY DEF OInitial, Markers
  <2>5. oFile = Markers(oFile.pid, oFile.ident, oFile.ready, oFile.stop) /\ oFile.ident = 0
    BY <2>4, MarkerFields
  <2>6. oHist = History(0, 0, {}, {})
    BY DEF OInitial, History
  <2>7. oHist = History(oHist.stops, oHist.kills, oHist.obeyed, oHist.over) /\ oHist.obeyed = {}
    BY <2>6, HistoryFields
  <2>8. OwnShape
    BY <2>3, <2>5, <2>7 DEF OInitial, OwnShape
  <2>9. QED BY <2>3, <2>5, <2>7, <2>8 DEF OwnInv, Living, At, StopReachesItsTarget
<1>2. OwnInv /\ [OwnNext]_oVars => OwnInv'
  <2> SUFFICES ASSUME OwnInv, [OwnNext]_oVars PROVE OwnInv'
    OBVIOUS
  <2>1. CASE UNCHANGED oVars
    <3>1. oProc' = oProc /\ oFile' = oFile /\ oHist' = oHist
      BY <2>1, Zenon DEF oVars
    <3>2. ProcsKept
      BY <3>1, Zenon DEF OwnInv, OwnShape, ProcsKept
    <3>3. QED BY <3>1, <3>2, FileSame, HistSame, KeptStep
  <2>2. ASSUME NEW p \in Procs, ProcessStarts(p) \/ RunDaemon(p) \/ Signalled(p) \/ Killed(p) PROVE OwnInv'
    <3>1. CASE ProcessStarts(p)
      BY <3>1, StartKeeps
    <3>2. CASE WriteDaemonPid(p)
      BY <3>2, PublishKeeps
    <3>3. CASE CaptureIdentity(p)
      BY <3>3, CaptureKeeps
    <3>4. CASE Signalled(p)
      BY <3>4, SignalKeeps
    <3>5. QED BY <2>2, <3>1, <3>2, <3>3, <3>4, RunKeeps DEF RunDaemon
  <2>3. QED BY <2>1, <2>2, CommandKeeps DEF OwnNext
<1>3. QED BY <1>1, <1>2, PTL DEF OwnSpec

\* However pids are reused, and whatever starts, kills and `stop` commands overlap: a daemon
\* that stops because of the sentinel file is the instance the request was written for
\* (stop_requested_for).
THEOREM StopReachesTheNamedDaemon == OwnSpec => []StopReachesItsTarget
<1>1. OwnInv => StopReachesItsTarget
  BY Zenon DEF OwnInv
<1>2. QED BY <1>1, OwnershipInvariant, PTL

-----------------------------------------------------------------------------
(* The signed requests *)

Request(pc, key, sess, trust, again, from) ==
    [pc |-> pc, key |-> key, sess |-> sess, trust |-> trust, again |-> again, from |-> from]
RequestOf(q) == q = Request(q.pc, q.key, q.sess, q.trust, q.again, q.from)

\* A request the server has executed is over, or its caller is being told that it broke.
Over == {"done", "failing", "failed"}

HttpInv ==
    /\ hcReq = [r \in DOMAIN hcReq |-> hcReq[r]] /\ hcRuns = [r \in DOMAIN hcReq |-> hcRuns[r]]
    /\ \A r \in DOMAIN hcReq : RequestOf(hcReq[r])
    /\ \A r \in DOMAIN hcReq : hcRuns[r] = 0 \/ (hcRuns[r] = 1 /\ hcReq[r].pc \in Over)

\* Fields of a request.
LEMMA RequestFields ==
    ASSUME NEW q, NEW pc, NEW key, NEW sess, NEW trust, NEW again, NEW from,
           q = Request(pc, key, sess, trust, again, from)
    PROVE  RequestOf(q) /\ q.pc = pc
BY DEF Request, RequestOf

\* One request moves, and is executed only on the wire and only to end there.
LEMMA RequestStep ==
    ASSUME HttpInv, NEW r \in HcReqs, NEW q, RequestOf(q), hcReq' = [hcReq EXCEPT ![r] = q],
           hcReq[r].pc \in Over => q.pc \in Over,
           \/ hcRuns' = hcRuns
           \/ hcRuns' = [hcRuns EXCEPT ![r] = @ + 1] /\ hcReq[r].pc = "wire" /\ q.pc \in Over
    PROVE  HttpInv'
<1>1. DOMAIN hcReq' = DOMAIN hcReq /\ hcReq'[r] = q /\ \A x \in HcReqs \ {r} : hcReq'[x] = hcReq[x]
  BY DEF HttpInv, HcReqs
<1>2. hcReq' = [x \in DOMAIN hcReq' |-> hcReq'[x]] /\ \A x \in DOMAIN hcReq' : RequestOf(hcReq'[x])
  BY <1>1, Zenon DEF HttpInv, HcReqs
<1>3. CASE hcRuns' = hcRuns
  BY <1>1, <1>2, <1>3 DEF HttpInv, HcReqs
<1>4. CASE hcRuns' = [hcRuns EXCEPT ![r] = @ + 1] /\ hcReq[r].pc = "wire" /\ q.pc \in Over
  <2>1. hcRuns[r] = 0
    BY <1>4 DEF HttpInv, HcReqs, Over
  <2>2. hcRuns' = [x \in DOMAIN hcReq' |-> hcRuns'[x]] /\ hcRuns'[r] = 1
        /\ \A x \in HcReqs \ {r} : hcRuns'[x] = hcRuns[x]
    BY <1>1, <1>4, <2>1 DEF HttpInv, HcReqs
  <2>3. QED BY <1>1, <1>2, <1>4, <2>2 DEF HttpInv, HcReqs
<1>5. QED BY <1>3, <1>4, Zenon

\* A request moves to another step, or ends.
LEMMA StepOf ==
    ASSUME HttpInv, NEW r \in HcReqs, NEW pc, HcStep(r, pc)
    PROVE  \E q : RequestOf(q) /\ q.pc = pc /\ hcReq' = [hcReq EXCEPT ![r] = q]
<1>1. PICK q : q = [hcReq[r] EXCEPT !.pc = pc]
  BY Zenon
<1>2. q = Request(pc, hcReq[r].key, hcReq[r].sess, hcReq[r].trust, hcReq[r].again, hcReq[r].from)
  BY <1>1 DEF HttpInv, HcReqs, RequestOf, Request
<1>3. RequestOf(q) /\ q.pc = pc
  BY <1>2, RequestFields
<1>4. hcReq' = [hcReq EXCEPT ![r] = q]
  BY <1>1 DEF HcStep
<1>5. QED BY <1>3, <1>4, Zenon

\* A request ends.
LEMMA EndOf ==
    ASSUME HttpInv, NEW r \in HcReqs, NEW how, HcEnds(r, how)
    PROVE  \E q : RequestOf(q) /\ q.pc = how /\ hcReq' = [hcReq EXCEPT ![r] = q]
<1>1. PICK q : q = [HcIdle EXCEPT !.pc = how, !.again = hcReq[r].again]
  OBVIOUS
<1>2. q = Request(how, 0, 0, 0, hcReq[r].again, "none")
  BY <1>1, Zenon DEF HcIdle, Request
<1>3. RequestOf(q) /\ q.pc = how
  BY <1>2, RequestFields
<1>4. hcReq' = [hcReq EXCEPT ![r] = q]
  BY <1>1 DEF HcEnds
<1>5. QED BY <1>3, <1>4, Zenon

\* close() on the way to another step.
LEMMA CloseOf ==
    ASSUME HttpInv, NEW r \in HcReqs, NEW pc, DetachSession(r, pc)
    PROVE  \E q : RequestOf(q) /\ q.pc = pc /\ hcReq' = [hcReq EXCEPT ![r] = q]
<1>0. PICK sess : sess = hcSess[r.client].id
  OBVIOUS
<1>1. PICK q : q = [hcReq[r] EXCEPT !.pc = pc, !.sess = sess]
  OBVIOUS
<1>2. q = Request(pc, hcReq[r].key, sess, hcReq[r].trust, hcReq[r].again, hcReq[r].from)
  <2>1. RequestOf(hcReq[r])
    BY DEF HttpInv, HcReqs
  <2>2. QED BY <1>1, <2>1, Zenon DEF RequestOf, Request
<1>3. RequestOf(q) /\ q.pc = pc
  BY <1>2, RequestFields
<1>4. hcReq' = [hcReq EXCEPT ![r] = q]
  BY <1>0, <1>1, Zenon DEF DetachSession
<1>5. QED BY <1>3, <1>4, Zenon

\* Every step of a request keeps the invariant.
LEMMA RequestSteps ==
    ASSUME HttpInv, NEW r \in HcReqs,
           \/ EnsureSubkey(r) \/ UnlinkExpired(r) \/ RotateSubkey(r) \/ SaveSession(r) \/ LoadSigningKey(r)
           \/ ProbeDefaultExecutor(r) \/ CloseSession(r) \/ SessionClosed(r) \/ GetSession(r)
           \/ RotationAnswered(r) \/ RequestAnswered(r) \/ AttemptBreaks(r) \/ AttemptLost(r)
    PROVE  HttpInv'
<1>0. RequestOf(hcReq[r])
  BY DEF HttpInv, HcReqs
<1>1. CASE EnsureSubkey(r)
  <2>1. PICK pc : HcStep(r, pc) /\ hcRuns' = hcRuns /\ hcReq[r].pc = "idle"
    BY <1>1, Zenon DEF EnsureSubkey
  <2>2. QED BY <2>1, StepOf, RequestStep DEF Over
<1>2. CASE UnlinkExpired(r)
  <2>1. HcStep(r, "rotate") /\ hcRuns' = hcRuns /\ hcReq[r].pc = "unlink"
    BY <1>2, Zenon DEF UnlinkExpired
  <2>2. QED BY <2>1, StepOf, RequestStep, Zenon DEF Over
<1>3. CASE RotateSubkey(r)
  <2>1. PICK key : /\ hcReq' = [hcReq EXCEPT ![r].pc = "probe", ![r].from = "rotate", ![r].key = key]
                   /\ hcRuns' = hcRuns /\ hcReq[r].pc = "rotate"
    BY <1>3, Zenon DEF RotateSubkey
  <2>2. PICK q : q = [hcReq[r] EXCEPT !.pc = "probe", !.from = "rotate", !.key = key]
    OBVIOUS
  <2>3. hcReq' = [hcReq EXCEPT ![r] = q]
    BY <2>1, <2>2, Zenon
  <2>4. q = Request("probe", key, hcReq[r].sess, hcReq[r].trust, hcReq[r].again, "rotate")
    BY <1>0, <2>2, Zenon DEF RequestOf, Request
  <2>5. QED BY <2>1, <2>3, <2>4, RequestFields, RequestStep, Zenon DEF Over
<1>4. CASE SaveSession(r)
  <2>1. HcStep(r, "send") /\ hcRuns' = hcRuns /\ hcReq[r].pc = "save"
    BY <1>4 DEF SaveSession
  <2>2. QED BY <2>1, StepOf, RequestStep DEF Over
<1>5. CASE LoadSigningKey(r)
  <2>1. hcRuns' = hcRuns /\ hcReq[r].pc = "send"
    BY <1>5, Zenon DEF LoadSigningKey
  <2>2. CASE HcEnds(r, "nokey")
    BY <2>1, <2>2, EndOf, RequestStep, Zenon DEF Over
  <2>3. CASE ~HcEnds(r, "nokey")
    <3>1. PICK key : hcReq' = [hcReq EXCEPT ![r].pc = "probe", ![r].from = "send", ![r].key = key]
      BY <1>5, <2>3 DEF LoadSigningKey
    <3>2. PICK q : q = [hcReq[r] EXCEPT !.pc = "probe", !.from = "send", !.key = key]
      OBVIOUS
    <3>3. hcReq' = [hcReq EXCEPT ![r] = q]
      BY <3>1, <3>2, Zenon
    <3>4. q = Request("probe", key, hcReq[r].sess, hcReq[r].trust, hcReq[r].again, "send")
      BY <1>0, <3>2, Zenon DEF RequestOf, Request
    <3>5. QED BY <2>1, <3>3, <3>4, RequestFields, RequestStep, Zenon DEF Over
  <2>4. QED BY <2>2, <2>3
<1>6. CASE ProbeDefaultExecutor(r)
  <2>1. PICK pc : HcStep(r, pc) /\ hcRuns' = hcRuns /\ hcReq[r].pc = "probe"
    BY <1>6 DEF ProbeDefaultExecutor
  <2>2. QED BY <2>1, StepOf, RequestStep DEF Over
<1>7. CASE CloseSession(r)
  <2>1. DetachSession(r, "closing") /\ hcRuns' = hcRuns /\ hcReq[r].pc = "close"
    BY <1>7, Zenon DEF CloseSession
  <2>2. QED BY <2>1, CloseOf, RequestStep DEF Over
<1>8. CASE SessionClosed(r)
  <2>1. hcRuns' = hcRuns
    BY <1>8, Zenon DEF SessionClosed
  <2>2. CASE hcReq[r].pc = "closing"
    <3>1. HcStep(r, "session")
      BY <1>8, <2>2, Zenon DEF SessionClosed
    <3>2. QED BY <2>1, <2>2, <3>1, StepOf, RequestStep DEF Over
  <2>3. CASE hcReq[r].pc # "closing"
    <3>1. HcEnds(r, "failed")
      BY <1>8, <2>3 DEF SessionClosed
    <3>2. QED BY <2>1, <3>1, EndOf, RequestStep, Zenon DEF Over
  <2>4. QED BY <2>2, <2>3, Zenon
<1>9. CASE GetSession(r)
  <2>1. hcRuns' = hcRuns /\ hcReq[r].pc = "session"
    BY <1>9, Zenon DEF GetSession
  <2>2. CASE DetachSession(r, "closing")
    BY <2>1, <2>2, CloseOf, RequestStep, Zenon DEF Over
  <2>3. CASE ~DetachSession(r, "closing")
    <3>1. PICK sess : hcReq' = [hcReq EXCEPT ![r].pc = "wire", ![r].sess = sess, ![r].trust = hcTrust]
      BY <1>9, <2>3, Zenon DEF GetSession
    <3>2. PICK q : q = [hcReq[r] EXCEPT !.pc = "wire", !.sess = sess, !.trust = hcTrust]
      OBVIOUS
    <3>3. hcReq' = [hcReq EXCEPT ![r] = q]
      BY <3>1, <3>2, Zenon
    <3>4. q = Request("wire", hcReq[r].key, sess, hcTrust, hcReq[r].again, hcReq[r].from)
      BY <1>0, <3>2, Zenon DEF RequestOf, Request
    <3>5. QED BY <2>1, <3>3, <3>4, RequestFields, RequestStep, Zenon DEF Over
  <2>4. QED BY <2>2, <2>3, Zenon
<1>10. CASE RotationAnswered(r)
  <2>1. hcRuns' = hcRuns /\ hcReq[r].pc = "wire"
    BY <1>10, Zenon DEF RotationAnswered
  <2>2. HcStep(r, "save") \/ HcEnds(r, "failed")
    BY <1>10, Zenon DEF RotationAnswered
  <2>3. QED BY <2>1, <2>2, StepOf, EndOf, RequestStep DEF Over
<1>11. CASE RequestAnswered(r)
  <2>1. hcReq[r].pc = "wire"
    BY <1>11, Zenon DEF RequestAnswered
  <2>2. CASE hcRuns' = [hcRuns EXCEPT ![r] = @ + 1] /\ HcEnds(r, "done")
    BY <2>1, <2>2, EndOf, RequestStep, Zenon DEF Over
  <2>3. CASE hcRuns' = hcRuns /\ HcEnds(r, "401")
    BY <2>1, <2>3, EndOf, RequestStep DEF Over
  <2>4. CASE /\ hcRuns' = hcRuns
             /\ hcReq' = [hcReq EXCEPT ![r] = [HcIdle EXCEPT !.pc = "rotate", !.again = TRUE]]
    <3>1. PICK again : again = TRUE
      OBVIOUS
    <3>2. PICK q : q = [HcIdle EXCEPT !.pc = "rotate", !.again = again]
      OBVIOUS
    <3>3. hcReq' = [hcReq EXCEPT ![r] = q]
      BY <2>4, <3>1, <3>2
    <3>4. q = Request("rotate", 0, 0, 0, again, "none")
      BY <3>2, Zenon DEF HcIdle, Request
    <3>5. QED BY <2>1, <2>4, <3>3, <3>4, RequestFields, RequestStep, Zenon DEF Over
  <2>5. QED BY <1>11, <2>2, <2>3, <2>4, Zenon DEF RequestAnswered
<1>12. CASE AttemptBreaks(r)
  <2>1. hcReq[r].pc = "wire" /\ DetachSession(r, "failing")
    BY <1>12 DEF AttemptBreaks, RaisesError
  <2>2. hcRuns' = hcRuns \/ hcRuns' = [hcRuns EXCEPT ![r] = @ + 1]
    BY <1>12 DEF AttemptBreaks
  <2>3. QED BY <2>1, <2>2, CloseOf, RequestStep DEF Over
<1>13. CASE AttemptLost(r)
  <2>1. hcRuns' = hcRuns /\ hcReq[r].pc = "wire" /\ HcEnds(r, "failed")
    BY <1>13 DEF AttemptLost
  <2>2. QED BY <2>1, EndOf, RequestStep DEF Over
<1>14. QED
  BY <1>1, <1>2, <1>3, <1>4, <1>5, <1>6, <1>7, <1>8, <1>9, <1>10, <1>11, <1>12, <1>13

\* Whatever breaks under it, and however its subkey, its session and its executor are
\* shared and replaced: the server executes a signed request at most once (_HealedRequest).
THEOREM RequestExecutedOnce == HcSpec => []NeverReplayed
<1>1. HcInit => HttpInv
  <2> SUFFICES ASSUME HcInit PROVE HttpInv
    OBVIOUS
  <2>1. PICK scene \in HcScenes : hcReq = [r \in scene |-> HcIdle] /\ hcRuns = [r \in scene |-> 0]
    BY DEF HcInit
  <2>2. PICK again : again = FALSE
    BY Zenon
  <2>3. HcIdle = Request("idle", 0, 0, 0, again, "none")
    BY <2>2, Zenon DEF HcIdle, Request
  <2>4. RequestOf(HcIdle)
    BY <2>3, RequestFields
  <2>5. QED BY <2>1, <2>4 DEF HttpInv
<1>2. HttpInv /\ [HcNext]_hcVars => HttpInv'
  <2> SUFFICES ASSUME HttpInv, [HcNext]_hcVars PROVE HttpInv'
    OBVIOUS
  <2>1. CASE hcReq' = hcReq /\ hcRuns' = hcRuns
    BY <2>1 DEF HttpInv
  <2>2. CASE \E c \in HcClients : ExecutorDies(c)
    BY <2>1, <2>2, Zenon DEF ExecutorDies
  <2>3. CASE SandboxMoves \/ SubkeyEnds
    BY <2>1, <2>3, Zenon DEF SandboxMoves, SubkeyEnds
  <2>4. CASE UNCHANGED hcVars
    BY <2>1, <2>4, Zenon DEF hcVars
  <2>5. CASE \E r \in HcReqs :
               \/ EnsureSubkey(r) \/ UnlinkExpired(r) \/ RotateSubkey(r) \/ SaveSession(r) \/ LoadSigningKey(r)
               \/ ProbeDefaultExecutor(r) \/ CloseSession(r) \/ SessionClosed(r) \/ GetSession(r)
               \/ RotationAnswered(r) \/ RequestAnswered(r) \/ AttemptBreaks(r) \/ AttemptLost(r)
    BY <2>5, RequestSteps
  <2>6. QED BY <2>2, <2>3, <2>4, <2>5, Zenon DEF HcNext
<1>3. HttpInv => NeverReplayed
  BY DEF HttpInv, NeverReplayed, HcReqs
<1>4. QED BY <1>1, <1>2, <1>3, PTL DEF HcSpec

-----------------------------------------------------------------------------
\* The authority server.

EP(lease, sock, thread, op, child) ==
    [lease |-> lease, sock |-> sock, thread |-> thread, op |-> op, kid |-> child]
RecordOf(r) == r = EP(r.lease, r.sock, r.thread, r.op, r.kid) /\ r.kid \in Derived \cup {"none"}

Records == ep = [e \in Endpoints |-> ep[e]] /\ \A e \in Endpoints : RecordOf(ep[e])

AuthorityInv == Records /\ NothingSurvivesClose /\ NoGrantAfterClose

\* Only IssueDerived gives a record a socket, and only while the server is open.
NoNewSocket == \A e \in Endpoints : ep'[e].sock => ep[e].sock \/ aut = "open"

\* A record given by its fields.
LEMMA RecordFields ==
    ASSUME NEW q, NEW l, NEW s, NEW t, NEW o, NEW k \in Derived \cup {"none"},
           q = EP(l, s, t, o, k)
    PROVE  RecordOf(q) /\ q.sock = s
BY DEF RecordOf, EP

\* One record changes.
LEMMA OneRecord ==
    ASSUME Records, NEW e \in Endpoints, NEW q, RecordOf(q), q.sock => ep[e].sock,
           ep' = [ep EXCEPT ![e] = q]
    PROVE  Records' /\ NoNewSocket
<1>1. \A x \in Endpoints : ep'[x] = IF x = e THEN q ELSE ep[x]
  BY Zenon DEF Records
<1>2. QED BY <1>1 DEF Records, NoNewSocket

\* _handle_request
LEMMA ReceiveMoves ==
    ASSUME Records, NEW e \in Endpoints, AuthorityReceive(e) PROVE Records' /\ NoNewSocket
<1>0. RecordOf(ep[e])
  BY DEF Records
<1>1. CASE \E l : ep' = [ep EXCEPT ![e] = [ep[e] EXCEPT !.lease = l, !.thread = "answer",
                                                       !.op = "hello"]]
  <2>1. PICK l : ep' = [ep EXCEPT ![e] = [ep[e] EXCEPT !.lease = l, !.thread = "answer",
                                                       !.op = "hello"]]
    BY <1>1, Zenon
  <2>2. PICK q : q = [ep[e] EXCEPT !.lease = l, !.thread = "answer", !.op = "hello"]
    BY Zenon
  <2>3. RecordOf(q) /\ q.sock = ep[e].sock
    <3>1. q = EP(l, ep[e].sock, "answer", "hello", ep[e].kid)
      BY <1>0, <2>2, Zenon DEF RecordOf, EP
    <3>2. QED BY <1>0, <3>1, RecordFields DEF RecordOf
  <2>4. QED BY <2>1, <2>2, <2>3, OneRecord, Zenon
<1>2. CASE \E t, o : ep' = [ep EXCEPT ![e] = [ep[e] EXCEPT !.thread = t, !.op = o]]
  <2>1. PICK t, o : ep' = [ep EXCEPT ![e] = [ep[e] EXCEPT !.thread = t, !.op = o]]
    BY <1>2, Zenon
  <2>2. PICK q : q = [ep[e] EXCEPT !.thread = t, !.op = o]
    BY Zenon
  <2>3. RecordOf(q) /\ q.sock = ep[e].sock
    <3>1. q = EP(ep[e].lease, ep[e].sock, t, o, ep[e].kid)
      BY <1>0, <2>2, Zenon DEF RecordOf, EP
    <3>2. QED BY <1>0, <3>1, RecordFields DEF RecordOf
  <2>4. QED BY <2>1, <2>2, <2>3, OneRecord, Zenon
<1>3. CASE ep' = [ep EXCEPT ![e] = [ep[e] EXCEPT !.thread = "issue"]]
  <2>1. PICK q : q = [ep[e] EXCEPT !.thread = "issue"]
    BY Zenon
  <2>2. RecordOf(q) /\ q.sock = ep[e].sock
    <3>1. q = EP(ep[e].lease, ep[e].sock, "issue", ep[e].op, ep[e].kid)
      BY <1>0, <2>1 DEF RecordOf, EP
    <3>2. QED BY <1>0, <3>1, RecordFields DEF RecordOf
  <2>3. QED BY <1>3, <2>1, <2>2, OneRecord, Zenon
<1>4. QED BY <1>1, <1>2, <1>3, Zenon DEF AuthorityReceive

\* _issue_endpoint, with the record it adds while the server is open
LEMMA IssueMoves == Records /\ IssueDerived => Records' /\ NoNewSocket
<1> SUFFICES ASSUME Records, IssueDerived PROVE Records' /\ NoNewSocket
  OBVIOUS
<1> DEFINE root == EndpointRoot
<1>0. RecordOf(ep[root])
  BY EndpointAssumption DEF Records
<1>1. CASE \E t, o : \/ ep' = [ep EXCEPT ![root] = [ep[root] EXCEPT !.thread = t, !.op = o]]
                     \/ ep' = [ep EXCEPT ![root] = [ep[root] EXCEPT !.thread = t]]
  <2>1. PICK t, o : \/ ep' = [ep EXCEPT ![root] = [ep[root] EXCEPT !.thread = t, !.op = o]]
                    \/ ep' = [ep EXCEPT ![root] = [ep[root] EXCEPT !.thread = t]]
    BY <1>1, Zenon
  <2>2. PICK q : /\ ep' = [ep EXCEPT ![root] = q]
                 /\ \/ q = [ep[root] EXCEPT !.thread = t, !.op = o]
                    \/ q = [ep[root] EXCEPT !.thread = t]
    BY <2>1
  <2>3. RecordOf(q) /\ q.sock = ep[root].sock
    <3>1. CASE q = [ep[root] EXCEPT !.thread = t, !.op = o]
      <4>1. q = EP(ep[root].lease, ep[root].sock, t, o, ep[root].kid)
        BY <1>0, <3>1, Zenon DEF RecordOf, EP
      <4>2. QED BY <1>0, <4>1, RecordFields DEF RecordOf
    <3>2. CASE q = [ep[root] EXCEPT !.thread = t]
      <4>1. q = EP(ep[root].lease, ep[root].sock, t, ep[root].op, ep[root].kid)
        BY <1>0, <3>2 DEF RecordOf, EP
      <4>2. QED BY <1>0, <4>1, RecordFields DEF RecordOf
    <3>3. QED BY <2>2, <3>1, <3>2, Zenon
  <2>4. QED BY <2>2, <2>3, OneRecord, EndpointAssumption, Zenon
<1>2. CASE /\ aut = "open"
           /\ \E d \in Derived :
                 ep' = [ep EXCEPT ![d] = [NoEndpoint EXCEPT !.lease = "issued", !.sock = TRUE],
                                  ![root] = [ep[root] EXCEPT !.thread = "start", !.kid = d]]
  <2>1. PICK d \in Derived :
           ep' = [ep EXCEPT ![d] = [NoEndpoint EXCEPT !.lease = "issued", !.sock = TRUE],
                            ![root] = [ep[root] EXCEPT !.thread = "start", !.kid = d]]
    BY <1>2, Zenon
  <2>2. PICK n, q : /\ n = [NoEndpoint EXCEPT !.lease = "issued", !.sock = TRUE]
                    /\ q = [ep[root] EXCEPT !.thread = "start", !.kid = d]
    BY Zenon
  <2>3. RecordOf(n)
    <3>1. n = EP("issued", TRUE, "none", "none", "none")
      BY <2>2, Zenon DEF NoEndpoint, EP
    <3>2. QED BY <3>1 DEF RecordOf, EP
  <2>4. RecordOf(q)
    <3>1. q = EP(ep[root].lease, ep[root].sock, "start", ep[root].op, d)
      BY <1>0, <2>2, Zenon DEF RecordOf, EP
    <3>2. QED BY <3>1, RecordFields
  <2>5. ep' = [ep EXCEPT ![d] = n, ![root] = q]
    BY <2>1, <2>2
  <2>6. \A x \in Endpoints : ep'[x] = IF x = root THEN q ELSE IF x = d THEN n ELSE ep[x]
    BY <2>5, EndpointAssumption DEF Records, Derived
  <2>7. ep' = [x \in Endpoints |-> ep'[x]]
    BY <2>5, Zenon DEF Records
  <2>8. QED BY <1>2, <2>3, <2>4, <2>6, <2>7, Zenon DEF Records, NoNewSocket
<1>3. QED
  BY <1>1, <1>2, Zenon DEF IssueDerived, Issues

\* _start_record and _discard_endpoint
LEMMA StartMoves == Records /\ StartDerived => Records' /\ NoNewSocket
<1> SUFFICES ASSUME Records, StartDerived PROVE Records' /\ NoNewSocket
  OBVIOUS
<1> DEFINE root == EndpointRoot
           d == ep[EndpointRoot].kid
<1>0. RecordOf(ep[root])
  BY EndpointAssumption DEF Records
<1>1. PICK n, q : /\ ep' = [ep EXCEPT ![d] = n, ![root] = q]
                  /\ \/ n = [ep[d] EXCEPT !.thread = "read"]
                     \/ n = [NoEndpoint EXCEPT !.lease = "closed"]
                  /\ \/ q = [ep[root] EXCEPT !.thread = "answer", !.op = "granted"]
                     \/ q = [ep[root] EXCEPT !.thread = "answer", !.op = "denied", !.kid = "none"]
  BY DEF StartDerived
<1>2. RecordOf(q) /\ q.sock = ep[root].sock
  <2>1. CASE q = [ep[root] EXCEPT !.thread = "answer", !.op = "granted"]
    <3>1. q = EP(ep[root].lease, ep[root].sock, "answer", "granted", ep[root].kid)
      BY <1>0, <2>1, Zenon DEF RecordOf, EP
    <3>2. QED BY <1>0, <3>1, RecordFields DEF RecordOf
  <2>2. CASE q = [ep[root] EXCEPT !.thread = "answer", !.op = "denied", !.kid = "none"]
    <3>1. q = EP(ep[root].lease, ep[root].sock, "answer", "denied", "none")
      BY <1>0, <2>2, Zenon DEF RecordOf, EP
    <3>2. QED BY <3>1, RecordFields
  <2>3. QED BY <1>1, <2>1, <2>2
<1>3. d \in Endpoints => RecordOf(n) /\ (n.sock => ep[d].sock)
  <2>1. CASE n = [ep[d] EXCEPT !.thread = "read"]
    <3> SUFFICES ASSUME d \in Endpoints PROVE RecordOf(n) /\ n.sock = ep[d].sock
      OBVIOUS
    <3>1. PICK r : r = ep[d]
      OBVIOUS
    <3>2. RecordOf(r)
      BY <3>1 DEF Records
    <3>3. n = [r EXCEPT !.thread = "read"]
      BY <2>1, <3>1
    <3>4. n = EP(r.lease, r.sock, "read", r.op, r.kid)
      BY <3>2, <3>3, Zenon DEF RecordOf, EP
    <3>5. r.kid \in Derived \cup {"none"}
      BY <3>2, Zenon DEF RecordOf
    <3>6. RecordOf(n) /\ n.sock = r.sock
      BY <3>4, <3>5, RecordFields, Zenon
    <3>7. QED BY <3>1, <3>6
  <2>2. CASE n = [NoEndpoint EXCEPT !.lease = "closed"]
    <3>1. n = EP("closed", FALSE, "none", "none", "none")
      BY <2>2, Zenon DEF NoEndpoint, EP
    <3>2. QED BY <3>1 DEF RecordOf, EP
  <2>3. QED BY <1>1, <2>1, <2>2
<1>4. d # root /\ DOMAIN ep = Endpoints
  BY <1>0, EndpointAssumption DEF Records, RecordOf, Derived
<1>5. \A x \in Endpoints : ep'[x] = IF x = root THEN q ELSE IF x = d THEN n ELSE ep[x]
  BY <1>1, <1>4, EndpointAssumption
<1>6. ep' = [x \in Endpoints |-> ep'[x]]
  BY <1>1, <1>4, Zenon
<1>7. QED BY <1>2, <1>3, <1>5, <1>6 DEF Records, NoNewSocket

\* _send_frame and the end of _serve
LEMMA AnswerMoves ==
    ASSUME Records, NEW e \in Endpoints, Answer(e) \/ ReceiveFails(e) \/ ServeEnds(e)
    PROVE  Records' /\ NoNewSocket
<1>0. RecordOf(ep[e])
  BY DEF Records
<1>1. PICK q : /\ ep' = [ep EXCEPT ![e] = q]
               /\ \/ q = [ep[e] EXCEPT !.thread = "read", !.op = "none", !.kid = "none"]
                  \/ q = [ep[e] EXCEPT !.thread = "fail"]
                  \/ q = [NoEndpoint EXCEPT !.lease = "closed"]
  BY DEF Answer, ReceiveFails, ServeEnds
<1>2. RecordOf(q) /\ (q.sock => ep[e].sock)
  <2>1. CASE q = [NoEndpoint EXCEPT !.lease = "closed"]
    <3>1. q = EP("closed", FALSE, "none", "none", "none")
      BY <2>1, Zenon DEF NoEndpoint, EP
    <3>2. QED BY <3>1 DEF RecordOf, EP
  <2>2. CASE q = [ep[e] EXCEPT !.thread = "read", !.op = "none", !.kid = "none"]
    <3>1. q = EP(ep[e].lease, ep[e].sock, "read", "none", "none")
      BY <1>0, <2>2, Zenon DEF RecordOf, EP
    <3>2. QED BY <3>1, RecordFields
  <2>3. CASE q = [ep[e] EXCEPT !.thread = "fail"]
    <3>1. q = EP(ep[e].lease, ep[e].sock, "fail", ep[e].op, ep[e].kid)
      BY <1>0, <2>3 DEF RecordOf, EP
    <3>2. QED BY <1>0, <3>1, RecordFields DEF RecordOf
  <2>4. QED BY <1>1, <2>1, <2>2, <2>3
<1>3. QED BY <1>1, <1>2, OneRecord, Zenon

\* close, before and after the sockets are shut
LEMMA CloseMoves == Records /\ (CloseBegins \/ CloseReturns) => Records' /\ NoNewSocket
<1> SUFFICES ASSUME Records, CloseBegins \/ CloseReturns PROVE Records' /\ NoNewSocket
  OBVIOUS
<1>1. CASE CloseBegins
  <2>1. aut = "open" /\ ep' = [x \in Endpoints |-> IF ep[x].lease = "none" THEN ep[x]
                                                   ELSE [ep[x] EXCEPT !.lease = "closed"]]
    BY <1>1 DEF CloseBegins
  <2>2. ASSUME NEW x \in Endpoints PROVE RecordOf(ep'[x])
    <3>1. RecordOf(ep[x])
      BY DEF Records
    <3>2. CASE ep[x].lease = "none"
      BY <2>1, <3>1, <3>2
    <3>3. CASE ep[x].lease # "none"
      <4>1. PICK q : q = [ep[x] EXCEPT !.lease = "closed"]
        BY Zenon
      <4>2. q = EP("closed", ep[x].sock, ep[x].thread, ep[x].op, ep[x].kid)
        BY <3>1, <4>1 DEF RecordOf, EP
      <4>3. RecordOf(q)
        BY <3>1, <4>2, RecordFields DEF RecordOf
      <4>4. QED BY <2>1, <3>3, <4>1, <4>3
    <3>4. QED BY <3>2, <3>3
  <2>3. QED BY <2>1, <2>2 DEF Records, NoNewSocket
<1>2. CASE CloseReturns
  <2>1. ep' = [x \in Endpoints |-> [ep[x] EXCEPT !.sock = ShutDown(x)]]
    BY <1>2 DEF CloseReturns
  <2>2. ASSUME NEW x \in Endpoints PROVE RecordOf(ep'[x]) /\ ~ep'[x].sock
    <3>1. PICK q : q = [ep[x] EXCEPT !.sock = FALSE]
      BY Zenon
    <3>2. q = EP(ep[x].lease, FALSE, ep[x].thread, ep[x].op, ep[x].kid)
      <4>1. RecordOf(ep[x])
        BY DEF Records
      <4>2. QED BY <3>1, <4>1, Zenon DEF RecordOf, EP
    <3>3. ep'[x] = q
      BY <2>1, <3>1 DEF ShutDown
    <3>4. ep[x].kid \in Derived \cup {"none"}
      BY DEF Records, RecordOf
    <3>5. QED BY <3>2, <3>3, <3>4 DEF RecordOf, EP
  <2>3. QED BY <2>1, <2>2, Zenon DEF Records, NoNewSocket
<1>3. QED BY <1>1, <1>2

\* Every step of the server.
LEMMA AuthorityMoves == Records /\ AutNext => Records' /\ NoNewSocket
BY ReceiveMoves, IssueMoves, StartMoves, AnswerMoves, CloseMoves DEF AutNext

\* The invariant is inductive.
LEMMA AuthorityInvariant == AutSpec => []AuthorityInv
<1>1. AutInit => AuthorityInv
  <2> SUFFICES ASSUME AutInit PROVE AuthorityInv
    OBVIOUS
  <2>1. aut = "open" /\ granted = 0
    BY DEF AutInit
  <2>2. ep = [e \in Endpoints |-> IF e # EndpointRoot THEN NoEndpoint
               ELSE [NoEndpoint EXCEPT !.lease = "issued", !.sock = TRUE, !.thread = "read"]]
    BY DEF AutInit
  <2>3. ASSUME NEW e \in Endpoints PROVE RecordOf(ep[e])
    <3>1. CASE e # EndpointRoot
      <4>1. ep[e] = EP("none", FALSE, "none", "none", "none")
        BY <2>2, <3>1 DEF NoEndpoint, EP
      <4>2. QED BY <4>1, RecordFields, Zenon
    <3>2. CASE e = EndpointRoot
      <4>1. PICK q : q = [NoEndpoint EXCEPT !.lease = "issued", !.sock = TRUE, !.thread = "read"]
        OBVIOUS
      <4>2. q = EP("issued", TRUE, "read", "none", "none")
        BY <4>1, Zenon DEF NoEndpoint, EP
      <4>3. ep[e] = q
        BY <2>2, <3>2, <4>1
      <4>4. QED BY <4>2, <4>3, RecordFields, Zenon
    <3>3. QED BY <3>1, <3>2, Zenon
  <2>4. ep = [e \in Endpoints |-> ep[e]]
    BY <2>2
  <2>5. aut # "closed"
    BY <2>1
  <2>6. QED
    BY <2>1, <2>3, <2>4, <2>5 DEF AuthorityInv, Records, NothingSurvivesClose, NoGrantAfterClose
<1>2. AuthorityInv /\ [AutNext]_autVars => AuthorityInv'
  <2> SUFFICES ASSUME AuthorityInv, [AutNext]_autVars PROVE AuthorityInv'
    OBVIOUS
  <2>1. CASE UNCHANGED autVars
    BY <2>1 DEF autVars, AuthorityInv, Records, NothingSurvivesClose, NoGrantAfterClose
  <2>2. CASE AutNext
    <3>1. Records' /\ NoNewSocket
      BY <2>2, AuthorityMoves DEF AuthorityInv
    <3>2. CASE CloseReturns
      <4>1. ASSUME NEW x \in Endpoints PROVE ~ep'[x].sock
        <5>1. RecordOf(ep[x])
          BY DEF AuthorityInv, Records
        <5>2. PICK q : q = [ep[x] EXCEPT !.sock = FALSE]
          BY Zenon
        <5>3. q = EP(ep[x].lease, FALSE, ep[x].thread, ep[x].op, ep[x].kid)
          BY <5>1, <5>2, Zenon DEF RecordOf, EP
        <5>4. ep'[x] = q
          BY <3>2, <5>2 DEF CloseReturns, ShutDown
        <5>5. QED BY <5>3, <5>4 DEF EP
      <4>2. granted' = granted
        BY <3>2 DEF CloseReturns
      <4>3. QED
        BY <3>1, <4>1, <4>2 DEF AuthorityInv, NothingSurvivesClose, NoGrantAfterClose
    <3>3. CASE ~CloseReturns
      <4>1. aut' = "closed" => aut = "closed"
        BY <2>2, <3>3, Zenon DEF AutNext, AuthorityReceive, Answer, ReceiveFails, ServeEnds,
           IssueDerived, StartDerived, CloseBegins
      <4>2. NothingSurvivesClose'
        BY <3>1, <4>1, Zenon DEF AuthorityInv, NothingSurvivesClose, NoNewSocket
      <4>3. granted' = granted
        <5>1. ASSUME NEW e \in Endpoints, Answer(e) PROVE granted' = granted
          BY <5>1 DEF Answer, AuthorityInv, NothingSurvivesClose
        <5>2. QED
          BY <2>2, <3>3, <5>1, Zenon DEF AutNext, AuthorityReceive, ReceiveFails, ServeEnds,
             IssueDerived, StartDerived, CloseBegins
      <4>4. QED BY <3>1, <4>2, <4>3 DEF AuthorityInv, NoGrantAfterClose
    <3>4. QED BY <3>2, <3>3
  <2>3. QED BY <2>1, <2>2
<1>3. QED BY <1>1, <1>2, PTL DEF AutSpec

\* Once close has returned no endpoint of the authority server has a socket, however many
\* endpoints were being issued, claimed or discarded as it closed (driver_authority_server.py,
\* close, _issue_endpoint, _start_record).
THEOREM AuthorityClosesAll == AutSpec => []NothingSurvivesClose
<1>1. AuthorityInv => NothingSurvivesClose
  BY DEF AuthorityInv
<1>2. QED BY <1>1, AuthorityInvariant, PTL

\* And no peer receives a grant after that, although its request may have been decided
\* before (_serve beside close).
THEOREM AuthorityGrantsNothingLate == AutSpec => []NoGrantAfterClose
<1>1. AuthorityInv => NoGrantAfterClose
  BY DEF AuthorityInv
<1>2. QED BY <1>1, AuthorityInvariant, PTL
=============================================================================
