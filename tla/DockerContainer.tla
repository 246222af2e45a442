--------------------------- MODULE DockerContainer ---------------------------
(***************************************************************************)
(* The container of a cli-docker agent (agent/harness/runtime/             *)
(* docker_runtime.py and docker_support.py): a worker's start inspects,    *)
(* replaces or starts it, probes it and marks its layout; the adapter it   *)
(* is bound to stops it.  Agents share one image, built once under         *)
(* _BUILD_LOCK.  A docker command that fails may have taken effect: the    *)
(* client is killed at its deadline, the docker daemon is not.             *)
(***************************************************************************)
EXTENDS Values, FiniteSets

CONSTANTS DkAgents,
          DkBoxes,      \* containers an earlier daemon may have left: records [state, good]
          MaxDkStarts, MaxDkFaults

DkStates == {"running", "exited", "paused"}
ASSUME DkAssumption == DkBoxes \subseteq [state : DkStates, good : BOOLEAN]

VARIABLES dkBox,      \* agent -> container [state, good]; good: package and harness answer the probe
          dkMark,     \* agent -> the layout marker names the current layout
          dkImage,    \* the bundled image is there
          dkSound,    \* containers made from the image answer the probe
          dkPc,       \* agent -> step of its worker
          dkSeen,     \* agent -> container state the start has read
          dkAgain,    \* agent -> this start has replaced a stale container
          dkLock,     \* holder of _BUILD_LOCK, or Nothing
          dkEnd,      \* agent -> how its last worker ended: "none", "closed", "cancelled", "failed"
          dkBuilds, dkStarts, dkFaults

dkVars == <<dkBox, dkMark, dkImage, dkSound, dkPc, dkSeen, dkAgain, dkLock, dkEnd, dkBuilds, dkStarts, dkFaults>>

NoBox == [state |-> "absent", good |-> FALSE]
NewBox == [state |-> "running", good |-> dkSound]

DkInit ==
  /\ dkBox \in [DkAgents -> {NoBox} \cup DkBoxes]
  /\ dkMark \in [DkAgents -> BOOLEAN] /\ dkImage \in BOOLEAN /\ dkSound \in BOOLEAN
  /\ dkPc = [a \in DkAgents |-> "off"] /\ dkSeen = [a \in DkAgents |-> "absent"]
  /\ dkAgain = [a \in DkAgents |-> FALSE] /\ dkLock = Nothing /\ dkEnd = [a \in DkAgents |-> "none"]
  /\ dkBuilds = 0 /\ dkStarts = 0 /\ dkFaults = 0

\* The worker of a goes on to step pc; an ending start forgets what it read.
DkStep(a, pc) ==
  /\ dkPc' = [dkPc EXCEPT ![a] = pc]
  /\ IF pc \in {"off", "up"}
     THEN dkSeen' = [dkSeen EXCEPT ![a] = "absent"] /\ dkAgain' = [dkAgain EXCEPT ![a] = FALSE]
     ELSE UNCHANGED <<dkSeen, dkAgain>>

CanFault == dkFaults < MaxDkFaults /\ dkFaults' = dkFaults + 1

\* The start raises: no adapter was bound, so initialization ends without one.
StartFails(a) ==
  /\ DkStep(a, "off") /\ dkEnd' = [dkEnd EXCEPT ![a] = "failed"]

(***************************************************************************)
(* ensure_container.                                                       *)
(***************************************************************************)
PrepareStarts(a) ==
  /\ dkPc[a] = "off" /\ dkStarts < MaxDkStarts /\ dkStarts' = dkStarts + 1
  /\ DkStep(a, "inspect") /\ dkEnd' = [dkEnd EXCEPT ![a] = "none"]
  /\ UNCHANGED <<dkBox, dkMark, dkImage, dkSound, dkLock, dkBuilds, dkFaults>>

AfterInspect(a, state) ==
  IF state = "absent" THEN "image" ELSE IF ~dkMark[a] THEN "remove" ELSE "activate"

EnsureContainer(a) ==
  /\ dkPc[a] = "inspect"
  /\ \/ /\ dkPc' = [dkPc EXCEPT ![a] = AfterInspect(a, dkBox[a].state)]
        /\ dkSeen' = [dkSeen EXCEPT ![a] = dkBox[a].state]
        /\ UNCHANGED <<dkAgain, dkEnd, dkFaults>>
     \/ CanFault /\ StartFails(a)     \* Docker does not answer, or names a transient state
  /\ UNCHANGED <<dkBox, dkMark, dkImage, dkSound, dkLock, dkBuilds, dkStarts>>

\* unpause, stop and rm; one that fails leaves what the ones before it did.
RemoveExistingContainer(a) ==
  /\ dkPc[a] = "remove"
  /\ \/ dkBox' = [dkBox EXCEPT ![a] = NoBox] /\ DkStep(a, "image") /\ UNCHANGED <<dkEnd, dkFaults>>
     \/ /\ CanFault /\ StartFails(a)
        /\ dkBox' \in {[dkBox EXCEPT ![a] = b] : b \in {dkBox[a], [dkBox[a] EXCEPT !.state = "exited"], NoBox}}
  /\ UNCHANGED <<dkMark, dkImage, dkSound, dkLock, dkBuilds, dkStarts>>

\* start or unpause; a container seen running is taken as it is.
ActivateContainer(a) ==
  /\ dkPc[a] = "activate"
  /\ LET runs == [dkBox EXCEPT ![a].state = "running"]
     IN \/ dkSeen[a] = "running" /\ DkStep(a, "probe") /\ UNCHANGED <<dkBox, dkEnd, dkFaults>>
        \/ dkSeen[a] # "running" /\ dkBox' = runs /\ DkStep(a, "probe") /\ UNCHANGED <<dkEnd, dkFaults>>
        \/ dkSeen[a] # "running" /\ CanFault /\ StartFails(a) /\ dkBox' \in {dkBox, runs}
  /\ UNCHANGED <<dkMark, dkImage, dkSound, dkLock, dkBuilds, dkStarts>>

(***************************************************************************)
(* ensure_docker_image: looked up, then looked up again under the lock.    *)
(***************************************************************************)
EnsureDockerImage(a) ==
  /\ dkPc[a] = "image" /\ DkStep(a, IF dkImage THEN "run" ELSE "lock")
  /\ UNCHANGED <<dkBox, dkMark, dkImage, dkSound, dkLock, dkEnd, dkBuilds, dkStarts, dkFaults>>

StillMissing == ~dkImage

TakeBuildLock(a) ==
  /\ dkPc[a] = "lock" /\ dkLock = Nothing
  /\ IF StillMissing THEN DkStep(a, "build") /\ dkLock' = a ELSE DkStep(a, "run") /\ UNCHANGED dkLock
  /\ UNCHANGED <<dkBox, dkMark, dkImage, dkSound, dkEnd, dkBuilds, dkStarts, dkFaults>>

\* The lock is left however the build ends.
LockLeft(a) == IF dkLock = a THEN Nothing ELSE dkLock

BuildImage(a) ==
  /\ dkPc[a] = "build"
  /\ \/ DkStep(a, "run") /\ dkImage' = TRUE /\ dkBuilds' = dkBuilds + 1 /\ dkLock' = Nothing
        /\ UNCHANGED <<dkEnd, dkFaults>>
     \/ CanFault /\ StartFails(a) /\ UNCHANGED <<dkImage, dkBuilds>> /\ dkLock' = LockLeft(a)
  /\ UNCHANGED <<dkBox, dkMark, dkSound, dkStarts>>

\* docker run, under a name the start has seen free.
StartContainer(a) ==
  /\ dkPc[a] = "run"
  /\ LET made == [dkBox EXCEPT ![a] = NewBox]
     IN \/ dkBox' = made /\ DkStep(a, "probe") /\ UNCHANGED <<dkEnd, dkFaults>>
        \/ CanFault /\ StartFails(a) /\ dkBox' \in {dkBox, made, [made EXCEPT ![a].state = "exited"]}
  /\ UNCHANGED <<dkMark, dkImage, dkSound, dkLock, dkBuilds, dkStarts>>

(***************************************************************************)
(* The probe: exit 0, the agreed exit for "no", or no answer.              *)
(***************************************************************************)
ProbeOrNo(rc) == IF rc = "yes" THEN "true" ELSE "false"
ProbeResult(rc) == CASE rc = "yes" -> "true" [] rc = "no" -> "false" [] OTHER -> "none"

ProbeContainer(a) ==
  /\ dkPc[a] = "probe"
  /\ \E rc \in {"yes", "no", "none"} :
       /\ rc # "none" => dkBox[a].state = "running" /\ (rc = "yes" <=> dkBox[a].good)
       /\ IF rc = "none" /\ dkBox[a].state = "running" THEN CanFault ELSE UNCHANGED dkFaults
       /\ LET verdict == ProbeResult(rc)
          IN \/ verdict = "true" /\ DkStep(a, "bind") /\ dkMark' = [dkMark EXCEPT ![a] = TRUE] /\ UNCHANGED dkEnd
             \/ /\ verdict = "false" /\ ~dkAgain[a]
                /\ dkPc' = [dkPc EXCEPT ![a] = "remove"] /\ dkAgain' = [dkAgain EXCEPT ![a] = TRUE]
                /\ UNCHANGED <<dkSeen, dkMark, dkEnd>>
             \/ (verdict = "none" \/ (dkAgain[a] /\ verdict = "false")) /\ StartFails(a) /\ UNCHANGED dkMark
  /\ UNCHANGED <<dkBox, dkImage, dkSound, dkLock, dkBuilds, dkStarts>>

(***************************************************************************)
(* Binding to an adapter, and the stop.                                    *)
(***************************************************************************)
StoppedBox(a) == [dkBox EXCEPT ![a].state = IF @ = "absent" THEN @ ELSE "exited"]

\* A failure of the binding stops the container; a failure of that stop is only logged.
BindDriverRuntime(a) ==
  /\ dkPc[a] = "bind"
  /\ \/ DkStep(a, "up") /\ UNCHANGED <<dkBox, dkEnd, dkFaults>>
     \/ CanFault /\ StartFails(a) /\ dkBox' = StoppedBox(a)
     \/ CanFault /\ dkFaults + 2 <= MaxDkFaults /\ StartFails(a) /\ UNCHANGED dkBox
  /\ UNCHANGED <<dkMark, dkImage, dkSound, dkLock, dkBuilds, dkStarts>>

\* aclose: a docker stop that failed is not remembered as done, and the stop stays unconfirmed.
ConfirmsStop(ok) == ok

Aclose(a) ==
  /\ dkPc[a] = "up"
  /\ \E ok \in BOOLEAN :
       /\ IF ok THEN dkBox' = StoppedBox(a) /\ UNCHANGED dkFaults ELSE CanFault /\ UNCHANGED dkBox
       /\ IF ConfirmsStop(ok) THEN DkStep(a, "off") /\ dkEnd' = [dkEnd EXCEPT ![a] = "closed"]
          ELSE UNCHANGED <<dkPc, dkSeen, dkAgain, dkEnd>>
  /\ UNCHANGED <<dkMark, dkImage, dkSound, dkLock, dkBuilds, dkStarts>>

\* Worker.stop cancels a start: no adapter is bound, so the stop counts as confirmed.  The docker
\* client that ran is killed; its command may have taken effect.
StartCancelled(a) ==
  /\ dkPc[a] \notin {"off", "up"}
  /\ DkStep(a, "off") /\ dkEnd' = [dkEnd EXCEPT ![a] = "cancelled"] /\ dkLock' = LockLeft(a)
  /\ dkBox' \in {dkBox} \cup (IF dkPc[a] = "run" THEN {[dkBox EXCEPT ![a] = NewBox]} ELSE {})
  /\ UNCHANGED <<dkMark, dkImage, dkSound, dkBuilds, dkStarts, dkFaults>>

\* The operator stops or pauses a container by hand.
OperatorHandles(a) ==
  /\ dkBox[a].state = "running" /\ CanFault
  /\ dkBox' \in {[dkBox EXCEPT ![a].state = s] : s \in {"exited", "paused"}}
  /\ UNCHANGED <<dkMark, dkImage, dkSound, dkPc, dkSeen, dkAgain, dkLock, dkEnd, dkBuilds, dkStarts>>

\* One step of a start that is under way.
StartSteps(a) ==
  \/ EnsureContainer(a) \/ RemoveExistingContainer(a) \/ ActivateContainer(a) \/ EnsureDockerImage(a)
  \/ TakeBuildLock(a) \/ BuildImage(a) \/ StartContainer(a) \/ ProbeContainer(a) \/ BindDriverRuntime(a)

DkNext ==
  \E a \in DkAgents :
    PrepareStarts(a) \/ StartSteps(a) \/ Aclose(a) \/ StartCancelled(a) \/ OperatorHandles(a)

DkSpec == DkInit /\ [][DkNext]_dkVars

\* Every docker command returns or is killed at its deadline, so a start that can step does.
FairDkSpec == DkSpec /\ \A a \in DkAgents : WF_dkVars(StartSteps(a))

(***************************************************************************)
(* Properties.                                                             *)
(***************************************************************************)
\* A container, with the files in it, is removed only when its layout is not the current one or its
\* package or harness really does not load: never because Docker did not answer (ensure_container:
\* "refusing to replace it after a failed probe").
RemovedForCause ==
  [][\A a \in DkAgents :
       dkBox[a].state # "absent" /\ dkBox'[a].state = "absent" => ~dkMark[a] \/ ~dkBox[a].good]_dkVars

\* Workers starting together build the image once (ensure_docker_image).
BuiltOnce == dkBuilds <= 1

\* A worker whose adapter closed leaves its container stopped until the next worker starts, so that
\* what waits for a confirmed stop may touch its files (DockerRuntimePreparer.aclose).
ClosedIsStopped == \A a \in DkAgents : dkEnd[a] = "closed" => dkBox[a].state # "running"

\* A start does not wait for ever, for the build lock in particular.
StartSettles == \A a \in DkAgents : dkPc[a] = "lock" ~> dkPc[a] # "lock"

==============================================================================
