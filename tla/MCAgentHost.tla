----------------------------- MODULE MCAgentHost -----------------------------
(*****************************************************************************)
(* The parts that carry one Agent's work: the send coordinator, the runtime  *)
(* manager, the five provider drivers with the authority they hand out, the  *)
(* worker's health, the host assets, machine control, agent custody, the     *)
(* container and the daemon's ownership of its home. They are checked side   *)
(* by side: a behaviour is a behaviour of the part in focus, the others      *)
(* rest.                                                                     *)
(*****************************************************************************)
EXTENDS SendCoordinator, RuntimeManager, ProviderDrivers, DriverAuthority, WorkerHealth,
        HostAssets, MachineControl, AgentCustody, DockerContainer, DaemonOwnership, TLC

VARIABLE focus  \* the part whose behaviour this is

MCSendStarts == {<<FALSE, 0, 1, 0>>, <<FALSE, 0, 0, 1>>, <<TRUE, Nothing, 0, 1>>, <<TRUE, Nothing, 1, 0>>}
MCHScenes == {{"flags"}, {"probe"}, {"auth", "refresher"}, {"transport", "quota"}}
MCCtlCommands == {[id |-> 1, op |-> "create"], [id |-> 2, op |-> "resume"]}
CtlBudget(d, c, f, u) == [drops |-> d, crashes |-> c, faults |-> f, unlinks |-> u]
MCCtlBudgets == {CtlBudget(1, 1, 0, 0), CtlBudget(1, 0, 1, 0), CtlBudget(0, 0, 0, 1)}
MCDkBoxes == {[state |-> "exited", good |-> TRUE], [state |-> "running", good |-> FALSE],
              [state |-> "paused", good |-> TRUE]}

\* A part out of focus starts in one of its initial states and stays there.
Rests(part, rest) == focus = part \/ rest

AgentHostInit ==
    /\ focus \in {"send", "manager", "claude", "codex", "opencode", "pi", "acp",
                  "authority", "health", "assets", "control", "custody", "docker",
                  "ownership"}
    /\ SendInit /\ Rests("send", ~keylessLane /\ sendFaults = 0)
    /\ MgrInit
    /\ ClInit
    /\ XInit
    /\ OInit
    /\ PInit
    /\ AInit /\ Rests("acp", ~ac.bypass)
    /\ AutInit
    /\ HInit /\ Rests("health", hScene = CHOOSE s \in HScenes : TRUE)
    /\ HaInit /\ Rests("assets", haScene = "pi")
    /\ CtlInit
       /\ Rests("control", mcAgent = "none")
       /\ Rests("control", mcLeft = CHOOSE b \in CtlBudgets : TRUE)
    /\ KInit /\ Rests("custody", kDir.at = "live" /\ ~kHist.overlap)
    /\ DkInit
       /\ Rests("docker", dkBox = [a \in DkAgents |-> NoBox])
       /\ Rests("docker", dkMark = [a \in DkAgents |-> FALSE])
       /\ Rests("docker", ~dkImage)
       /\ Rests("docker", ~dkSound)
    /\ OInitial

AgentHostNext ==
    \/ /\ focus = "send" /\ SendNext
       /\ UNCHANGED <<focus, mgrVars, clVars, xVars, ocVars, pVars, aVars, autVars,
                       hVars, haVars, mcVars, kVars, dkVars, oVars>>
    \/ /\ focus = "manager" /\ MgrNext
       /\ UNCHANGED <<focus, sendVars, clVars, xVars, ocVars, pVars, aVars, autVars,
                       hVars, haVars, mcVars, kVars, dkVars, oVars>>
    \/ /\ focus = "claude" /\ ClNext
       /\ UNCHANGED <<focus, sendVars, mgrVars, xVars, ocVars, pVars, aVars,
                       autVars, hVars, haVars, mcVars, kVars, dkVars, oVars>>
    \/ /\ focus = "codex" /\ XNext
       /\ UNCHANGED <<focus, sendVars, mgrVars, clVars, ocVars, pVars, aVars,
                       autVars, hVars, haVars, mcVars, kVars, dkVars, oVars>>
    \/ /\ focus = "opencode" /\ ONext
       /\ UNCHANGED <<focus, sendVars, mgrVars, clVars, xVars, pVars, aVars,
                       autVars, hVars, haVars, mcVars, kVars, dkVars, oVars>>
    \/ /\ focus = "pi" /\ PNext
       /\ UNCHANGED <<focus, sendVars, mgrVars, clVars, xVars, ocVars, aVars,
                       autVars, hVars, haVars, mcVars, kVars, dkVars, oVars>>
    \/ /\ focus = "acp" /\ ANext
       /\ UNCHANGED <<focus, sendVars, mgrVars, clVars, xVars, ocVars, pVars,
                       autVars, hVars, haVars, mcVars, kVars, dkVars, oVars>>
    \/ /\ focus = "authority" /\ AutNext
       /\ UNCHANGED <<focus, sendVars, mgrVars, clVars, xVars, ocVars, pVars, aVars,
                       hVars, haVars, mcVars, kVars, dkVars, oVars>>
    \/ /\ focus = "health" /\ HNext
       /\ UNCHANGED <<focus, sendVars, mgrVars, clVars, xVars, ocVars, pVars, aVars,
                       autVars, haVars, mcVars, kVars, dkVars, oVars>>
    \/ /\ focus = "assets" /\ HaNext
       /\ UNCHANGED <<focus, sendVars, mgrVars, clVars, xVars, ocVars, pVars, aVars,
                       autVars, hVars, mcVars, kVars, dkVars, oVars>>
    \/ /\ focus = "control" /\ CtlNext
       /\ UNCHANGED <<focus, sendVars, mgrVars, clVars, xVars, ocVars, pVars, aVars,
                       autVars, hVars, haVars, kVars, dkVars, oVars>>
    \/ /\ focus = "custody" /\ KNext
       /\ UNCHANGED <<focus, sendVars, mgrVars, clVars, xVars, ocVars, pVars, aVars,
                       autVars, hVars, haVars, mcVars, dkVars, oVars>>
    \/ /\ focus = "docker" /\ DkNext
       /\ UNCHANGED <<focus, sendVars, mgrVars, clVars, xVars, ocVars, pVars, aVars,
                       autVars, hVars, haVars, mcVars, kVars, oVars>>
    \/ /\ focus = "ownership" /\ OwnNext
       /\ UNCHANGED <<focus, sendVars, mgrVars, clVars, xVars, ocVars, pVars, aVars,
                       autVars, hVars, haVars, mcVars, kVars, dkVars>>

agentHostVars == <<focus, sendVars, mgrVars, clVars, xVars, ocVars, pVars, aVars,
    autVars, hVars, haVars, mcVars, kVars, dkVars, oVars>>

AgentHostSpec == AgentHostInit /\ [][AgentHostNext]_agentHostVars
===============================================================================
