---------------------------- MODULE MCNativeClient ----------------------------
(*****************************************************************************)
(* The parts a natively connected Agent and its machine talk to the Server   *)
(* with: receiving, invitations, the channel directory, the signed HTTP      *)
(* client, reminders and memory. They are checked side by side: a behaviour  *)
(* is a behaviour of the part in focus, the others rest.                     *)
(*****************************************************************************)
EXTENDS NativeReceive, NativeInvitations, ChannelDirectory, HttpClient, Reminders,
        AgentMemory, TLC

VARIABLE focus  \* the part whose behaviour this is

MCDirScenes == {{"exit", "leave"}, {"exit", "policy", "send"}, {"exit", "peer"}}
HcPost(c, i) == [client |-> c, kind |-> "post", id |-> i]
MCHcScenes == {{HcPost(1, 1), [client |-> 1, kind |-> "bytes", id |-> 2]},
               {HcPost(1, 1), HcPost(2, 2)}}
MCSeed == [p \in MemPaths |-> IF p \in MemTopics THEN 1 ELSE 0]
Symmetry == Permutations(Dms) \cup Permutations(NatInvites)
                \cup Permutations(MemServers)

\* A part out of focus starts in one of its initial states and stays there.
Rests(part, rest) == focus = part \/ rest

NativeClientInit ==
    /\ focus \in {"native", "invites", "directory", "http", "reminders", "memory"}
    /\ ReceiveInit
    /\ NvInit
    /\ DirInit
       /\ Rests("directory", dSrv.plain = {})
       /\ Rests("directory", dScene = CHOOSE s \in DirScenes : TRUE)
    /\ HcInit
       /\ Rests("http", hcFile = 0)
       /\ Rests("http", hcValid = {})
       /\ Rests("http", DOMAIN hcReq = CHOOSE s \in HcScenes : TRUE)
    /\ RemInit
    /\ MemInit /\ Rests("memory", ~mRepo.host)

NativeClientNext ==
    \/ /\ focus = "native" /\ ReceiveNext
       /\ UNCHANGED <<focus, nvVars, dVars, hcVars, remVars, memVars>>
    \/ /\ focus = "invites" /\ NvNext
       /\ UNCHANGED <<focus, receiveVars, dVars, hcVars, remVars, memVars>>
    \/ /\ focus = "directory" /\ DirNext
       /\ UNCHANGED <<focus, receiveVars, nvVars, hcVars, remVars, memVars>>
    \/ /\ focus = "http" /\ HcNext
       /\ UNCHANGED <<focus, receiveVars, nvVars, dVars, remVars, memVars>>
    \/ /\ focus = "reminders" /\ RemNext
       /\ UNCHANGED <<focus, receiveVars, nvVars, dVars, hcVars, memVars>>
    \/ /\ focus = "memory" /\ MemNext
       /\ UNCHANGED <<focus, receiveVars, nvVars, dVars, hcVars, remVars>>

nativeClientVars == <<focus, receiveVars, nvVars, dVars, hcVars, remVars, memVars>>

NativeClientSpec == NativeClientInit /\ [][NativeClientNext]_nativeClientVars
===============================================================================
