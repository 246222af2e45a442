------------------------------ MODULE MCLiveness ------------------------------
(*****************************************************************************)
(* What has to come about, for the parts that repair themselves from durable *)
(* state (the native receiver's recovery, invitations, credential refresh)   *)
(* and for those of a running daemon (its workers, the event outbox, the     *)
(* local websocket). They are checked side by side: a behaviour is a         *)
(* behaviour of the part in focus, the others rest.                          *)
(*****************************************************************************)
EXTENDS NativeReceive, NativeInvitations, CredentialRefresh, DaemonWorkers, EventOutbox,
        WsLocal, TLC

CONSTANT Parts  \* the parts this run brings into focus

VARIABLE focus  \* the part whose behaviour this is

MCOldRows == {<<>>, <<ERow(0, "legacy1", "alien"), ERow(0, "legacy2", "old")>>}

\* A part out of focus starts in one of its initial states and stays there.
Rests(part, rest) == focus = part \/ rest

LivenessInit ==
    /\ focus \in Parts
    /\ ReceiveInit
    /\ NvInit
    /\ CInit /\ Rests("refresh", cHost.kind = "file" /\ cHost.rev = 0)
    /\ WInit /\ Rests("workers", ~wDmn.win)
    /\ EInit /\ Rests("outbox", eBox.rows = <<>>)
    /\ WlInit

LivenessNext ==
    \/ /\ focus = "native" /\ ReceiveNext
       /\ UNCHANGED <<focus, nvVars, cVars, wVars, eVars, wlVars>>
    \/ /\ focus = "invites" /\ NvNext
       /\ UNCHANGED <<focus, receiveVars, cVars, wVars, eVars, wlVars>>
    \/ /\ focus = "refresh" /\ CNext
       /\ UNCHANGED <<focus, receiveVars, nvVars, wVars, eVars, wlVars>>
    \/ /\ focus = "workers" /\ WNext
       /\ UNCHANGED <<focus, receiveVars, nvVars, cVars, eVars, wlVars>>
    \/ /\ focus = "outbox" /\ ENext
       /\ UNCHANGED <<focus, receiveVars, nvVars, cVars, wVars, wlVars>>
    \/ /\ focus = "wslocal" /\ WlNext
       /\ UNCHANGED <<focus, receiveVars, nvVars, cVars, wVars, eVars>>

livenessVars == <<focus, receiveVars, nvVars, cVars, wVars, eVars, wlVars>>

LivenessSpec == LivenessInit /\ [][LivenessNext]_livenessVars

\* The fairness of the parts that repair themselves, each in its own behaviours.
FairRecoverySpec ==
    /\ LivenessSpec
    /\ SF_receiveVars(focus = "native" /\ ListenStep) /\ WF_receiveVars(focus = "native" /\ RecoverDone)
    /\ WF_receiveVars(focus = "native" /\ Disconnect)
    /\ \A t \in Tasks : WF_receiveVars(focus = "native" /\ TaskStep(t))
    /\ WF_nvVars(focus = "invites" /\ (NvFetch("poll") \/ NvFetchEnds("poll")))
    /\ WF_nvVars(focus = "invites" /\ \E e \in NatInvites : ProcessInvite("poll", e))
    /\ WF_nvVars(focus = "invites" /\ AutoAcceptPosts("poll"))
    /\ WF_nvVars(focus = "invites" /\ AutoAcceptReturns("poll"))
    /\ WF_nvVars(focus = "invites" /\ PromptDelivered("poll"))
    /\ WF_nvVars(focus = "invites" /\ NotifyReturns("poll"))
    /\ WF_nvVars(focus = "invites" /\ NotifyFails("poll"))
    /\ \A d \in CredDaemons : WF_cVars(focus = "refresh" /\ \E f \in CredFaults : Tick(d, f))
    /\ \A d \in CredDaemons : WF_cVars(focus = "refresh" /\ \E f \in CredFaults : KeychainPoll(d, f))
    /\ \A d \in CredDaemons : WF_cVars(focus = "refresh" /\ \E t \in CredTasks, f \in CredFaults :
          ChildSucceeds(d, t, f) \/ ChildFails(d, t, f) \/ ChildTimesOut(d, t, f))
    /\ \A d \in CredDaemons : SF_cVars(focus = "refresh" /\ \E f \in CredFaults :
          RefreshBegins(d, "loop", f) \/ LockTimesOut(d, "loop", f))

\* The fairness of the parts of a running daemon, each in its own behaviours.
FairDaemonSpec ==
    /\ LivenessSpec
    /\ WF_wVars(focus = "workers" /\ DaemonUp /\ Operation)
    /\ WF_wVars(focus = "workers" /\ DaemonUp /\ Shutdown)
    /\ \A w \in Workers : WF_wVars(focus = "workers" /\ WorkerAdvances(w))
    /\ \A t \in 1..MaxTasks : WF_wVars(focus = "workers" /\ StopEnds(t))
    /\ WF_wVars(focus = "workers" /\ (UnarchiveSteps \/ UnarchiveGivesUp))
    /\ WF_eVars(focus = "outbox" /\ OpenOutbox) /\ WF_eVars(focus = "outbox" /\ UploadBegins)
    /\ SF_eVars(focus = "outbox" /\ ServerAccepts) /\ SF_eVars(focus = "outbox" /\ UploadAcked)
    /\ SF_eVars(focus = "outbox" /\ UploadRejected)
    /\ WF_wlVars(focus = "wslocal" /\ WlDaemon) /\ WF_wlVars(focus = "wslocal" /\ WlClock)
    /\ WF_wlVars(focus = "wslocal" /\ WatchdogTick)

\* When the operator's request is the last word, the daemon's workers end as asked
\* (EndsAsAsked of DaemonWorkers, in the behaviours of the workers).
WorkersEndAsAsked == focus = "workers" => EndsAsAsked
===============================================================================
