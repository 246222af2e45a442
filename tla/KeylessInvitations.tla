------------------------- MODULE KeylessInvitations -------------------------
(***************************************************************************)
(* The keyless agent's invitations (agent/keyless_invitation_flow.py,      *)
(* agent/keyless_invitation_state.py and the bridge hooks that feed them). *)
(*                                                                         *)
(* A poller of the connection reads the Server's pending invitations,      *)
(* adopts new ones (asks the operator, or accepts by policy), retires the  *)
(* ones that vanished and resumes what a crash or a lost answer left       *)
(* half-done.  An exact threaded reply of the operator is recognised by    *)
(* the frame pump and handled by a task.  Poller and tasks share one lock, *)
(* held across the request they wait for.                                  *)
(***************************************************************************)
EXTENDS Values, FiniteSets

CONSTANTS Invites,       \* invitations
          AutoInvites,   \* those the policy accepts without asking
          MaxReplies,    \* replies the operator writes
          MaxRefs,       \* client references ever drawn
          MaxIvFaults    \* failed saves, failed requests, lost connections, crashes

IvReplies == 1..MaxReplies

VARIABLES ivSrv,     \* the Server's state of each invitation
          ivMem,     \* records of the flow: [phase, dec, pref, dref, env]
          ivDisk,    \* the same records as saved
          ivPrompts, \* references of the prompts the Server delivered
          ivFrames,  \* <<decision, reference>> of the decisions sent
          ivLock,    \* [who, r, pc, ev, got]: the holder and the request it waits for
          ivPoll,    \* [pc, seen, todo]: the poller
          ivRep,     \* replies: [ev, pref, dec, st]
          ivRef,     \* references drawn
          ivFaults

ivVars == <<ivSrv, ivMem, ivDisk, ivPrompts, ivFrames, ivLock, ivPoll, ivRep, ivRef, ivFaults>>

NoInviteRecord == [phase |-> "none", dec |-> "pending", pref |-> 0, dref |-> 0, env |-> FALSE]
Unlocked == [who |-> "none", r |-> 0, pc |-> "none", ev |-> Nothing, got |-> "none"]
PollIdle == [pc |-> "idle", seen |-> {}, todo |-> {}]
NoReply == [ev |-> Nothing, pref |-> 0, dec |-> "none", st |-> "free"]

IvInit ==
  /\ ivSrv = [e \in Invites |-> "absent"]
  /\ ivMem = [e \in Invites |-> NoInviteRecord]
  /\ ivDisk = [e \in Invites |-> NoInviteRecord]
  /\ ivPrompts = [e \in Invites |-> {}]
  /\ ivFrames = [e \in Invites |-> {}]
  /\ ivLock = Unlocked
  /\ ivPoll = PollIdle
  /\ ivRep = [r \in IvReplies |-> NoReply]
  /\ ivRef = 0
  /\ ivFaults = 0

Listed(e) == ivSrv[e] = "pending"
ActiveRecord(e) == ivMem[e].phase \notin {"none", "terminal"}
KnownActive(e) == ActiveRecord(e)
KnownRecord(e) == ivMem[e].phase # "none"
DecisionLockIsFree == ivLock.who = "none"

\* a save that succeeds, and one that fails while the budget lasts; the mirror
\* follows the file (_persist_or_restore)
Saves == {TRUE} \union (IF ivFaults < MaxIvFaults THEN {FALSE} ELSE {})
PersistOrRestore(mem, ok) ==
  /\ ivMem' = IF ok THEN mem ELSE ivMem
  /\ ivDisk' = IF ok THEN mem ELSE ivDisk
  /\ ivFaults' = IF ok THEN ivFaults ELSE ivFaults + 1

Waits(who, r, pc, e) == [who |-> who, r |-> r, pc |-> pc, ev |-> e, got |-> "none"]

(***************************************************************************)
(* The Server and the operator.                                            *)
(***************************************************************************)
Invited(e) ==
  /\ ivSrv[e] = "absent"
  /\ ivSrv' = [ivSrv EXCEPT ![e] = "pending"]
  /\ UNCHANGED <<ivMem, ivDisk, ivPrompts, ivFrames, ivLock, ivPoll, ivRep, ivRef, ivFaults>>

Withdrawn(e) ==
  /\ Listed(e)
  /\ ivSrv' = [ivSrv EXCEPT ![e] = "withdrawn"]
  /\ UNCHANGED <<ivMem, ivDisk, ivPrompts, ivFrames, ivLock, ivPoll, ivRep, ivRef, ivFaults>>

\* decide_invitation: idempotent for the decision that was applied
InviteDecided(e, dec) ==
  CASE ivSrv[e] = "pending" -> "applied"
    [] ivSrv[e] = dec -> "already_applied"
    [] ivSrv[e] = "withdrawn" -> "not_found"
    [] OTHER -> "conflict"

\* the frame the lock's holder sent reaches the Server
FrameArrives(got) ==
  LET e == ivLock.ev IN
  /\ ivLock.pc \in {"prompt", "decide"} /\ ivLock.got = "none"
  /\ got = IF ivLock.pc = "decide" THEN InviteDecided(e, ivMem[e].dec) ELSE "sent"
  /\ ivSrv' = IF got = "applied" THEN [ivSrv EXCEPT ![e] = ivMem[e].dec] ELSE ivSrv
  /\ ivPrompts' = IF got = "sent" THEN [ivPrompts EXCEPT ![e] = @ \union {ivMem[e].pref}]
                  ELSE ivPrompts

ServerReceives(got) ==
  /\ FrameArrives(got)
  /\ ivLock' = [ivLock EXCEPT !.got = got]
  /\ UNCHANGED <<ivMem, ivDisk, ivFrames, ivPoll, ivRep, ivRef, ivFaults>>

OperatorAnswersInvite(r, e, dec) ==
  /\ ivRep[r].st = "free" /\ \A q \in 1..(r - 1) : ivRep[q].st # "free"
  /\ \E p \in ivPrompts[e] :
       ivRep' = [ivRep EXCEPT ![r] = [ev |-> e, pref |-> p, dec |-> dec, st |-> "sent"]]
  /\ UNCHANGED <<ivSrv, ivMem, ivDisk, ivPrompts, ivFrames, ivLock, ivPoll, ivRef, ivFaults>>

(***************************************************************************)
(* The two requests the lock's holder waits for.                           *)
(***************************************************************************)
\* where the holder goes when its request is over: a reply task acknowledges its
\* reply, the poller goes on
HolderGoesOn(rep) ==
  /\ ivLock' = IF ivLock.who = "poll" THEN Waits("poll", 0, "none", Nothing) ELSE Unlocked
  /\ ivRep' = IF ivLock.who = "reply" THEN [ivRep EXCEPT ![ivLock.r].st = rep] ELSE ivRep

\* the acknowledgement of the prompt names its envelope, which is saved
PromptAcked ==
  LET e == ivLock.ev IN
  /\ ivLock.pc = "prompt" /\ ivLock.got = "sent"
  /\ \E ok \in Saves :
       PersistOrRestore([ivMem EXCEPT ![e].phase = "awaiting_reply", ![e].env = TRUE], ok)
  /\ HolderGoesOn("acked")
  /\ UNCHANGED <<ivSrv, ivPrompts, ivFrames, ivPoll, ivRef>>

DecisionAnswered ==
  LET e == ivLock.ev IN
  /\ ivLock.pc = "decide" /\ ivLock.got # "none"
  /\ \E ok \in Saves : PersistOrRestore([ivMem EXCEPT ![e].phase = "terminal"], ok)
  /\ HolderGoesOn("acked")
  /\ UNCHANGED <<ivSrv, ivPrompts, ivFrames, ivPoll, ivRef>>

\* the request times out or fails; its frame may still have arrived
RequestFails ==
  /\ ivLock.pc \in {"prompt", "decide"} /\ ivFaults < MaxIvFaults
  /\ HolderGoesOn("acked")
  /\ ivFaults' = ivFaults + 1
  /\ UNCHANGED <<ivSrv, ivMem, ivDisk, ivPrompts, ivFrames, ivPoll, ivRef>>

\* _send_prompt_locked: only an unsent record is prompted, under its own reference
SendInvitePrompt(who, e) == ivLock' = Waits(who, 0, "prompt", e)

\* _send_decision_locked: the frame carries the saved decision and reference
SendDecision(who, r, e, rec) ==
  /\ ivLock' = Waits(who, r, "decide", e)
  /\ ivFrames' = [ivFrames EXCEPT ![e] = @ \union {<<rec.dec, rec.dref>>}]

\* the reference of a decision is drawn once
DecisionRef(rec) == IF rec.dref # 0 THEN rec.dref ELSE ivRef + 1
DecidedRecord(rec, dec) ==
  [rec EXCEPT !.phase = "decided", !.dec = dec, !.dref = DecisionRef(rec)]

(***************************************************************************)
(* One round of the poller.                                                *)
(***************************************************************************)
PollLists ==
  /\ ivPoll.pc = "idle"
  /\ ivPoll' = [pc |-> "listed", seen |-> {e \in Invites : Listed(e)}, todo |-> {}]
  /\ UNCHANGED <<ivSrv, ivMem, ivDisk, ivPrompts, ivFrames, ivLock, ivRep, ivRef, ivFaults>>

\* reconcile takes the lock
ReconcileBegins ==
  /\ ivPoll.pc = "listed" /\ DecisionLockIsFree
  /\ ivPoll' = [ivPoll EXCEPT !.pc = "reconcile",
                              !.todo = {e \in ivPoll.seen : ~KnownRecord(e)}]
  /\ ivLock' = Waits("poll", 0, "none", Nothing)
  /\ UNCHANGED <<ivSrv, ivMem, ivDisk, ivPrompts, ivFrames, ivRep, ivRef, ivFaults>>

PollHolds(pc) == ivPoll.pc = pc /\ ivLock.who = "poll" /\ ivLock.pc = "none"

\* an invitation by the operator, or to a space when the flag is set
AutoAccept(e) == e \in AutoInvites

\* _adopt_new_invite: the record is saved before anything is sent
AdoptNewInvite(e) ==
  LET rec == [NoInviteRecord EXCEPT !.phase = "unsent", !.pref = ivRef + 1] IN
  /\ PollHolds("reconcile") /\ e \in ivPoll.todo /\ ivRef < MaxRefs
  /\ ivPoll' = [ivPoll EXCEPT !.todo = @ \ {e}]
  /\ ivRef' = ivRef + 1
  /\ \E ok \in Saves :
       /\ PersistOrRestore([ivMem EXCEPT ![e] = rec], ok)
       /\ IF ~ok THEN UNCHANGED ivLock
          ELSE IF AutoAccept(e) THEN ivLock' = Waits("poll", 0, "auto", e)
          ELSE SendInvitePrompt("poll", e)
  /\ UNCHANGED <<ivSrv, ivPrompts, ivFrames, ivRep>>

\* the policy's decision is saved under a new reference, then sent
AutoAccepts ==
  LET e == ivLock.ev  rec == DecidedRecord(ivMem[e], "accept") IN
  /\ ivLock.pc = "auto" /\ ivRef < MaxRefs
  /\ ivRef' = ivRef + 1
  /\ \E ok \in Saves :
       /\ PersistOrRestore([ivMem EXCEPT ![e] = rec], ok)
       /\ IF ok THEN SendDecision("poll", 0, e, rec)
          ELSE ivLock' = Waits("poll", 0, "none", Nothing) /\ UNCHANGED ivFrames
  /\ UNCHANGED <<ivSrv, ivPrompts, ivPoll, ivRep>>

\* active records that the list no longer has are dropped, terminal ones stay
RetiredRecord(e) == ActiveRecord(e) /\ e \notin ivPoll.seen

ReconcileEnds ==
  /\ PollHolds("reconcile") /\ ivPoll.todo = {}
  /\ LET gone == {e \in Invites : RetiredRecord(e)} IN
     \E ok \in IF gone = {} THEN {TRUE} ELSE Saves :
       PersistOrRestore([e \in Invites |-> IF e \in gone THEN NoInviteRecord ELSE ivMem[e]], ok)
  /\ ivLock' = Unlocked
  /\ ivPoll' = [ivPoll EXCEPT !.pc = "reconciled", !.seen = {}]
  /\ UNCHANGED <<ivSrv, ivPrompts, ivFrames, ivRep, ivRef>>

\* resume takes the lock and the active records
Resumable == {e \in Invites : ivMem[e].phase \in {"unsent", "decided"}}
ResumeBegins ==
  /\ ivPoll.pc = "reconciled" /\ DecisionLockIsFree
  /\ ivPoll' = [ivPoll EXCEPT !.pc = "resume", !.todo = Resumable]
  /\ ivLock' = Waits("poll", 0, "none", Nothing)
  /\ UNCHANGED <<ivSrv, ivMem, ivDisk, ivPrompts, ivFrames, ivRep, ivRef, ivFaults>>

\* prompts first, then decisions
ResumePrompt(e) ==
  /\ PollHolds("resume") /\ e \in ivPoll.todo /\ ivMem[e].phase = "unsent"
  /\ SendInvitePrompt("poll", e)
  /\ ivPoll' = [ivPoll EXCEPT !.todo = @ \ {e}]
  /\ UNCHANGED <<ivSrv, ivMem, ivDisk, ivPrompts, ivFrames, ivRep, ivRef, ivFaults>>

ResumeDecision(e) ==
  /\ PollHolds("resume") /\ e \in ivPoll.todo
  /\ \A f \in ivPoll.todo : ivMem[f].phase = "decided"
  /\ SendDecision("poll", 0, e, ivMem[e])
  /\ ivPoll' = [ivPoll EXCEPT !.todo = @ \ {e}]
  /\ UNCHANGED <<ivSrv, ivMem, ivDisk, ivPrompts, ivRep, ivRef, ivFaults>>

ResumeEnds ==
  /\ PollHolds("resume") /\ ivPoll.todo = {}
  /\ ivPoll' = PollIdle
  /\ ivLock' = Unlocked
  /\ UNCHANGED <<ivSrv, ivMem, ivDisk, ivPrompts, ivFrames, ivRep, ivRef, ivFaults>>

(***************************************************************************)
(* The operator's replies.                                                 *)
(***************************************************************************)
\* _matching_record: a record whose prompt the reply is threaded under
Matches(r) == LET rec == ivMem[ivRep[r].ev] IN rec.env /\ rec.pref = ivRep[r].pref

\* The acknowledgement of a prompt is read before a reply to it, if it arrives.
\* The pump: a reply that matches starts a task, any other is an ordinary message
InviteReplyArrives(r) ==
  /\ ivRep[r].st = "sent"
  /\ ~(ivLock.pc = "prompt" /\ ivLock.ev = ivRep[r].ev)
  /\ ivRep' = [ivRep EXCEPT ![r].st = IF Matches(r) THEN "task" ELSE "passed"]
  /\ UNCHANGED <<ivSrv, ivMem, ivDisk, ivPrompts, ivFrames, ivLock, ivPoll, ivRef, ivFaults>>

\* what the handler answers when its decision could not be saved
NotSavedReply == "unacked"

HandleReply(r) ==
  LET e == ivRep[r].ev  rec == DecidedRecord(ivMem[e], ivRep[r].dec) IN
  /\ ivRep[r].st = "task" /\ DecisionLockIsFree
  /\ IF ~Matches(r) \/ ivMem[e].phase \in {"terminal", "decided"}
     THEN /\ ivRep' = [ivRep EXCEPT ![r].st = IF Matches(r) THEN "acked" ELSE "unacked"]
          /\ UNCHANGED <<ivMem, ivDisk, ivFaults, ivLock, ivFrames, ivRef>>
     ELSE /\ ivRef < MaxRefs
          /\ ivRef' = ivRef + 1
          /\ \E ok \in Saves :
               /\ PersistOrRestore([ivMem EXCEPT ![e] = rec], ok)
               /\ IF ok
                  THEN /\ SendDecision("reply", r, e, rec)
                       /\ ivRep' = [ivRep EXCEPT ![r].st = "deciding"]
                  ELSE /\ ivRep' = [ivRep EXCEPT ![r].st = NotSavedReply]
                       /\ UNCHANGED <<ivLock, ivFrames>>
  /\ UNCHANGED <<ivSrv, ivPrompts, ivPoll>>

(***************************************************************************)
(* A lost connection cancels the poller and fails the pending request; the *)
(* Server redelivers what was not acknowledged.  A crash also ends the     *)
(* tasks and reloads the file.                                             *)
(***************************************************************************)
Redelivered(states) ==
  [r \in IvReplies |-> IF ivRep[r].st \in states THEN [ivRep[r] EXCEPT !.st = "sent"]
                       ELSE ivRep[r]]

ConnectionLost ==
  /\ ivFaults < MaxIvFaults
  /\ ivFaults' = ivFaults + 1
  /\ ivPoll' = PollIdle
  /\ ivLock' = Unlocked
  /\ ivRep' = Redelivered({"deciding", "unacked"})
  /\ UNCHANGED <<ivSrv, ivMem, ivDisk, ivPrompts, ivFrames, ivRef>>

IvCrash ==
  /\ ivFaults < MaxIvFaults
  /\ ivFaults' = ivFaults + 1
  /\ ivPoll' = PollIdle
  /\ ivLock' = Unlocked
  /\ ivMem' = ivDisk
  /\ ivRep' = Redelivered({"task", "deciding", "unacked"})
  /\ UNCHANGED <<ivSrv, ivDisk, ivPrompts, ivFrames, ivRef>>

IvNext ==
  \/ \E e \in Invites : Invited(e) \/ Withdrawn(e)
  \/ \E got \in {"sent", "applied", "already_applied", "not_found", "conflict"} :
       ServerReceives(got)
  \/ \E r \in IvReplies, e \in Invites, dec \in {"accept", "reject"} : OperatorAnswersInvite(r, e, dec)
  \/ PromptAcked
  \/ DecisionAnswered
  \/ RequestFails
  \/ PollLists
  \/ ReconcileBegins
  \/ \E e \in Invites : AdoptNewInvite(e)
  \/ AutoAccepts
  \/ ReconcileEnds
  \/ ResumeBegins
  \/ \E e \in Invites : ResumePrompt(e) \/ ResumeDecision(e)
  \/ ResumeEnds
  \/ \E r \in IvReplies : InviteReplyArrives(r) \/ HandleReply(r)
  \/ ConnectionLost
  \/ IvCrash

IvSpec == IvInit /\ [][IvNext]_ivVars

(***************************************************************************)
(* The poller runs as long as there is a connection, tasks are scheduled,  *)
(* frames arrive or fail, and faults are finite.                           *)
(***************************************************************************)
FairIvSpec ==
  /\ IvSpec
  /\ WF_ivVars(\E got \in {"sent", "applied", "already_applied", "not_found", "conflict"} :
                 ServerReceives(got))
  /\ WF_ivVars(PromptAcked \/ DecisionAnswered \/ AutoAccepts)
  /\ WF_ivVars(PollLists \/ ReconcileBegins \/ ReconcileEnds \/ ResumeBegins \/ ResumeEnds
               \/ \E e \in Invites : AdoptNewInvite(e) \/ ResumePrompt(e) \/ ResumeDecision(e))
  /\ \A r \in IvReplies : WF_ivVars(InviteReplyArrives(r)) /\ SF_ivVars(HandleReply(r))

(***************************************************************************)
(* Properties.                                                             *)
(***************************************************************************)
\* However often a prompt or a decision is sent again after failed saves, lost
\* answers and restarts, the operator sees one prompt for an invitation and the
\* Server sees one decision under one reference (stable prompt and decision refs,
\* saved before they are used).
OneLogicalDecision ==
  \A e \in Invites : Cardinality(ivPrompts[e]) <= 1 /\ Cardinality(ivFrames[e]) <= 1

\* An invitation the policy does not accept is decided only as the operator
\* answered (_handle_reply_locked: an exact reply, the first that was saved).
OperatorDecides ==
  \A e \in Invites : \A f \in ivFrames[e] :
    \/ e \in AutoInvites /\ f[1] = "accept"
    \/ \E r \in IvReplies : ivRep[r].ev = e /\ ivRep[r].dec = f[1]

\* A reply that was acknowledged to the Server, which will not deliver it again, has
\* its decision on disk, or the invitation is no longer pending
\* (_finish_keyless_invitation_reply: "ACK an operator reply only after its
\* invitation decision is durable").
AckedReplyIsDurable ==
  \A r \in IvReplies : ivRep[r].st = "acked" =>
    ivDisk[ivRep[r].ev].dec # "pending" \/ ~Listed(ivRep[r].ev)

\* An invitation whose reply was recognised ends at the Server, though the request,
\* the connection or the process fails on the way, unless its decision could not be
\* saved: then the reply stays with the Server until it is delivered again
\* (_handle_reply_locked, resume).
RecognisedReplySettles ==
  \A r \in IvReplies, e \in Invites :
    (ivRep[r].st = "task" /\ ivRep[r].ev = e) ~>
      (~Listed(e) \/ ivRep[r].st = "unacked")

=============================================================================
