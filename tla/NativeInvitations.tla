------------------------- MODULE NativeInvitations --------------------------
(***************************************************************************)
(* Invitations of an agent with keys: agent/membership_events.py,          *)
(* agent/membership_actions.py and their callers in                        *)
(* agent/puffo_core_client.py.                                             *)
(*                                                                         *)
(* Two tasks act on invitations: the listen loop, which takes WebSocket    *)
(* events and messages one at a time, and the poll loop.  Both run         *)
(* poll_pending_invites over one cache of processed ids: an invitation is  *)
(* accepted by policy, or put to the operator in a DM whose id is kept in  *)
(* memory until the operator answers in its thread, or answers all pending *)
(* prompts at once with a message outside any thread.                      *)
(***************************************************************************)
EXTENDS Values, Sequences, FiniteSets, SequencesExt

CONSTANTS NatInvites,    \* invitations
          NatAuto,       \* those by the operator, or covered by the flag
          MaxNatReplies, \* answers the operator writes
          MaxNatPrompts, \* prompts ever delivered
          MaxNatFaults   \* failed requests, lost connections, restarts

VARIABLES nvSrv,    \* the Server's state of each invitation
          nvDone,   \* _processed_invite_ids
          nvPend,   \* _pending_invite_dms: prompts [env, ev], oldest first
          nvTask,   \* the tasks "ws" and "poll": [pc, todo, ev, got, env]
          nvQueue,  \* what the listen loop has not taken
          nvAsked,  \* prompts delivered: the invitation of each
          nvSaid,   \* answers the operator wrote: [env, dec]
          nvPosts,  \* per prompt, decisions posted for it
          nvFaults

nvVars == <<nvSrv, nvDone, nvPend, nvTask, nvQueue, nvAsked, nvSaid, nvPosts, nvFaults>>

NatTasks == {"ws", "poll"}
IdleTask == [pc |-> "idle", todo |-> {}, ev |-> Nothing, got |-> "none", env |-> 0]

NvInit ==
  /\ nvSrv = [e \in NatInvites |-> "absent"]
  /\ nvDone = {}
  /\ nvPend = <<>>
  /\ nvTask = [t \in NatTasks |-> IdleTask]
  /\ nvQueue = <<>>
  /\ nvAsked = <<>>
  /\ nvSaid = <<>>
  /\ nvPosts = [p \in 1..MaxNatPrompts |-> 0]
  /\ nvFaults = 0

NvListed(e) == nvSrv[e] = "pending"
NvFault == nvFaults < MaxNatFaults /\ nvFaults' = nvFaults + 1
NvItem(type, ev, env, dec) == [type |-> type, ev |-> ev, env |-> env, dec |-> dec]

(***************************************************************************)
(* The Server and the operator.                                            *)
(***************************************************************************)
NvInvited(e) ==
  /\ nvSrv[e] = "absent"
  /\ nvSrv' = [nvSrv EXCEPT ![e] = "pending"]
  /\ nvQueue' = Append(nvQueue, NvItem("invite", e, 0, "none"))
  /\ UNCHANGED <<nvDone, nvPend, nvTask, nvAsked, nvSaid, nvPosts, nvFaults>>

NvCanceled(e) ==
  /\ NvListed(e)
  /\ nvSrv' = [nvSrv EXCEPT ![e] = "canceled"]
  /\ nvQueue' = Append(nvQueue, NvItem("cancel", e, 0, "none"))
  /\ UNCHANGED <<nvDone, nvPend, nvTask, nvAsked, nvSaid, nvPosts, nvFaults>>

\* env = 0: outside any thread; bounded to one answer on the way at a time
NvOperatorSays(env, dec) ==
  /\ Len(nvSaid) < MaxNatReplies /\ env <= Len(nvAsked)
  /\ ~\E i \in DOMAIN nvQueue : nvQueue[i].type = "reply"
  /\ nvSaid' = Append(nvSaid, [env |-> env, dec |-> dec])
  /\ nvQueue' = Append(nvQueue, NvItem("reply", Nothing, env, dec))
  /\ UNCHANGED <<nvSrv, nvDone, nvPend, nvTask, nvAsked, nvPosts, nvFaults>>

(***************************************************************************)
(* poll_pending_invites, run by either task.                               *)
(***************************************************************************)
\* what a round may act on: it skips the processed ids, which stay processed
NvNew == {e \in NatInvites : NvListed(e)} \ nvDone

NvStarts(t) ==
  IF t = "poll" THEN nvTask[t].pc = "idle" /\ NvNew # {}
  ELSE nvTask[t].pc = "idle" /\ nvQueue # <<>> /\ Head(nvQueue).type = "invite"

\* the event, or the message, the listen loop is done with
NvTaken(t) == nvQueue' = IF t = "ws" THEN Tail(nvQueue) ELSE nvQueue

NvFetch(t) ==
  /\ NvStarts(t)
  /\ nvTask' = [nvTask EXCEPT ![t] = [IdleTask EXCEPT !.pc = "next", !.todo = NvNew]]
  /\ UNCHANGED <<nvSrv, nvDone, nvPend, nvQueue, nvAsked, nvSaid, nvPosts, nvFaults>>

NvFetchFails(t) ==
  /\ NvStarts(t) /\ t = "ws"
  /\ NvFault
  /\ NvTaken(t)
  /\ UNCHANGED <<nvSrv, nvDone, nvPend, nvTask, nvAsked, nvSaid, nvPosts>>

NvFetchEnds(t) ==
  /\ nvTask[t].pc = "next" /\ nvTask[t].todo = {}
  /\ nvTask' = [nvTask EXCEPT ![t] = IdleTask]
  /\ NvTaken(t)
  /\ UNCHANGED <<nvSrv, nvDone, nvPend, nvAsked, nvSaid, nvPosts, nvFaults>>

NvWaits(t, pc, e) == [nvTask[t] EXCEPT !.pc = pc, !.ev = e, !.got = "none"]
NvGoesOn(t) == [nvTask EXCEPT ![t] = [@ EXCEPT !.pc = "next", !.todo = @ \ {nvTask[t].ev},
                                                !.ev = Nothing, !.got = "none", !.env = 0]]

\* process_invite: a processed id is skipped, the rest is accepted or put to the
\* operator
ProcessInvite(t, e) ==
  /\ nvTask[t].pc = "next" /\ e \in nvTask[t].todo
  /\ nvTask' = [nvTask EXCEPT ![t] =
                  IF e \in nvDone THEN [@ EXCEPT !.todo = @ \ {e}]
                  ELSE NvWaits(t, IF e \in NatAuto THEN "accept" ELSE "prompt", e)]
  /\ UNCHANGED <<nvSrv, nvDone, nvPend, nvQueue, nvAsked, nvSaid, nvPosts, nvFaults>>

\* the post of an accept or a reject event reaches the Server
Posted(t, e, dec) ==
  /\ nvTask[t].got = "none"
  /\ nvSrv' = IF NvListed(e) THEN [nvSrv EXCEPT ![e] = dec] ELSE nvSrv
  /\ nvTask' = [nvTask EXCEPT ![t].got = IF NvListed(e) THEN "ok" ELSE "refused"]

AutoAcceptPosts(t) ==
  /\ nvTask[t].pc = "accept"
  /\ Posted(t, nvTask[t].ev, "accept")
  /\ UNCHANGED <<nvDone, nvPend, nvQueue, nvAsked, nvSaid, nvPosts, nvFaults>>

\* only an accept that succeeded is processed
MarkedAccepted(t, ok) == nvDone' = IF ok THEN nvDone \union {nvTask[t].ev} ELSE nvDone

AutoAcceptReturns(t) ==
  /\ nvTask[t].pc = "accept" /\ nvTask[t].got # "none"
  /\ MarkedAccepted(t, nvTask[t].got = "ok")
  /\ nvTask' = NvGoesOn(t)
  /\ UNCHANGED <<nvSrv, nvPend, nvQueue, nvAsked, nvSaid, nvPosts, nvFaults>>

AutoAcceptFails(t) ==
  /\ nvTask[t].pc = "accept"
  /\ NvFault
  /\ MarkedAccepted(t, FALSE)
  /\ nvTask' = NvGoesOn(t)
  /\ UNCHANGED <<nvSrv, nvPend, nvQueue, nvAsked, nvSaid, nvPosts>>

\* _notify_operator_of_invite: the DM, then its id among the pending prompts; the
\* invitation is processed whether or not the DM went out
PromptDelivered(t) ==
  /\ nvTask[t].pc = "prompt" /\ nvTask[t].got = "none" /\ Len(nvAsked) < MaxNatPrompts
  /\ nvAsked' = Append(nvAsked, nvTask[t].ev)
  /\ nvTask' = [nvTask EXCEPT ![t].got = "sent", ![t].env = Len(nvAsked) + 1]
  /\ UNCHANGED <<nvSrv, nvDone, nvPend, nvQueue, nvSaid, nvPosts, nvFaults>>

NotifyReturns(t) ==
  /\ nvTask[t].pc = "prompt" /\ nvTask[t].got # "none"
  /\ nvPend' = Append(nvPend, [env |-> nvTask[t].env, ev |-> nvTask[t].ev])
  /\ nvDone' = nvDone \union {nvTask[t].ev}
  /\ nvTask' = NvGoesOn(t)
  /\ UNCHANGED <<nvSrv, nvQueue, nvAsked, nvSaid, nvPosts, nvFaults>>

NotifyFails(t) ==
  /\ nvTask[t].pc = "prompt"
  /\ NvFault
  /\ nvDone' = nvDone \union {nvTask[t].ev}
  /\ nvTask' = NvGoesOn(t)
  /\ UNCHANGED <<nvSrv, nvPend, nvQueue, nvAsked, nvSaid, nvPosts>>

(***************************************************************************)
(* The listen loop: cancellations and the operator's answers.              *)
(***************************************************************************)
NvTakes(type) ==
  nvTask["ws"].pc = "idle" /\ nvQueue # <<>> /\ Head(nvQueue).type = type

\* on_invite_canceled: the first pending prompt of the invitation is dropped
InviteCanceled ==
  LET e == Head(nvQueue).ev
      hits == {i \in DOMAIN nvPend : nvPend[i].ev = e} IN
  /\ NvTakes("cancel")
  /\ nvPend' = IF hits = {} THEN nvPend ELSE RemoveAt(nvPend, Min(hits))
  /\ nvDone' = IF hits = {} THEN nvDone ELSE nvDone \union {e}
  /\ nvQueue' = Tail(nvQueue)
  /\ UNCHANGED <<nvSrv, nvTask, nvAsked, nvSaid, nvPosts, nvFaults>>

\* resolve_invite_targets: the thread's prompt, or all of them outside a thread
AllTargets(env) == ToSet(nvPend)
ResolveTargets(env) == {p \in ToSet(nvPend) : env \in {0, p.env}}

\* an answer no prompt waits for is passed on
ReplyTaken ==
  /\ NvTakes("reply")
  /\ LET targets == ResolveTargets(Head(nvQueue).env) IN
     IF targets = {} THEN nvQueue' = Tail(nvQueue) /\ UNCHANGED nvTask
     ELSE /\ nvTask' = [nvTask EXCEPT !["ws"] = [IdleTask EXCEPT !.pc = "apply", !.todo = targets]]
          /\ UNCHANGED nvQueue
  /\ UNCHANGED <<nvSrv, nvDone, nvPend, nvAsked, nvSaid, nvPosts, nvFaults>>

\* _maybe_handle_invite_reply for the next prompt: its decision is posted and,
\* accepted or not, the prompt is dropped and the operator told
DropsPrompt(p) == nvPend' = SelectSeq(nvPend, LAMBDA q : q # p)

ReplyApplied(p) ==
  LET rest == nvTask["ws"].todo \ {p} IN
  /\ nvTask["ws"].pc = "apply" /\ p \in nvTask["ws"].todo
  /\ nvSrv' = IF NvListed(p.ev) THEN [nvSrv EXCEPT ![p.ev] = Head(nvQueue).dec] ELSE nvSrv
  /\ nvPosts' = [nvPosts EXCEPT ![p.env] = @ + 1]
  /\ DropsPrompt(p)
  /\ nvTask' = [nvTask EXCEPT !["ws"] = IF rest = {} THEN IdleTask ELSE [@ EXCEPT !.todo = rest]]
  /\ nvQueue' = IF rest = {} THEN Tail(nvQueue) ELSE nvQueue
  /\ UNCHANGED <<nvDone, nvAsked, nvSaid, nvFaults>>

(***************************************************************************)
(* Events are not delivered again, messages are until they are stored; the *)
(* prompts and the processed ids are lost with the process.                *)
(***************************************************************************)
OnlyReplies(q) == SelectSeq(q, LAMBDA i : i.type = "reply")

EventsLost ==
  /\ nvTask["ws"].pc = "idle" /\ OnlyReplies(nvQueue) # nvQueue
  /\ NvFault
  /\ nvQueue' = OnlyReplies(nvQueue)
  /\ UNCHANGED <<nvSrv, nvDone, nvPend, nvTask, nvAsked, nvSaid, nvPosts>>

NvRestart ==
  /\ NvFault
  /\ nvQueue' = OnlyReplies(nvQueue)
  /\ nvDone' = {} /\ nvPend' = <<>>
  /\ nvTask' = [t \in NatTasks |-> IdleTask]
  /\ UNCHANGED <<nvSrv, nvAsked, nvSaid, nvPosts>>

NvNext ==
  \/ \E e \in NatInvites : NvInvited(e) \/ NvCanceled(e)
  \/ \E env \in 0..MaxNatPrompts, dec \in {"accept", "reject"} : NvOperatorSays(env, dec)
  \/ \E t \in NatTasks :
       \/ NvFetch(t) \/ NvFetchFails(t) \/ NvFetchEnds(t)
       \/ \E e \in NatInvites : ProcessInvite(t, e)
       \/ AutoAcceptPosts(t) \/ AutoAcceptReturns(t) \/ AutoAcceptFails(t)
       \/ PromptDelivered(t) \/ NotifyReturns(t) \/ NotifyFails(t)
  \/ InviteCanceled
  \/ ReplyTaken
  \/ \E i \in DOMAIN nvPend : ReplyApplied(nvPend[i])
  \/ EventsLost
  \/ NvRestart

NvSpec == NvInit /\ [][NvNext]_nvVars

(***************************************************************************)
(* The poll loop runs every 10 or 30 seconds and its requests return.      *)
(***************************************************************************)
FairNvSpec ==
  /\ NvSpec
  /\ WF_nvVars(NvFetch("poll") \/ NvFetchEnds("poll"))
  /\ WF_nvVars(\E e \in NatInvites : ProcessInvite("poll", e))
  /\ WF_nvVars(AutoAcceptPosts("poll")) /\ WF_nvVars(AutoAcceptReturns("poll"))
  /\ WF_nvVars(PromptDelivered("poll")) /\ WF_nvVars(NotifyReturns("poll"))
  /\ WF_nvVars(NotifyFails("poll"))

(***************************************************************************)
(* Properties.                                                             *)
(***************************************************************************)
\* An invitation the policy does not accept gets only a decision that the operator
\* gave for it: in the thread of one of its prompts, or outside any thread
\* (resolve_invite_targets, _maybe_handle_invite_reply).
DecidedAsTold ==
  \A e \in NatInvites \ NatAuto : nvSrv[e] \in {"accept", "reject"} =>
    \E i \in DOMAIN nvSaid :
      /\ nvSaid[i].dec = nvSrv[e]
      /\ nvSaid[i].env = 0 \/ nvAsked[nvSaid[i].env] = e

\* "Drop from pending so a duplicate ``y`` later in the same thread doesn't
\* re-attempt": one prompt leads to one posted decision, whatever is answered, in
\* the thread and outside it (_maybe_handle_invite_reply).
OneDecisionPerPrompt == \A p \in 1..MaxNatPrompts : nvPosts[p] <= 1

\* An invitation the policy accepts is accepted, though events and requests are lost
\* (poll_pending_invites every round, process_invite).
AutoIsAccepted == \A e \in NatAuto : NvListed(e) ~> ~NvListed(e)

=============================================================================
