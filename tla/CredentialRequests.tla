-------------------------- MODULE CredentialRequests --------------------------
(***************************************************************************)
(* The credentials an agent asks its owner for over DM                     *)
(* (portal/credential_requests.py, the readers portal/credentials.py and   *)
(* portal/cloud_credentials.py, the hooks in portal/worker_run.py).        *)
(*                                                                         *)
(* A tool call issues a request into a ledger that survives the process.   *)
(* The owner's browser files the value at the Server, then replies in the  *)
(* DM.  The reply is seen up to three times: by the hook of the message    *)
(* store, by the scan of an admitted batch, by the sweep of a boot.  Each  *)
(* sighting is a handler: claim, ask for the list, fetch, place, settle.   *)
(* A boot first places whatever the Server lists.                          *)
(*                                                                         *)
(* A handler is a task of the daemon's loop that nobody cancels when its   *)
(* worker stops, so it may outlive the worker and its reader.              *)
(***************************************************************************)
EXTENDS Integers, FiniteSets, FiniteSetsExt

CONSTANTS MaxReqs,       \* requests
          MaxSlots,      \* credentials (type, index) at the Server
          MaxFiledVer,   \* bound on versions of one credential
          MaxHandlers,   \* handlers alive at once
          MaxBoots,      \* boots of the worker
          MaxReqFaults   \* failed calls, mismatches, late versions, revokes

Reqs == 1..MaxReqs
Slots == 1..MaxSlots
Handlers == 1..MaxHandlers

\* a plan credential is stored under its type, a CUSTOMIZED one under the name
\* the agent asked for; "free" is an owner's label that is no variable name
ReqKeys == {"plan", "name"}

VARIABLES qReq,    \* the ledger, by request
          qSrv,    \* the Server's credentials, by slot: version filed, version it
                   \* serves yet, label, activated
          qMsg,    \* the owner's replies: [rid, slot, ver, typ, in]
          qHand,   \* handlers
          qBoot,   \* the worker: [n, pc, rows, vers, snap, cur, todo]
          qStore,  \* plan_credentials.json
          qHist    \* [faults, overlap]

qVars == <<qReq, qSrv, qMsg, qHand, qBoot, qStore, qHist>>

NoPlace == [slot |-> 0, ver |-> 0]
Key(k) == <<k, 0>>
StoreKeys == {Key(k) : k \in ReqKeys} \union {<<"held", s>> : s \in Slots}
NoReq == [st |-> "none", key |-> "plan", at |-> NoPlace, dm |-> "no",
          why |-> "none"]
NoHandler == [pc |-> "idle", boot |-> 0, rid |-> 0, slot |-> 0, ver |-> 0,
              cut |-> FALSE, got |-> 0, by |-> "none"]
NoVers == [s \in Slots |-> 0]
NoSnap == [k \in StoreKeys |-> NoPlace]
NoFetch == [slot |-> 0, key |-> Key("plan"), got |-> 0]

QInit ==
  /\ qReq = [r \in Reqs |-> NoReq]
  /\ qSrv = [s \in Slots |-> [ver |-> 0, vis |-> 0, label |-> "free", on |-> FALSE]]
  /\ qMsg = {}
  /\ qHand = [h \in Handlers |-> NoHandler]
  /\ qBoot = [n |-> 1, pc |-> "list", rows |-> {}, vers |-> NoVers, snap |-> NoSnap,
              cur |-> NoFetch, todo |-> {}]
  /\ qStore = NoSnap
  /\ qHist = [faults |-> 0, overlap |-> FALSE]

Spends == /\ qHist.faults < MaxReqFaults
          /\ qHist' = [qHist EXCEPT !.faults = @ + 1]

-----------------------------------------------------------------------------
(* The ledger.                                                             *)

OpenRequest(r) == qReq[r].st \in {"pending", "in_flight"}

\* claim: check and flip without an await between them
ClaimableTwice(r) == OpenRequest(r)
Claimable(r) == qReq[r].st = "pending"

\* settle: a request that is already settled stays as it is
SettledAs(q, r, st, at, why) ==
  IF q[r].st \in {"pending", "in_flight"}
  THEN [q EXCEPT ![r].st = st, ![r].at = at, ![r].why = why] ELSE q
FailsAs(r, why) == SettledAs(qReq, r, "failed", NoPlace, why)

\* recover_in_flight, at a boot
RecoverInFlight(q) ==
  [r \in Reqs |-> IF q[r].st = "in_flight" THEN [q[r] EXCEPT !.st = "pending"]
                  ELSE q[r]]

\* request_credential: issue, then send the DM
IssueRequest(r, k) ==
  /\ qBoot.pc = "up"
  /\ qReq[r].st = "none" /\ \A p \in 1..(r - 1) : qReq[p].st # "none"
  /\ qReq' = [qReq EXCEPT ![r] = [NoReq EXCEPT !.st = "pending", !.key = k]]
  /\ UNCHANGED <<qSrv, qMsg, qHand, qBoot, qStore, qHist>>

RequestSent(r) ==
  /\ qBoot.pc = "up"
  /\ qReq[r].dm = "no" /\ qReq[r].st # "none"
  /\ \/ /\ qReq' = [qReq EXCEPT ![r].dm = "sent"]
        /\ UNCHANGED qHist
     \/ /\ Spends
        /\ qReq' = [FailsAs(r, "unsent") EXCEPT ![r].dm = "failed"]
  /\ UNCHANGED <<qSrv, qMsg, qHand, qBoot, qStore>>

-----------------------------------------------------------------------------
(* The owner and the Server.                                               *)

\* the browser files a value for a request, and then replies
OwnerFiles(r, s) ==
  /\ qReq[r].dm = "sent" /\ \A m \in qMsg : m.rid # r
  /\ \/ qSrv[s].ver = 0
     \/ qSrv[s].label = qReq[r].key /\ qSrv[s].ver < MaxFiledVer
  /\ \E t \in BOOLEAN, late \in IF qSrv[s].ver = 0 THEN {FALSE} ELSE BOOLEAN :
       /\ IF t /\ ~ late THEN UNCHANGED qHist ELSE Spends
       /\ qSrv' = [qSrv EXCEPT ![s] =
            [ver |-> @.ver + 1, vis |-> IF late THEN @.vis ELSE @.ver + 1,
             label |-> qReq[r].key, on |-> TRUE]]
       /\ qMsg' = qMsg \union {[rid |-> r, slot |-> s, ver |-> qSrv'[s].ver,
                                typ |-> t, in |-> FALSE]}
  /\ UNCHANGED <<qReq, qHand, qBoot, qStore>>

\* the owner shares something nobody asked for
OwnerShares(s) ==
  /\ qSrv[s].ver = 0
  /\ Spends
  /\ qSrv' = [qSrv EXCEPT ![s] = [ver |-> 1, vis |-> 1, label |-> "free", on |-> TRUE]]
  /\ UNCHANGED <<qReq, qMsg, qHand, qBoot, qStore>>

\* a version the Server did not serve yet
ServerCatchesUp(s) ==
  /\ qSrv[s].vis < qSrv[s].ver
  /\ qSrv' = [qSrv EXCEPT ![s].vis = qSrv[s].ver]
  /\ UNCHANGED <<qReq, qMsg, qHand, qBoot, qStore, qHist>>

OwnerRevokes(s) ==
  /\ qSrv[s].on
  /\ Spends
  /\ qSrv' = [qSrv EXCEPT ![s].on = FALSE]
  /\ UNCHANGED <<qReq, qMsg, qHand, qBoot, qStore>>

-----------------------------------------------------------------------------
(* Placing.                                                                *)

\* place: the row is replaced whatever it held
PlacedAt(k, s, v) == [qStore EXCEPT ![k] = [slot |-> s, ver |-> v]]

\* _alias_from_ledger: a settled request of that index, else the only open one
AliasFromLedger(s) ==
  LET named == {r \in Reqs : qReq[r].key = "name"}
      open == {r \in named : OpenRequest(r)}
  IN \/ \E r \in named : qReq[r].at.slot = s
     \/ Cardinality(open) = 1

\* the store key of a row of the Server's list
RowKey(s) ==
  IF qSrv[s].label = "plan" THEN Key("plan")
  ELSE IF AliasFromLedger(s) \/ qSrv[s].label = "name" THEN Key("name")
  ELSE <<"held", s>>

\* _record_placement: the first open request the row may answer
RequestAnswers(r, s) ==
  /\ OpenRequest(r)
  /\ qReq[r].key = (IF qSrv[s].label = "plan" THEN "plan" ELSE "name")
  /\ qReq[r].key = "name" => AliasFromLedger(s)
RecordedPlacement(s, v) ==
  LET hits == {r \in Reqs : RequestAnswers(r, s)}
  IN IF hits = {} THEN qReq
     ELSE SettledAs(qReq, Min(hits), "placed", [slot |-> s, ver |-> v], "boot")

-----------------------------------------------------------------------------
(* A handler of one reply.                                                 *)

FreeHandler(h) == qHand[h].pc = "idle" /\ \A i \in 1..(h - 1) : qHand[i].pc # "idle"

\* handle_filed_replies up to its first await
Started(m, h, by) ==
  IF ~ Claimable(m.rid) THEN UNCHANGED <<qReq, qHand>>
  ELSE IF ~ m.typ
  THEN /\ qReq' = FailsAs(m.rid, "type") /\ UNCHANGED qHand
  ELSE /\ qReq' = [qReq EXCEPT ![m.rid].st = "in_flight"]
       /\ qHand' = [qHand EXCEPT ![h] =
            [NoHandler EXCEPT !.pc = "list", !.boot = qBoot.n, !.rid = m.rid,
                              !.slot = m.slot, !.ver = m.ver, !.by = by]]

\* the hook of the store, once the worker has installed it
HookIn == {"sweep", "up"}
ReplyArrives(m, h) ==
  /\ ~ m.in
  /\ qMsg' = (qMsg \ {m}) \union {[m EXCEPT !.in = TRUE]}
  /\ IF qBoot.pc \in HookIn
     THEN FreeHandler(h) /\ Started(m, h, "hook")
     ELSE UNCHANGED <<qReq, qHand>>
  /\ UNCHANGED <<qSrv, qBoot, qStore, qHist>>

\* the scan of an admitted batch
TurnScans(m, h) ==
  /\ m.in /\ qBoot.pc = "up" /\ FreeHandler(h)
  /\ Claimable(m.rid)
  /\ Started(m, h, "hook")
  /\ UNCHANGED <<qSrv, qMsg, qBoot, qStore, qHist>>

HandlerEnds(h) == qHand' = [qHand EXCEPT ![h] = NoHandler]

\* a handler of a stopped worker has a closed client
CallFails(h) == IF qHand[h].boot # qBoot.n THEN UNCHANGED qHist ELSE Spends

\* _forget raises the reader's generation: every fetch under way is cut off
Forgotten(boot) ==
  [i \in Handlers |->
     IF qHand[i].boot = boot /\ qHand[i].pc \in {"get", "got"}
     THEN [qHand[i] EXCEPT !.cut = TRUE] ELSE qHand[i]]

\* the list came: refuse what is not on it, else forget and fetch
HandlerLists(h) ==
  LET x == qHand[h] IN
  /\ x.pc = "list"
  /\ \/ /\ CallFails(h)
        /\ qReq' = FailsAs(x.rid, "call") /\ HandlerEnds(h)
     \/ /\ ~ qSrv[x.slot].on
        /\ qReq' = FailsAs(x.rid, "unlisted") /\ HandlerEnds(h)
        /\ UNCHANGED qHist
     \/ /\ qSrv[x.slot].on
        /\ qHand' = [Forgotten(x.boot) EXCEPT ![h].pc = "get"]
        /\ UNCHANGED <<qReq, qHist>>
  /\ UNCHANGED <<qSrv, qMsg, qBoot, qStore>>

\* the Server reads the credential
ServerAnswers(h) ==
  /\ qHand[h].pc = "get"
  /\ LET c == qSrv[qHand[h].slot]
     IN qHand' = [qHand EXCEPT ![h].pc = "got", ![h].got = IF c.on THEN c.vis ELSE 0]
  /\ UNCHANGED <<qReq, qSrv, qMsg, qBoot, qStore, qHist>>

\* AgentCredentials.get returns, and _place_and_settle
HandlerGets(h) ==
  LET x == qHand[h] IN
  /\ x.pc = "got"
  /\ qHand' = [(IF x.got = 0 THEN Forgotten(x.boot) ELSE qHand) EXCEPT ![h] = NoHandler]
  /\ \/ /\ CallFails(h)
        /\ qReq' = FailsAs(x.rid, "call") /\ UNCHANGED qStore
     \/ /\ x.got = 0
        /\ qReq' = FailsAs(x.rid, "gone") /\ UNCHANGED <<qStore, qHist>>
     \/ /\ x.got # 0 /\ x.cut
        /\ qReq' = FailsAs(x.rid, "fenced") /\ UNCHANGED <<qStore, qHist>>
     \/ /\ x.got # 0 /\ ~ x.cut /\ x.got < x.ver
        /\ qReq' = [qReq EXCEPT ![x.rid].st = IF @ = "in_flight" THEN "pending" ELSE @,
                                ![x.rid].why = "behind"]
        /\ UNCHANGED <<qStore, qHist>>
     \/ /\ x.got # 0 /\ ~ x.cut /\ x.got >= x.ver
        /\ qStore' = PlacedAt(Key(qReq[x.rid].key), x.slot, x.got)
        /\ qReq' = SettledAs(qReq, x.rid, "placed",
                             [slot |-> x.slot, ver |-> x.got], "reply")
        /\ UNCHANGED qHist
  /\ UNCHANGED <<qSrv, qMsg, qBoot>>

-----------------------------------------------------------------------------
(* Boots.                                                                  *)

\* reconcile_at_boot: the list, or the environment when it cannot be had
BootLists ==
  /\ qBoot.pc = "list"
  /\ \/ /\ qBoot' = [qBoot EXCEPT !.pc = "row", !.snap = qStore,
                       !.vers = [s \in Slots |-> qSrv[s].vis],
                       !.rows = {s \in Slots : qSrv[s].on}]
        /\ UNCHANGED qHist
     \/ /\ Spends
        /\ qBoot' = [qBoot EXCEPT !.pc = "row", !.rows = {}]
  /\ UNCHANGED <<qReq, qSrv, qMsg, qHand, qStore>>

\* the next row: skip it when it is placed already, else forget and fetch
AlreadyPlaced(s) ==
  qBoot.snap[RowKey(s)] = [slot |-> s, ver |-> qBoot.vers[s]]
BootFetches ==
  /\ qBoot.pc = "row" /\ qBoot.rows # {}
  /\ LET s == Min(qBoot.rows)
         rest == qBoot.rows \ {s}
     IN IF AlreadyPlaced(s)
        THEN qBoot' = [qBoot EXCEPT !.rows = rest]
        ELSE qBoot' = [qBoot EXCEPT !.rows = rest, !.pc = "fetch",
                       !.cur = [slot |-> s, key |-> RowKey(s),
                                got |-> IF qSrv[s].on THEN qSrv[s].vis ELSE 0]]
  /\ UNCHANGED <<qReq, qSrv, qMsg, qHand, qStore, qHist>>

\* it came: place and record, or go on to the next row
BootPlaces ==
  LET c == qBoot.cur IN
  /\ qBoot.pc = "fetch"
  /\ qBoot' = [qBoot EXCEPT !.pc = "row", !.cur = NoFetch]
  /\ \/ /\ c.got # 0
        /\ qStore' = PlacedAt(c.key, c.slot, c.got)
        /\ qReq' = RecordedPlacement(c.slot, c.got)
        /\ UNCHANGED qHist
     \/ /\ IF c.got = 0 THEN UNCHANGED qHist ELSE Spends
        /\ UNCHANGED <<qStore, qReq>>
  /\ UNCHANGED <<qSrv, qMsg, qHand>>

\* install the hook, give claims back, sweep the stored replies
SweepBegins ==
  /\ qBoot.pc = "row" /\ qBoot.rows = {}
  /\ qReq' = RecoverInFlight(qReq)
  /\ qBoot' = [qBoot EXCEPT !.pc = "sweep", !.snap = NoSnap, !.vers = NoVers,
                 !.todo = {m.rid : m \in {x \in qMsg : x.in /\ qReq'[x.rid].st = "pending"}}]
  /\ UNCHANGED <<qSrv, qMsg, qHand, qStore, qHist>>

\* one reply after the other, each to its end
Sweeping == \E h \in Handlers : qHand[h].by = "sweep" /\ qHand[h].boot = qBoot.n
SweepNext(h) ==
  /\ qBoot.pc = "sweep" /\ qBoot.todo # {}
  /\ ~ Sweeping
  /\ FreeHandler(h)
  /\ \E m \in qMsg :
       /\ m.rid = Min(qBoot.todo) /\ m.in
       /\ Started(m, h, "sweep")
  /\ qBoot' = [qBoot EXCEPT !.todo = @ \ {Min(@)}]
  /\ UNCHANGED <<qSrv, qMsg, qStore, qHist>>
BootDone ==
  /\ qBoot.pc = "sweep" /\ qBoot.todo = {} /\ ~ Sweeping
  /\ qBoot' = [qBoot EXCEPT !.pc = "up"]
  /\ UNCHANGED <<qReq, qSrv, qMsg, qHand, qStore, qHist>>

NewBoot == [n |-> qBoot.n + 1, pc |-> "list", rows |-> {}, vers |-> NoVers,
            snap |-> NoSnap, cur |-> NoFetch, todo |-> {}]

\* the daemon is killed
ProcessDies ==
  /\ qBoot.n < MaxBoots
  /\ qBoot' = NewBoot
  /\ qHand' = [h \in Handlers |-> NoHandler]
  /\ UNCHANGED <<qReq, qSrv, qMsg, qStore, qHist>>

\* the daemon replaces the worker: its sweep dies with it, its hooks do not
WorkerRestarts ==
  /\ qBoot.n < MaxBoots
  /\ qBoot' = NewBoot
  /\ qHand' = [h \in Handlers |-> IF qHand[h].by = "sweep" THEN NoHandler ELSE qHand[h]]
  /\ qHist' = [qHist EXCEPT !.overlap =
                 @ \/ \E h \in Handlers : qHand'[h].pc # "idle"]
  /\ UNCHANGED <<qReq, qSrv, qMsg, qStore>>

-----------------------------------------------------------------------------
HandlerStep(h) == HandlerLists(h) \/ ServerAnswers(h) \/ HandlerGets(h)
BootStep == \/ BootLists \/ BootFetches \/ BootPlaces \/ SweepBegins \/ BootDone
            \/ \E h \in Handlers : SweepNext(h)

QNext ==
  \/ \E r \in Reqs :
       \/ \E k \in ReqKeys : IssueRequest(r, k)
       \/ RequestSent(r)
       \/ \E s \in Slots : OwnerFiles(r, s)
  \/ \E s \in Slots : OwnerShares(s) \/ OwnerRevokes(s) \/ ServerCatchesUp(s)
  \/ \E h \in Handlers :
       \/ \E m \in qMsg : ReplyArrives(m, h) \/ TurnScans(m, h)
       \/ HandlerStep(h)
  \/ BootStep
  \/ ProcessDies \/ WorkerRestarts

QSpec == QInit /\ [][QNext]_qVars

\* the tasks of the daemon's loop run on; the Server delivers what it holds
FairQSpec ==
  /\ QSpec
  /\ WF_qVars(BootStep)
  /\ \A h \in Handlers : WF_qVars(HandlerStep(h))
  /\ WF_qVars(\E m \in qMsg, h \in Handlers : ReplyArrives(m, h))

-----------------------------------------------------------------------------
\* Safety.  A reply is acted on by one handler at a time, however many of the
\* hook, the scan and the sweep saw it (RequestLedger.claim), as long as no
\* handler outlived its worker.
OneHandlerPerRequest ==
  qHist.overlap \/
  \A r \in Reqs : Cardinality({h \in Handlers : qHand[h].pc # "idle"
                                                /\ qHand[h].rid = r}) =< 1

\* Safety.  A slower fetch never puts an older version back over the version
\* another request placed: the readers' generation refuses it (amendment 10),
\* as long as no handler outlived its worker and its reader.
NewestStaysPlaced ==
  qHist.overlap \/
  \A r \in Reqs :
    LET row == qStore[Key(qReq[r].key)] IN
    (qReq[r].st = "placed" /\ qReq[r].why = "reply" /\ row.slot = qReq[r].at.slot)
      => row.ver >= qReq[r].at.ver

\* Liveness.  A reply that reached the store is acted on: its request does not
\* stay open, however the process died in between, unless the Server answered
\* with an older version than the reply names.
ReplyIsSettled ==
  \A r \in Reqs :
    (\E m \in qMsg : m.rid = r /\ m.in) ~> (~ OpenRequest(r) \/ qReq[r].why = "behind")

=============================================================================
