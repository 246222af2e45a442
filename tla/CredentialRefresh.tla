-------------------------- MODULE CredentialRefresh --------------------------
(***************************************************************************)
(* The daemon-level credential refresher (portal/credential_refresh.py)    *)
(* with its registration of workers (portal/daemon.py).  Several daemons   *)
(* of one host share one login.  The login is a revision number: the       *)
(* operator replaces it, and a refresh subprocess of the provider's CLI    *)
(* rotates it.  Every daemon copies it into the sanitized view of its      *)
(* agent and asks the provider runtime to reload.                          *)
(*                                                                         *)
(* Two tasks of a daemon refresh: "loop" is run_loop with its ticks, and   *)
(* "turn" is a worker's pre-delivery ensure_fresh.  Between two awaits a   *)
(* task runs alone in its daemon, but the host file, the lock file and the *)
(* refresh subprocesses belong to the host.                                *)
(***************************************************************************)
EXTENDS Integers, FiniteSets, FiniteSetsExt

CONSTANTS CredDaemons,  \* the daemons that share this host's login
          MaxRev,       \* bound on the revisions of the login
          MaxStray,     \* bound on timed-out refresh subprocesses
          MaxCredFaults \* bound on failed view writes and failed callbacks

VARIABLES cHost,   \* [kind, rev, life]: backend, revision (0 none), life[r]
          cCache,  \* daemon -> revision in its Keychain cache
          cTask,   \* daemon -> task -> [pc, by, base, kid]
          cRef,    \* daemon -> the CredentialRefresher's own fields
          cAgent,  \* daemon -> its registered agent
          cStray,  \* refresh subprocesses left running by a timeout
          cFaults

cVars == <<cHost, cCache, cTask, cRef, cAgent, cStray, cFaults>>

CredTasks == {"loop", "turn"}
Lives == {"dead", "late", "fresh"}
NoCredTask == [pc |-> "idle", by |-> FALSE, base |-> 0, kid |-> "none"]
NewRefresher == [req |-> FALSE, seen |-> FALSE, handled |-> 0]
NoAgent == [open |-> FALSE, view |-> 0, reload |-> 0]

CInit ==
  /\ cHost \in {[kind |-> k, rev |-> r,
                 life |-> [i \in 1..MaxRev |-> "fresh"]]
                  : k \in {"file", "keychain"}, r \in 0..1}
  /\ cCache = [d \in CredDaemons |-> cHost.rev]
  /\ cTask = [d \in CredDaemons |-> [t \in CredTasks |-> NoCredTask]]
  /\ cRef = [d \in CredDaemons |-> NewRefresher]
  /\ cAgent = [d \in CredDaemons |-> NoAgent]
  /\ cStray = 0
  /\ cFaults = 0

-----------------------------------------------------------------------------
(* What a daemon reads.                                                    *)

\* the copy a backend serves: the host file, or the daemon's own cache
Canon(d) == IF cHost.kind = "file" THEN cHost.rev ELSE cCache[d]

\* expires_in_seconds: a Keychain daemon with no cache fills it from the login
CacheFilled(d) ==
  IF cHost.kind = "keychain" /\ cCache[d] = 0
  THEN [cCache EXCEPT ![d] = cHost.rev] ELSE cCache
ReadRev(d) == IF cHost.kind = "file" THEN cHost.rev ELSE CacheFilled(d)[d]
ExpiryOf(r) == IF r = 0 THEN "none" ELSE cHost.life[r]

-----------------------------------------------------------------------------
(* The fan-out: views, callbacks, acknowledgement.                         *)
(*                                                                         *)
(* A fan-out works on x = [ref, agent, did], one daemon's fields.  Its     *)
(* fault is "view" (a view cannot be written), "call" (the reload flag     *)
(* cannot be written) or "ok".                                             *)

CredFaults == {"ok", "view", "call"}

\* _sync_views: no login to copy, or a failed write, leaves the view behind
SyncOk(rev, agent, f) == agent.open => (rev # 0 /\ f # "view")
Synced(x, rev, f) ==
  IF SyncOk(rev, x.agent, f) /\ x.agent.open
  THEN [x EXCEPT !.agent.view = rev] ELSE x

\* _fire_refresh_success: every worker's callback writes its reload flag
Fired(x, f) ==
  IF x.agent.open /\ f # "call"
  THEN [x EXCEPT !.agent.reload = x.agent.view] ELSE x

\* variants: the revision is recorded although the reload request, or the
\* view, did not come through
AckWithoutReload(x, rev, f) ==
  IF ~ SyncOk(rev, x.agent, f) THEN Synced(x, rev, f)
  ELSE [Fired(Synced(x, rev, f), f) EXCEPT
          !.ref.handled = IF rev = 0 THEN @ ELSE rev, !.did = TRUE]
\* a revision is acknowledged only when views and reload requests are out
Acknowledged(x, rev, f) ==
  CASE ~ SyncOk(rev, x.agent, f) -> Synced(x, rev, f)
    [] x.agent.open /\ f = "call" -> Synced(x, rev, f)
    [] OTHER -> [Fired(Synced(x, rev, f), f) EXCEPT
                   !.ref.handled = IF rev = 0 THEN @ ELSE rev, !.did = TRUE]

\* _detect_external_rotation
Detected(x, rev, f) ==
  IF ~ x.ref.seen
  THEN [x EXCEPT !.ref.seen = TRUE, !.ref.handled = rev, !.did = FALSE]
  ELSE IF rev \in {0, x.ref.handled} THEN [x EXCEPT !.did = FALSE]
  ELSE Acknowledged([x EXCEPT !.did = FALSE], rev, f)

Fields(d) == [ref |-> cRef[d], agent |-> cAgent[d], did |-> FALSE]
Write(d, x, f) ==
  /\ cRef' = [cRef EXCEPT ![d] = x.ref]
  /\ cAgent' = [cAgent EXCEPT ![d] = x.agent]
  /\ f # "ok" => x.agent.open
  /\ cFaults' = cFaults + (IF f = "ok" THEN 0 ELSE 1)
  /\ cFaults' =< MaxCredFaults

-----------------------------------------------------------------------------
(* The host: the operator, time, and the refresh subprocesses.             *)

CredLogin ==
  /\ cHost.rev < MaxRev
  /\ cHost' = [cHost EXCEPT !.rev = @ + 1]
  /\ UNCHANGED <<cCache, cTask, cRef, cAgent, cStray, cFaults>>

\* revisions that no copy of the login holds any more are not aged
CredAges(r) ==
  /\ r \in {cHost.rev} \union {Canon(d) : d \in CredDaemons}
  /\ r > 0
  /\ cHost.life[r] # "dead"
  /\ cHost' = [cHost EXCEPT !.life[r] =
                 IF @ = "fresh" THEN "late" ELSE "dead"]
  /\ UNCHANGED <<cCache, cTask, cRef, cAgent, cStray, cFaults>>

\* the provider's CLI rotates the login unless it is still fresh
Rotates ==
  /\ cHost.rev \in 1..(MaxRev - 1)
  /\ cHost.life[cHost.rev] # "fresh"
  /\ cHost' = [cHost EXCEPT !.rev = @ + 1]

ChildRotates(d, t) ==
  /\ cTask[d][t].pc = "child" /\ cTask[d][t].kid = "run"
  /\ Rotates
  /\ cTask' = [cTask EXCEPT ![d][t].kid = "done"]
  /\ UNCHANGED <<cCache, cRef, cAgent, cStray, cFaults>>

StrayRotates ==
  /\ cStray > 0
  /\ Rotates
  /\ cStray' = cStray - 1
  /\ UNCHANGED <<cCache, cTask, cRef, cAgent, cFaults>>

StrayEnds ==
  /\ cStray > 0
  /\ cStray' = cStray - 1
  /\ UNCHANGED <<cHost, cCache, cTask, cRef, cAgent, cFaults>>

-----------------------------------------------------------------------------
(* One daemon.                                                             *)

\* _register_with_refresher: a worker's runtime opens from the current view
RegisterAgent(d) ==
  /\ cRef[d].seen /\ ~ cAgent[d].open
  /\ ReadRev(d) # 0
  /\ cAgent' = [cAgent EXCEPT ![d] =
       [NoAgent EXCEPT !.open = TRUE, !.view = ReadRev(d),
                       !.reload = ReadRev(d)]]
  /\ UNCHANGED <<cHost, cCache, cTask, cRef, cStray, cFaults>>

\* notify_refresh_needed, from a worker that saw a 401
CredNotify(d) ==
  /\ cAgent[d].open /\ ~ cRef[d].req
  /\ cRef' = [cRef EXCEPT ![d].req = TRUE]
  /\ UNCHANGED <<cHost, cCache, cTask, cAgent, cStray, cFaults>>

-----------------------------------------------------------------------------
(* The tick, the refresh and the pre-delivery gate.                        *)

CacheAt(d, rev) == IF cHost.kind = "keychain" /\ rev # 0
                   THEN [cCache EXCEPT ![d] = rev] ELSE cCache

\* the tick's last line: reconcile again, else keep the views current
Reconciled(x, rev, f) ==
  LET y == Detected(x, rev, f) IN IF y.did THEN y ELSE Synced(y, rev, f)

\* run_loop up to the refresh: take the request, reconcile, decide
Tick(d, f) ==
  /\ cTask[d]["loop"].pc = "idle"
  /\ LET trig == cRef[d].req
         x == Detected([Fields(d) EXCEPT !.ref.req = FALSE], Canon(d), f)
         exp == ExpiryOf(ReadRev(d))
     IN /\ cCache' = CacheFilled(d)
        /\ \/ /\ trig \/ exp \in {"late", "dead"}
              /\ Write(d, x, f)
              /\ cTask' = [cTask EXCEPT ![d]["loop"] =
                   [NoCredTask EXCEPT !.pc = "lock", !.by = trig]]
           \/ /\ ~ trig /\ exp \in {"none", "fresh"}
              /\ Write(d, Reconciled(x, ReadRev(d), f), f)
              /\ UNCHANGED cTask
  /\ UNCHANGED <<cHost, cStray>>

\* ensure_fresh, called by a worker before it delivers a batch
EnsureFresh(d, f) ==
  /\ cAgent[d].open /\ cTask[d]["turn"].pc = "idle"
  /\ cCache' = CacheFilled(d)
  /\ \/ /\ ExpiryOf(ReadRev(d)) = "fresh"
        /\ Write(d, Synced(Fields(d), ReadRev(d), f), f)
        /\ UNCHANGED cTask
     \/ /\ ExpiryOf(ReadRev(d)) # "fresh" /\ f = "ok"
        /\ cTask' = [cTask EXCEPT ![d]["turn"] = [NoCredTask EXCEPT !.pc = "lock"]]
        /\ UNCHANGED <<cRef, cAgent, cFaults>>
  /\ UNCHANGED <<cHost, cStray>>

\* when ensure_fresh says no, the worker asks for a refresh
GateShut(x) == [x EXCEPT !.ref.req = TRUE]

\* _propagate_outcome: here only the fast retry of a rate limit matters, which
\* asks for a refresh (the health it writes is WorkerHealth's subject)
Propagated(x, outcome) ==
  IF outcome = "rate" THEN [x EXCEPT !.ref.req = TRUE] ELSE x

\* _refresh_now from the moment its locks are released to the caller's next
\* await; rev is what the backend serves by then
Resumed(d, t, outcome, rev, f) ==
  LET x == CASE outcome = "skip" -> Fields(d)
             [] outcome = "refreshed" -> Acknowledged(Fields(d), rev, f)
             [] OTHER -> Propagated(Fields(d), outcome)
      y == IF t = "loop" THEN Reconciled(x, rev, f)
           ELSE IF ExpiryOf(rev) \in {"late", "fresh"} THEN Synced(x, rev, f)
           ELSE GateShut(x)
  IN /\ Write(d, y, f)
     /\ cTask' = [cTask EXCEPT ![d][t] = NoCredTask]

\* the OS lock: nobody on this host runs a refresh subprocess it still awaits
HostLockFree == \A d \in CredDaemons, t \in CredTasks : cTask[d][t].pc # "child"

\* with the lock held, a refresh nobody asked for by 401 looks again first
RefreshBegins(d, t, f) ==
  /\ cTask[d][t].pc = "lock"
  /\ HostLockFree
  /\ cCache' = CacheFilled(d)
  /\ \/ /\ ~ cTask[d][t].by /\ ExpiryOf(ReadRev(d)) = "fresh"
        /\ Resumed(d, t, "skip", ReadRev(d), f)
     \/ /\ cTask[d][t].by \/ ExpiryOf(ReadRev(d)) # "fresh"
        /\ f = "ok"
        /\ cTask' = [cTask EXCEPT ![d][t].pc = "child", ![d][t].kid = "run",
                                  ![d][t].base = cHost.rev]
        /\ UNCHANGED <<cRef, cAgent, cFaults>>
  /\ UNCHANGED <<cHost, cStray>>

\* another daemon held the lock past the deadline
LockTimesOut(d, t, f) ==
  /\ cTask[d][t].pc = "lock"
  /\ ~ HostLockFree
  /\ \A u \in CredTasks : cTask[d][u].pc # "child"
  /\ cCache' = CacheFilled(d)
  /\ Resumed(d, t, "skip", ReadRev(d), f)
  /\ UNCHANGED <<cHost, cStray>>

\* exit 0: did the login move since the subprocess was started?
ExitOutcome(base) ==
  CASE cHost.kind = "file" ->
         IF base # 0 /\ cHost.rev = base THEN "unchanged" ELSE "refreshed"
    [] OTHER ->
         IF cHost.rev = 0 THEN "failed"
         ELSE IF base = cHost.rev THEN "unchanged" ELSE "refreshed"

ChildSucceeds(d, t, f) ==
  /\ cTask[d][t].pc = "child"
  /\ cCache' = CacheAt(d, cHost.rev)
  /\ Resumed(d, t, ExitOutcome(cTask[d][t].base), cHost.rev, f)
  /\ UNCHANGED <<cHost, cStray>>

\* exit # 0, classified by its output
ChildFails(d, t, f) ==
  /\ cTask[d][t].pc = "child"
  /\ cCache' = CacheFilled(d)
  /\ \E o \in {"failed", "rate"} :
       Resumed(d, t, o, ReadRev(d), f)
  /\ UNCHANGED <<cHost, cStray>>

\* the wait for the subprocess ends, the subprocess does not
ChildTimesOut(d, t, f) ==
  /\ cTask[d][t].pc = "child"
  /\ cCache' = CacheFilled(d)
  /\ cStray' = cStray + (IF cTask[d][t].kid = "run" THEN 1 ELSE 0)
  /\ cStray' =< MaxStray
  /\ Resumed(d, t, "failed", ReadRev(d), f)
  /\ UNCHANGED cHost

\* _external_rotation_loop with KeychainBackend.poll_external_rotation
KeychainPoll(d, f) ==
  /\ cHost.kind = "keychain"
  /\ cRef[d].seen
  /\ cCache' = CacheAt(d, cHost.rev)
  /\ Write(d, Detected(Fields(d), CacheAt(d, cHost.rev)[d], f), f)
  /\ UNCHANGED <<cHost, cTask, cStray>>

-----------------------------------------------------------------------------
CredStep(d, f) ==
  \/ Tick(d, f) \/ EnsureFresh(d, f) \/ KeychainPoll(d, f)
  \/ \E t \in CredTasks :
       \/ RefreshBegins(d, t, f) \/ LockTimesOut(d, t, f)
       \/ ChildSucceeds(d, t, f) \/ ChildFails(d, t, f)
       \/ ChildTimesOut(d, t, f)

CNext ==
  \/ CredLogin \/ StrayRotates \/ StrayEnds
  \/ \E r \in 1..MaxRev : CredAges(r)
  \/ \E d \in CredDaemons :
       \/ RegisterAgent(d) \/ CredNotify(d)
       \/ \E t \in CredTasks : ChildRotates(d, t)
       \/ \E f \in CredFaults : CredStep(d, f)

CSpec == CInit /\ [][CNext]_cVars

\* the loop is a task that always runs again, a wait for a subprocess is
\* bounded, and the asyncio lock in front of the host lock is first come,
\* first served
FairCSpec ==
  /\ CSpec
  /\ \A d \in CredDaemons :
       /\ WF_cVars(\E f \in CredFaults : Tick(d, f))
       /\ WF_cVars(\E f \in CredFaults : KeychainPoll(d, f))
       /\ WF_cVars(\E t \in CredTasks, f \in CredFaults :
                     \/ ChildSucceeds(d, t, f) \/ ChildFails(d, t, f)
                     \/ ChildTimesOut(d, t, f))
       /\ SF_cVars(\E f \in CredFaults : RefreshBegins(d, "loop", f)
                                         \/ LockTimesOut(d, "loop", f))

-----------------------------------------------------------------------------
\* Safety.  A daemon acknowledges a revision of the login only when its
\* agent's sanitized view holds it and the provider was asked to reload from
\* that view, whichever of the tick, the refresh, the pre-delivery gate or the
\* Keychain poll met the revision first (_refresh_now and
\* _detect_external_rotation).
AcknowledgedIsServed ==
  \A d \in CredDaemons : cAgent[d].open =>
    /\ cRef[d].handled =< cAgent[d].reload
    /\ cAgent[d].reload =< cAgent[d].view

\* Liveness.  A replaced login reaches every daemon's provider, also when it
\* was replaced while a refresh subprocess was running and that refresh failed
\* (the second reconciliation of _tick).
ReplacementReachesProvider ==
  \A d \in CredDaemons :
    (cAgent[d].open /\ cAgent[d].reload < cHost.rev)
      ~> (cAgent[d].reload = cHost.rev)
=============================================================================
