----------------------------- MODULE WorkerHealth -----------------------------
(***************************************************************************)
(* One worker's health and the refresh flags it consumes (portal/worker.py, *)
(* portal/worker_run.py, with the writers outside the worker:              *)
(* portal/credential_refresh.py, portal/control/usage_snapshot.py).        *)
(*                                                                         *)
(* runtime.health is one word that many tasks write: the turn, the         *)
(* heartbeat's MCP probe, the transport listener, the refresh watcher, the *)
(* usage loop and the credential refresher.  The worker holds it in memory *)
(* and saves it to runtime.json; the refresher edits runtime.json.         *)
(*                                                                         *)
(* A behaviour has a scene: the writers, besides the turn, that act in it. *)
(***************************************************************************)
EXTENDS Integers, FiniteSets

CONSTANTS HScenes,           \* the scenes: sets of writers
          MaxHTurn,          \* bound on turns and retries
          MaxHEdits,         \* bound on refresh requests
          MaxHFaults,        \* bound on failed reloads and failed sends
          MaxEpisode,        \* bound on the auth_failed episodes
          NoProgressAt,      \* _NO_PROGRESS_TURN_THRESHOLD
          WsDegradeAt,       \* _WS_DEGRADE_THRESHOLD
          ReloadCap,         \* _REFRESH_RELOAD_FAILURE_CAP
          BrokenAt           \* REFRESH_BROKEN_THRESHOLD

VARIABLES hHealth,  \* [mem, disk]
          hTurn,    \* [pc, out, n, retry]
          hWatch,   \* the refresh watcher: "idle" or "reload"
          hFlag,    \* [set, want, have, taking, fails, gave]: refresh requests
          hProbe,   \* [strikes, pc, hello, cov]: the MCP transport
          hAuth,    \* [sent, ep, dm, told]: the operator's DM
          hCount,   \* [still, ws, streak, cap]
          hUsage,   \* [gen, snap, seen, quota]
          hFaults,
          hScene

hVars == <<hHealth, hTurn, hWatch, hFlag, hProbe, hAuth, hCount, hUsage,
           hFaults, hScene>>

HInit ==
  /\ hHealth = [mem |-> "unknown", disk |-> "unknown"]
  /\ hTurn = [pc |-> "idle", out |-> "none", n |-> 0, retry |-> FALSE]
  /\ hWatch = "idle"
  /\ hFlag = [set |-> FALSE, want |-> 0, have |-> 0, taking |-> 0, fails |-> 0,
              gave |-> FALSE]
  /\ hProbe = [strikes |-> 0, pc |-> "idle", hello |-> "none", cov |-> TRUE]
  /\ hAuth = [sent |-> FALSE, ep |-> 0, dm |-> {}, told |-> "none"]
  /\ hCount = [still |-> 0, ws |-> 0, streak |-> 0, cap |-> FALSE]
  /\ hUsage = [gen |-> 0, snap |-> 0, seen |-> "none", quota |-> "free"]
  /\ hFaults = 0
  /\ hScene \in HScenes

Acts(w) == w \in hScene

-----------------------------------------------------------------------------
(* Writing health: the worker's writes save what they write.               *)

Set(h) == hHealth' = [mem |-> h, disk |-> h]
SetFrom(from, h) ==
  IF hHealth.mem \in from THEN Set(h) ELSE UNCHANGED hHealth

HFault == hFaults < MaxHFaults /\ hFaults' = hFaults + 1

\* _turn_active, and a variant in which no finally resets it
TurnIsActive == hTurn.pc \notin {"idle", "settle"}

\* _enter_auth_failed with _on_auth_failed_enter: one DM per episode
EntersAuthFailed ==
  /\ Set("auth_failed")
  /\ hAuth' = IF hHealth.mem = "auth_failed" \/ hAuth.sent
                 \/ hAuth.ep >= MaxEpisode
              THEN hAuth
              ELSE [hAuth EXCEPT !.sent = TRUE, !.ep = @ + 1,
                                 !.dm = @ \union {hAuth.ep + 1}]

\* batch-top: a stale red gives way to the turn, an independent one does not
StandingReds == {"mcp_unreachable", "extra_usage_required"}
FlipSpares == StandingReds \union {"in_progress"}
FlipsInProgress ==
  IF hHealth.mem \in FlipSpares THEN UNCHANGED hHealth ELSE Set("in_progress")

-----------------------------------------------------------------------------
(* The refresh flags.                                                      *)

\* an edit of the profile with its flag, by the operator or an agent tool
ProfileEdited ==
  /\ Acts("flags") /\ hFlag.want < MaxHEdits
  /\ hFlag' = [hFlag EXCEPT !.set = TRUE, !.want = @ + 1]
  /\ UNCHANGED <<hHealth, hTurn, hWatch, hProbe, hAuth, hCount, hUsage,
                 hFaults, hScene>>

\* _reload_lock, and a variant that does not take it
ReloadLockFree == hWatch = "idle" /\ hTurn.pc # "reload"

\* _process_refresh_flags up to adapter.reload: the prompt is rebuilt here
Takes == hFlag' = [hFlag EXCEPT !.taking = hFlag.want]

\* _proactive_refresh_tick
WatcherTakes ==
  /\ hWatch = "idle" /\ ~ TurnIsActive /\ hFlag.set
  /\ ReloadLockFree
  /\ Takes
  /\ hWatch' = "reload"
  /\ UNCHANGED <<hHealth, hTurn, hProbe, hAuth, hCount, hUsage, hFaults, hScene>>

\* a reload opens a new runtime, whose MCP subprocess has yet to say hello
Reopened == hProbe' \in {[hProbe EXCEPT !.hello = "none", !.cov = c] : c \in
                           IF Acts("probe") THEN BOOLEAN ELSE {hProbe.cov}}

\* adapter.reload returned: every flag file is removed
ReloadWorks ==
  /\ hFlag' = [hFlag EXCEPT !.set = FALSE, !.have = hFlag.taking, !.fails = 0]
  /\ Reopened
  /\ UNCHANGED <<hHealth, hFaults>>

\* it raised: the flags stay, until _note_refresh_reload gives up on them
GivesUp == hFlag.fails + 1 >= ReloadCap
ReloadFails ==
  /\ HFault
  /\ IF GivesUp
     THEN /\ hFlag' = [hFlag EXCEPT !.set = FALSE, !.fails = 0, !.gave = TRUE]
          /\ SetFrom({"ok", "unknown"}, "provider_error")
     ELSE /\ hFlag' = [hFlag EXCEPT !.fails = @ + 1]
          /\ UNCHANGED hHealth
  /\ UNCHANGED hProbe

WatcherReloaded ==
  /\ hWatch = "reload"
  /\ ReloadWorks \/ ReloadFails
  /\ hWatch' = "idle"
  /\ UNCHANGED <<hTurn, hAuth, hCount, hUsage, hScene>>

-----------------------------------------------------------------------------
(* The turn: _execute_global_turn, _execute_global_retry, the settlement.  *)

TurnBegins ==
  /\ hTurn.pc = "idle" /\ hTurn.n < MaxHTurn
  /\ hTurn' = [hTurn EXCEPT !.pc = "lock", !.n = @ + 1]
  /\ UNCHANGED <<hHealth, hWatch, hFlag, hProbe, hAuth, hCount, hUsage,
                 hFaults, hScene>>

TurnRefreshes ==
  /\ hTurn.pc = "lock"
  /\ ReloadLockFree
  /\ IF hFlag.set
     THEN /\ Takes
          /\ hTurn' = [hTurn EXCEPT !.pc = "reload"]
     ELSE /\ hFlag' = [hFlag EXCEPT !.fails = 0]
          /\ hTurn' = [hTurn EXCEPT !.pc = "gate"]
  /\ UNCHANGED <<hHealth, hWatch, hProbe, hAuth, hCount, hUsage, hFaults, hScene>>

TurnReloaded ==
  /\ hTurn.pc = "reload"
  /\ ReloadWorks \/ ReloadFails
  /\ hTurn' = [hTurn EXCEPT !.pc = "gate"]
  /\ UNCHANGED <<hWatch, hAuth, hCount, hUsage, hScene>>

\* the pre-delivery gate: a login with time left, or auth_failed
TurnGated ==
  /\ hTurn.pc = "gate"
  /\ \/ /\ FlipsInProgress
        /\ hTurn' = [hTurn EXCEPT !.pc = "run"]
        /\ UNCHANGED hAuth
     \/ /\ Acts("auth")
        /\ EntersAuthFailed
        /\ hTurn' = [hTurn EXCEPT !.pc = "settle", !.out = "auth_failed"]
  /\ UNCHANGED <<hWatch, hFlag, hProbe, hCount, hUsage, hFaults, hScene>>

\* a retry of a failed turn: no flags, no gate
RetryBegins ==
  /\ hTurn.pc = "settle" /\ hTurn.n < MaxHTurn
  /\ hTurn' = [hTurn EXCEPT !.pc = "run", !.out = "none", !.n = @ + 1,
                           !.retry = TRUE]
  /\ FlipsInProgress
  /\ UNCHANGED <<hWatch, hFlag, hProbe, hAuth, hCount, hUsage, hFaults, hScene>>

TurnOutcomes ==
  {"succeeded", "no_progress", "cancelled", "api_error_abandoned",
   "provider_failed", "failed", "recovery_required"}
  \union (IF Acts("auth") THEN {"auth_failed"} ELSE {})
  \union (IF Acts("quota") THEN {"drained", "capped", "extra_usage_required"}
          ELSE {})

TurnRuns(o) ==
  /\ hTurn.pc = "run"
  /\ hTurn' = [hTurn EXCEPT !.pc = "settle", !.out = o]
  /\ UNCHANGED <<hHealth, hWatch, hFlag, hProbe, hAuth, hCount, hUsage,
                 hFaults, hScene>>

\* the reds a no-progress streak may replace
Unnamed == {"ok", "in_progress", "unknown", "no_progress"}

\* _note_no_progress_turn and _reassert_no_progress_after_cancel
SettlesNoProgress ==
  /\ hCount' = [hCount EXCEPT !.still = IF @ < NoProgressAt THEN @ + 1 ELSE @]
  /\ IF hCount.still + 1 >= NoProgressAt THEN SetFrom(Unnamed, "no_progress")
     ELSE UNCHANGED hHealth
CancelledAsSuccess == SetFrom({"in_progress"}, "ok")
SettlesCancelled ==
  IF hCount.still >= NoProgressAt /\ hHealth.mem \in Unnamed
  THEN Set("no_progress") ELSE SetFrom({"in_progress"}, "ok")

\* _resolve_health_after_success
SettlesSuccess ==
  /\ SetFrom({"in_progress", "extra_usage_required", "drained"}, "ok")
  /\ hCount' = [hCount EXCEPT !.still = 0, !.cap = FALSE]

\* _settle_process_health
HealthSettles(o) ==
  CASE o = "succeeded" -> SettlesSuccess /\ UNCHANGED hAuth
    [] o = "no_progress" -> SettlesNoProgress /\ UNCHANGED hAuth
    [] o = "cancelled" -> SettlesCancelled /\ UNCHANGED <<hAuth, hCount>>
    [] o = "auth_failed" -> EntersAuthFailed /\ UNCHANGED hCount
    [] o \in {"drained", "capped"} ->
         /\ Set("drained")
         /\ hCount' = [hCount EXCEPT !.cap = (o = "capped")]
         /\ UNCHANGED hAuth
    [] o = "recovery_required" -> Set("provider_error") /\ UNCHANGED <<hAuth, hCount>>
    [] o = "extra_usage_required" -> Set(o) /\ UNCHANGED <<hAuth, hCount>>
    [] OTHER ->
         /\ SetFrom({"in_progress"},
                    CASE o = "api_error_abandoned" -> o
                      [] o = "provider_failed" -> "provider_error"
                      [] OTHER -> "unhandled_error")
         /\ UNCHANGED <<hAuth, hCount>>

TurnSettles ==
  /\ hTurn.pc = "settle"
  /\ HealthSettles(hTurn.out)
  /\ hTurn' = [hTurn EXCEPT !.pc = "idle", !.out = "none", !.retry = FALSE]
  /\ UNCHANGED <<hWatch, hFlag, hProbe, hUsage, hFaults, hScene>>

-----------------------------------------------------------------------------
(* The operator's DM and the credential refresher.                         *)

\* _notify_operator_of_auth_failed_oauth after its delay
DmDue(e) ==
  /\ e \in hAuth.dm
  /\ \/ /\ hAuth.ep # e
        /\ hAuth' = [hAuth EXCEPT !.dm = @ \ {e}]
        /\ UNCHANGED hFaults
     \/ /\ hAuth.ep = e
        /\ hAuth' = [hAuth EXCEPT !.dm = @ \ {e}, !.told = hHealth.mem]
        /\ UNCHANGED hFaults
     \/ /\ hAuth.ep = e
        /\ HFault
        /\ hAuth' = [hAuth EXCEPT !.dm = @ \ {e}, !.sent = FALSE]
  /\ UNCHANGED <<hHealth, hTurn, hWatch, hFlag, hProbe, hCount, hUsage, hScene>>

\* on_refresh_success, then _clear_refresh_broken of runtime.json
RefreshSucceeds ==
  /\ Acts("refresher")
  /\ hAuth.ep < MaxEpisode
  /\ hAuth' = [hAuth EXCEPT !.sent = FALSE, !.ep = @ + 1]
  /\ hUsage' = [hUsage EXCEPT !.gen = @ + 1]
  /\ LET m == IF hHealth.mem = "auth_failed" THEN "ok" ELSE hHealth.mem
         d == IF hHealth.mem = "auth_failed" THEN "ok" ELSE hHealth.disk
     IN hHealth' = [mem |-> m, disk |-> IF d = "refresh_broken" THEN "ok" ELSE d]
  /\ hCount' = [hCount EXCEPT !.streak = 0]
  /\ hFlag' = IF Acts("flags") /\ hFlag.want < MaxHEdits
              THEN [hFlag EXCEPT !.set = TRUE, !.want = @ + 1] ELSE hFlag
  /\ UNCHANGED <<hTurn, hWatch, hProbe, hFaults, hScene>>

\* _flip_refresh_broken and _flip_auth_failed read and write runtime.json
BrokenSpares == {"auth_failed", "api_error_abandoned", "provider_error",
                 "refresh_broken", "drained", "extra_usage_required",
                 "in_progress", "unhandled_error"}
AuthSpares == {"auth_failed", "api_error_abandoned", "drained",
               "extra_usage_required", "in_progress"}
RefreshFails ==
  /\ Acts("refresher")
  /\ \/ /\ hCount' = [hCount EXCEPT !.streak = IF @ < BrokenAt THEN @ + 1 ELSE @]
        /\ IF hCount.streak + 1 >= BrokenAt /\ hHealth.disk \notin BrokenSpares
           THEN hHealth' = [hHealth EXCEPT !.disk = "refresh_broken"]
           ELSE UNCHANGED hHealth
     \/ /\ hHealth.disk \notin AuthSpares
        /\ hHealth' = [hHealth EXCEPT !.disk = "auth_failed"]
        /\ UNCHANGED hCount
  /\ UNCHANGED <<hTurn, hWatch, hFlag, hProbe, hAuth, hUsage, hFaults, hScene>>

\* _heartbeat saves the worker's own state
HeartbeatSaves ==
  /\ hHealth' = [hHealth EXCEPT !.disk = hHealth.mem]
  /\ UNCHANGED <<hTurn, hWatch, hFlag, hProbe, hAuth, hCount, hUsage, hFaults, hScene>>

-----------------------------------------------------------------------------
(* The MCP transport probe, on the heartbeat.                              *)

\* the MCP subprocess says hello, or falls silent past its own cadence
McpHello(h) ==
  /\ Acts("probe")
  /\ \/ h = "current" /\ hProbe.hello # "current"
     \/ h = "stale" /\ hProbe.hello = "current"
  /\ hProbe' = [hProbe EXCEPT !.hello = h]
  /\ UNCHANGED <<hHealth, hTurn, hWatch, hFlag, hAuth, hCount, hUsage, hFaults, hScene>>

\* no reload is under way: the manager has an open runtime
ProbeReady == hProbe.pc = "idle" /\ hWatch = "idle" /\ hTurn.pc # "reload"

\* a current hello, or a harness the probe does not cover, ends the red
ProbeClears ==
  /\ Acts("probe") /\ ProbeReady
  /\ ~ hProbe.cov \/ hProbe.hello = "current"
  /\ SetFrom({"mcp_unreachable"}, IF hProbe.cov THEN "ok" ELSE "unknown")
  /\ hProbe' = [hProbe EXCEPT !.strikes = 0]
  /\ UNCHANGED <<hTurn, hWatch, hFlag, hAuth, hCount, hUsage, hFaults, hScene>>

\* the first miss recycles the runtime, the second names the wedge
ProbeMisses ==
  /\ Acts("probe") /\ ProbeReady
  /\ hProbe.cov /\ hProbe.hello # "current" /\ ~ TurnIsActive
  /\ hProbe' = [hProbe EXCEPT !.strikes = 1 + (IF @ = 0 THEN 0 ELSE 1),
                              !.pc = IF hProbe.strikes = 0 THEN "recycle" ELSE @]
  /\ IF hProbe.strikes = 0 THEN UNCHANGED hHealth
     ELSE SetFrom(Unnamed, "mcp_unreachable")
  /\ UNCHANGED <<hTurn, hWatch, hFlag, hAuth, hCount, hUsage, hFaults, hScene>>

\* the strikes survive the recycle, or the wedge would never be named
StrikesKept == hProbe.strikes

\* _recycle_wedged_mcp; a turn that raced it makes the reload raise
RecycleEnds ==
  /\ hProbe.pc = "recycle"
  /\ \/ /\ ~ TurnIsActive
        /\ hProbe' \in {[hProbe EXCEPT !.pc = "idle", !.hello = "none", !.cov = c,
                                         !.strikes = StrikesKept]
                          : c \in BOOLEAN}
        /\ UNCHANGED hFaults
     \/ /\ IF TurnIsActive THEN UNCHANGED hFaults ELSE HFault
        /\ hProbe' = [hProbe EXCEPT !.pc = "idle", !.strikes = @ - 1]
  /\ UNCHANGED <<hHealth, hTurn, hWatch, hFlag, hAuth, hCount, hUsage, hScene>>

-----------------------------------------------------------------------------
(* The transport listener and the usage loop.                              *)

WsFails ==
  /\ Acts("transport") /\ hCount.ws < WsDegradeAt
  /\ hCount' = [hCount EXCEPT !.ws = @ + 1]
  /\ IF hCount.ws + 1 >= WsDegradeAt THEN SetFrom({"ok"}, "server_unreachable")
     ELSE UNCHANGED hHealth
  /\ UNCHANGED <<hTurn, hWatch, hFlag, hProbe, hAuth, hUsage, hFaults, hScene>>

WsReconnects ==
  /\ Acts("transport")
  /\ hCount' = [hCount EXCEPT !.ws = 0]
  /\ SetFrom({"server_unreachable"}, "ok")
  /\ UNCHANGED <<hTurn, hWatch, hFlag, hProbe, hAuth, hUsage, hFaults, hScene>>

\* the provider's window fills or resets
QuotaMoves ==
  /\ Acts("quota")
  /\ hUsage' = [hUsage EXCEPT !.quota = IF @ = "free" THEN "spent" ELSE "free"]
  /\ UNCHANGED <<hHealth, hTurn, hWatch, hFlag, hProbe, hAuth, hCount, hFaults, hScene>>

\* post_usage_snapshot: probe, and apply unless a credential changed meanwhile
UsageProbes ==
  /\ Acts("quota") /\ hUsage.seen = "none"
  /\ hUsage' = [hUsage EXCEPT !.snap = hUsage.gen, !.seen = hUsage.quota]
  /\ UNCHANGED <<hHealth, hTurn, hWatch, hFlag, hProbe, hAuth, hCount, hFaults, hScene>>
UsageApplies ==
  /\ hUsage.seen # "none"
  /\ IF hUsage.snap # hUsage.gen THEN UNCHANGED <<hHealth, hCount>>
     ELSE IF hUsage.seen = "spent"
     THEN /\ SetFrom({"ok", "unknown"}, "drained")
          /\ hCount' = IF hHealth.mem \in {"ok", "unknown"}
                       THEN [hCount EXCEPT !.cap = FALSE] ELSE hCount
     ELSE /\ SetFrom(IF hCount.cap THEN {} ELSE {"drained"}, "ok")
          /\ UNCHANGED hCount
  /\ hUsage' = [hUsage EXCEPT !.seen = "none", !.snap = 0]
  /\ UNCHANGED <<hTurn, hWatch, hFlag, hProbe, hAuth, hFaults, hScene>>

-----------------------------------------------------------------------------
HNext ==
  \/ ProfileEdited \/ WatcherTakes \/ WatcherReloaded
  \/ TurnBegins \/ TurnRefreshes \/ TurnReloaded \/ TurnGated \/ RetryBegins
  \/ \E o \in TurnOutcomes : TurnRuns(o)
  \/ TurnSettles
  \/ \E e \in hAuth.dm : DmDue(e)
  \/ RefreshSucceeds \/ RefreshFails \/ HeartbeatSaves
  \/ \E h \in {"current", "stale"} : McpHello(h)
  \/ ProbeClears \/ ProbeMisses \/ RecycleEnds
  \/ WsFails \/ WsReconnects \/ QuotaMoves \/ UsageProbes \/ UsageApplies

HSpec == HInit /\ [][HNext]_hVars

\* the watcher and the heartbeat are periodic tasks, reloads and turns return
FairHSpec ==
  /\ HSpec
  /\ WF_hVars(WatcherTakes) /\ WF_hVars(WatcherReloaded)
  /\ WF_hVars(TurnRefreshes \/ TurnReloaded \/ TurnGated)
  /\ WF_hVars(\E o \in TurnOutcomes : TurnRuns(o))
  /\ WF_hVars(TurnSettles)
  /\ WF_hVars(ProbeClears \/ ProbeMisses) /\ WF_hVars(RecycleEnds)

-----------------------------------------------------------------------------
\* Safety.  The watcher's reload and a turn's own steps exclude each other: a
\* turn that begins while the watcher reloads waits for _reload_lock.  (A retry
\* takes no lock, and is left out.)
ReloadOutsideTurn ==
  hWatch = "reload" => hTurn.pc \in {"idle", "lock", "settle"} \/ hTurn.retry

\* Action.  The two reds whose evidence does not come from a turn hold against
\* every other writer: extra_usage_required ends in a model success or in
\* another red, mcp_unreachable in a hello or when the probe no longer covers
\* the harness.
StandingRedsHold ==
  [][LET m == hHealth.mem
         green == hHealth'.mem \in {"ok", "in_progress", "unknown"}
     IN /\ m = "extra_usage_required" /\ green
             => hTurn.pc = "settle" /\ hTurn.out = "succeeded"
        /\ m = "mcp_unreachable" /\ green
             => hProbe.hello = "current" \/ ~ hProbe.cov]_hVars

\* Action.  While the no-progress streak is live, settling a turn turns the
\* health green only when the turn succeeded: a cancelled turn is not recovery
\* evidence (_reassert_no_progress_after_cancel).
NoProgressNotLaundered ==
  [][(hTurn.pc = "settle" /\ hTurn'.pc = "idle" /\ hCount.still >= NoProgressAt
        /\ hHealth.mem # "ok" /\ hHealth'.mem = "ok")
       => hTurn.out = "succeeded"]_hVars

\* Liveness.  A refresh request is consumed or given up on, also when it comes
\* in the middle of a turn or when reloads fail (_refresh_watcher_loop).
FlagIsTaken == hFlag.set ~> ~ hFlag.set

\* Liveness.  A dead MCP transport is repaired or named: the worker does not
\* keep recycling a runtime that never says hello, and does not stay green
\* (probe_mcp_transport).
WedgeIsNamed ==
  (Acts("probe") /\ hProbe.hello # "current")
    ~> \/ hProbe.hello = "current" \/ ~ hProbe.cov
       \/ hHealth.mem \notin Unnamed

=============================================================================
