----------------------------- MODULE HostAssets -----------------------------
(***************************************************************************)
(* What an agent's home receives from the operator's machine and from the  *)
(* catalog each time its runtime is prepared (portal/host_assets.py,       *)
(* agent/adapters/desired_install.py, LocalRuntimePreparer), and the tools *)
(* that touch the same files while it runs (portal/host_mcp_handler.py).   *)
(*                                                                         *)
(* Skills are directories with an entry file and provenance marks; each    *)
(* file is written on its own, so a crash may fall between them.  MCP      *)
(* registrations are entries of one JSON file that is rewritten whole.     *)
(* The Pi credential is a copy with a digest beside it.  Every function is *)
(* synchronous: other processes run between its file writes only where a   *)
(* step of this module ends.                                               *)
(***************************************************************************)
EXTENDS Values, FiniteSets

CONSTANTS AssetSkills, AssetServers, AssetScenes,
          DesiredServers,   \* desired_mcps of agent.yml
          MaxHostEdits, MaxPrepares, MaxAssetFaults

VARIABLES haScene,   \* which family of assets this behaviour is about
          haHost,    \* skill -> version in the operator's home, 0 if absent
          haDir,     \* skill -> directory in the agent's home
          haWant,    \* desired_skills of agent.yml
          haPc,      \* preparation: "off", "skills", "desired", "servers", "templates", "pi", "mark", "up"
          haTodo,    \* skills the current loop has still to visit
          haHalf,    \* skill written but not yet marked, or Nothing
          haNames,   \* host_names of the running sync
          haOnce,    \* _desired_installed
          haClean,   \* nothing failed, and the host did not change, since the preparation began
          haReload,  \* this preparation is a reload of a running worker
          haHostCfg, \* server -> spec in the operator's .claude.json, 0 if absent
          haCfg,     \* agent's .claude.json: [state, own, servers]
          haAsk,     \* install_host_mcp calls: server -> step
          haPi,      \* Pi credential: [host, file, mark, own]
          haEdits, haPrepares, haFaults

haSkillVars == <<haHost, haDir, haWant, haTodo, haHalf, haNames>>
haServerVars == <<haHostCfg, haCfg, haAsk>>
haRun == <<haPc, haOnce, haClean, haReload, haPrepares>>
haVars == <<haScene, haSkillVars, haServerVars, haPi, haRun, haEdits, haFaults>>

NoDir == [body |-> "none", ver |-> 0, marks |-> {}]
HasSkill(k) == haDir[k].body # "none"

HaInit ==
  /\ haScene \in AssetScenes
  /\ haHost \in [AssetSkills -> {0, 1}] /\ (haScene # "skills" => \A k \in AssetSkills : haHost[k] = 0)
  /\ haDir = [k \in AssetSkills |-> NoDir] /\ haWant = {}
  /\ haPc = "off" /\ haTodo = {} /\ haHalf = Nothing /\ haNames = {}
  /\ haOnce = FALSE /\ haClean = FALSE /\ haReload = FALSE
  /\ haHostCfg = [n \in AssetServers |-> 0]
  /\ haCfg = [state |-> "ok", own |-> TRUE, servers |-> [n \in AssetServers |-> 0]]
  /\ haAsk = [n \in AssetServers |-> "idle"]
  /\ haPi = [host |-> 1, file |-> 0, mark |-> 0, own |-> FALSE]
  /\ haEdits = 0 /\ haPrepares = 0 /\ haFaults = 0

(***************************************************************************)
(* The operator.                                                           *)
(***************************************************************************)
Edits == haEdits < MaxHostEdits /\ haEdits' = haEdits + 1

\* A skill appears, changes or goes away in the operator's home.
OperatorEditsSkill(k) ==
  /\ haScene = "skills" /\ Edits
  /\ haHost' \in {[haHost EXCEPT ![k] = v] : v \in 0..2 \ {haHost[k]}}
  /\ haClean' = FALSE
  /\ UNCHANGED <<haScene, haDir, haWant, haTodo, haHalf, haNames, haServerVars, haPi, haPc, haOnce, haReload,
                 haPrepares, haFaults>>

\* The operator selects other skills; the worker is restarted for it.
OperatorSelects ==
  /\ haScene = "skills" /\ Edits /\ haPc = "off" /\ haWant' \in SUBSET AssetSkills \ {haWant}
  /\ UNCHANGED <<haScene, haHost, haDir, haTodo, haHalf, haNames, haServerVars, haPi, haRun, haFaults>>

\* The operator registers a server, or fills in the entry an agent installed (spec 2).
OperatorFillsEntry(n) ==
  /\ haScene = "servers" /\ Edits /\ haHostCfg[n] # 2 /\ haHostCfg' = [haHostCfg EXCEPT ![n] = 2]
  /\ haClean' = FALSE
  /\ UNCHANGED <<haScene, haSkillVars, haCfg, haAsk, haPi, haPc, haOnce, haReload, haPrepares, haFaults>>

\* The operator logs in to Pi again.
OperatorLogsIn ==
  /\ haScene = "pi" /\ Edits /\ haPi.host < 3 /\ haPi' = [haPi EXCEPT !.host = @ + 1]
  /\ UNCHANGED <<haScene, haSkillVars, haServerVars, haRun, haFaults>>

(***************************************************************************)
(* Preparation (refresh_spec): host skills, MCP registrations, then the    *)
(* desired templates, once per worker.                                     *)
(***************************************************************************)
HostNames == {k \in AssetSkills : haHost[k] # 0}

RefreshSpec(reload) ==
  /\ haPc = IF reload THEN "up" ELSE "off"
  /\ haPrepares < MaxPrepares /\ haPrepares' = haPrepares + 1
  /\ haPc' = (IF haScene = "pi" THEN "pi" ELSE IF haScene = "servers" THEN "servers" ELSE "skills")
  /\ haNames' = HostNames /\ haTodo' = HostNames /\ haClean' = TRUE /\ haReload' = reload
  /\ UNCHANGED <<haScene, haHost, haDir, haWant, haHalf, haServerVars, haPi, haOnce, haEdits, haFaults>>

\* The old directory goes and the host's tree is copied over.
ReplacesDir(k) == [body |-> "host", ver |-> haHost[k], marks |-> {}]

SyncHostSkill(k) ==
  /\ haPc = "skills" /\ haHalf = Nothing /\ k \in haTodo /\ haTodo' = haTodo \ {k} /\ haHost[k] # 0
  /\ haDir' = [haDir EXCEPT ![k] = ReplacesDir(k)] /\ haHalf' = k
  /\ UNCHANGED <<haScene, haHost, haWant, haNames, haServerVars, haPi, haRun, haEdits, haFaults>>

MarkHostSynced ==
  /\ haPc = "skills" /\ haHalf # Nothing /\ haHalf' = Nothing
  /\ haDir' = [haDir EXCEPT ![haHalf].marks = @ \cup {"host"}]
  /\ UNCHANGED <<haScene, haHost, haWant, haTodo, haNames, haServerVars, haPi, haRun, haEdits, haFaults>>

\* A copy that fails leaves what it had done; the next skill is tried.
SyncHostSkillFails(k) ==
  /\ haPc = "skills" /\ haHalf = Nothing /\ k \in haTodo /\ haTodo' = haTodo \ {k}
  /\ \/ haHost[k] = 0 /\ UNCHANGED haFaults
     \/ haFaults < MaxAssetFaults /\ haFaults' = haFaults + 1
  /\ haDir' \in {[haDir EXCEPT ![k] = d] : d \in {haDir[k], NoDir, [ReplacesDir(k) EXCEPT !.ver = 0]}}
  /\ haClean' = FALSE
  /\ UNCHANGED <<haScene, haHost, haWant, haHalf, haNames, haServerVars, haPi, haPc, haOnce, haReload,
                 haPrepares, haEdits>>

\* A directory the host sync made, whose skill the host no longer has, goes.
StaleHostSynced(k) == k \notin haNames /\ "host" \in haDir[k].marks

PruneHostSynced ==
  /\ haPc = "skills" /\ haTodo = {} /\ haHalf = Nothing
  /\ haDir' = [k \in AssetSkills |-> IF StaleHostSynced(k) THEN NoDir ELSE haDir[k]]
  /\ haPc' = "desired" /\ haTodo' = haWant
  /\ UNCHANGED <<haScene, haHost, haWant, haHalf, haNames, haServerVars, haPi, haOnce, haClean, haReload,
                 haPrepares, haEdits, haFaults>>

(***************************************************************************)
(* Desired templates (run_spawn_install, install_desired).                 *)
(***************************************************************************)
\* Nothing is run for a worker that was prepared before, or with nothing selected.
InstallSkipped == haOnce \/ haWant = {}

SkipDesired ==
  /\ haPc = "desired" /\ InstallSkipped /\ haPc' = "up" /\ haOnce' = TRUE /\ haTodo' = {}
  /\ UNCHANGED <<haScene, haHost, haDir, haWant, haHalf, haNames, haServerVars, haPi, haClean, haReload,
                 haPrepares, haEdits, haFaults>>

\* A template that cannot be fetched, or whose entry file is there, is passed over.
FetchSkillTemplate(k) ==
  /\ haPc = "desired" /\ ~InstallSkipped /\ haHalf = Nothing /\ k \in haTodo /\ haTodo' = haTodo \ {k}
  /\ \/ HasSkill(k) /\ UNCHANGED <<haFaults, haClean>>
     \/ haFaults < MaxAssetFaults /\ haFaults' = haFaults + 1 /\ haClean' = FALSE
  /\ UNCHANGED <<haScene, haHost, haDir, haWant, haHalf, haNames, haServerVars, haPi, haPc, haOnce, haReload,
                 haPrepares, haEdits>>

WriteDesiredSkill(k) ==
  /\ haPc = "desired" /\ ~InstallSkipped /\ haHalf = Nothing /\ k \in haTodo /\ haTodo' = haTodo \ {k}
  /\ ~HasSkill(k) /\ haHalf' = k
  /\ haDir' = [haDir EXCEPT ![k].body = "tpl"]
  /\ UNCHANGED <<haScene, haHost, haWant, haNames, haServerVars, haPi, haRun, haEdits, haFaults>>

MarkDesired ==
  /\ haPc = "desired" /\ haHalf # Nothing /\ haHalf' = Nothing
  /\ haDir' = [haDir EXCEPT ![haHalf].marks = @ \cup {"desired"}]
  /\ UNCHANGED <<haScene, haHost, haWant, haTodo, haNames, haServerVars, haPi, haRun, haEdits, haFaults>>

StaleDesired(k) == k \notin haWant /\ "desired" \in haDir[k].marks /\ "host" \notin haDir[k].marks

PruneStaleDesiredSkills ==
  /\ haPc = "desired" /\ ~InstallSkipped /\ haTodo = {} /\ haHalf = Nothing
  /\ haDir' = [k \in AssetSkills |-> IF StaleDesired(k) THEN NoDir ELSE haDir[k]]
  /\ haPc' = "up" /\ haOnce' = TRUE
  /\ UNCHANGED <<haScene, haHost, haWant, haTodo, haHalf, haNames, haServerVars, haPi, haClean, haReload,
                 haPrepares, haEdits, haFaults>>

(***************************************************************************)
(* MCP registrations.                                                      *)
(***************************************************************************)
\* A file that cannot be parsed is taken as empty: what it held is lost with the next write.
ReadOrEmpty == IF haCfg.state = "ok" THEN haCfg
               ELSE [state |-> "ok", own |-> FALSE, servers |-> [n \in AssetServers |-> 0]]

\* The host's entry wins over the agent's.
AgentWins(n, old) == IF old[n] = 0 THEN haHostCfg[n] ELSE old[n]
HostWins(n, old) == IF haHostCfg[n] # 0 THEN haHostCfg[n] ELSE old[n]

\* Nothing is read or written when the host has no entry.
SyncHostMcpServers ==
  /\ haPc = "servers" /\ haPc' = "templates"
  /\ \/ /\ haCfg' = IF \A n \in AssetServers : haHostCfg[n] = 0 THEN haCfg
                     ELSE [ReadOrEmpty EXCEPT !.servers = [n \in AssetServers |-> HostWins(n, @)]]
        /\ UNCHANGED <<haFaults, haClean>>
     \/ haFaults < MaxAssetFaults /\ haFaults' = haFaults + 1 /\ haClean' = FALSE /\ UNCHANGED haCfg
  /\ UNCHANGED <<haScene, haSkillVars, haHostCfg, haAsk, haPi, haOnce, haReload, haPrepares, haEdits>>

\* A desired server is added where no entry stands; a file that cannot be parsed is left alone.
WithTemplates(cfg, got) ==
  [cfg EXCEPT !.servers = [n \in AssetServers |-> IF n \in got /\ @[n] = 0 THEN 3 ELSE @[n]]]

InstallDesiredMcps ==
  /\ haPc = "templates" /\ haPc' = "up" /\ haOnce' = TRUE
  /\ \E got \in SUBSET DesiredServers :   \* the templates the catalog answered
       /\ haFaults' = (IF got = DesiredServers THEN haFaults ELSE haFaults + 1) /\ haFaults' <= MaxAssetFaults
       /\ haCfg' = IF haOnce \/ haCfg.state # "ok" THEN haCfg ELSE WithTemplates(haCfg, got)
  /\ UNCHANGED <<haScene, haSkillVars, haHostCfg, haAsk, haPi, haClean, haReload, haPrepares, haEdits>>

\* install_host_mcp: the catalog is asked first.
ResolveInstallSpec(n) ==
  /\ haScene = "servers" /\ haPc = "up" /\ haAsk[n] = "idle" /\ haAsk' = [haAsk EXCEPT ![n] = "resolved"]
  /\ UNCHANGED <<haScene, haSkillVars, haHostCfg, haCfg, haPi, haRun, haEdits, haFaults>>

\* An entry that stands in the host's file when it is written is left untouched.
EntryIsFree(n) == haHostCfg[n] = 0

WriteHostMcp(n) ==
  /\ haAsk[n] = "resolved" /\ haAsk' = [haAsk EXCEPT ![n] = "done"]
  /\ haHostCfg' = IF EntryIsFree(n) THEN [haHostCfg EXCEPT ![n] = 1] ELSE haHostCfg
  /\ haClean' = FALSE
  /\ UNCHANGED <<haScene, haSkillVars, haCfg, haPi, haPc, haOnce, haReload, haPrepares, haEdits, haFaults>>

\* sync_host_mcp: one entry of the host, into the agent's file.
SyncHostMcp(n) ==
  /\ haScene = "servers" /\ haPc = "up" /\ haHostCfg[n] # 0
  /\ haCfg' = [ReadOrEmpty EXCEPT !.servers[n] = haHostCfg[n]]
  /\ UNCHANGED <<haScene, haSkillVars, haHostCfg, haAsk, haPi, haRun, haEdits, haFaults>>

\* The agent's CLI, which keeps its own keys in the same file, is killed while it writes.
CliTearsConfig ==
  /\ haScene = "servers" /\ haPc = "up" /\ haFaults < MaxAssetFaults /\ haFaults' = haFaults + 1
  /\ haCfg' = [haCfg EXCEPT !.state = "torn"] /\ haClean' = FALSE
  /\ UNCHANGED <<haScene, haSkillVars, haHostCfg, haAsk, haPi, haPc, haOnce, haReload, haPrepares, haEdits>>

(***************************************************************************)
(* The Pi credential (sync_host_pi_auth_view).                             *)
(***************************************************************************)
\* A copy whose digest is not the recorded one is the agent's own.
OperatorOwned == haPi.file # 0 /\ haPi.mark # haPi.file

PiUnchanged ==
  UNCHANGED <<haScene, haSkillVars, haServerVars, haOnce, haClean, haReload, haPrepares, haEdits, haFaults>>

SyncHostPiAuthView ==
  /\ haPc = "pi"
  /\ IF OperatorOwned THEN haPc' = "up" /\ UNCHANGED haPi
     ELSE haPc' = "mark" /\ haPi' = [haPi EXCEPT !.file = haPi.host, !.own = FALSE]
  /\ PiUnchanged

WritePiMarker ==
  /\ haPc = "mark" /\ haPc' = "up" /\ haPi' = [haPi EXCEPT !.mark = haPi.host]
  /\ PiUnchanged

\* Pi refreshes the credential in its own directory.
PiRefreshes ==
  /\ haScene = "pi" /\ haPc = "up" /\ ~haPi.own /\ haPi' = [haPi EXCEPT !.file = 9, !.own = TRUE]
  /\ UNCHANGED haPc /\ PiUnchanged

(***************************************************************************)
(* The worker stops, or dies wherever it is.                               *)
(***************************************************************************)
WorkerGone ==
  /\ haPc # "off" /\ haPc' = "off" /\ haOnce' = FALSE /\ haHalf' = Nothing /\ haTodo' = {}
  /\ haClean' = FALSE /\ haAsk' = [n \in AssetServers |-> "idle"]
  /\ haFaults' = (IF haPc = "up" THEN haFaults ELSE haFaults + 1) /\ haFaults' <= MaxAssetFaults
  /\ UNCHANGED <<haScene, haHost, haDir, haWant, haNames, haHostCfg, haCfg, haPi, haReload, haPrepares, haEdits>>

HaNext ==
  \/ \E k \in AssetSkills :
       OperatorEditsSkill(k) \/ SyncHostSkill(k) \/ SyncHostSkillFails(k) \/ FetchSkillTemplate(k) \/ WriteDesiredSkill(k)
  \/ OperatorSelects \/ MarkHostSynced \/ PruneHostSynced \/ SkipDesired \/ MarkDesired \/ PruneStaleDesiredSkills
  \/ \E n \in AssetServers :
       OperatorFillsEntry(n) \/ ResolveInstallSpec(n) \/ WriteHostMcp(n) \/ SyncHostMcp(n)
  \/ SyncHostMcpServers \/ InstallDesiredMcps \/ CliTearsConfig
  \/ OperatorLogsIn \/ SyncHostPiAuthView \/ WritePiMarker \/ PiRefreshes
  \/ RefreshSpec(FALSE) \/ RefreshSpec(TRUE) \/ WorkerGone

HaSpec == HaInit /\ [][HaNext]_haVars

(***************************************************************************)
(* Properties.                                                             *)
(***************************************************************************)
AssetsPrepared(scene) == haScene = scene /\ haPc = "up" /\ haClean

\* When a preparation in which nothing failed is over, the agent has exactly the host's skills beside
\* its selected ones: every skill of the host in its present version, and none the host or the
\* selection dropped, whatever earlier crashes left behind (_sync_host_skills_dir,
\* prune_stale_desired_skills).
SkillsFollowHost ==
  AssetsPrepared("skills") =>
    \A k \in AssetSkills :
      /\ haHost[k] # 0 => haDir[k] = [body |-> "host", ver |-> haHost[k], marks |-> {"host"}]
      /\ haHost[k] = 0 => "host" \notin haDir[k].marks
      /\ k \notin haWant /\ haWant # {} /\ ~haReload => haDir[k].marks # {"desired"}

\* A directory's marks tell who wrote its entry file, so that no pruning takes what another layer
\* installed (the provenance markers of host_assets.py and desired_install.py).
ProvenanceIsTrue ==
  \A k \in AssetSkills :
    /\ "host" \in haDir[k].marks => haDir[k].body = "host" /\ "desired" \notin haDir[k].marks
    /\ "desired" \in haDir[k].marks => haDir[k].body = "tpl"

\* When a preparation in which nothing failed is over, every server of the host stands in the agent's
\* file as the host has it (sync_host_mcp_servers: "Host wins on name collision").
HostEntryReachesAgent ==
  AssetsPrepared("servers") => \A n \in AssetServers : haHostCfg[n] # 0 => haCfg.servers[n] = haHostCfg[n]

\* An entry the operator wrote is never replaced by an agent's install, however the catalog's answer
\* and the operator's edit interleave (_write_host_mcp: "left untouched").
InstallKeepsOperators ==
  [][\A n \in AssetServers : haHostCfg[n] = 2 => haHostCfg'[n] = 2]_haVars

\* A credential Pi refreshed is never rolled back to the host's (sync_host_pi_auth_view).
PiRefreshIsKept == [][haPi.own => haPi'.own]_haVars

=============================================================================
