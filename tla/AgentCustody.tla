---------------------------- MODULE AgentCustody -----------------------------
(***************************************************************************)
(* Who may still act as an agent: archive, delete, import, the startup      *)
(* sweep of owed revocations, `revoke-pending` and unarchive               *)
(* (portal/daemon.py, portal/import_agents.py, portal/unarchive.py,         *)
(* portal/cli.py).  One agent; its device keys are numbered as they are    *)
(* minted.  A step is the file writes between two awaits, split again      *)
(* where the code relies on the order of two writes surviving a crash.  A  *)
(* request to the server may fail before it arrived or after it was done.  *)
(* The directory's move is one step (a rename; off Windows the code copies *)
(* and then removes).                                                      *)
(***************************************************************************)
EXTENDS Integers, FiniteSets

CONSTANTS MaxDevices,      \* device keys minted at most
          MaxCustodyOps,   \* commands: archive, delete, unarchive, ...
          MaxCustodyFaults,\* failed requests
          MaxCustodyCrash  \* daemon crashes

VARIABLES kDir,  \* the agent's directory and what it holds
          kSrv,  \* the server: enrolled devices not revoked, lifecycle
          kArc,  \* archive, delete or `agent archive` in progress
          kSwp,  \* the startup sweep
          kUna,  \* the unarchive command
          kRvk,  \* revoke-pending
          kHist  \* budgets and history

kVars == <<kDir, kSrv, kArc, kSwp, kUna, kRvk, kHist>>

NoMarker == [kind |-> "none", dev |-> 0]
Marker(k, d) == [kind |-> k, dev |-> d]
NoState == [dev |-> 0, old |-> 0, earlier |-> 0, settled |-> FALSE, asis |-> FALSE, from |-> FALSE]

Archived == kDir.at \in {"ws", "del", "cli"}
Mints == kHist.minted + 1
CanMint == kHist.minted < MaxDevices
Failing == kHist.faults < MaxCustodyFaults
Op1 == kHist.ops < MaxCustodyOps
Counts(h) == [h EXCEPT !.ops = @ + 1]

\* Nothing in the code keeps unarchive from overlapping the other operations.
\* In the behaviours without overlap, it and they wait for each other.
Alone == kHist.overlap \/ kUna.at = "idle"
OthersIdle == kHist.overlap \/ (kArc.at = "idle" /\ kSwp.at = "idle" /\ kRvk.at = "idle")

\* Outcomes of a request: "ok", "fail" (it never arrived) and "lost" (done, but
\* reported as failed).
Outcomes == IF Failing THEN {"ok", "fail", "lost"} ELSE {"ok"}
Tally(h, o) == IF o = "ok" THEN h ELSE [h EXCEPT !.faults = @ + 1]

\* A revocation of d signed by device s: the server refuses a revoked signer,
\* and a device already revoked answers NOT_IMPROVING.
Revokes(d, s, o) == IF s \in kSrv.valid /\ o # "fail" THEN kSrv.valid \ {d} ELSE kSrv.valid
RevokeOk(s, o) == s \in kSrv.valid /\ o = "ok"

-----------------------------------------------------------------------------
(* Archive and delete (_archive_on_flag, _delete_on_flag, cmd_agent_archive) *)

Target(kind) == CASE kind = "archive" -> "ws" [] kind = "delete" -> "del" [] OTHER -> "cli"

\* The flag is found, the worker stopped, the directory moved.
ArchiveMovesDir ==
    /\ kArc.at = "idle" /\ kDir.at = "live" /\ Op1
    /\ Alone
    /\ \E kind \in {"archive", "delete", "cli"} :
          /\ kDir' = [kDir EXCEPT !.at = Target(kind), !.flag = (kind = "archive")]
          /\ kArc' = [kArc EXCEPT !.at = IF kind = "archive" THEN "report" ELSE "revoke", !.kind = kind]
    /\ kHist' = [Counts(kHist) EXCEPT !.restored = 0, !.mints = 0]
    /\ UNCHANGED <<kSrv, kSwp, kUna, kRvk>>

\* A marker replaced or put aside while its device was owed a revoke (history).
Dropped == IF kDir.marker.kind = "import" THEN {kDir.marker.dev} ELSE {}

\* write_archived_pending_revoke, when the archive's keys can still be read.
LeavesMarker(dir) ==
    IF dir.at = Target(kArc.kind) THEN [dir EXCEPT !.marker = Marker("archive", dir.id)] ELSE dir

\* The "archived" report; only a settled one lets the revoke go.
ArchiveReports ==
    /\ kArc.at = "report"
    /\ \E o \in Outcomes :
          /\ kSrv' = IF o # "fail" THEN [kSrv EXCEPT !.status = "archived"] ELSE kSrv
          /\ IF o = "ok"
                THEN /\ kArc' = [kArc EXCEPT !.at = "revoke"]
                     /\ UNCHANGED <<kDir, kHist>>
                ELSE /\ kArc' = [kArc EXCEPT !.at = "idle"]
                     /\ kDir' = LeavesMarker(kDir)
                     /\ kHist' = [Tally(kHist, o) EXCEPT !.dropped = @ \cup Dropped]
    /\ UNCHANGED <<kSwp, kUna, kRvk>>

\* revoke_archived_device loads the identity from the archive ...
ArchiveLoadsIdentity ==
    /\ kArc.at = "revoke"
    /\ kArc' = IF kDir.at = Target(kArc.kind) THEN [kArc EXCEPT !.at = "revoking", !.dev = kDir.id]
               ELSE [kArc EXCEPT !.at = "idle"]
    /\ UNCHANGED <<kDir, kSrv, kSwp, kUna, kRvk, kHist>>

\* ... and revokes that device; a deleted agent's directory goes only then.
Removed(dir) == [dir EXCEPT !.at = "none", !.marker = NoMarker, !.staged = NoState, !.done = 0]
ArchiveRevokes ==
    /\ kArc.at = "revoking"
    /\ \E o \in Outcomes :
          /\ kSrv' = [kSrv EXCEPT !.valid = Revokes(kArc.dev, kArc.dev, o)]
          /\ kHist' = [Tally(kHist, o) EXCEPT
                         !.dropped = IF RevokeOk(kArc.dev, o) THEN @ ELSE @ \cup Dropped]
          /\ kDir' = CASE ~RevokeOk(kArc.dev, o) -> LeavesMarker(kDir)
                       [] kArc.kind = "delete" /\ kDir.at = "del" -> Removed(kDir)
                       [] OTHER -> kDir
    /\ kArc' = [kArc EXCEPT !.at = "idle"]
    /\ UNCHANGED <<kSwp, kUna, kRvk>>

-----------------------------------------------------------------------------
(* The startup sweep (sweep_archived_pending_revokes) *)

\* _owned_by_unarchive: an unarchive in progress wrote this marker.
OwnedByUnarchive == /\ kDir.marker.kind = "import"
                    /\ kDir.marker.dev \in {kDir.staged.old, kDir.staged.earlier}

\* _retry_archived_pending_revoke reads the marker and the archive's keys.  A
\* marker of the import schema that no unarchive owns is renamed .broken.
SweepReads ==
    /\ kSwp.at = "start" /\ Alone
    /\ IF ~Archived \/ kDir.marker.kind \notin {"archive", "import"} \/ OwnedByUnarchive
          THEN kSwp' = [kSwp EXCEPT !.at = "idle"] /\ UNCHANGED kDir
       ELSE IF kDir.marker.kind = "import"
          THEN /\ kSwp' = [kSwp EXCEPT !.at = "idle"]
               /\ kDir' = [kDir EXCEPT !.marker.kind = "broken"]
       ELSE /\ kSwp' = [at |-> "revoke", dev |-> kDir.marker.dev, signer |-> kDir.id]
            /\ UNCHANGED kDir
    /\ UNCHANGED <<kSrv, kArc, kUna, kRvk, kHist>>

\* The report "archived" (when owed) and the revoke; on success the marker goes.
SweepRevokes ==
    /\ kSwp.at = "revoke"
    /\ \E o \in Outcomes :
          /\ kSrv' = [valid |-> Revokes(kSwp.dev, kSwp.signer, o),
                      status |-> IF o = "fail" THEN kSrv.status ELSE "archived"]
          /\ kHist' = Tally(kHist, o)
          /\ kDir' = IF RevokeOk(kSwp.signer, o) /\ Archived THEN [kDir EXCEPT !.marker = NoMarker] ELSE kDir
    /\ kSwp' = [kSwp EXCEPT !.at = "idle"]
    /\ UNCHANGED <<kArc, kUna, kRvk>>

-----------------------------------------------------------------------------
(* Import, and revoke-pending on a live agent *)

\* _import_one up to the commit: a new device is enrolled, the staged directory
\* becomes the agent's.  The bundle's device is still valid.
ImportCommits ==
    /\ kDir.at = "none" /\ kArc.at = "idle" /\ Alone /\ Op1 /\ CanMint
    /\ kSrv' = [valid |-> kSrv.valid \cup {Mints}, status |-> "other"]
    /\ kDir' = [kDir EXCEPT !.at = "live", !.id = Mints, !.yml = "paused"]
    /\ kRvk' = [at |-> "import", dev |-> kDir.id]
    /\ kHist' = [Counts(kHist) EXCEPT !.minted = @ + 1, !.mints = 0, !.restored = 0]
    /\ UNCHANGED <<kArc, kSwp, kUna>>

\* revoke_pending reads the import marker of a live agent.
RevokePendingReads ==
    /\ kRvk.at = "idle" /\ kDir.at = "live" /\ kDir.marker.kind = "import" /\ Alone /\ Op1
    /\ kRvk' = [at |-> "pending", dev |-> kDir.marker.dev]
    /\ kHist' = Counts(kHist)
    /\ UNCHANGED <<kDir, kSrv, kArc, kSwp, kUna>>

\* _revoke_old_device for either; failing leaves the marker, success removes
\* the pending one; an import then runs the agent.
RevokesOld ==
    /\ kRvk.at # "idle"
    /\ \E o \in Outcomes :
          /\ kSrv' = [kSrv EXCEPT !.valid = Revokes(kRvk.dev, kDir.id, o)]
          /\ kHist' = [Tally(kHist, o) EXCEPT !.mints = IF kRvk.at = "import" THEN 0 ELSE @]
          /\ IF kDir.at # "live" THEN UNCHANGED kDir
             ELSE kDir' = [kDir EXCEPT
                     !.marker = CASE ~RevokeOk(kDir.id, o) -> Marker("import", kRvk.dev)
                                  [] kRvk.at = "pending" -> NoMarker
                                  [] OTHER -> @,
                     !.yml = IF kRvk.at = "import" THEN "running" ELSE @]
    /\ kRvk' = [at |-> "idle", dev |-> 0]
    /\ UNCHANGED <<kArc, kSwp, kUna>>

-----------------------------------------------------------------------------
(* Unarchive *)

\* _already_restored: the completion record names the device it still has.
AlreadyRestored == kDir.done # 0 /\ kDir.done = kDir.id /\ kDir.yml = "paused"

MayUnarchive == kUna.at = "idle" /\ OthersIdle /\ Op1

\* The command on a live agent: a retry of a finished restore reports paused
\* again; one that was brought back as it was is completed.
UnarchiveAgain ==
    /\ MayUnarchive /\ kDir.at = "live" /\ (AlreadyRestored \/ kDir.staged.asis)
    /\ kUna' = [at |-> IF AlreadyRestored THEN "report" ELSE "done",
                inplace |-> TRUE, id |-> kDir.id, mem |-> kDir.staged]
    /\ kHist' = Counts(kHist)
    /\ UNCHANGED <<kDir, kSrv, kArc, kSwp, kRvk>>

\* _restore up to its request, for an archive or in place: an earlier import's
\* obligation is noted (_earlier_obligation), the new device is minted once and
\* staged (_staged_request).
OldDevice(mem, id) == IF mem.old # 0 THEN mem.old ELSE id
EarlierObligation(old) ==
    IF kDir.marker.kind = "import" /\ kDir.marker.dev # old THEN kDir.marker.dev ELSE 0
NeverStaged(mem) == FALSE
AlreadyStaged(mem) == mem.dev # 0
StageRequest ==
    /\ MayUnarchive /\ kDir.at \in {"live", "ws"}
    /\ kDir.at = "live" => ~(AlreadyRestored \/ kDir.staged.asis)
    /\ LET old == OldDevice(kDir.staged, kDir.id)
           earlier == IF kDir.staged.earlier # 0 THEN kDir.staged.earlier ELSE EarlierObligation(old)
           mem == [kDir.staged EXCEPT !.earlier = earlier, !.old = IF earlier # 0 THEN old ELSE @]
           minting == ~AlreadyStaged(mem)
           staged == IF minting THEN [mem EXCEPT !.dev = Mints] ELSE mem
       IN  /\ minting => CanMint
           /\ kUna' = [at |-> "post", inplace |-> kDir.at = "live", id |-> kDir.id, mem |-> staged]
           /\ kDir' = [kDir EXCEPT !.staged = staged]
           /\ kHist' = IF minting THEN [Counts(kHist) EXCEPT !.minted = @ + 1, !.mints = @ + 1]
                       ELSE Counts(kHist)
    /\ UNCHANGED <<kSrv, kArc, kSwp, kRvk>>

\* _post_restore: accepted while the server shows the agent archived; the
\* directory is not touched when it fails.
PostRestore ==
    /\ kUna.at = "post"
    /\ \E o \in Outcomes :
          /\ kHist' = Tally(kHist, o)
          /\ IF kSrv.status = "archived"
                THEN /\ kSrv' = IF o = "fail" THEN kSrv
                                ELSE [kSrv EXCEPT !.valid = @ \cup {kUna.mem.dev}]
                     /\ kUna' = [kUna EXCEPT !.at = IF o = "ok" THEN "own" ELSE "idle"]
                ELSE /\ UNCHANGED kSrv
                     /\ kUna' = [kUna EXCEPT !.at = IF o = "ok" /\ ~kUna.inplace THEN "status" ELSE "idle"]
    /\ UNCHANGED <<kDir, kArc, kSwp, kRvk>>

\* A directory that went away under the command: its next write fails.
LosesDir ==
    /\ kUna.at \notin {"idle", "post", "status"}
    /\ kDir.at # (IF kUna.inplace THEN "live" ELSE "ws")
    /\ kUna.at \notin {"done", "discard", "report"} \/ kDir.at # "live"
    /\ kUna' = [kUna EXCEPT !.at = "idle"]
    /\ UNCHANGED <<kDir, kSrv, kArc, kSwp, kRvk, kHist>>
HasDir == kDir.at = (IF kUna.inplace THEN "live" ELSE "ws")

\* Accepted: paused (in place, worker stopped first), the old device recorded,
\* and its obligation written before the identity changes.
UnsettledEarlier == kUna.mem.earlier # 0 /\ ~kUna.mem.settled
OwesBeforeInstall ==
    /\ kUna.at = "own" /\ HasDir
    /\ LET mem == [kUna.mem EXCEPT !.old = OldDevice(kUna.mem, kUna.id)] IN
       /\ kUna' = [kUna EXCEPT !.at = "install", !.mem = mem]
       /\ kDir' = [kDir EXCEPT !.staged = mem,
                      !.yml = IF kUna.inplace THEN "paused" ELSE @,
                      !.marker = IF mem.old # mem.dev /\ ~UnsettledEarlier
                                    THEN Marker("import", mem.old) ELSE @]
    /\ kHist' = [kHist EXCEPT !.restored = 0]
    /\ UNCHANGED <<kSrv, kArc, kSwp, kRvk>>

\* _install_identity: the new device is the agent's; the old one is retired.
InstallNewDevice ==
    /\ kUna.at = "install" /\ HasDir
    /\ kDir' = [kDir EXCEPT !.id = kUna.mem.dev]
    /\ kUna' = [kUna EXCEPT !.at = IF UnsettledEarlier THEN "earlier" ELSE "old"]
    /\ UNCHANGED <<kSrv, kArc, kSwp, kRvk, kHist>>

\* The earlier import's device is revoked through the new one, or the restore
\* goes no further; then the marker is this restore's own.
SettlesEarlier ==
    /\ kUna.at = "earlier" /\ HasDir
    /\ \E o \in Outcomes :
          /\ kSrv' = [kSrv EXCEPT !.valid = Revokes(kUna.mem.earlier, kUna.mem.dev, o)]
          /\ kHist' = Tally(kHist, o)
          /\ LET mem == [kUna.mem EXCEPT !.settled = TRUE] IN
             IF RevokeOk(kUna.mem.dev, o)
                THEN /\ kUna' = [kUna EXCEPT !.at = "old", !.mem = mem]
                     /\ kDir' = [kDir EXCEPT !.staged = mem,
                            !.marker = IF mem.old # mem.dev THEN Marker("import", mem.old) ELSE NoMarker]
                ELSE kUna' = [kUna EXCEPT !.at = "idle"] /\ UNCHANGED kDir
    /\ UNCHANGED <<kArc, kSwp, kRvk>>

\* The old device is revoked through the new one; a failure leaves the marker.
RevokesArchived ==
    /\ kUna.at = "old" /\ HasDir
    /\ \E o \in Outcomes :
          LET owed == kUna.mem.old # kUna.mem.dev IN
          /\ kSrv' = IF owed THEN [kSrv EXCEPT !.valid = Revokes(kUna.mem.old, kUna.mem.dev, o)] ELSE kSrv
          /\ kHist' = Tally(kHist, o)
          /\ kDir' = IF ~owed THEN kDir
                     ELSE [kDir EXCEPT !.marker = IF RevokeOk(kUna.mem.dev, o) THEN NoMarker
                                                  ELSE Marker("import", kUna.mem.old)]
          /\ kUna' = [kUna EXCEPT !.at = "move"]
    /\ UNCHANGED <<kArc, kSwp, kRvk>>

\* The flag goes, agent.yml says paused, and the directory comes back.
MovesBack ==
    /\ kUna.at = "move" /\ HasDir
    /\ LET mem == IF kUna.inplace THEN kUna.mem ELSE [kUna.mem EXCEPT !.from = TRUE] IN
       /\ kDir' = [kDir EXCEPT !.at = "live", !.flag = FALSE, !.yml = "paused", !.staged = mem]
       /\ kUna' = [kUna EXCEPT !.at = "done", !.mem = mem]
    /\ UNCHANGED <<kSrv, kArc, kSwp, kRvk, kHist>>

\* _device_status: known and not revoked.
StillValid(d) == d \in kSrv.valid

\* _restore_unrevoked: the server says it is not archived; its device still
\* valid, the archive comes back as it is, without the archive's own marker.
RestoreUnrevoked ==
    /\ kUna.at = "status" /\ kDir.at = "ws"
    /\ \E o \in Outcomes :
          /\ kHist' = Tally(kHist, o)
          /\ IF o = "ok" /\ StillValid(kUna.id)
                THEN /\ kDir' = [kDir EXCEPT !.at = "live", !.flag = FALSE, !.yml = "paused",
                            !.staged = [@ EXCEPT !.asis = TRUE, !.from = TRUE],
                            !.marker = IF @.kind = "archive" THEN NoMarker ELSE @]
                     /\ kUna' = [kUna EXCEPT !.at = "done"]
                ELSE kUna' = [kUna EXCEPT !.at = "idle"] /\ UNCHANGED kDir
    /\ UNCHANGED <<kSrv, kArc, kSwp, kRvk>>
StatusLost ==
    /\ kUna.at = "status" /\ kDir.at # "ws" /\ kUna' = [kUna EXCEPT !.at = "idle"]
    /\ UNCHANGED <<kDir, kSrv, kArc, kSwp, kRvk, kHist>>

\* _write_done before _discard_state: a crash between leaves at least one.
WriteDone ==
    /\ kUna.at = "done" /\ kDir.at = "live"
    /\ kDir' = [kDir EXCEPT !.done = kDir.id]
    /\ kUna' = [kUna EXCEPT !.at = "discard"]
    /\ kHist' = [kHist EXCEPT !.restored = kDir.id]
    /\ UNCHANGED <<kSrv, kArc, kSwp, kRvk>>
DiscardState ==
    /\ kUna.at = "discard" /\ kDir.at = "live"
    /\ kDir' = [kDir EXCEPT !.staged = NoState]
    /\ kUna' = [kUna EXCEPT !.at = "report"]
    /\ UNCHANGED <<kSrv, kArc, kSwp, kRvk, kHist>>

\* _report_paused; then the command answers.
ReportPaused ==
    /\ kUna.at = "report"
    /\ \E o \in Outcomes :
          /\ kSrv' = IF o # "fail" /\ kDir.id \in kSrv.valid THEN [kSrv EXCEPT !.status = "other"] ELSE kSrv
          /\ kHist' = [Tally(kHist, o) EXCEPT !.mints = 0]
    /\ kUna' = [kUna EXCEPT !.at = "idle"]
    /\ UNCHANGED <<kDir, kArc, kSwp, kRvk>>

-----------------------------------------------------------------------------
(* The operator and the server *)

\* `agent resume`: agent.yml says running.
Resume ==
    /\ kDir.at = "live" /\ kDir.yml = "paused" /\ Alone /\ Op1
    /\ kDir' = [kDir EXCEPT !.yml = "running"]
    /\ kHist' = [Counts(kHist) EXCEPT !.mints = 0]
    /\ UNCHANGED <<kSrv, kArc, kSwp, kUna, kRvk>>

\* The owner archives the agent at the server while this machine is away; the
\* server may revoke its device.
OwnerArchives ==
    /\ kSrv.status # "archived" /\ Op1 /\ kUna.at = "idle"
    /\ \E revoked \in BOOLEAN :
          /\ kSrv' = [valid |-> IF revoked THEN kSrv.valid \ {kDir.id} ELSE kSrv.valid, status |-> "archived"]
          /\ kHist' = [Counts(kHist) EXCEPT !.restored = 0,
                                            !.gone = IF revoked THEN @ \cup {kDir.id} ELSE @]
    /\ UNCHANGED <<kDir, kArc, kSwp, kUna, kRvk>>

\* The server's status moves on from "archived".
OwnerReactivates ==
    /\ kSrv.status = "archived" /\ Op1 /\ kUna.at = "idle"
    /\ kSrv' = [kSrv EXCEPT !.status = "other"] /\ kHist' = Counts(kHist)
    /\ UNCHANGED <<kDir, kArc, kSwp, kUna, kRvk>>

\* The daemon dies; it starts again and sweeps.
CustodyCrash ==
    /\ kHist.crashes < MaxCustodyCrash
    /\ kArc' = [kArc EXCEPT !.at = "idle"] /\ kUna' = [kUna EXCEPT !.at = "idle"]
    /\ kRvk' = [at |-> "idle", dev |-> 0] /\ kSwp' = [kSwp EXCEPT !.at = "start"]
    /\ kHist' = [kHist EXCEPT !.crashes = @ + 1]
    /\ UNCHANGED <<kDir, kSrv>>

-----------------------------------------------------------------------------

KInit ==
    /\ \E at \in {"live", "none"} :
          kDir = [at |-> at, id |-> 1, yml |-> "running", flag |-> FALSE, marker |-> NoMarker,
                  staged |-> NoState, done |-> 0]
    /\ kSrv = [valid |-> {1}, status |-> "other"]
    /\ kArc = [at |-> "idle", kind |-> "archive", dev |-> 0]
    /\ kSwp = [at |-> "idle", dev |-> 0, signer |-> 0]
    /\ kUna = [at |-> "idle", inplace |-> FALSE, id |-> 0, mem |-> NoState]
    /\ kRvk = [at |-> "idle", dev |-> 0]
    /\ \E ov \in BOOLEAN :
       kHist = [overlap |-> ov, ops |-> 0, faults |-> 0, crashes |-> 0, minted |-> 1, mints |-> 0, restored |-> 0,
                gone |-> {}, dropped |-> {}]

UnarchiveStep ==
    \/ UnarchiveAgain \/ StageRequest \/ PostRestore \/ LosesDir \/ OwesBeforeInstall
    \/ InstallNewDevice \/ SettlesEarlier \/ RevokesArchived \/ MovesBack
    \/ RestoreUnrevoked \/ StatusLost \/ WriteDone \/ DiscardState \/ ReportPaused

KNext ==
    \/ ArchiveMovesDir \/ ArchiveReports \/ ArchiveLoadsIdentity \/ ArchiveRevokes
    \/ SweepReads \/ SweepRevokes
    \/ ImportCommits \/ RevokePendingReads \/ RevokesOld
    \/ UnarchiveStep
    \/ Resume \/ OwnerArchives \/ OwnerReactivates \/ CustodyCrash

KSpec == KInit /\ [][KNext]_kVars

-----------------------------------------------------------------------------
(* Properties *)

\* The devices the directory answers for: its own, the one a marker owes a
\* revoke, and those the unarchive staging remembers.  (A device staged but
\* never installed has its only keys in the staging.)
Known(dir) ==
    IF dir.at = "none" THEN {}
    ELSE ({dir.id, dir.staged.old, dir.staged.earlier}
          \cup IF dir.marker.kind \in {"archive", "import"} THEN {dir.marker.dev} ELSE {}) \ {0}

\* No step of unarchive drops a device the server still accepts: it stays in
\* the identity, a marker or the staging until its revoke succeeded.
\* (_write_revoke_obligation: "a crash at any later point still carries the
\* obligation with the agent".)  Excluded are devices whose marker an archive
\* replaced earlier, and restores that overlap another operation.
UnarchiveKeepsObligations ==
    [][UnarchiveStep /\ ~kHist.overlap
         => (Known(kDir) \cap kSrv'.valid) \ kHist.dropped \subseteq Known(kDir')]_kVars

\* Retries, also after a crash at any write, replay the same signed device:
\* one restore never mints a second one.
RestoreMintsOnce == kHist.mints <= 1

\* A restored agent's device is accepted by the server until it is archived
\* again: whatever an archive or sweep of the old device does afterwards.
RestoredDeviceIsValid ==
    kDir.at = "live" /\ kDir.id = kHist.restored => kDir.id \in kSrv.valid \cup kHist.gone

\* The same while unarchive overlaps no other operation on the agent.
RestoredAloneIsValid == ~kHist.overlap => RestoredDeviceIsValid

=============================================================================
