----------------------------- MODULE AgentMemory -----------------------------
(***************************************************************************)
(* The agent's memory tree and its audit repository (agent/memory.py,      *)
(* agent/memory_store.py, agent/memory_git.py, agent/memory_seed.py,       *)
(* mcp/memory_tools.py).                                                   *)
(*                                                                         *)
(* Each provider session runs its own memory server, so two of them write  *)
(* the same tree.  A write tool makes the tree and the repository if they  *)
(* are missing, changes one file and commits it under a lock of the host.  *)
(* A start of the worker seeds an empty tree from a remote and renews the  *)
(* managed profile.                                                        *)
(*                                                                         *)
(* A body is its version and its size.  Reading, searching, the refresh    *)
(* flag of a changed briefing (see WorkerHealth) and the words of the      *)
(* error envelopes are left out.                                           *)
(***************************************************************************)
EXTENDS Values, Sequences, FiniteSets, SequencesExt

CONSTANTS MemServers,     \* memory servers of the agent's sessions
          MemNotes,       \* names under notes/
          MemTopics,      \* names under briefing/, the profile aside
          MemSizes,       \* sizes a call may ask for
          NoteLimit,      \* NOTES_FILE_LIMIT
          TopicLimit,     \* PER_FILE_LIMIT
          BriefLimit,     \* TOTAL_LIMIT
          MemSeed,        \* what the remote holds: path -> size, 0 for nothing
          HistoryCap,     \* HISTORY_MAX_LIMIT
          MaxMemWrites,   \* files changed by tools
          MaxMemBoots,    \* starts of the worker
          MaxMemFaults    \* failed git commands, failed clones, killed servers

MemProfile == "profile"
MemPaths == MemNotes \union MemTopics \union {MemProfile}

VARIABLES mDisk,    \* path -> [v, n]: version and size; version 0 is no file
          mTree,    \* ensure_memory_tree ran: the scaffold, imports/index.md too
          mOwn,     \* the managed block of the profile names this agent
          mRepo,    \* [git, cfg, host]: .git exists, is configured, host identity
          mIndex,   \* path -> version staged
          mHead,    \* path -> version in the newest commit
          mHist,    \* commits, newest last: [path, v, shows, swept, hermetic]
          mLock,    \* holder of the write transaction
          mCall,    \* calls in progress: [at, op, p, n, v]
          mBoot,    \* step of the start: "down", "seed", "copy", "sync", "up"
          mCopy,    \* paths the seed still has to copy
          mByAgent, \* paths the agent ever wrote
          mForgone, \* a start took scaffolding for memory and did not seed
          mWrites, mBoots, mFaults

memVars == <<mDisk, mTree, mOwn, mRepo, mIndex, mHead, mHist, mLock, mCall, mBoot, mCopy,
             mByAgent, mForgone, mWrites, mBoots, mFaults>>
memAudit == <<mIndex, mHead, mHist>>
memStart == <<mOwn, mBoot, mCopy, mForgone, mBoots>>

SeedVersion == MaxMemWrites + 1
SyncVersion == MaxMemWrites + 2

MemAbsent == [v |-> 0, n |-> 0]
MemIdle == [at |-> "idle", op |-> "none", p |-> MemProfile, n |-> 0, v |-> 0]
NothingStaged == [p \in MemPaths |-> 0]

MemInit ==
  /\ mDisk = [p \in MemPaths |-> MemAbsent] /\ mTree = FALSE /\ mOwn = FALSE
  /\ mRepo \in [git : {FALSE}, cfg : {FALSE}, host : BOOLEAN]
  /\ mIndex = NothingStaged /\ mHead = NothingStaged /\ mHist = <<>> /\ mLock = Nothing
  /\ mCall = [s \in MemServers |-> MemIdle]
  /\ mBoot = "down" /\ mCopy = {} /\ mByAgent = {} /\ mForgone = FALSE
  /\ mWrites = 0 /\ mBoots = 0 /\ mFaults = 0

MemFault == mFaults < MaxMemFaults /\ mFaults' = mFaults + 1
MemCall(s, c) == mCall' = [mCall EXCEPT ![s] = c]
MemAt(s, at) == mCall[s].at = at
MemGoes(s, at) == MemCall(s, IF at = "idle" THEN MemIdle ELSE [mCall[s] EXCEPT !.at = at])

(***************************************************************************)
(* The size rules of the store.                                            *)
(***************************************************************************)
InBriefing(p) == p \notin MemNotes

\* Size of the compiled briefing: the profile, and each topic under its heading.
Composed(disk) ==
  disk[MemProfile].n
    + FoldSet(LAMBDA t, total : total + IF disk[t].n > 0 THEN disk[t].n + 1 ELSE 0, 0, MemTopics)

BriefingTotalFits(p, n) == Composed([mDisk EXCEPT ![p].n = n]) <= BriefLimit

SizeFits(p, n) ==
  IF InBriefing(p) THEN n <= TopicLimit /\ BriefingTotalFits(p, n) ELSE n <= NoteLimit

(***************************************************************************)
(* A memory tool is called.  Every tool first makes the tree and the       *)
(* repository, a read too.                                                 *)
(***************************************************************************)
WritesLeft == mWrites + Cardinality({s \in MemServers : mCall[s].op \in {"create", "patch", "append"}})
                < MaxMemWrites

ToolCalled(s) ==
  /\ mBoot = "up" /\ MemAt(s, "idle") /\ WritesLeft
  /\ \E op \in {"read", "create", "patch", "append"}, p \in MemPaths, n \in MemSizes :
       /\ op = "read" => (p = MemProfile /\ n = Min(MemSizes) /\ ~mRepo.git)
       /\ op = "append" => p \in MemNotes
       /\ MemCall(s, [at |-> "ensure", op |-> op, p |-> p, n |-> n, v |-> 0])
  /\ mTree' = TRUE
  /\ UNCHANGED <<mDisk, mRepo, memAudit, mLock, memStart, mByAgent, mWrites, mFaults>>

Ensured(s) == IF mCall[s].op = "read" THEN "idle" ELSE "lock"

\* ensure_memory_git: an existing .git is taken as it is.
GitInit(s) ==
  /\ MemAt(s, "ensure")
  /\ \/ mRepo.git /\ MemGoes(s, Ensured(s)) /\ UNCHANGED <<mRepo, mFaults>>
     \/ ~mRepo.git /\ MemGoes(s, "config") /\ mRepo' = [mRepo EXCEPT !.git = TRUE] /\ UNCHANGED mFaults
     \/ ~mRepo.git /\ MemFault /\ MemGoes(s, Ensured(s)) /\ UNCHANGED mRepo
  /\ UNCHANGED <<mDisk, mTree, memAudit, mLock, memStart, mByAgent, mWrites>>

GitConfig(s) ==
  /\ MemAt(s, "config") /\ MemGoes(s, Ensured(s))
  /\ \/ mRepo' = [mRepo EXCEPT !.cfg = TRUE] /\ UNCHANGED mFaults
     \/ MemFault /\ UNCHANGED mRepo
  /\ UNCHANGED <<mDisk, mTree, memAudit, mLock, memStart, mByAgent, mWrites>>

(***************************************************************************)
(* The write transaction: the change of the file and its commit.           *)
(***************************************************************************)
CreateMemoryFile(c) == mDisk[c.p].v = 0 /\ SizeFits(c.p, c.n)
PatchMemoryFile(c) == mDisk[c.p].v > 0 /\ SizeFits(c.p, c.n)
AppendMemoryFile(c) == mDisk[c.p].v > 0 /\ SizeFits(c.p, mDisk[c.p].n + c.n)

StoreAccepts(c) == CASE c.op = "create" -> CreateMemoryFile(c)
                     [] c.op = "patch" -> PatchMemoryFile(c)
                     [] c.op = "append" -> AppendMemoryFile(c)

NewSize(c) == IF c.op = "append" THEN mDisk[c.p].n + c.n ELSE c.n

\* The transaction ends with its commit.
ReleasedAtOnce(s) == Nothing
KeepsTransaction(s) == s

\* The call is refused: a wrong path, size or patch text, or the file is (not) there.
StoreRefuses(s) ==
  /\ MemAt(s, "lock") /\ mLock = Nothing /\ MemGoes(s, "idle")
  /\ (StoreAccepts(mCall[s]) => mCall[s].op = "patch")
  /\ UNCHANGED <<mDisk, mTree, mRepo, memAudit, mLock, memStart, mByAgent, mWrites, mFaults>>

StoreWrites(s) ==
  LET c == mCall[s] IN
  /\ MemAt(s, "lock") /\ mLock = Nothing /\ StoreAccepts(c)
  /\ mWrites' = mWrites + 1
  /\ mDisk' = [mDisk EXCEPT ![c.p] = [v |-> mWrites + 1, n |-> NewSize(c)]]
  /\ mOwn' = (mOwn /\ c.p # MemProfile) /\ mByAgent' = mByAgent \union {c.p}
  /\ MemCall(s, IF mRepo.git THEN [c EXCEPT !.at = "add", !.v = mWrites + 1] ELSE MemIdle)
  /\ mLock' = IF mRepo.git THEN KeepsTransaction(s) ELSE Nothing
  /\ UNCHANGED <<mTree, mRepo, memAudit, mBoot, mCopy, mForgone, mBoots, mFaults>>

\* _unstage_failed_commit; the reset itself may fail.
Unstage(p) ==
  mIndex' \in {IF mHist = <<>> THEN NothingStaged ELSE [mIndex EXCEPT ![p] = mHead[p]], mIndex}

LeavesTransaction(s) == mLock' = (IF mLock = s THEN Nothing ELSE mLock)

GitAdd(s) ==
  LET p == mCall[s].p IN
  /\ MemAt(s, "add") /\ mIndex' = [mIndex EXCEPT ![p] = mDisk[p].v] /\ MemGoes(s, "commit")
  /\ UNCHANGED <<mDisk, mTree, mRepo, mHead, mHist, mLock, memStart, mByAgent, mWrites, mFaults>>

GitFails(s) ==
  /\ \/ MemAt(s, "add") /\ MemFault
     \/ MemAt(s, "commit") /\ MemFault
     \/ MemAt(s, "commit") /\ ~mRepo.cfg /\ ~mRepo.host /\ UNCHANGED mFaults
  /\ Unstage(mCall[s].p) /\ MemGoes(s, "idle") /\ LeavesTransaction(s)
  /\ UNCHANGED <<mDisk, mTree, mRepo, mHead, mHist, memStart, mByAgent, mWrites>>

\* A commit records the whole index.
GitCommit(s) ==
  LET c == mCall[s] IN
  /\ MemAt(s, "commit") /\ (mRepo.cfg \/ mRepo.host)
  /\ mHist' = Append(mHist, [path |-> c.p, v |-> c.v, shows |-> mIndex[c.p], hermetic |-> mRepo.cfg,
                             swept |-> {q \in MemPaths : mIndex[q] # mHead[q]} \ {c.p}])
  /\ mHead' = mIndex
  /\ MemGoes(s, "idle") /\ LeavesTransaction(s)
  /\ UNCHANGED <<mDisk, mTree, mRepo, mIndex, memStart, mByAgent, mWrites, mFaults>>

\* The session of a server ends while it works: the host lock falls with it.
ServerKilled(s) ==
  /\ ~MemAt(s, "idle") /\ MemFault /\ MemGoes(s, "idle") /\ LeavesTransaction(s)
  /\ UNCHANGED <<mDisk, mTree, mRepo, memAudit, memStart, mByAgent, mWrites>>

(***************************************************************************)
(* The start of the worker.                                                *)
(***************************************************************************)
WorkerStarts ==
  /\ mBoot = "down" /\ mBoots < MaxMemBoots /\ mBoot' = "seed" /\ mBoots' = mBoots + 1
  /\ UNCHANGED <<mDisk, mTree, mOwn, mRepo, memAudit, mLock, mCall, mCopy, mByAgent, mForgone, mWrites, mFaults>>

MemoryIsEmpty == ~mTree /\ \A p \in MemPaths : mDisk[p].v = 0

\* seed_from_remote: only an empty tree; a failed clone is logged.
SeedFromRemote ==
  /\ mBoot = "seed"
  /\ \/ ~MemoryIsEmpty /\ mBoot' = "sync" /\ UNCHANGED <<mCopy, mFaults>>
        /\ mForgone' = (mForgone \/ (mByAgent = {} /\ \A p \in MemPaths : MemSeed[p] > 0 => mDisk[p].v # 1))
     \/ MemoryIsEmpty /\ mBoot' = "copy" /\ mCopy' = {p \in MemPaths : MemSeed[p] > 0}
        /\ UNCHANGED <<mForgone, mFaults>>
     \/ MemoryIsEmpty /\ MemFault /\ mBoot' = "sync" /\ UNCHANGED <<mCopy, mForgone>>
  /\ UNCHANGED <<mDisk, mTree, mOwn, mRepo, memAudit, mLock, mCall, mByAgent, mWrites, mBoots>>

SeedCopies ==
  /\ mBoot = "copy"
  /\ \/ mCopy = {} /\ mBoot' = "sync" /\ UNCHANGED <<mDisk, mOwn, mCopy>>
     \/ \E p \in mCopy :
          /\ mDisk' = [mDisk EXCEPT ![p] = [v |-> SeedVersion, n |-> MemSeed[p]]]
          /\ mOwn' = (mOwn /\ p # MemProfile)
          /\ mCopy' = mCopy \ {p} /\ UNCHANGED mBoot
  /\ UNCHANGED <<mTree, mRepo, memAudit, mLock, mCall, mByAgent, mForgone, mWrites, mBoots, mFaults>>

\* sync_profile_briefing through put_memory_file, under the lock; best effort.
ProfileSize == 1

SyncProfile ==
  /\ mBoot = "sync" /\ mLock = Nothing /\ mBoot' = "up" /\ mTree' = TRUE
  /\ LET n == Max({ProfileSize, mDisk[MemProfile].n}) IN
     IF SizeFits(MemProfile, n) /\ ~mOwn
     THEN mDisk' = [mDisk EXCEPT ![MemProfile] = [v |-> SyncVersion, n |-> n]] /\ mOwn' = TRUE
     ELSE UNCHANGED <<mDisk, mOwn>>
  /\ UNCHANGED <<mRepo, memAudit, mLock, mCall, mCopy, mByAgent, mForgone, mWrites, mBoots, mFaults>>

\* The worker ends, at any point of its start too, and its sessions with it.
WorkerEnds ==
  /\ mBoot # "down" /\ mBoots < MaxMemBoots /\ mBoot' = "down" /\ mCopy' = {}
  /\ mCall' = [s \in MemServers |-> MemIdle] /\ mLock' = Nothing
  /\ UNCHANGED <<mDisk, mTree, mOwn, mRepo, memAudit, mByAgent, mForgone, mWrites, mBoots, mFaults>>

ServerSteps(s) ==
  \/ ToolCalled(s) \/ GitInit(s) \/ GitConfig(s) \/ StoreRefuses(s) \/ StoreWrites(s)
  \/ GitAdd(s) \/ GitFails(s) \/ GitCommit(s) \/ ServerKilled(s)

MemNext ==
  \/ \E s \in MemServers : ServerSteps(s)
  \/ WorkerStarts \/ SeedFromRemote \/ SeedCopies \/ SyncProfile \/ WorkerEnds

MemSpec == MemInit /\ [][MemNext]_memVars

(***************************************************************************)
(* query_history: the newest HistoryCap + 1 commits are read and filtered  *)
(* after that.                                                             *)
(***************************************************************************)
HistoryFetch == HistoryCap + 1

HistoryLog == LET all == Reverse(mHist) IN SubSeq(all, 1, Min({HistoryFetch, Len(all)}))

FilteredHistory(p, limit) ==
  LET found == SelectSeq(HistoryLog, LAMBDA c : c.path = p)
  IN [entries |-> SubSeq(found, 1, Min({limit, Len(found)})), truncated |-> Len(found) > limit]

(***************************************************************************)
(* Properties.                                                             *)
(***************************************************************************)

\* No sequence of writes through the store, by whichever sessions, by the seed of a briefing
\* within budget or by the renewed profile, makes the compiled briefing exceed its budget, which
\* compile_briefing answers with an error: the size rule (_validate_briefing_total) looks at the
\* other topics inside the write transaction.
BriefingInBudget == Composed(mDisk) <= BriefLimit

\* The commit a tool makes shows the very version that call wrote: between its change of the file
\* and its commit no other session can write the same file (write_transaction spans both).
CommitShowsItsWrite == \A i \in DOMAIN mHist : mHist[i].shows = mHist[i].v

\* An agent that has written anything keeps it: no step of a seed changes a file the agent wrote
\* (memory_is_empty).
SeedNeverOverwrites ==
  [][mBoot = "copy" => \A p \in mByAgent : mDisk'[p] = mDisk[p]]_memVars

\* While the history is no longer than one fetch, an answer of query_history that is not marked
\* truncated has every matching commit.  (Beyond that, a post-filtered match may lie outside the
\* fetched commits and the answer does not say so.)
UntruncatedIsAll ==
  Len(mHist) <= HistoryCap + 1 =>
    \A p \in MemPaths, limit \in 1..HistoryCap :
      LET a == FilteredHistory(p, limit)
      IN ~a.truncated => Len(a.entries) = Len(SelectSeq(mHist, LAMBDA c : c.path = p))
=============================================================================
