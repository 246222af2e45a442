------------------------------- MODULE Reminders -------------------------------
(***************************************************************************)
(* One-shot reminders: the durable occurrences and their embedded outbox    *)
(* (agent/reminder_store.py), the timer that fires them                     *)
(* (agent/reminder_scheduler.py) and their synchronization with the Server, *)
(* which another runtime of the same Agent may use too                      *)
(* (agent/reminder_sync.py).                                                *)
(*                                                                          *)
(* A store operation is one transaction.  Three kinds of task interleave at *)
(* their awaits: the scheduler's pass, the sync worker's pass and the       *)
(* mutations (cancel_reminder, replace_reminder) of the tools.  Envelopes   *)
(* are named by who encrypted them, leases by a number; the clocks of the   *)
(* Agent and the Server agree on when a lease has expired.                  *)
(***************************************************************************)
EXTENDS Values, Integers, Sequences, FiniteSets, SequencesExt

CONSTANTS
    MaxOcc,       \* occurrence o + 1 is the replacement of o
    MaxMutations, \* cancel and replace calls
    MaxLeases,    \* delivery claims the Server grants for an occurrence
    MaxRemFaults  \* lost replies, refusals, reconnects and crashes

ASSUME RemAssumption ==
    /\ MaxOcc \in Nat \ {0} /\ MaxMutations \in Nat /\ MaxLeases \in Nat \ {0}
    /\ MaxRemFaults \in Nat

VARIABLES
    rem,      \* reminder_occurrences
    remDue,   \* intended_at has passed
    fired,    \* reminder events in the Inbox
    srv,      \* the Server's occurrences
    srvFired, \* history: occurrences another runtime delivered
    lapsed,   \* history: occurrences a lease on which ran out
    sched,    \* the scheduler's pass
    rsync,    \* the sync worker's pass
    mut,      \* the mutation calls
    ready,    \* _delivery_ready
    released, \* _local_only_delivery_released_since_connect
    wanted,   \* _snapshot_requested
    remFaults

remFlags == <<ready, released, wanted>>
remVars == <<rem, remDue, fired, srv, srvFired, lapsed, sched, rsync, mut, remFlags, remFaults>>

Occs == 1..MaxOcc
Mutations == 1..MaxMutations
NoRow == [state |-> "absent", rev |-> 0, ack |-> 0, env |-> Nothing, claim |-> FALSE,
          lease |-> 0, perm |-> FALSE]
NewRow == [NoRow EXCEPT !.state = "scheduled", !.rev = 1]
NotOnServer == [life |-> "absent", env |-> Nothing, by |-> "none", lease |-> 0, live |-> FALSE]
SchedIdle == [step |-> "idle", occs |-> {}, resp |-> Nothing]
SyncIdle == [step |-> "idle", at |-> 1, resp |-> Nothing, todo |-> <<>>, full |-> FALSE]
NoMutation == [step |-> "idle", kind |-> "none", occ |-> 0, row |-> NoRow, resp |-> Nothing,
               result |-> "none"]

RemInit ==
    /\ rem = [o \in Occs |-> NoRow] /\ srv = [o \in Occs |-> NotOnServer]
    /\ remDue = [o \in Occs |-> FALSE] /\ fired = {} /\ srvFired = {} /\ lapsed = {}
    /\ sched = SchedIdle /\ rsync = SyncIdle /\ mut = [m \in Mutations |-> NoMutation]
    /\ ready = FALSE /\ released = FALSE /\ wanted = TRUE /\ remFaults = 0

RemFault == remFaults < MaxRemFaults /\ remFaults' = remFaults + 1
Open(row) == row.state \in {"scheduled", "claimed"}

\* is_unprepared_local_only: no evidence of remote custody.
Unacknowledged(row) == row.ack = 0
LocalOnly(row) == row.ack = 0 /\ row.env = Nothing /\ ~row.claim

\* _reminder_delivery_custody_sql: untouched local work, or a lease that has
\* not expired.  lease is 0 unless delivery_claim_acquired.
Custody(o) ==
    \/ LocalOnly(rem[o])
    \/ rem[o].claim /\ rem[o].lease > 0 /\ srv[o].live /\ srv[o].lease = rem[o].lease

-----------------------------------------------------------------------------
\* The Server (external).

ServerHas(o) == srv[o].life # "absent"
SrvCreate(o, life, env) == [srv EXCEPT ![o] = [NotOnServer EXCEPT !.life = life, !.env = env]]

\* What a PUT of a revision gets: "ok" and the occurrences after it.  A claim
\* that is live belongs to a delivery, which only its holder may finish.
PutAccepted(o, life, env, claimed) ==
    LET s == srv[o]
    IN \/ s.life = "absent"
       \/ s.life = life /\ s.env = env
       \/ /\ s.life = "scheduled" /\ s.env = env
          /\ CASE life = "cancelled" -> ~s.live
               [] life = "delivered" -> claimed /\ s.by = "us"
               [] OTHER -> FALSE
AfterPut(o, life, env) ==
    IF srv[o].life = "absent" THEN SrvCreate(o, life, env)
    ELSE [srv EXCEPT ![o].life = life, ![o].live = @ /\ life = "scheduled"]

\* A delivery claim: the same id again keeps a live lease.
ClaimReply(o) ==
    IF srv[o].life \in {"cancelled", "delivered"} THEN "terminal"
    ELSE IF srv[o].life = "absent" THEN "refused"
    ELSE IF srv[o].live /\ srv[o].by = "other" THEN "held" ELSE "acquired"
AfterClaim(o, who) ==
    [srv EXCEPT ![o].by = who, ![o].live = TRUE,
                ![o].lease = IF srv[o].live THEN @ ELSE @ + 1]

\* What a snapshot says of an occurrence.
Seen(s) == [life |-> s.life, env |-> s.env]

LeaseExpires(o) ==
    /\ srv[o].live /\ srv[o].lease < MaxLeases
    /\ srv' = [srv EXCEPT ![o].live = FALSE] /\ lapsed' = lapsed \cup {o}
    /\ UNCHANGED <<rem, remDue, fired, srvFired, sched, rsync, mut, remFlags, remFaults>>

\* Another runtime of the Agent.
OtherCreates(o) ==
    /\ o = 1 /\ ~ServerHas(o) /\ rem[o] = NoRow
    /\ srv' = SrvCreate(o, "scheduled", "other")
    /\ UNCHANGED <<rem, remDue, fired, srvFired, lapsed, sched, rsync, mut, remFlags,
                   remFaults>>
OtherClaims(o) ==
    /\ srv[o].life = "scheduled" /\ ~srv[o].live /\ remDue[o] /\ srv[o].lease < MaxLeases
    /\ srv' = AfterClaim(o, "other")
    /\ UNCHANGED <<rem, remDue, fired, srvFired, lapsed, sched, rsync, mut, remFlags,
                   remFaults>>
OtherEnds(o, life) ==
    /\ srv[o].life = "scheduled"
    /\ IF life = "delivered" THEN srv[o].live /\ srv[o].by = "other" ELSE ~srv[o].live
    /\ srv' = [srv EXCEPT ![o].life = life, ![o].live = FALSE]
    /\ srvFired' = IF life = "delivered" THEN srvFired \cup {o} ELSE srvFired
    /\ UNCHANGED <<rem, remDue, fired, lapsed, sched, rsync, mut, remFlags, remFaults>>

-----------------------------------------------------------------------------
\* Materializing what the Server said.

\* materialize_remote_scheduled_reminder: a local terminal fact stays, a known
\* row learns that revision 1 is acknowledged, an unknown one is inserted.
ScheduledSeen(row, s) ==
    IF row.state = "absent"
    THEN [NewRow EXCEPT !.ack = 1, !.env = s.env]
    ELSE IF ~Open(row) THEN row
    ELSE [row EXCEPT !.ack = Max({row.ack, 1})]

\* _terminal_values and materialize_remote_terminal_reminder: delivered wins.
DeliveredWins(row, life) == IF row.state = "delivered" THEN "delivered" ELSE life
TerminalSeen(row, life) ==
    IF row.state = "absent" THEN row
    ELSE [row EXCEPT !.state = DeliveredWins(row, life), !.rev = Max({row.rev, 2}),
                     !.ack = Max({row.ack, 2}), !.claim = FALSE, !.lease = 0,
                     !.perm = FALSE]

Materialized(row, s) ==
    CASE s.life = "absent" -> row
      [] s.life = "scheduled" -> ScheduledSeen(row, s)
      [] OTHER -> TerminalSeen(row, s.life)

-----------------------------------------------------------------------------
\* The scheduler's pass.

CreateReminder(o) ==
    /\ o = 1 /\ rem[o] = NoRow /\ ~ServerHas(o)
    /\ rem' = [rem EXCEPT ![o] = NewRow]
    /\ UNCHANGED <<remDue, fired, srv, srvFired, lapsed, sched, rsync, mut, remFlags,
                   remFaults>>

BecomesDue(o) ==
    /\ ~remDue[o] /\ (rem[o] # NoRow \/ ServerHas(o))
    /\ remDue' = [remDue EXCEPT ![o] = TRUE]
    /\ UNCHANGED <<rem, fired, srv, srvFired, lapsed, sched, rsync, mut, remFlags,
                   remFaults>>

\* due_reminder_delivery_candidates
Candidates ==
    {o \in Occs : rem[o].state = "claimed" \/ (rem[o].state = "scheduled" /\ remDue[o])}
LocalCandidates == {o \in Candidates : LocalOnly(rem[o])}

\* authorize_due_delivery up to its first await: local work goes first, then
\* one remote claim, whose idempotency key is stored before it is sent.
AuthorizeDue ==
    /\ sched.step = "idle" /\ released
    /\ \/ /\ LocalCandidates # {}
          /\ sched' = [SchedIdle EXCEPT !.step = "claim", !.occs = LocalCandidates]
          /\ UNCHANGED rem
       \/ /\ LocalCandidates = {} /\ Candidates # {} /\ ready
          /\ LET o == CHOOSE o \in Candidates : \A x \in Candidates : o <= x
             IN /\ sched' = [SchedIdle EXCEPT !.step = "post", !.occs = {o}]
                /\ rem' = [rem EXCEPT ![o].claim = TRUE]
    /\ UNCHANGED <<remDue, fired, srv, srvFired, lapsed, rsync, mut, remFlags, remFaults>>

\* The delivery-claim POST and its answer.
PostClaim ==
    LET o == CHOOSE o \in sched.occs : TRUE
    IN /\ sched.step = "post"
       /\ srv' = IF ClaimReply(o) = "acquired" THEN AfterClaim(o, "us") ELSE srv
       /\ \/ /\ sched' = [sched EXCEPT !.step = "answer",
                              !.resp = <<ClaimReply(o), srv'[o].lease>>]
             /\ UNCHANGED remFaults
          \/ RemFault /\ sched' = SchedIdle
       /\ UNCHANGED <<rem, remDue, fired, srvFired, lapsed, rsync, mut, remFlags>>

\* acquire_reminder_delivery_claim, or the snapshot a terminal answer asks for.
ClaimAnswered ==
    LET o == CHOOSE o \in sched.occs : TRUE
        got == sched.resp[1] = "acquired" /\ Open(rem[o]) /\ rem[o].rev = 1 /\ rem[o].claim
    IN /\ sched.step = "answer"
       /\ rem' = IF got THEN [rem EXCEPT ![o].lease = sched.resp[2]] ELSE rem
       /\ sched' = IF got THEN [sched EXCEPT !.step = "claim", !.resp = Nothing] ELSE SchedIdle
       /\ IF sched.resp[1] = "terminal" THEN ready' = FALSE /\ wanted' = TRUE
          ELSE UNCHANGED <<ready, wanted>>
       /\ UNCHANGED <<remDue, fired, srv, srvFired, lapsed, rsync, mut, released,
                      remFaults>>

\* claim_authorized_reminders
ClaimAuthorized ==
    /\ sched.step = "claim"
    /\ rem' = [o \in Occs |-> IF o \in sched.occs /\ rem[o].state = "scheduled" /\ Custody(o)
                              THEN [rem[o] EXCEPT !.state = "claimed"] ELSE rem[o]]
    /\ sched' = [sched EXCEPT !.step = "deliver"]
    /\ UNCHANGED <<remDue, fired, srv, srvFired, lapsed, rsync, mut, remFlags, remFaults>>

\* deliver_authorized_reminders: the Inbox event and the terminal state commit
\* together, under custody that is checked again in the transaction.
DeliverAuthorized ==
    LET now == {o \in sched.occs : rem[o].state = "claimed" /\ Custody(o)}
    IN /\ sched.step = "deliver"
       /\ fired' = fired \cup now
       /\ rem' = [o \in Occs |-> IF o \in now
                    THEN [rem[o] EXCEPT !.state = "delivered", !.rev = @ + 1, !.perm = FALSE]
                    ELSE rem[o]]
       /\ sched' = SchedIdle
       /\ UNCHANGED <<remDue, srv, srvFired, lapsed, rsync, mut, remFlags, remFaults>>

-----------------------------------------------------------------------------
\* The sync worker's pass: a snapshot when one is wanted, then the outbox.

PendingRows(full, prepares) ==
    SetToSortSeq({o \in Occs : /\ rem[o].ack < rem[o].rev
                               /\ full \/ ~rem[o].perm
                               /\ prepares \/ ~LocalOnly(rem[o])}, <)
\* pending_reminder_sync_records copies the rows; the copies are used later.
UploadFrom(full, prepares) ==
    LET os == PendingRows(full, prepares)
    IN IF os = <<>> THEN SyncIdle
       ELSE [SyncIdle EXCEPT !.step = "envelope",
                             !.todo = [i \in DOMAIN os |-> <<os[i], rem[os[i]]>>]]

StartSync ==
    /\ rsync.step = "idle"
    /\ IF wanted
       THEN /\ wanted' = FALSE /\ rsync' = [SyncIdle EXCEPT !.step = "get"]
       ELSE /\ PendingRows(FALSE, ready) # <<>> /\ UNCHANGED wanted
            /\ rsync' = UploadFrom(FALSE, ready)
    /\ UNCHANGED <<rem, remDue, fired, srv, srvFired, lapsed, sched, mut, ready, released,
                   remFaults>>

\* A page of the snapshot: read on the Server, applied here later.
GetPage ==
    /\ rsync.step = "get"
    /\ rsync' = [rsync EXCEPT !.step = "apply", !.resp = Seen(srv[rsync.at])]
    /\ UNCHANGED <<rem, remDue, fired, srv, srvFired, lapsed, sched, mut, remFlags,
                   remFaults>>

\* _reconcile_snapshot asks for another snapshot when it fails.
SnapshotAgain == TRUE

\* A failed page ends the snapshot; on the first one local work is released.
GetPageFails ==
    /\ rsync.step = "get" /\ RemFault
    /\ rsync' = UploadFrom(FALSE, FALSE)
    /\ ready' = FALSE /\ wanted' = SnapshotAgain /\ released' = (released \/ rsync.at = 1)
    /\ UNCHANGED <<rem, remDue, fired, srv, srvFired, lapsed, sched, mut>>

ApplyPage ==
    LET o == rsync.at
    IN /\ rsync.step = "apply"
       /\ rem' = [rem EXCEPT ![o] = Materialized(@, rsync.resp)]
       /\ IF o < MaxOcc
          THEN /\ rsync' = [rsync EXCEPT !.step = "get", !.at = o + 1, !.resp = Nothing]
               /\ UNCHANGED <<ready, released>>
          ELSE /\ ready' = TRUE /\ released' = TRUE
               /\ rsync' = [SyncIdle EXCEPT !.step = "list", !.full = TRUE]
       /\ UNCHANGED <<remDue, fired, srv, srvFired, lapsed, sched, mut, wanted, remFaults>>

ListPending ==
    /\ rsync.step = "list"
    /\ rsync' = UploadFrom(rsync.full, ready)
    /\ UNCHANGED <<rem, remDue, fired, srv, srvFired, lapsed, sched, mut, remFlags,
                   remFaults>>

\* _ensure_envelope: encrypted once; the row is read again only when the copy
\* had no envelope.
Prepared(row) == IF row.env = Nothing THEN [row EXCEPT !.env = "us"] ELSE row
EnsureEnvelope ==
    LET o == rsync.todo[1][1]
        old == rsync.todo[1][2]
    IN /\ rsync.step = "envelope"
       /\ rem' = IF old.env = Nothing THEN [rem EXCEPT ![o] = Prepared(@)] ELSE rem
       /\ rsync' = [rsync EXCEPT !.step = "put",
                        !.todo = [@ EXCEPT ![1] = <<o, IF old.env = Nothing THEN rem'[o]
                                                       ELSE old>>]]
       /\ UNCHANGED <<remDue, fired, srv, srvFired, lapsed, sched, mut, remFlags,
                      remFaults>>

NextRecord == IF Len(rsync.todo) = 1 THEN SyncIdle
              ELSE [rsync EXCEPT !.step = "envelope", !.todo = Tail(@), !.resp = Nothing]
ServerLife(row) == IF row.state = "claimed" THEN "scheduled" ELSE row.state

\* The PUT of a record: accepted, refused, or without an answer.
PutRecord ==
    LET o == rsync.todo[1][1]
        row == rsync.todo[1][2]
        ok == PutAccepted(o, ServerLife(row), row.env, row.claim)
    IN /\ rsync.step = "put"
       /\ srv' = IF ok THEN AfterPut(o, ServerLife(row), row.env) ELSE srv
       /\ \/ /\ rsync' = [rsync EXCEPT !.step = "ack", !.resp = IF ok THEN "ok" ELSE "refused"]
             /\ UNCHANGED remFaults
          \/ RemFault /\ rsync' = [rsync EXCEPT !.step = "ack", !.resp = "lost"]
       /\ UNCHANGED <<rem, remDue, fired, srvFired, lapsed, sched, mut, remFlags>>

\* acknowledge_reminder_sync_revision, record_reminder_sync_permanent_failure
\* and schedule_reminder_sync_retry act on the same current revision only.
SameRevision(row, sent) == row.rev = sent.rev
RecordAnswered ==
    LET o == rsync.todo[1][1]
        sent == rsync.todo[1][2]
    IN /\ rsync.step = "ack"
       /\ rem' = IF ~SameRevision(rem[o], sent) THEN rem
                 ELSE CASE rsync.resp = "ok" ->
                             [rem EXCEPT ![o].ack = Max({@, rem[o].rev}), ![o].perm = FALSE]
                        [] rsync.resp = "refused" -> [rem EXCEPT ![o].perm = TRUE]
                        [] OTHER -> [rem EXCEPT ![o].perm = FALSE]
       /\ rsync' = NextRecord
       /\ UNCHANGED <<remDue, fired, srv, srvFired, lapsed, sched, mut, remFlags,
                      remFaults>>

-----------------------------------------------------------------------------
\* cancel_reminder and replace_reminder of the tools.

MutIs(m, s) == mut[m].step = s
MutGoes(m, state) == mut' = [mut EXCEPT ![m] = state]
MutDone(m, r) == [NoMutation EXCEPT !.step = "done", !.kind = mut[m].kind,
                                    !.occ = mut[m].occ, !.result = r]
AsksSnapshot == wanted' = TRUE

\* Where a cancellation goes with the record it read; locally untouched work
\* is ended here unless that was tried before.
CancelFrom(m, row, first) ==
    CASE row.state = "cancelled" -> MutDone(m, "cancelled")
      [] row.state = "delivered" -> MutDone(m, "conflict")
      [] first /\ LocalOnly(row) -> [mut[m] EXCEPT !.step = "local"]
      [] OTHER -> [mut[m] EXCEPT !.step = "envelope", !.row = row]

\* Where a replacement goes: what it asks for may be there already.
ReplaceFrom(m, o, row, first) ==
    CASE row.state = "cancelled" /\ rem[o + 1] # NoRow -> MutDone(m, "replaced")
      [] row.state = "delivered" -> MutDone(m, "conflict")
      [] row.state = "cancelled" /\ rem[o + 1] = NoRow /\ row.ack < 1 -> MutDone(m, "conflict")
      [] Open(row) /\ LocalOnly(row) -> IF first THEN [mut[m] EXCEPT !.step = "local"]
                                       ELSE MutDone(m, "conflict")
      [] OTHER -> [mut[m] EXCEPT !.step = "envelope", !.row = row]

MutFrom(m, first) ==
    LET o == mut[m].occ
    IN IF mut[m].kind = "cancel" THEN CancelFrom(m, rem[o], first)
       ELSE ReplaceFrom(m, o, rem[o], first)

\* A call is made; mutations are numbered in the order they are made.
Mutate(m, kind, o) ==
    /\ MutIs(m, "idle") /\ \A k \in Mutations : k < m => ~MutIs(k, "idle")
    /\ rem[o] # NoRow /\ (kind = "replace" => o < MaxOcc)
    /\ MutGoes(m, [NoMutation EXCEPT !.step = "read", !.kind = kind, !.occ = o])
    /\ UNCHANGED <<rem, remDue, fired, srv, srvFired, lapsed, sched, rsync, remFlags,
                   remFaults>>

MutRead(m) ==
    /\ mut[m].step \in {"read", "reread"} /\ MutGoes(m, MutFrom(m, MutIs(m, "read")))
    /\ UNCHANGED <<rem, remDue, fired, srv, srvFired, lapsed, sched, rsync, remFlags,
                   remFaults>>

\* MessageStore.cancel_reminder: decides again in its transaction; it reports a
\* delivery that came first as the row's state.
CancelLocal(m) ==
    LET o == mut[m].occ
        row == rem[o]
    IN /\ MutIs(m, "local") /\ mut[m].kind = "cancel"
       /\ IF Open(row) /\ LocalOnly(row)
          THEN /\ rem' = [rem EXCEPT ![o] = [@ EXCEPT !.state = "cancelled", !.rev = @ + 1,
                                                      !.lease = 0, !.perm = FALSE]]
               /\ MutGoes(m, MutDone(m, "cancelled"))
          ELSE /\ UNCHANGED rem
               /\ MutGoes(m, IF Open(row) THEN [mut[m] EXCEPT !.step = "reread"]
                             ELSE MutDone(m, row.state))
       /\ UNCHANGED <<remDue, fired, srv, srvFired, lapsed, sched, rsync, remFlags,
                      remFaults>>

\* replace_local_reminder: both rows in one transaction.
ReplaceLocal(m) ==
    LET o == mut[m].occ
        row == rem[o]
    IN /\ MutIs(m, "local") /\ mut[m].kind = "replace"
       /\ IF row.state = "scheduled" /\ LocalOnly(row) /\ rem[o + 1] = NoRow
          THEN /\ rem' = [rem EXCEPT ![o] = [@ EXCEPT !.state = "cancelled", !.rev = 2],
                                     ![o + 1] = NewRow]
               /\ MutGoes(m, MutDone(m, "replaced"))
          ELSE /\ UNCHANGED rem
               /\ MutGoes(m, IF row.state = "cancelled" /\ rem[o + 1] # NoRow
                             THEN MutDone(m, "replaced") ELSE [mut[m] EXCEPT !.step = "reread"])
       /\ UNCHANGED <<remDue, fired, srv, srvFired, lapsed, sched, rsync, remFlags,
                      remFaults>>

\* _ensure_envelope of a mutation; revision 1 need not be sent again.
MutEnvelope(m) ==
    LET o == mut[m].occ
        old == mut[m].row
        row == IF old.env = Nothing THEN Prepared(rem[o]) ELSE old
    IN /\ MutIs(m, "envelope")
       /\ rem' = IF old.env = Nothing THEN [rem EXCEPT ![o] = Prepared(@)] ELSE rem
       /\ MutGoes(m, [mut[m] EXCEPT !.row = row,
              !.step = IF mut[m].kind = "replace" /\ row.ack >= 1 THEN "post" ELSE "put"])
       /\ UNCHANGED <<remDue, fired, srv, srvFired, lapsed, sched, rsync, remFlags,
                      remFaults>>

\* The PUT a mutation makes: revision 2 of a cancellation, revision 1 of an
\* occurrence that must be on the Server before it is replaced.
MutPut(m) ==
    LET o == mut[m].occ
        row == mut[m].row
        life == IF mut[m].kind = "cancel" THEN "cancelled" ELSE ServerLife(row)
        ok == PutAccepted(o, life, row.env, row.claim)
    IN /\ MutIs(m, "put")
       /\ srv' = IF ok THEN AfterPut(o, life, row.env) ELSE srv
       /\ \/ /\ ok /\ MutGoes(m, [mut[m] EXCEPT !.step = "apply", !.resp = life])
             /\ UNCHANGED <<wanted, remFaults>>
          \/ /\ ~ok /\ MutGoes(m, MutDone(m, "conflict")) /\ AsksSnapshot /\ UNCHANGED remFaults
          \/ RemFault /\ MutGoes(m, MutDone(m, "unknown")) /\ AsksSnapshot
       /\ UNCHANGED <<rem, remDue, fired, srvFired, lapsed, sched, rsync, ready, released>>

\* The confirmed cancellation is materialized; the acknowledged revision 1 is
\* recorded and the replacement goes on with the row as it is now.
MutApply(m) ==
    LET o == mut[m].occ
    IN /\ MutIs(m, "apply")
       /\ IF mut[m].kind = "cancel"
          THEN /\ rem' = [rem EXCEPT ![o] = TerminalSeen(@, "cancelled")]
               /\ IF rem'[o].state = "cancelled"
                  THEN MutGoes(m, MutDone(m, "cancelled")) /\ UNCHANGED wanted
                  ELSE MutGoes(m, MutDone(m, "conflict")) /\ AsksSnapshot
          ELSE /\ rem' = IF rem[o].rev = 1 THEN [rem EXCEPT ![o].ack = 1, ![o].perm = FALSE]
                         ELSE rem
               /\ MutGoes(m, [mut[m] EXCEPT !.step = "post", !.row = rem'[o], !.resp = Nothing])
               /\ UNCHANGED wanted
       /\ UNCHANGED <<remDue, fired, srv, srvFired, lapsed, sched, rsync, ready, released,
                      remFaults>>

\* The Server's atomic replacement, or its replay.
ReplaceAccepted(o) ==
    \/ srv[o].life = "scheduled" /\ ~srv[o].live /\ ~ServerHas(o + 1)
    \/ srv[o].life = "cancelled" /\ ServerHas(o + 1)
AfterReplace(o) ==
    IF ServerHas(o + 1) THEN srv
    ELSE [srv EXCEPT ![o].life = "cancelled",
                     ![o + 1] = [NotOnServer EXCEPT !.life = "scheduled", !.env = "us"]]

MutPost(m) ==
    LET o == mut[m].occ
        ok == ReplaceAccepted(o)
    IN /\ MutIs(m, "post")
       /\ srv' = IF ok THEN AfterReplace(o) ELSE srv
       /\ \/ /\ ok /\ MutGoes(m, [mut[m] EXCEPT !.step = "swap", !.resp = Seen(srv'[o + 1])])
             /\ UNCHANGED <<wanted, remFaults>>
          \/ /\ ~ok /\ MutGoes(m, MutDone(m, "conflict")) /\ AsksSnapshot /\ UNCHANGED remFaults
          \/ RemFault /\ MutGoes(m, MutDone(m, "unknown")) /\ AsksSnapshot
       /\ UNCHANGED <<rem, remDue, fired, srvFired, lapsed, sched, rsync, ready, released>>

\* materialize_remote_replacement: both rows in one transaction.
Replacement(row, s) ==
    IF row.state = "absent"
    THEN [NewRow EXCEPT !.state = s.life, !.env = s.env,
                        !.rev = IF s.life = "scheduled" THEN 1 ELSE 2,
                        !.ack = IF s.life = "scheduled" THEN 1 ELSE 2]
    ELSE IF Open(row) /\ s.life # "scheduled" THEN TerminalSeen(row, s.life) ELSE row
MutSwap(m) ==
    LET o == mut[m].occ
    IN /\ MutIs(m, "swap")
       /\ rem' = [rem EXCEPT ![o] = TerminalSeen(@, "cancelled"),
                             ![o + 1] = Replacement(@, mut[m].resp)]
       /\ MutGoes(m, MutDone(m, "replaced"))
       /\ UNCHANGED <<remDue, fired, srv, srvFired, lapsed, sched, rsync, remFlags,
                      remFaults>>

-----------------------------------------------------------------------------
\* The transport and the process.

\* on_transport_connected: fail closed until the next snapshot.
TransportConnected ==
    /\ RemFault /\ ready' = FALSE /\ released' = FALSE /\ wanted' = TRUE
    /\ UNCHANGED <<rem, remDue, fired, srv, srvFired, lapsed, sched, rsync, mut>>

\* The daemon dies and comes back: only the database and the Server remain.
RemCrash ==
    /\ RemFault /\ ready' = FALSE /\ released' = FALSE /\ wanted' = TRUE
    /\ sched' = SchedIdle /\ rsync' = SyncIdle
    /\ mut' = [m \in Mutations |-> IF mut[m].step \in {"idle", "done"} THEN mut[m]
                                   ELSE MutDone(m, "unknown")]
    /\ UNCHANGED <<rem, remDue, fired, srv, srvFired, lapsed>>

SchedStep == AuthorizeDue \/ PostClaim \/ ClaimAnswered \/ ClaimAuthorized \/ DeliverAuthorized
SyncStep == StartSync \/ GetPage \/ ApplyPage \/ ListPending \/ EnsureEnvelope \/ PutRecord
            \/ RecordAnswered
MutStep(m) == MutRead(m) \/ CancelLocal(m) \/ ReplaceLocal(m) \/ MutEnvelope(m) \/ MutPut(m)
               \/ MutApply(m) \/ MutPost(m) \/ MutSwap(m)
OtherStep(o) == OtherEnds(o, "delivered")

RemNext ==
    \/ \E o \in Occs : \/ CreateReminder(o) \/ BecomesDue(o) \/ LeaseExpires(o)
                       \/ OtherCreates(o) \/ OtherClaims(o)
                       \/ \E life \in {"cancelled", "delivered"} : OtherEnds(o, life)
    \/ SchedStep \/ SyncStep \/ GetPageFails
    \/ \E m \in Mutations : \/ MutStep(m)
                            \/ \E k \in {"cancel", "replace"}, o \in Occs : Mutate(m, k, o)
    \/ TransportConnected \/ RemCrash

RemSpec == RemInit /\ [][RemNext]_remVars

\* The scheduler, the sync loop and a call in progress run on, and another runtime
\* that holds a lease ends it.
RemFair == /\ WF_remVars(SchedStep) /\ WF_remVars(SyncStep)
           /\ \A m \in Mutations : WF_remVars(MutStep(m))
           /\ \A o \in Occs : WF_remVars(OtherStep(o))
FairRemSpec == RemSpec /\ RemFair

-----------------------------------------------------------------------------
\* Properties.

\* The Server has every revision the row calls acknowledged, and a row the
\* Server knows has its envelope: nothing the Server may hand to another
\* runtime passes for untouched local work.
AckedIsOnServer ==
    \A o \in Occs :
        /\ rem[o].ack >= 1 => ServerHas(o)
        /\ rem[o].ack = 2 => srv[o].life \in {"cancelled", "delivered"}
        /\ ServerHas(o) /\ rem[o] # NoRow => ~LocalOnly(rem[o])

\* A reminder whose cancellation was confirmed never fires, here or in another
\* runtime; nor does a replaced one, unless this runtime's lease ran out between
\* its delivery and the replacement.
CancelledNeverFires ==
    \A m \in Mutations : LET o == mut[m].occ
        IN /\ mut[m].result = "cancelled" => o \notin fired \cup srvFired
           /\ mut[m].result = "replaced" /\ o \notin lapsed => o \notin fired \cup srvFired

\* Two runtimes fire the same occurrence only if a lease on it ran out.
FiresOnce == \A o \in Occs : o \in fired \cap srvFired => o \in lapsed

\* A terminal occurrence stays terminal and a delivered one delivered; an
\* envelope never changes.
LifecycleOnlyAdvances ==
    [][\A o \in Occs :
        /\ rem[o].state = "cancelled" => rem'[o].state \in {"cancelled", "delivered"}
        /\ rem[o].state = "delivered" => rem'[o].state = "delivered"
        /\ rem[o].env # Nothing => rem'[o].env = rem[o].env]_remVars

\* A reminder that is due and open comes to an end, whatever was lost, refused
\* or restarted on the way, unless the Server refused its revision for good.
DueComesToAnEnd ==
    \A o \in Occs : (remDue[o] /\ Open(rem[o])) ~> (~Open(rem[o]) \/ rem[o].perm)
=============================================================================
