--------------------------- MODULE StatusReports ---------------------------
(***************************************************************************)
(* What an agent tells the Server about itself: agent/status_reporter.py,  *)
(* agent/processing_receipts.py, and the GlobalInboxStatusLifecycle of     *)
(* portal/worker_run.py that drives them.                                  *)
(*                                                                         *)
(*   sr      the reporter: status, msg, base and overlay activity          *)
(*   sTurn   the turn task; "off" between turns                            *)
(*   sWant   tasks that wait for _send_lock to send a heartbeat: "B" the   *)
(*           periodic beat, "D" a detached activity push, "R" the refresh  *)
(*           after a replayed batch                                        *)
(*   sPost   the request each task has in flight; "T" is the turn task     *)
(*   sRows   durable: the rows of processing_report_outbox                 *)
(*   sRep    the dispatcher's loop, its _force_all and its wake signal     *)
(*   sSrv    the Server: the status it shows, the report version of a run  *)
(*   sHist   history: the newest version of a run, runs dropped by name,   *)
(*           whether a status write was lost since the last full beat,     *)
(*           whether a batch failed since the last reconnect               *)
(*                                                                         *)
(* A turn has one message, and a run is named by its turn.  A message is   *)
(* local when the daemon minted it, bad when the Server refuses its run.   *)
(***************************************************************************)
EXTENDS Integers, FiniteSets, FiniteSetsExt

CONSTANTS MaxSTurns,   \* turns, and with them runs
          ReportBatch, \* PROCESSING_REPORT_BATCH_SIZE
          Budgets      \* how many turns, crashes, connects, overlays and beats a
                       \* behaviour may have, of which kinds of message, with
                       \* which outcomes, and whether the agent is keyless

VARIABLES sr, sTurn, sWant, sPost, sRows, sRep, sSrv, sHist

sVars == <<sr, sTurn, sWant, sPost, sRows, sRep, sSrv, sHist>>

STasks == {"T", "B", "D", "R"}
NoPost == [kind |-> "none", view |-> <<>>, rows |-> {}]
FreshReporter(k) == [status |-> "idle", msg |-> 0, base |-> FALSE, overlay |-> FALSE,
                     fromOverlay |-> FALSE, keyless |-> k]
NoReportTurn(n) == [at |-> "off", n |-> n, local |-> FALSE, bad |-> FALSE, fail |-> FALSE,
              redo |-> FALSE]
ColdReplay == [at |-> "jitter", forced |-> FALSE, force |-> FALSE, wake |-> FALSE]

SInit ==
    /\ \E b \in Budgets :
          /\ sr = FreshReporter(b.keyless)
          /\ sHist = [ver |-> [n \in 1 .. MaxSTurns |-> 0], dropped |-> {}, lost |-> TRUE,
                      failed |-> FALSE, left |-> b]
    /\ sTurn = NoReportTurn(0)
    /\ sWant = {"B"}
    /\ sPost = [t \in STasks |-> NoPost]
    /\ sRows = {}
    /\ sRep = ColdReplay
    /\ sSrv = [view |-> <<"offline", 0, "">>, got |-> [n \in 1 .. MaxSTurns |-> 0]]

----------------------------------------------------------------------------
(* The reporter's state                                                    *)

Activity(r) == IF r.keyless THEN ""
               ELSE IF r.overlay THEN "compacting"
               ELSE IF r.base THEN "reading" ELSE ""
View(r) == <<r.status, IF r.status = "busy" THEN r.msg ELSE 0, Activity(r)>>

ReportSettled(r, status) ==
    [r EXCEPT !.status = status, !.msg = 0, !.base = FALSE, !.overlay = FALSE,
              !.fromOverlay = FALSE]
Ended(fail) == IF fail THEN "error" ELSE "idle"

Spent(what, h) == [h EXCEPT !.left[what] = @ - 1]

\* set_activity_overlay and the detached push of its caller.
Overlaid(on) ==
    IF on THEN [sr EXCEPT !.overlay = TRUE,
                          !.status = IF @ = "idle" THEN "busy" ELSE @,
                          !.fromOverlay = @ \/ sr.status = "idle"]
    ELSE [sr EXCEPT !.overlay = FALSE,
                    !.status = IF sr.fromOverlay /\ @ = "busy" /\ sr.msg = 0 THEN "idle" ELSE @,
                    !.fromOverlay = FALSE]

SetActivityOverlay ==
    /\ sHist.left.overlays > 0
    /\ sHist' = Spent("overlays", sHist)
    /\ sr' = Overlaid(~sr.overlay)
    /\ sWant' = sWant \cup {"D"}
    /\ UNCHANGED <<sTurn, sPost, sRows, sRep, sSrv>>

----------------------------------------------------------------------------
(* The turn task up to the lock                                            *)

Goes(phase) == [sTurn EXCEPT !.at = phase]

NoticeAdmitted ==
    /\ sTurn.at = "off" /\ ~sTurn.redo /\ sTurn.n < sHist.left.turns
    /\ \E kind \in sHist.left.kinds :
          /\ sTurn' = [NoReportTurn(sTurn.n + 1) EXCEPT !.at = "notice", !.local = kind = "local",
                                                  !.bad = kind = "bad"]
          /\ sr' = [sr EXCEPT !.status = "busy", !.base = TRUE, !.fromOverlay = FALSE,
                              !.msg = IF kind = "local" THEN 0 ELSE sTurn.n + 1]
    /\ UNCHANGED <<sWant, sPost, sRows, sRep, sSrv, sHist>>

\* A daemon-minted message sends a beat only when it would say something new.
ShouldEmit(before, after) ==
    before.status # "busy" \/ before.msg # 0 \/ Activity(after) # Activity(before)

TurnActive ==
    /\ sTurn.at = "reading" \/ (sTurn.at = "off" /\ sTurn.redo)
    /\ LET r == [sr EXCEPT !.base = FALSE, !.fromOverlay = FALSE]
       IN  \/ /\ ~sr.keyless /\ ~sTurn.local
              /\ sr' = r
              /\ sTurn' = Goes("start")
           \/ /\ sr.keyless
              /\ sr' = [r EXCEPT !.status = "busy", !.msg = sTurn.n]
              /\ sTurn' = Goes("emit")
           \/ /\ ~sr.keyless /\ sTurn.local
              /\ sr' = [r EXCEPT !.status = "busy", !.msg = 0]
              /\ sTurn' = Goes(IF ShouldEmit(sr, r) THEN "emit" ELSE "active")
    /\ UNCHANGED <<sWant, sPost, sRows, sRep, sSrv, sHist>>

\* end_turn_batch of an active turn, end_notice_turn of one that read nothing.
TurnTerminal ==
    \E fail \in sHist.left.fails :
        /\ \/ /\ sTurn.at = "active"
              /\ \/ /\ sr.keyless \/ sTurn.local
                    /\ sr' = ReportSettled(sr, Ended(fail))
                    /\ sTurn' = [Goes("settle") EXCEPT !.fail = fail]
                 \/ /\ ~sr.keyless /\ ~sTurn.local
                    /\ sTurn' = [Goes("finish") EXCEPT !.fail = fail]
                    /\ UNCHANGED sr
           \/ /\ sTurn.at = "reading"
              /\ \/ /\ ~fail \/ sr.keyless
                    /\ sr' = ReportSettled(sr, Ended(fail))
                    /\ sTurn' = [Goes("settle") EXCEPT !.fail = fail]
                 \/ /\ fail /\ ~sr.keyless
                    /\ sTurn' = [Goes("error") EXCEPT !.fail = TRUE]
                    /\ UNCHANGED sr
        /\ UNCHANGED <<sWant, sPost, sRows, sRep, sSrv, sHist>>

----------------------------------------------------------------------------
(* Status writes under _send_lock                                          *)

\* A replayed batch is the one request that does not hold the send lock.
LockIgnored == TRUE
LockFree == \A t \in STasks : sPost[t].kind \in {"none", "batch"}
                              /\ (t = "T" => sPost[t].kind = "none")

StatusWrite(kind, view) == [kind |-> kind, view |-> view, rows |-> {}]
Posts(t, p) == sPost' = [sPost EXCEPT ![t] = p]

HeartbeatSends ==
    \E t \in sWant :
        /\ LockFree /\ sPost[t].kind = "none"
        /\ Posts(t, StatusWrite("beat", View(sr)))
        /\ sWant' = sWant \ {t}
        /\ UNCHANGED <<sr, sTurn, sRows, sRep, sSrv, sHist>>

HeartbeatTick ==
    /\ sHist.left.beats > 0
    /\ sHist' = Spent("beats", sHist)
    /\ sWant' = sWant \cup {"B"}
    /\ UNCHANGED <<sr, sTurn, sPost, sRows, sRep, sSrv>>

\* The turn task takes the lock: a beat, a start, or an error report.
TurnSends ==
    /\ sTurn.at \in {"notice", "emit", "settle", "start", "error"}
    /\ LockFree /\ sPost["T"].kind = "none"
    /\ Posts("T", CASE sTurn.at = "start" ->
                        StatusWrite("start", <<"busy", sTurn.n,
                                               IF sr.overlay THEN "compacting" ELSE "">>)
                    [] sTurn.at = "error" -> StatusWrite("error", <<"error", 0, "">>)
                    [] OTHER -> StatusWrite("beat", View(sr)))
    /\ UNCHANGED <<sr, sTurn, sWant, sRows, sRep, sSrv, sHist>>

\* _finish_processing_runs: settle the state, store the report, then upload.
Upserted(n, fail) ==
    LET same == \E r \in sRows : r.run = n /\ r.fail = fail
        row  == [run |-> n, ver |-> sHist.ver[n] + 1, fail |-> fail, bad |-> sTurn.bad,
                 due |-> TRUE, isolated |-> FALSE]
    IN  IF same THEN sRows ELSE {r \in sRows : r.run # n} \cup {row}

FinishBegins ==
    /\ sTurn.at = "finish" /\ LockFree /\ sPost["T"].kind = "none"
    /\ sr' = ReportSettled(sr, Ended(sTurn.fail))
    /\ sRows' = Upserted(sTurn.n, sTurn.fail)
    /\ sHist' = [sHist EXCEPT !.ver[sTurn.n] = Max({r.ver : r \in {x \in sRows' : x.run = sTurn.n}})]
    /\ Posts("T", StatusWrite("held", <<>>))
    /\ sTurn' = Goes("flush")
    /\ UNCHANGED <<sWant, sRep, sSrv>>

----------------------------------------------------------------------------
(* The report outbox and its dispatcher                                    *)

DispatcherFree == \A t \in STasks : sPost[t].kind # "batch"

\* due_processing_reports: one isolated row, else a batch of the others, the
\* oldest first.
DueReports(force) ==
    LET due == {r \in sRows : force \/ r.due}
        alone == {r \in due : r.isolated}
        rest == due \ alone
        older(S, n) == {r \in S : Cardinality({x \in S : x.run < r.run}) < n}
    IN  IF alone # {} THEN older(alone, 1) ELSE older(rest, ReportBatch)

Batch(rows) == [kind |-> "batch", rows |-> rows,
                view |-> <<Ended(\E r \in rows : r.fail), 0, "">>]

\* flush_once of enqueue(immediate=True), under the send lock.
FinishFlushes ==
    /\ sTurn.at = "flush" /\ sPost["T"].kind = "held" /\ DispatcherFree
    /\ LET rows == DueReports(FALSE)
       IN  Posts("T", IF rows = {} THEN StatusWrite("beat", View(sr)) ELSE Batch(rows))
    /\ sTurn' = Goes("flushed")
    /\ UNCHANGED <<sr, sWant, sRows, sRep, sSrv, sHist>>

ReplayStarts ==
    /\ ~sr.keyless /\ sRep.at = "jitter"
    /\ sRep' = [at |-> "top", forced |-> FALSE, force |-> TRUE, wake |-> FALSE]
    /\ UNCHANGED <<sr, sTurn, sWant, sPost, sRows, sSrv, sHist>>

OnTransportConnected ==
    /\ ~sr.keyless /\ sHist.left.connects > 0
    /\ sRep' = [sRep EXCEPT !.force = TRUE, !.wake = TRUE]
    /\ sHist' = Spent("connects", [sHist EXCEPT !.failed = FALSE])
    /\ UNCHANGED <<sr, sTurn, sWant, sPost, sRows, sSrv>>

\* One turn of the loop: read and clear _force_all, then flush_once.
ReplayFlushes ==
    /\ sRep.at = "top" /\ DispatcherFree /\ sPost["R"].kind = "none"
    /\ LET rows == DueReports(sRep.force)
       IN  IF rows = {}
           THEN /\ sRep' = [sRep EXCEPT !.at = "wait", !.force = FALSE]
                /\ UNCHANGED sPost
           ELSE /\ sRep' = [sRep EXCEPT !.at = "sent", !.forced = sRep.force, !.force = FALSE]
                /\ Posts("R", Batch(rows))
    /\ UNCHANGED <<sr, sTurn, sWant, sRows, sSrv, sHist>>

ReplayWaits ==
    /\ sRep.at = "wait" /\ sRep.wake
    /\ sRep' = [sRep EXCEPT !.at = "top", !.wake = FALSE]
    /\ UNCHANGED <<sr, sTurn, sWant, sPost, sRows, sSrv, sHist>>

\* The delay of a row runs out, and with it the loop's wait.
ReportComesDue ==
    /\ \E r \in sRows : ~r.due /\ sRows' = (sRows \ {r}) \cup {[r EXCEPT !.due = TRUE]}
    /\ sRep' = [sRep EXCEPT !.at = IF @ = "wait" THEN "top" ELSE @]
    /\ UNCHANGED <<sr, sTurn, sWant, sPost, sSrv, sHist>>

\* A row of the outbox that is still the one that was sent (stored_version).
SameVersion(row, sent) == row.run = sent.run /\ row.ver = sent.ver

Was(row, sent) == \E s \in sent : SameVersion(row, s)
Acked(sent) == {r \in sRows : ~Was(r, sent)}
Marked(sent, f(_)) == {IF Was(r, sent) THEN f(r) ELSE r : r \in sRows}
Parked(r) == [r EXCEPT !.due = FALSE]
Isolated(r) == [r EXCEPT !.isolated = TRUE, !.due = TRUE]

\* What an answer does to the rows sent: acknowledged, retried later, or
\* rejected -- isolated when they are several, discarded when it is one.
Discards(sent) == Cardinality(sent) = 1

Answered(sent, answer) ==
    CASE answer = "ok" -> Acked(sent)
      [] answer = "retry" -> Marked(sent, Parked)
      [] answer = "reject" -> IF Discards(sent) THEN Acked(sent) ELSE Marked(sent, Isolated)

Received(sent) == [n \in 1 .. MaxSTurns |->
                      IF \E r \in sent : r.run = n
                      THEN (CHOOSE r \in sent : r.run = n).ver ELSE sSrv.got[n]]

\* The request of t ends: got says whether the Server acted on it, answer what
\* the task learns.
BatchEnds(t, got, answer) ==
    LET sent == sPost[t].rows
    IN  /\ sPost[t].kind = "batch"
        /\ (answer = "reject") <=> (\E r \in sent : r.bad) /\ answer # "retry"
        /\ answer = "ok" => got
        /\ answer = "reject" => ~got
        /\ got => \A r \in sent : ~r.bad
        /\ sRows' = Answered(sent, answer)
        /\ sSrv' = IF got THEN [view |-> sPost[t].view, got |-> Received(sent)] ELSE sSrv
        /\ sHist' = [sHist EXCEPT
                        !.dropped = IF answer = "reject" /\ Discards(sent)
                                    THEN @ \cup {<<r.run, r.ver, r.bad>> : r \in sent} ELSE @,
                        !.failed = @ \/ answer = "retry",
                        !.lost = @ \/ (got /\ answer # "ok")]

\* The turn's own upload: anything but exactly its runs is followed by a beat.
FinishAnswered ==
    \E got \in BOOLEAN, answer \in {"ok", "retry", "reject"} :
        /\ sTurn.at = "flushed"
        /\ BatchEnds("T", got, answer)
        /\ LET exact == answer = "ok" /\ {r.run : r \in sPost["T"].rows} = {sTurn.n}
                        /\ ~\E r \in sRows' : r.run = sTurn.n
           IN  IF exact THEN Posts("T", NoPost) /\ sTurn' = NoReportTurn(sTurn.n)
                        ELSE Posts("T", StatusWrite("beat", View(sr))) /\ sTurn' = Goes("settle")
        /\ sRep' = [sRep EXCEPT !.wake = TRUE]
        /\ UNCHANGED <<sr, sWant>>

\* The loop's upload: drain on while it succeeds, and refresh the status.
ForcedAgain(more) == more

ReplayAnswered ==
    \E got \in BOOLEAN, answer \in {"ok", "retry", "reject"} :
        /\ sRep.at = "sent"
        /\ BatchEnds("R", got, answer)
        /\ Posts("R", NoPost)
        /\ sWant' = IF answer = "ok" THEN sWant \cup {"R"} ELSE sWant
        /\ LET more == (answer = "ok" \/ (sRep.forced /\ answer = "reject")) /\ sRows' # {}
           IN  sRep' = [sRep EXCEPT !.at = IF more THEN "top" ELSE "wait",
                                    !.force = @ \/ ForcedAgain(more)]
        /\ UNCHANGED <<sr, sTurn>>

\* The request of a beat, a start or an error report ends.
TurnMovesOn(ok) ==
    CASE sTurn.at = "notice" -> Goes("reading")
      [] sTurn.at \in {"emit", "start"} -> Goes("active")
      [] OTHER -> NoReportTurn(sTurn.n)

StatusWritten ==
    \E t \in STasks, got, ok \in BOOLEAN :
        LET p == sPost[t] IN
        /\ p.kind \in {"beat", "start", "error"}
        /\ ok => got
        /\ sSrv' = IF got THEN [sSrv EXCEPT !.view = p.view] ELSE sSrv
        /\ sHist' = [sHist EXCEPT !.lost = IF p.kind = "beat" THEN ~got ELSE @ \/ ~ok]
        /\ sr' = IF ~ok THEN sr
                 ELSE IF p.kind = "start" THEN [sr EXCEPT !.status = "busy", !.msg = sTurn.n]
                 ELSE IF p.kind = "error" THEN ReportSettled(sr, "error") ELSE sr
        /\ sTurn' = IF t = "T" THEN TurnMovesOn(ok) ELSE sTurn
        /\ sRep' = [sRep EXCEPT !.wake = @ \/ (t = "T" /\ sTurn.at = "flushed")]
        /\ Posts(t, NoPost)
        /\ UNCHANGED <<sWant, sRows>>

----------------------------------------------------------------------------
\* A crash keeps the outbox; recovery settles an interrupted turn again, under
\* the same run.
SCrash ==
    /\ sHist.left.crashes > 0
    /\ sr' = FreshReporter(sr.keyless)
    /\ sTurn' = [NoReportTurn(sTurn.n) EXCEPT !.redo = sTurn.at \notin {"off", "notice", "reading"},
                                        !.local = sTurn.local, !.bad = sTurn.bad]
    /\ sWant' = {"B"}
    /\ sPost' = [t \in STasks |-> NoPost]
    /\ sRep' = ColdReplay
    /\ sHist' = Spent("crashes", [sHist EXCEPT !.lost = TRUE, !.failed = TRUE])
    /\ UNCHANGED <<sRows, sSrv>>

SNext ==
    \/ SetActivityOverlay \/ NoticeAdmitted \/ TurnActive \/ TurnTerminal
    \/ HeartbeatSends \/ HeartbeatTick \/ TurnSends \/ FinishBegins \/ FinishFlushes
    \/ ReplayStarts \/ OnTransportConnected \/ ReplayFlushes \/ ReplayWaits
    \/ ReportComesDue \/ FinishAnswered \/ ReplayAnswered \/ StatusWritten \/ SCrash

SSpec == SInit /\ [][SNext]_sVars

\* Requests end, and the tasks that wait for the locks get them.
FairSSpec ==
    /\ SSpec
    /\ WF_sVars(StatusWritten) /\ WF_sVars(FinishAnswered) /\ WF_sVars(ReplayAnswered)
    /\ WF_sVars(FinishFlushes) /\ SF_sVars(FinishBegins)
    /\ WF_sVars(ReplayStarts) /\ SF_sVars(ReplayFlushes) /\ WF_sVars(ReplayWaits)

----------------------------------------------------------------------------
(* Properties                                                              *)

\* The last write carries the newest state: once no status write is in flight
\* or due, and none was lost since the last full beat, the Server shows the
\* reporter's state (the comment on _send_lock; the should_emit test of
\* begin_turn; the heartbeat after a mixed batch; _refresh_status).
LastWriteIsNewest ==
    (/\ sWant = {} /\ ~sHist.lost
     /\ sTurn.at \in {"off", "reading", "active"}
     /\ \A t \in STasks : sPost[t].kind = "none")
        => sSrv.view = View(sr)

\* The newest result of a run is never lost: it is in the outbox, the Server
\* has it, or the Server refused it when it was sent alone, also when the
\* result changes while an older version of it is being uploaded
\* (stored_version, isolate_processing_reports).
NewestReportKept ==
    \A n \in 1 .. MaxSTurns :
        sHist.ver[n] > 0 =>
            \/ \E r \in sRows : r.run = n /\ r.ver = sHist.ver[n]
            \/ sSrv.got[n] = sHist.ver[n]
            \/ <<n, sHist.ver[n], TRUE>> \in sHist.dropped

\* A reconnect drains the outbox at once: parked reports do not wait for their
\* hour-out due time while the Server accepts what it is sent (run,
\* on_transport_connected).
ReconnectDrains ==
    \A n \in 1 .. MaxSTurns :
        (sRep.force /\ sRep.at # "jitter" /\ (\E r \in sRows : r.run = n))
            ~> ((\A r \in sRows : r.run # n) \/ sHist.failed)

=============================================================================
