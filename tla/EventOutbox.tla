---------------------------- MODULE EventOutbox ----------------------------
(***************************************************************************)
(* Runtime events of one agent: agent/runtime_event_outbox.py and the      *)
(* projection of agent/runtime_events.py, with the event sink of           *)
(* agent/harness/runtime/local_runtime.py, the upload loop of              *)
(* portal/worker_run.py and the recovery step of                           *)
(* agent/global_inbox_runtime.py that writes into the same outbox.         *)
(*                                                                         *)
(*   eBox   durable: rows (the FIFO table), active (active_turn_ref)       *)
(*   eObs   the sink: the turn, the step it is at, the updates it sent     *)
(*   eUp    the uploader: the batch in flight, _isolate_head               *)
(*   eSrv   the Server: the event ids it has accepted                      *)
(*   eHist  history: rows recorded, refused for capacity, discarded        *)
(*                                                                         *)
(* A row has turn, kind, nature and, of an update, its number.  "bad" is   *)
(* a row the Server rejects with a permanent status, "big" one whose body  *)
(* alone exceeds the batch limit;                                          *)
(* "old" and "alien" are rows a release before 1.3 left, with and without  *)
(* a metadata-only form.                                                   *)
(***************************************************************************)
EXTENDS Integers, Sequences, FiniteSets, SequencesExt

CONSTANTS MaxETurns,   \* turns the provider runs
          MaxUpdates,  \* tool and permission events of one turn
          MaxOdd,      \* rows that are bad or big
          MaxECrashes, \* crashes of the worker
          MaxRows,     \* max_rows of the outbox
          BatchRows,   \* batch_rows of the uploader
          OldRows      \* the rows a first start may find

VARIABLES eBox, eObs, eUp, eSrv, eHist

eVars == <<eBox, eObs, eUp, eSrv, eHist>>

ERow(t, k, n) == [turn |-> t, kind |-> k, nature |-> n, no |-> 0]
Natures == {"fine"} \cup (IF eHist.odd < MaxOdd THEN {"bad", "big"} ELSE {})
NoBatch == [rows |-> <<>>, isolate |-> FALSE]
ObserverAt(phase) == [eObs EXCEPT !.at = phase]

EInit ==
    /\ \E old \in OldRows : eBox = [rows |-> old, active |-> 0]
    /\ eObs = [turn |-> 0, at |-> "down", updates |-> 0]
    /\ eUp = NoBatch
    /\ eSrv = {}
    /\ eHist = [recorded |-> {}, refused |-> {}, discarded |-> {}, odd |-> 0,
                crashes |-> 0]

----------------------------------------------------------------------------
(* The outbox                                                              *)

\* What opening the database makes of the rows it finds.
Migrated(rows) ==
    LET kept == SelectSeq(rows, LAMBDA r : r.nature # "alien")
    IN  [i \in DOMAIN kept |->
            IF kept[i].nature = "old" THEN [kept[i] EXCEPT !.nature = "fine"]
                                      ELSE kept[i]]

\* The rows an insert may fill: one is kept for a terminal event.
OutboxLimit(terminal) == IF terminal THEN MaxRows ELSE MaxRows - 1

Fits(kind) == Len(eBox.rows) + 1 <= OutboxLimit(kind \in {"finished", "abandoned"})
Id(row) == <<row.turn, row.kind, row.no>>
Recorded(row) ==
    /\ eBox' = [eBox EXCEPT !.rows =
                  IF \E i \in DOMAIN @ : Id(@[i]) = Id(row) THEN @ ELSE Append(@, row)]
    /\ eHist' = [eHist EXCEPT !.recorded = @ \cup {Id(row)},
                              !.odd = IF row.nature = "fine" THEN @ ELSE @ + 1]
Refused1(row) ==
    /\ eHist' = [eHist EXCEPT !.refused = @ \cup {Id(row)}]
    /\ UNCHANGED eBox

\* Enqueue one projected event; a refusal is an exception of the sink.
Enqueue(kind, whenStored, whenRefused) ==
    \E n \in Natures :
        LET row == ERow(eObs.turn, kind, n)
        IN  \/ Fits(kind) /\ Recorded(row) /\ eObs' = ObserverAt(whenStored)
            \/ ~Fits(kind) /\ n = "fine" /\ Refused1(row) /\ eObs' = ObserverAt(whenRefused)

----------------------------------------------------------------------------
(* The event sink of the Runtime Manager                                   *)

\* turn.started projects two rows; a refused first row drops the second.
TurnStarted ==
    /\ eObs.at = "idle" /\ eObs.turn < MaxETurns
    /\ \E n \in Natures :
          LET row == ERow(eObs.turn + 1, "started", n)
              on(phase) == [turn |-> eObs.turn + 1, at |-> phase, updates |-> 0]
          IN  \/ Fits("started") /\ Recorded(row) /\ eObs' = on("activity")
              \/ ~Fits("started") /\ n = "fine" /\ Refused1(row) /\ eObs' = on("mark")
    /\ UNCHANGED <<eUp, eSrv>>

ActivityUpdated ==
    /\ eObs.at = "activity"
    /\ Enqueue("activity", "mark", "mark")
    /\ UNCHANGED <<eUp, eSrv>>

\* aset_active_turn, after turn.started and after the terminal event.
MarkActive ==
    /\ eObs.at \in {"mark", "unmark"}
    /\ eBox' = [eBox EXCEPT !.active = IF eObs.at = "mark" THEN eObs.turn ELSE 0]
    /\ eObs' = ObserverAt(IF eObs.at = "mark" THEN "run" ELSE "idle")
    /\ UNCHANGED <<eUp, eSrv, eHist>>

ToolOrPermission ==
    /\ eObs.at = "run" /\ eObs.updates < MaxUpdates
    /\ \E n \in Natures :
          LET row == [ERow(eObs.turn, "update", n) EXCEPT !.no = eObs.updates]
          IN  \/ Fits(row.kind) /\ Recorded(row)
              \/ ~Fits(row.kind) /\ n = "fine" /\ Refused1(row)
    /\ eObs' = [eObs EXCEPT !.updates = @ + 1]
    /\ UNCHANGED <<eUp, eSrv>>

TurnFinished ==
    /\ eObs.at = "run"
    /\ Enqueue("finished", "unmark", "unmark")
    /\ UNCHANGED <<eUp, eSrv>>

----------------------------------------------------------------------------
(* Crash, start and the recovery of an interrupted turn                    *)

WorkerCrashes ==
    /\ eObs.at # "down" /\ eHist.crashes < MaxECrashes
    /\ eObs' = ObserverAt("down")
    /\ eUp' = NoBatch
    /\ eHist' = [eHist EXCEPT !.crashes = @ + 1]
    /\ UNCHANGED <<eBox, eSrv>>

\* Opening the outbox, then recover_current_turn: a crash join that matches
\* the active turn is unwound, and its terminal event is recorded first.  When
\* that raises, the worker stops ("failed") and is started again.
OpenOutbox ==
    /\ eObs.at \in {"down", "failed"}
    /\ eBox' = [eBox EXCEPT !.rows = Migrated(@)]
    /\ \E join \in BOOLEAN :
          eObs' = ObserverAt(IF join /\ eBox.active # 0 THEN "recover" ELSE "idle")
    /\ eUp' = NoBatch
    /\ UNCHANGED <<eSrv, eHist>>

AbandonRecovery ==
    /\ eObs.at = "recover"
    /\ LET row == ERow(eBox.active, "abandoned", "fine")
       IN  \/ Fits("abandoned") /\ Recorded(row) /\ eObs' = ObserverAt("unmark")
           \/ ~Fits("abandoned") /\ Refused1(row) /\ eObs' = ObserverAt("failed")
    /\ UNCHANGED <<eUp, eSrv>>

----------------------------------------------------------------------------
(* The uploader                                                            *)

BatchSizeFixed(isolate) == BatchRows
BatchSize(isolate) == IF isolate THEN 1 ELSE BatchRows

\* The head of the queue that fits a batch; a big head comes alone.
Prefix(rows, n) ==
    LET wanted == SubSeq(rows, 1, IF Len(rows) < n THEN Len(rows) ELSE n)
        firstBig == SelectInSeq(wanted, LAMBDA r : r.nature = "big")
    IN  IF firstBig = 0 THEN wanted
        ELSE IF firstBig = 1 THEN <<wanted[1]>>
        ELSE SubSeq(wanted, 1, firstBig - 1)

Ids(rows) == {Id(rows[i]) : i \in DOMAIN rows}
Without(rows, ids) == SelectSeq(rows, LAMBDA r : Id(r) \notin ids)
DiscardRow(row) ==
    /\ eBox' = [eBox EXCEPT !.rows = Without(@, {Id(row)})]
    /\ eHist' = [eHist EXCEPT !.discarded = @ \cup {row}]

\* upload_once up to the request: an oversized head is dropped locally.
UploadBegins ==
    /\ eObs.at # "down" /\ eUp.rows = <<>> /\ eBox.rows # <<>>
    /\ LET rows == Prefix(eBox.rows, BatchSize(eUp.isolate))
       IN  \/ /\ rows[1].nature = "big"
              /\ DiscardRow(rows[1])
              /\ UNCHANGED eUp
           \/ /\ rows[1].nature # "big"
              /\ eUp' = [eUp EXCEPT !.rows = rows]
              /\ UNCHANGED <<eBox, eHist>>
    /\ UNCHANGED <<eObs, eSrv>>

Sent == eUp.rows # <<>>
HasBad == \E i \in DOMAIN eUp.rows : eUp.rows[i].nature = "bad"

\* The Server stores a batch without a bad row; a repeated id is no news.
ServerAccepts ==
    /\ Sent /\ ~HasBad /\ ~(Ids(eUp.rows) \subseteq eSrv)
    /\ eSrv' = eSrv \cup Ids(eUp.rows)
    /\ UNCHANGED <<eBox, eObs, eUp, eHist>>

\* An exact acknowledgement deletes the batch.
UploadAcked ==
    /\ Sent /\ ~HasBad /\ Ids(eUp.rows) \subseteq eSrv
    /\ eBox' = [eBox EXCEPT !.rows = Without(@, Ids(eUp.rows))]
    /\ eUp' = NoBatch
    /\ UNCHANGED <<eObs, eSrv, eHist>>

\* No readable answer, 429 or 5xx, a degraded channel, or a 2xx that does not
\* acknowledge the batch: every row stays.
UploadRetries ==
    /\ Sent
    /\ eUp' = [eUp EXCEPT !.rows = <<>>]
    /\ UNCHANGED <<eBox, eObs, eSrv, eHist>>

\* A permanent rejection names no row: only a batch of one is discarded.
NamesItsRow(rows) == Len(rows) = 1

UploadRejected ==
    /\ Sent /\ HasBad
    /\ \/ /\ NamesItsRow(eUp.rows)
          /\ DiscardRow(eUp.rows[1])
          /\ eUp' = NoBatch
       \/ /\ ~NamesItsRow(eUp.rows)
          /\ eUp' = [rows |-> <<>>, isolate |-> TRUE]
          /\ UNCHANGED <<eBox, eHist>>
    /\ UNCHANGED <<eObs, eSrv>>

----------------------------------------------------------------------------
ENext ==
    \/ TurnStarted \/ ActivityUpdated \/ MarkActive \/ ToolOrPermission \/ TurnFinished
    \/ WorkerCrashes \/ OpenOutbox \/ AbandonRecovery
    \/ UploadBegins \/ ServerAccepts \/ UploadAcked \/ UploadRetries \/ UploadRejected

ESpec == EInit /\ [][ENext]_eVars

\* The upload loop runs as long as the worker does, also while a failed worker
\* still reports its error; the worker is restarted; and a Server that is asked
\* again and again answers again and again.
FairESpec ==
    /\ ESpec
    /\ WF_eVars(OpenOutbox)
    /\ WF_eVars(UploadBegins)
    /\ SF_eVars(ServerAccepts)
    /\ SF_eVars(UploadAcked)
    /\ SF_eVars(UploadRejected)

----------------------------------------------------------------------------
(* Properties                                                              *)

\* Evidence is lost only by name: every event recorded is in the outbox, was
\* accepted by the Server, or was discarded after it was refused alone or
\* found too large, through batches, crashes, lost and repeated answers
\* (acknowledge, _isolate_or_discard, _reject_acknowledgement).
EvidenceKept ==
    /\ \A id \in eHist.recorded :
          id \in Ids(eBox.rows) \cup eSrv \cup {Id(r) : r \in eHist.discarded}
    /\ \A r \in eHist.discarded : r.nature \in {"bad", "big"}

\* A turn whose start is on record has its end on record too, whatever the
\* outbox holds: a terminal event is refused for capacity only when its start
\* was refused as well or another terminal of the turn is recorded
\* (terminal_reserve_rows of _insert).
StartedTurnHasRoom ==
    \A t \in 1 .. MaxETurns :
        LET ends == {<<t, "finished", 0>>, <<t, "abandoned", 0>>}
        IN  (ends \cap eHist.refused # {} /\ <<t, "started", 0>> \in eHist.recorded)
                => ends \cap eHist.recorded # {}

\* A row of an older release is sent only in its metadata-only form
\* (_migrate_metadata_only_rows).
OldContentStaysHome ==
    \A i \in DOMAIN eUp.rows : eUp.rows[i].nature \notin {"old", "alien"}

\* A row does not keep those behind it: whatever is recorded leaves the outbox,
\* a bad row by being sent alone and discarded (the class comment of
\* RuntimeEventUploader: "a permanent bad head unblock later rows").  A worker
\* that fails on every start is the exception: each start forgets
\* _isolate_head.
QueueDrains ==
    \A t \in 1 .. MaxETurns :
        (<<t, "finished", 0>> \in Ids(eBox.rows))
            ~> (<<t, "finished", 0>> \notin Ids(eBox.rows) \/ eObs.at = "failed")

=============================================================================
