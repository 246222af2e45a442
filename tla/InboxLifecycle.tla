--------------------------- MODULE InboxLifecycle ---------------------------
(***************************************************************************)
(* What the durable Inbox promises for each inbound message, independent   *)
(* of tables, notices, turns and sessions (docs/ARCHITECTURE.md, sections  *)
(* 3 and 12).  A message is classified once; a held one is released or     *)
(* refused; a queued one is presented to the model before it is handled;   *)
(* a failed presentation queues it again; and what is handled or refused   *)
(* stays so.                                                               *)
(***************************************************************************)
CONSTANT Msgs

VARIABLES
    life,       \* where the message is in its life
    presented   \* the messages whose body reached the model at least once

vars == <<life, presented>>

Lives == {"unknown", "held", "queued", "in_turn", "handled", "refused"}

TypeOK ==
    /\ life \in [Msgs -> Lives]
    /\ presented \in SUBSET Msgs

Init ==
    /\ life = [m \in Msgs |-> "unknown"]
    /\ presented = {}

Move(ms, l) == [m \in Msgs |-> IF m \in ms THEN l ELSE life[m]]

In(ms, from) == ms # {} /\ \A m \in ms : life[m] \in from

\* A transport persists its decision about a new message.
Classify(m) ==
    /\ life[m] = "unknown"
    /\ \E l \in {"held", "queued", "refused"} : life' = Move({m}, l)
    /\ UNCHANGED presented

\* The operator answers for a held direct message.
Release(m) == In({m}, {"held"}) /\ life' = Move({m}, "queued") /\ UNCHANGED presented

\* Held messages are denied, or a queued one cannot be presented at all.
Refuse(ms) ==
    /\ In(ms, {"held"}) \/ In(ms, {"queued"})
    /\ life' = Move(ms, "refused")
    /\ UNCHANGED presented

\* A read returns queued messages to the model inside a turn.
Present(ms) ==
    /\ In(ms, {"queued"})
    /\ life' = Move(ms, "in_turn")
    /\ presented' = presented \cup ms

\* A turn ends: what it handled is settled, the rest is queued again.
Finish(done, back) ==
    /\ In(done \cup back, {"in_turn"})
    /\ life' = [m \in Msgs |-> IF m \in done THEN "handled"
                               ELSE IF m \in back THEN "queued" ELSE life[m]]
    /\ UNCHANGED presented

\* Queued messages that were presented before are declared handled.
Settle(ms) ==
    /\ In(ms, {"queued"}) /\ ms \subseteq presented
    /\ life' = Move(ms, "handled")
    /\ UNCHANGED presented

Next ==
    \/ \E m \in Msgs : Classify(m) \/ Release(m)
    \/ \E ms \in SUBSET Msgs : Refuse(ms) \/ Present(ms) \/ Settle(ms)
    \/ \E done, back \in SUBSET Msgs : done \cap back = {} /\ Finish(done, back)

Spec == Init /\ [][Next]_vars

\* What is handled was presented to the model first.
HandledWasPresented == \A m \in Msgs : life[m] = "handled" => m \in presented

\* Handled and refused are final: neither is ever presented again.
SettledIsFinal ==
    [][\A m \in Msgs : life[m] \in {"handled", "refused"} => life'[m] = life[m]]_vars

=============================================================================
