--------------------------- MODULE MCInboxRuntime ---------------------------
(***************************************************************************)
(* The store in an open environment, and the runtime above it, over the    *)
(* same small sets: a behaviour is of one or of the other, as focus says,  *)
(* and a run may choose one of the two.                                    *)
(***************************************************************************)
EXTENDS GlobalInboxRuntime, TLC

CONSTANT Parts  \* of {"store", "runtime"}: those the run explores

VARIABLE focus

\* An agent that may start turns of its own over a store that may fail, one that
\* takes notices while it is busy, and two whose session may roll over and which
\* read through the other tools: with two reads in flight, and with covers.
TurnProfiles ==
    {[can |-> {"autonomous"}, tools |-> {"page"}, retries |-> 0, reads |-> 1, faults |-> 1],
     [can |-> {"busy_notice"}, tools |-> {"page", "cover"},
      retries |-> 0, reads |-> 1, faults |-> 0],
     [can |-> {"rollover"}, tools |-> {"history", "held"},
      retries |-> 1, reads |-> 2, faults |-> 0],
     [can |-> {"rollover"}, tools |-> {"history", "held", "cover"},
      retries |-> 1, reads |-> 1, faults |-> 0]}

PlainProfiles == {[can |-> {}, tools |-> {"page"}, retries |-> 0, reads |-> 1, faults |-> 0]}

aboveStore == <<prof, loop, plan, active, settleVars, autoVars, wakeVars, taskVars,
                recoveryVars, providerVars, faults, file, toldBy>>

InboxRuntimeInit ==
    /\ focus \in Parts
    /\ RuntimeInit /\ (focus = "store" => session = None)

InboxRuntimeNext ==
    \/ focus = "store" /\ UNCHANGED <<focus, aboveStore>> /\ StoreNext
    \/ focus = "runtime" /\ UNCHANGED focus /\ RuntimeNext

InboxRuntimeSpec == InboxRuntimeInit /\ [][InboxRuntimeNext]_<<focus, runtimeVars>>

\* Turn and session ids are opaque, and so are messages when all come from humans.
TurnSymmetry == {f @@ g : f \in Permutations(Turns), g \in Permutations(Sessions)}
Symmetry == {f @@ g : f \in TurnSymmetry, g \in Permutations(Msgs)}
=============================================================================
