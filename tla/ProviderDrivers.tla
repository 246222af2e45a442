-------------------------- MODULE ProviderDrivers --------------------------
(***************************************************************************)
(* The five provider drivers of agent/harness/drivers and the contract     *)
(* they share: whichever one an Agent runs, the runtime manager relies on  *)
(* nothing but DriverTurns.                                                *)
(***************************************************************************)
EXTENDS ClaudeDriver, CodexDriver, OpenCodeDriver, PiDriver, AcpDriver

\* Whatever the provider process does, every driver keeps the turn contract of
\* DriverTurns: a turn ends at most once, and only while it is the current one.
DriversKeepContract ==
    /\ ClaudeKeepsContract /\ CodexKeepsContract /\ OpenCodeKeepsContract
    /\ PiKeepsContract /\ AcpKeepsContract
=============================================================================
