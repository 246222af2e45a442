------------------------------- MODULE Values -------------------------------
(***************************************************************************)
(* What the component modules share: Python's None.                         *)
(***************************************************************************)
EXTENDS Integers, FiniteSetsExt

CONSTANT Nothing   \* None

ASSUME NothingAssumption == Nothing \notin Int

OrZero(v) == IF v = Nothing THEN 0 ELSE v
MaxOrNone(S) == IF S = {} THEN Nothing ELSE Max(S)
=============================================================================
