--------------------------- MODULE MCKeylessClient ---------------------------
(*****************************************************************************)
(* The parts of an Agent connected through the bridge: receiving, the        *)
(* bridge's wire, invitations, credential requests and status reports. They  *)
(* are checked side by side: a behaviour is a behaviour of the part in       *)
(* focus, the others rest.                                                   *)
(*****************************************************************************)
EXTENDS KeylessReceive, BridgeWire, KeylessInvitations, CredentialRequests,
        StatusReports, TLC

VARIABLE focus  \* the part whose behaviour this is

Budget(t, c, n, o, b, k, m) ==
    [turns |-> t, crashes |-> c, connects |-> n, overlays |-> o, beats |-> b,
     keyless |-> k, kinds |-> m, fails |-> BOOLEAN]
MCBudgets == {Budget(2, 0, 0, 0, 0, FALSE, {"plain"}),
              Budget(1, 0, 0, 0, 1, FALSE, {"bad"}),
              Budget(1, 1, 0, 0, 1, FALSE, {"plain"}),
              Budget(1, 0, 1, 1, 1, FALSE, {"plain", "local"}),
              Budget(2, 0, 0, 2, 1, TRUE, {"plain"})}
Symmetry == Permutations(Dms) 

\* A part out of focus starts in one of its initial states and stays there.
Rests(part, rest) == focus = part \/ rest

KeylessClientInit ==
    /\ focus \in {"keyless", "bridge", "invites", "requests", "status"}
    /\ KeylessInit
    /\ BInit
    /\ IvInit
    /\ QInit
    /\ SInit /\ Rests("status", sHist.left = CHOOSE b \in Budgets : TRUE)

KeylessClientNext ==
    \/ /\ focus = "keyless" /\ KeylessNext
       /\ UNCHANGED <<focus, bVars, ivVars, qVars, sVars>>
    \/ /\ focus = "bridge" /\ BNext
       /\ UNCHANGED <<focus, keylessVars, ivVars, qVars, sVars>>
    \/ /\ focus = "invites" /\ IvNext
       /\ UNCHANGED <<focus, keylessVars, bVars, qVars, sVars>>
    \/ /\ focus = "requests" /\ QNext
       /\ UNCHANGED <<focus, keylessVars, bVars, ivVars, sVars>>
    \/ /\ focus = "status" /\ SNext
       /\ UNCHANGED <<focus, keylessVars, bVars, ivVars, qVars>>

keylessClientVars == <<focus, keylessVars, bVars, ivVars, qVars, sVars>>

KeylessClientSpec == KeylessClientInit /\ [][KeylessClientNext]_keylessClientVars
===============================================================================
