----------------------------- MODULE HttpClient -----------------------------
(***************************************************************************)
(* Signed requests of one agent (crypto/http_client.py, the session file   *)
(* of crypto/keystore.py).  Several clients, in several processes, share   *)
(* the session file with the subkey; a client's requests share its event   *)
(* loop's executor and its aiohttp session.  A request is POST-like, with  *)
(* one retry after a 401, or a blob download, with none.                   *)
(***************************************************************************)
EXTENDS Integers, FiniteSets

CONSTANTS HcScenes,     \* sets of requests made together: records [client, kind, id]
          MaxHcKeys, MaxHcSess, MaxHcFaults

VARIABLES hcFile,    \* subkey in the session file, 0 if none
          hcSpent,   \* subkeys whose time is over, or nearly
          hcValid,   \* subkeys the server accepts
          hcKeys,    \* subkeys made so far
          hcAlive,   \* client -> its loop's default executor runs
          hcSess,    \* client -> current aiohttp session [id, trust], id 0 if none
          hcOpen,    \* client -> sessions whose connections are open
          hcTrust,   \* version of the trust store
          hcMade,    \* sessions made so far
          hcReq,     \* request -> [pc, key, sess, trust, again, from]
          hcRuns,    \* request -> times the server executed it
          hcFaults

hcFileVars == <<hcFile, hcSpent, hcValid, hcKeys>>
hcSessVars == <<hcSess, hcOpen, hcMade>>
hcVars == <<hcFileVars, hcSessVars, hcAlive, hcTrust, hcReq, hcRuns, hcFaults>>

HcClients == {r.client : r \in UNION HcScenes}
HcReqs == DOMAIN hcReq
NoSess == [id |-> 0, trust |-> 0]
HcIdle == [pc |-> "idle", key |-> 0, sess |-> 0, trust |-> 0, again |-> FALSE, from |-> "none"]

HcInit ==
  /\ hcFile \in {0, 1} /\ hcKeys = 1 /\ hcSpent = {} /\ hcValid \in {{}, {1}}
  /\ hcAlive = [c \in HcClients |-> TRUE] /\ hcTrust = 0
  /\ hcSess = [c \in HcClients |-> NoSess] /\ hcOpen = [c \in HcClients |-> {}] /\ hcMade = 0
  /\ \E scene \in HcScenes : hcReq = [r \in scene |-> HcIdle] /\ hcRuns = [r \in scene |-> 0]
  /\ hcFaults = 0

HcStep(r, pc) == hcReq' = [hcReq EXCEPT ![r].pc = pc]
HcEnds(r, how) == hcReq' = [hcReq EXCEPT ![r] = [HcIdle EXCEPT !.pc = how, !.again = hcReq[r].again]]
HcFault == hcFaults < MaxHcFaults /\ hcFaults' = hcFaults + 1

(***************************************************************************)
(* The subkey.                                                             *)
(***************************************************************************)
\* load_session takes a session whose time is over out of the directory, in a step after its reading.
EnsureSubkey(r) ==
  /\ hcReq[r].pc = "idle"
  /\ \E pc \in {"unlink", "rotate", "send"} :
       /\ pc = "send" <=> hcFile # 0 /\ hcFile \notin hcSpent
       /\ pc = "unlink" => hcFile # 0
       /\ HcStep(r, pc)
  /\ UNCHANGED <<hcFileVars, hcSessVars, hcAlive, hcTrust, hcRuns, hcFaults>>

UnlinkExpired(r) ==
  /\ hcReq[r].pc = "unlink" /\ HcStep(r, "rotate") /\ hcFile' = 0
  /\ UNCHANGED <<hcSpent, hcValid, hcKeys, hcSessVars, hcAlive, hcTrust, hcRuns, hcFaults>>

\* A fresh key pair, certified by the device key.
RotateSubkey(r) ==
  /\ hcReq[r].pc = "rotate" /\ hcKeys < MaxHcKeys /\ hcKeys' = hcKeys + 1
  /\ hcReq' = [hcReq EXCEPT ![r].pc = "probe", ![r].from = "rotate", ![r].key = hcKeys + 1]
  /\ UNCHANGED <<hcFile, hcSpent, hcValid, hcSessVars, hcAlive, hcTrust, hcRuns, hcFaults>>

\* The key is kept once the server has taken it.
SavesRegistered(ok) == ok

SaveSession(r) ==
  /\ hcReq[r].pc = "save"
  /\ hcFile' = hcReq[r].key /\ HcStep(r, "send")
  /\ UNCHANGED <<hcSpent, hcValid, hcKeys, hcSessVars, hcAlive, hcTrust, hcRuns, hcFaults>>

\* _load_signing_key reads the file again.
LoadSigningKey(r) ==
  /\ hcReq[r].pc = "send"
  /\ IF hcFile = 0 THEN HcEnds(r, "nokey")
     ELSE hcReq' = [hcReq EXCEPT ![r].pc = "probe", ![r].from = "send", ![r].key = hcFile]
  /\ UNCHANGED <<hcFileVars, hcSessVars, hcAlive, hcTrust, hcRuns, hcFaults>>

(***************************************************************************)
(* One attempt (_HealedRequest), of a rotation or of the request itself.   *)
(***************************************************************************)
\* A dead executor is replaced, and the client's session closed, before anything is sent.
ProbeDefaultExecutor(r) ==
  /\ hcReq[r].pc = "probe"
  /\ IF hcAlive[r.client] THEN HcStep(r, "session") /\ UNCHANGED hcAlive
     ELSE hcAlive' = [hcAlive EXCEPT ![r.client] = TRUE] /\ HcStep(r, "close")
  /\ UNCHANGED <<hcFileVars, hcSessVars, hcTrust, hcRuns, hcFaults>>

\* close() lets go of the session before it waits for its connections.
LetsGoFirst(step, cur) == IF step = "begin" THEN NoSess ELSE cur

DetachSession(r, pc) ==
  /\ hcReq' = [hcReq EXCEPT ![r].pc = pc, ![r].sess = hcSess[r.client].id]
  /\ hcSess' = [hcSess EXCEPT ![r.client] = LetsGoFirst("begin", @)]

CloseSession(r) ==
  /\ hcReq[r].pc = "close" /\ DetachSession(r, "closing")
  /\ UNCHANGED <<hcFileVars, hcOpen, hcMade, hcAlive, hcTrust, hcRuns, hcFaults>>

\* Once the session is closed an attempt that has not begun goes on; one that failed is over.
SessionClosed(r) ==
  /\ hcReq[r].pc \in {"closing", "failing"}
  /\ hcOpen' = [hcOpen EXCEPT ![r.client] = @ \ {hcReq[r].sess}]
  /\ hcSess' = [hcSess EXCEPT ![r.client] = LetsGoFirst("end", @)]
  /\ IF hcReq[r].pc = "closing" THEN HcStep(r, "session") ELSE HcEnds(r, "failed")
  /\ UNCHANGED <<hcFileVars, hcMade, hcAlive, hcTrust, hcRuns, hcFaults>>

\* A session that another request is closing counts as closed.
BeingClosed(c) == \E q \in HcReqs : q.client = c /\ hcReq[q].pc \in {"closing", "failing"} /\ hcReq[q].sess = hcSess[c].id
Usable(c) == hcSess[c].id # 0 /\ ~BeingClosed(c)

\* _get_session: a session made from another trust store is closed first.
GetSession(r) ==
  /\ hcReq[r].pc = "session"
  /\ LET c == r.client
     IN \/ /\ Usable(c) /\ hcSess[c].trust = hcTrust
           /\ hcReq' = [hcReq EXCEPT ![r].pc = "wire", ![r].sess = hcSess[c].id, ![r].trust = hcTrust]
           /\ UNCHANGED <<hcSess, hcOpen, hcMade>>
        \/ Usable(c) /\ hcSess[c].trust # hcTrust /\ DetachSession(r, "closing") /\ UNCHANGED <<hcOpen, hcMade>>
        \/ /\ ~Usable(c) /\ hcMade < MaxHcSess /\ hcMade' = hcMade + 1
           /\ hcSess' = [hcSess EXCEPT ![c] = [id |-> hcMade + 1, trust |-> hcTrust]]
           /\ hcOpen' = [hcOpen EXCEPT ![c] = @ \cup {hcMade + 1}]
           /\ hcReq' = [hcReq EXCEPT ![r].pc = "wire", ![r].sess = hcMade + 1, ![r].trust = hcTrust]
  /\ UNCHANGED <<hcFileVars, hcAlive, hcTrust, hcRuns, hcFaults>>

\* The server takes a certificate signed with the device key, and a request signed with a subkey it
\* knows.  A 401 of the request is followed by one rotation and one more attempt.
MayRetry(r) == r.kind = "post" /\ ~hcReq[r].again

RotationAnswered(r) ==
  /\ hcReq[r].pc = "wire" /\ hcReq[r].from = "rotate" /\ hcReq[r].sess \in hcOpen[r.client]
  /\ \E ok \in BOOLEAN :
       /\ IF ok THEN hcValid' = hcValid \cup {hcReq[r].key} /\ UNCHANGED hcFaults ELSE HcFault /\ UNCHANGED hcValid
       /\ IF SavesRegistered(ok) THEN HcStep(r, "save") ELSE HcEnds(r, "failed")
  /\ UNCHANGED <<hcFile, hcSpent, hcKeys, hcSessVars, hcAlive, hcTrust, hcRuns>>

RequestAnswered(r) ==
  /\ hcReq[r].pc = "wire" /\ hcReq[r].from = "send" /\ hcReq[r].sess \in hcOpen[r.client]
  /\ \/ hcReq[r].key \in hcValid /\ hcRuns' = [hcRuns EXCEPT ![r] = @ + 1] /\ HcEnds(r, "done")
     \/ /\ hcReq[r].key \notin hcValid /\ UNCHANGED hcRuns
        /\ IF MayRetry(r) THEN hcReq' = [hcReq EXCEPT ![r] = [HcIdle EXCEPT !.pc = "rotate", !.again = TRUE]]
           ELSE HcEnds(r, "401")
  /\ UNCHANGED <<hcFileVars, hcSessVars, hcAlive, hcTrust, hcFaults>>

\* The executor dies under an attempt, before the server has it or on a redirect's later hop, when it
\* has; or the peer's certificate does not verify.  The session is closed, and the error is raised.
SendsAgain(r) == HcStep(r, "close") /\ UNCHANGED hcSess
RaisesError(r) == DetachSession(r, "failing")

AttemptBreaks(r) ==
  /\ hcReq[r].pc = "wire" /\ hcReq[r].sess \in hcOpen[r.client]
  /\ HcFault \/ (hcReq[r].trust # hcTrust /\ UNCHANGED hcFaults)
  /\ hcRuns' \in {hcRuns} \cup
       (IF hcReq[r].from = "send" /\ hcReq[r].key \in hcValid /\ hcReq[r].trust = hcTrust
        THEN {[hcRuns EXCEPT ![r] = @ + 1]} ELSE {})
  /\ RaisesError(r)
  /\ UNCHANGED <<hcFileVars, hcOpen, hcMade, hcAlive, hcTrust>>

\* A session another request closed takes the attempt with it.
AttemptLost(r) ==
  /\ hcReq[r].pc = "wire" /\ hcReq[r].sess \notin hcOpen[r.client] /\ HcEnds(r, "failed")
  /\ UNCHANGED <<hcFileVars, hcSessVars, hcAlive, hcTrust, hcRuns, hcFaults>>

(***************************************************************************)
(* The environment.                                                        *)
(***************************************************************************)
ExecutorDies(c) ==
  /\ hcAlive[c] /\ HcFault /\ hcAlive' = [hcAlive EXCEPT ![c] = FALSE]
  /\ UNCHANGED <<hcFileVars, hcSessVars, hcTrust, hcReq, hcRuns>>

SandboxMoves ==
  /\ HcFault /\ hcTrust' = hcTrust + 1
  /\ UNCHANGED <<hcFileVars, hcSessVars, hcAlive, hcReq, hcRuns>>

SubkeyEnds ==
  /\ HcFault /\ hcFile # 0 /\ hcSpent' = hcSpent \cup {hcFile}
  /\ UNCHANGED <<hcFile, hcValid, hcKeys, hcSessVars, hcAlive, hcTrust, hcReq, hcRuns>>

HcNext ==
  \/ \E r \in HcReqs :
       \/ EnsureSubkey(r) \/ UnlinkExpired(r) \/ RotateSubkey(r) \/ SaveSession(r) \/ LoadSigningKey(r)
       \/ ProbeDefaultExecutor(r) \/ CloseSession(r) \/ SessionClosed(r) \/ GetSession(r)
       \/ RotationAnswered(r) \/ RequestAnswered(r) \/ AttemptBreaks(r) \/ AttemptLost(r)
  \/ \E c \in HcClients : ExecutorDies(c)
  \/ SandboxMoves \/ SubkeyEnds

HcSpec == HcInit /\ [][HcNext]_hcVars

(***************************************************************************)
(* Properties.                                                             *)
(***************************************************************************)
\* The server executes a request at most once, whatever breaks under it and whatever 401 it was
\* answered before: a broken attempt is healed for the next caller, and "never replayed"
\* (_HealedRequest).
NeverReplayed == \A r \in HcReqs : hcRuns[r] <= 1

\* The subkey that the processes of the agent share is one the server has taken, or the one the agent
\* was left with (_rotate_subkey saves after the answer).
SharedKeyIsRegistered == hcFile > 1 => hcFile \in hcValid

\* No aiohttp session is left open behind its client: each open one is the client's current one, or a
\* request is closing it (PuffoCoreHttpClient.close: "Detach before awaiting").
NoOrphanSession ==
  \A c \in HcClients : \A s \in hcOpen[c] :
    \/ hcSess[c].id = s
    \/ \E r \in HcReqs : r.client = c /\ hcReq[r].pc \in {"closing", "failing"} /\ hcReq[r].sess = s

=============================================================================
