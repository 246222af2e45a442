--------------------------- MODULE DriverAuthority ---------------------------
(***************************************************************************)
(* The authority server the driver runs beside a constrained ACP child     *)
(* (agent/harness/driver_authority_server.py): one endpoint per launch,    *)
(* one thread per endpoint, records under one lock.  A root endpoint may   *)
(* ask for derived ones, at most a fixed number at a time, and a derived   *)
(* endpoint must be claimed before a deadline.                             *)
(***************************************************************************)
EXTENDS Integers, FiniteSets

CONSTANTS Endpoints,      \* endpoint records; EndpointRoot is the root's
          EndpointRoot,
          MaxDerived      \* MAX_ACTIVE_DERIVED_ENDPOINTS

ASSUME EndpointAssumption == EndpointRoot \in Endpoints /\ "none" \notin Endpoints

VARIABLES
    aut,       \* the server: open, closing (records marked), closed (close returned)
    ep,        \* per record: lease state, socket, what its thread is doing
    granted    \* granted answers the peers received after close returned (history)

autVars == <<aut, ep, granted>>

NoEndpoint == [lease |-> "none", sock |-> FALSE, thread |-> "none", op |-> "none", kid |-> "none"]
Derived == Endpoints \ {EndpointRoot}

AutInit ==
    /\ aut = "open"
    /\ ep = [e \in Endpoints |-> IF e # EndpointRoot THEN NoEndpoint
              ELSE [NoEndpoint EXCEPT !.lease = "issued", !.sock = TRUE, !.thread = "read"]]
    /\ granted = 0

\* a record counts against the bound until its lease is closed
Active == {e \in Derived : ep[e].lease \in {"issued", "claimed"}}

DerivedRoom == Cardinality(Active) < MaxDerived

\* mutant: a closed server still issues endpoints
AlwaysIssues == TRUE

\* _issue_endpoint refuses after close
Issues == aut = "open"

\* _recv_frame: a request of the peer, with the check of the lease that
\* _handle_request makes under the lock
AuthorityReceive(e) ==
    /\ ep[e].thread = "read" /\ ep[e].sock
    /\ \/ \* hello: _claim
          ep' = [ep EXCEPT ![e] = [ep[e] EXCEPT
                   !.lease = IF ep[e].lease = "issued" THEN "claimed" ELSE ep[e].lease,
                   !.thread = "answer", !.op = "hello"]]
       \/ \* any other operation on an unclaimed endpoint is a mismatch
          /\ ep[e].lease # "claimed"
          /\ ep' = [ep EXCEPT ![e] = [@ EXCEPT !.thread = "answer", !.op = "denied"]]
       \/ \* a malformed, unsupported, mismatched or nested request
          ep' = [ep EXCEPT ![e] = [@ EXCEPT !.thread = "answer", !.op = "denied"]]
       \/ \* authorize_provider_call
          /\ ep[e].lease = "claimed"
          /\ ep' = [ep EXCEPT ![e] = [@ EXCEPT !.thread = "answer", !.op = "granted"]]
       \/ \* authorize_derived_launch, before _issue_endpoint
          /\ ep[e].lease = "claimed" /\ e = EndpointRoot
          /\ ep' = [ep EXCEPT ![e] = [@ EXCEPT !.thread = "issue"]]
    /\ UNCHANGED <<aut, granted>>

\* _issue_endpoint, under the lock: refused when closed (the thread fails) or
\* full (denied), otherwise recorded
IssueDerived ==
    /\ ep[EndpointRoot].thread = "issue"
    /\ \/ ~Issues /\ ep' = [ep EXCEPT ![EndpointRoot].thread = "fail"]
       \/ /\ Issues /\ ~DerivedRoom
          /\ ep' = [ep EXCEPT ![EndpointRoot] = [@ EXCEPT !.thread = "answer", !.op = "denied"]]
       \/ /\ Issues /\ DerivedRoom
          /\ \E d \in Derived :
                /\ ep[d].lease = "none"
                /\ ep' = [ep EXCEPT ![d] = [NoEndpoint EXCEPT !.lease = "issued", !.sock = TRUE],
                                    ![EndpointRoot] = [@ EXCEPT !.thread = "start", !.kid = d]]
    /\ UNCHANGED <<aut, granted>>

\* _start_record under the lock; a closed server or a thread that does not
\* start discards the record (_discard_endpoint) and denies
StartDerived ==
    /\ ep[EndpointRoot].thread = "start"
    /\ LET d == ep[EndpointRoot].kid
       IN  \/ /\ aut = "open" /\ ep[d].lease # "closed"
              /\ ep' = [ep EXCEPT ![d] = [ep[d] EXCEPT !.thread = "read"],
                                  ![EndpointRoot] = [ep[EndpointRoot] EXCEPT !.thread = "answer",
                                                                             !.op = "granted"]]
           \/ ep' = [ep EXCEPT ![d] = [NoEndpoint EXCEPT !.lease = "closed"],
                               ![EndpointRoot] = [ep[EndpointRoot] EXCEPT !.thread = "answer",
                                                           !.op = "denied", !.kid = "none"]]
    /\ UNCHANGED <<aut, granted>>

\* _send_frame: the answer, with the child's descriptor; the server's copy is closed
Answer(e) ==
    /\ ep[e].thread = "answer"
    /\ IF ep[e].sock
       THEN /\ ep' = [ep EXCEPT ![e] = [@ EXCEPT !.thread = "read", !.op = "none",
                                                 !.kid = "none"]]
            /\ granted' = IF aut = "closed" /\ ep[e].op = "granted" THEN granted + 1 ELSE granted
       ELSE /\ ep' = [ep EXCEPT ![e].thread = "fail"]
            /\ UNCHANGED granted
    /\ UNCHANGED aut

\* the peer hangs up, a frame is out of bounds, or a derived endpoint is not
\* claimed in time
ReceiveFails(e) ==
    /\ ep[e].thread = "read"
    /\ ep' = [ep EXCEPT ![e].thread = "fail"]
    /\ UNCHANGED <<aut, granted>>

\* the finally of _serve
ServeEnds(e) ==
    /\ ep[e].thread = "fail"
    /\ ep' = [ep EXCEPT ![e] = [NoEndpoint EXCEPT !.lease = "closed"]]
    /\ UNCHANGED <<aut, granted>>

\* close: the records are marked under the lock, then their sockets are shut
CloseBegins ==
    /\ aut = "open"
    /\ aut' = "closing"
    /\ ep' = [e \in Endpoints |-> IF ep[e].lease = "none" THEN ep[e]
                                  ELSE [ep[e] EXCEPT !.lease = "closed"]]
    /\ UNCHANGED granted

\* after close no record keeps its socket
ShutDown(e) == FALSE

CloseReturns ==
    /\ aut = "closing"
    /\ aut' = "closed"
    /\ ep' = [e \in Endpoints |-> [ep[e] EXCEPT !.sock = ShutDown(e)]]
    /\ UNCHANGED granted

AutNext ==
    \/ \E e \in Endpoints : AuthorityReceive(e) \/ Answer(e) \/ ReceiveFails(e) \/ ServeEnds(e)
    \/ IssueDerived \/ StartDerived \/ CloseBegins \/ CloseReturns

AutSpec == AutInit /\ [][AutNext]_autVars

-----------------------------------------------------------------------------
\* No grant is received once close has returned, also when a request was being
\* decided as the server closed (_serve beside close).
NoGrantAfterClose == granted = 0

\* At most MAX_ACTIVE_DERIVED_ENDPOINTS derived endpoints are issued or claimed at
\* a time, whatever the order of issues, claims, hang-ups and lapsed claims.
DerivedIsBounded == Cardinality(Active) <= MaxDerived

\* Nothing is left to serve after close: an endpoint issued while the server was
\* closing is given no socket (_start_record looks again).
NothingSurvivesClose ==
    aut = "closed" => \A e \in Endpoints : ~ep[e].sock
=============================================================================
