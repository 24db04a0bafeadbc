-------------------------------- MODULE Httpd -------------------------------
(***************************************************************************)
(* The HTTP blackholes: run_httpd (blackhole/common.rs) accepts            *)
(* connections, holds a semaphore permit for each one that it serves and   *)
(* sheds the others; the services of blackhole/http.rs and                 *)
(* blackhole/splunk_hec.rs answer the requests.  A connection carries one  *)
(* request: a client that reuses one looks like a client that closes it    *)
(* and opens another.                                                      *)
(***************************************************************************)
EXTENDS Naturals, Sequences, FiniteSets

CONSTANTS
  ConcurrencyLimit,  \* concurrent_requests_max
  MaxConns           \* bound: connections opened in a behaviour

ASSUME HttpdAssumption == ConcurrencyLimit \in Nat /\ MaxConns \in Nat

VARIABLES
  service,    \* who answers: "http", "splunk_hec", or an indexer
  shutdown,   \* the shutdown signal
  httpd,      \* run_httpd: "accepting", "draining", "returned"
  available,  \* the semaphore
  conns,      \* the connections, in the order they were opened
  nextAckId   \* ACK_ID, a process-wide AtomicU64

serverVars == <<service, httpd, available, conns, nextAckId>>

(* The replies: a body that is not a HEC answer, the id of an event, or    *)
(* the ids of a query that are acknowledged.                               *)
NoReply == [kind |-> "none"]
Plain == [kind |-> "plain"]
EventReply(id) == [kind |-> "event", id |-> id]
AckReply(ids) == [kind |-> "ack", ids |-> ids]

(* The peer's side of a connection is its business: "open" or "closed" is  *)
(* all that the server can tell.  The body of a reply is here or not.      *)
Connection(request, peer) ==
  [request |-> request, client |-> peer, reply |-> NoReply, body |-> FALSE,
   server |-> IF httpd = "accepting" THEN "backlog" ELSE "closed"]

ConnIds == 1..MaxConns
Opened == DOMAIN conns

InitServer ==
  /\ service \in {"http", "splunk_hec", "indexer"}
  /\ shutdown = FALSE
  /\ httpd = "accepting"
  /\ available = ConcurrencyLimit
  /\ conns = <<>>
  /\ nextAckId = 0
-----------------------------------------------------------------------------
(* listener.accept() and join_set.spawn.                                   *)
Accept(i) ==
  /\ httpd = "accepting"
  /\ i \in Opened
  /\ conns[i].server = "backlog"
  /\ conns' = [conns EXCEPT ![i].server = "spawned"]
  /\ UNCHANGED <<service, shutdown, httpd, available, nextAckId>>

(* The spawned task: serve with a permit, shed without one.                *)
TryAcquire(i) ==
  /\ i \in Opened
  /\ conns[i].server = "spawned"
  /\ conns' = [conns EXCEPT ![i].server =
                 IF available > 0 THEN "serving" ELSE "closed"]
  /\ available' = IF available > 0 THEN available - 1 ELSE 0
  /\ UNCHANGED <<service, shutdown, httpd, nextAckId>>

(* srv of the HTTP blackhole: the configured body, whatever was asked.     *)
HttpSrv(i) ==
  /\ service = "http"
  /\ conns' = [conns EXCEPT ![i].reply = Plain]
  /\ UNCHANGED nextAckId

(* srv of the HEC blackhole on the event paths.                            *)
HecEventSrv(i) ==
  /\ conns[i].request.kind = "event"
  /\ conns' = [conns EXCEPT ![i].reply = EventReply(nextAckId)]
  /\ nextAckId' = nextAckId + 1

(* srv of the HEC blackhole on the ack path: every id is acknowledged; an  *)
(* indexer acknowledges the ones that it likes.                            *)
HecAckSrv(i) ==
  /\ conns[i].request.kind = "ack"
  /\ \/ \E ids \in (IF service = "splunk_hec" THEN {conns[i].request.ids}
                    ELSE SUBSET conns[i].request.ids) :
          conns' = [conns EXCEPT ![i].reply = AckReply(ids)]
     \/ service = "indexer" /\ conns' = [conns EXCEPT ![i].reply = Plain]
  /\ UNCHANGED nextAckId

Srv(i) ==
  /\ i \in Opened
  /\ conns[i].server = "serving"
  /\ conns[i].client # "closed"
  /\ conns[i].reply = NoReply
  /\ \/ HttpSrv(i)
     \/ service # "http" /\ (HecEventSrv(i) \/ HecAckSrv(i))
  /\ UNCHANGED <<service, shutdown, httpd, available>>

(* The body follows the headers of a reply; an indexer may never send it.  *)
SendBody(i) ==
  /\ i \in Opened
  /\ conns[i].server = "serving"
  /\ conns[i].client # "closed"
  /\ conns[i].reply # NoReply
  /\ ~conns[i].body
  /\ conns' = [conns EXCEPT ![i].body = TRUE]
  /\ UNCHANGED <<service, shutdown, httpd, available, nextAckId>>

(* serve_future ends when the peer has closed the connection.              *)
ServeEnds(i) ==
  /\ i \in Opened
  /\ conns[i].server = "serving"
  /\ conns[i].client = "closed"
  /\ conns' = [conns EXCEPT ![i].server = "closed"]
  /\ available' = available + 1
  /\ UNCHANGED <<service, shutdown, httpd, nextAckId>>

(* An indexer, which is not lading's, may also break a connection.         *)
Reset(i) ==
  /\ service = "indexer"
  /\ i \in Opened
  /\ conns[i].server = "serving"
  /\ conns' = [conns EXCEPT ![i].server = "closed"]
  /\ available' = available + 1
  /\ UNCHANGED <<service, shutdown, httpd, nextAckId>>

(* Variant: the listener outlives the accept loop.                         *)
StopAcceptingLate ==
  /\ httpd = "accepting"
  /\ shutdown
  /\ httpd' = "draining"
  /\ UNCHANGED <<service, shutdown, available, conns, nextAckId>>

(* The shutdown arm: leave the loop and drop the listener, and with it the *)
(* connections that were not accepted.                                     *)
StopAccepting ==
  /\ httpd = "accepting"
  /\ shutdown
  /\ httpd' = "draining"
  /\ conns' = [i \in Opened |->
                 IF conns[i].server = "backlog"
                 THEN [conns[i] EXCEPT !.server = "closed"] ELSE conns[i]]
  /\ UNCHANGED <<service, shutdown, available, nextAckId>>

(* join_set.join_next() until every task has ended.                        *)
Drained ==
  /\ httpd = "draining"
  /\ \A i \in Opened : conns[i].server \notin {"spawned", "serving"}
  /\ httpd' = "returned"
  /\ UNCHANGED <<service, shutdown, available, conns, nextAckId>>

ServerStep(i) ==
  Accept(i) \/ TryAcquire(i) \/ Srv(i) \/ SendBody(i) \/ ServeEnds(i)

ServerNext ==
  \/ \E i \in ConnIds : ServerStep(i) \/ Reset(i)
  \/ StopAccepting
  \/ Drained

(* Lading's own server is polled like every task of its process; an        *)
(* indexer need not do anything.                                           *)
Own == service # "indexer"

FairServer ==
  /\ \A i \in ConnIds : WF_serverVars(Own /\ ServerStep(i))
  /\ WF_serverVars(Own /\ StopAccepting)
  /\ WF_serverVars(Own /\ Drained)
=============================================================================
