---------------------------- MODULE HttpGenerator ---------------------------
(***************************************************************************)
(* The generators that speak HTTP, generator/http.rs and                   *)
(* generator/splunk_hec.rs with its acknowledgement services, sending to   *)
(* the server of module Httpd.  One generator is run, of either kind; one  *)
(* semaphore bounds its requests, each of which is a task of its own.      *)
(***************************************************************************)
EXTENDS Httpd, FiniteSetsExt

CONSTANTS
  ParallelConnections,  \* parallel_connections, also the number of channels
  Retries               \* ack_timeout_seconds / ack_query_interval_seconds

ASSUME HttpGeneratorAssumption ==
  ParallelConnections \in Nat \ {0} /\ Retries \in Nat

Channels == 1..ParallelConnections

VARIABLES
  generator,    \* "http" or "splunk_hec"
  spin,         \* spin: "select", "acquire", "drain", "returned"
  channel,      \* where the cycle over the channels stands
  permits,      \* CONNECTION_SEMAPHORE
  ackService,   \* AckService::spin of a channel: "select", "asking", "ended"
  sent,         \* ids sent to the AckService of a channel, not yet received
  ackIds,       \* AckService::spin's ack_ids of a channel: id -> retries
  acked,        \* the ids counted as ack_ids_acked
  dropped,      \* the ids counted as ack_ids_dropped
  negatives     \* history: answers that left an id unacknowledged

ackVars == <<ackService, sent, ackIds, acked, dropped, negatives>>
generatorVars == <<generator, spin, channel, permits, ackVars>>
vars == <<serverVars, shutdown, generatorVars>>

(* A client's side of a connection: the task waits for the response, reads *)
(* its body, is through with it, or has closed the connection.             *)
Tasks == {i \in Opened : /\ conns[i].request.kind = "event"
                         /\ conns[i].client \in {"response", "body"}}
Queries(c) == {i \in Opened : /\ conns[i].request.kind = "ack"
                              /\ conns[i].request.channel = c
                              /\ conns[i].client = "response"}

(* Without acknowledgements the channels have no service.                  *)
Init ==
  /\ InitServer
  /\ generator \in {"http", "splunk_hec"}
  /\ spin = "select"
  /\ channel = 1
  /\ permits = ParallelConnections
  /\ ackService \in IF generator = "http" THEN {[c \in Channels |-> "ended"]}
                    ELSE {[c \in Channels |-> s] : s \in {"select", "ended"}}
  /\ sent = [c \in Channels |-> {}]
  /\ ackIds = [c \in Channels |-> [id \in {} |-> 0]]
  /\ acked = {}
  /\ dropped = {}
  /\ negatives = [id \in {} |-> 0]
-----------------------------------------------------------------------------
(* spin: the throttle lets the next block through.                         *)
Throttled ==
  /\ spin = "select"
  /\ Len(conns) < MaxConns
  /\ spin' = "acquire"
  /\ UNCHANGED <<serverVars, shutdown, generator, channel, permits, ackVars>>

(* A permit is free: spawn the request on the channel whose turn it is.    *)
SpawnRequest ==
  /\ spin = "acquire"
  /\ permits > 0
  /\ permits' = permits - 1
  /\ conns' = Append(conns, Connection([kind |-> "event", channel |-> channel],
                                       "response"))
  /\ channel' = (channel % ParallelConnections) + 1
  /\ spin' = "select"
  /\ UNCHANGED <<service, httpd, available, nextAckId, shutdown, generator,
                 ackVars>>

(* The shutdown arm: http goes on to collect every permit, splunk_hec      *)
(* leaves its requests dangling.                                           *)
SpinShutdown ==
  /\ spin = "select"
  /\ shutdown
  /\ spin' = IF generator = "http" THEN "drain" ELSE "returned"
  /\ UNCHANGED <<serverVars, shutdown, generator, channel, permits, ackVars>>

(* acquire_many(parallel_connections).                                     *)
AcquireMany ==
  /\ spin = "drain"
  /\ permits = ParallelConnections
  /\ spin' = "returned"
  /\ UNCHANGED <<serverVars, shutdown, generator, channel, permits, ackVars>>

ShutdownSignal ==
  /\ ~shutdown
  /\ shutdown' = TRUE
  /\ UNCHANGED <<serverVars, generatorVars>>
-----------------------------------------------------------------------------
(* A task is over: its permit is dropped, its connection left to the pool  *)
(* or closed.                                                              *)
EndTask(i, connection) ==
  /\ conns' = [conns EXCEPT ![i].client = connection]
  /\ permits' = permits + 1
  /\ UNCHANGED <<service, httpd, available, nextAckId, shutdown, generator,
                 spin, channel>>

(* The response's headers are here: http is done with it, splunk_hec goes  *)
(* on to read the body, outside of the timeout and of the shutdown arm.    *)
Response(i) ==
  /\ i \in Tasks
  /\ conns[i].client = "response"
  /\ conns[i].reply # NoReply
  /\ \/ generator = "http" /\ EndTask(i, "idle")
     \/ /\ generator = "splunk_hec"
        /\ conns' = [conns EXCEPT ![i].client = "body"]
        /\ UNCHANGED <<service, httpd, available, nextAckId, shutdown,
                       generator, spin, channel, permits>>
  /\ UNCHANGED ackVars

(* client.request fails: the connection was refused, shed or broken.       *)
RequestFails(i) ==
  /\ i \in Tasks
  /\ conns[i].client = "response"
  /\ conns[i].server = "closed"
  /\ EndTask(i, "closed")
  /\ UNCHANGED ackVars

(* Variant: the timeout forgets the permit.                                *)
RequestTimeoutKeepingPermit(i) ==
  /\ generator = "splunk_hec"
  /\ i \in Tasks
  /\ conns[i].client = "response"
  /\ conns' = [conns EXCEPT ![i].client = "closed"]
  /\ UNCHANGED <<service, httpd, available, nextAckId, shutdown, generator,
                 spin, channel, permits, ackVars>>

(* A second without a response.                                            *)
RequestTimeout(i) ==
  /\ generator = "splunk_hec"
  /\ i \in Tasks
  /\ conns[i].client = "response"
  /\ EndTask(i, "closed")
  /\ UNCHANGED ackVars

(* The shutdown arm of send_hec_request.                                   *)
RequestShutdown(i) ==
  /\ generator = "splunk_hec"
  /\ shutdown
  /\ i \in Tasks
  /\ conns[i].client = "response"
  /\ EndTask(i, "closed")
  /\ UNCHANGED ackVars

(* The body is a HEC answer: its id goes to the channel's AckService, if   *)
(* it has one.                                                             *)
BodyParsed(i) ==
  /\ i \in Tasks
  /\ conns[i].client = "body" /\ conns[i].body
  /\ conns[i].reply.kind = "event"
  /\ LET c == conns[i].request.channel
     IN  sent' = IF ackService[c] = "ended" THEN sent
                 ELSE [sent EXCEPT ![c] = @ \cup {conns[i].reply.id}]
  /\ EndTask(i, "idle")
  /\ UNCHANGED <<ackService, ackIds, acked, dropped, negatives>>

(* The body is something else: the expect panics and unwinds the task.     *)
BodyPanics(i) ==
  /\ i \in Tasks
  /\ conns[i].client = "body" /\ conns[i].body
  /\ conns[i].reply.kind = "plain"
  /\ EndTask(i, "idle")
  /\ UNCHANGED ackVars

(* The connection breaks while the body is read.                           *)
BodyFails(i) ==
  /\ i \in Tasks
  /\ conns[i].client = "body"
  /\ conns[i].server = "closed"
  /\ EndTask(i, "closed")
  /\ UNCHANGED ackVars

(* The clients' pools close a connection nobody uses.                      *)
CloseIdle(i) ==
  /\ i \in Opened
  /\ conns[i].client = "idle"
  /\ conns' = [conns EXCEPT ![i].client = "closed"]
  /\ UNCHANGED <<service, httpd, available, nextAckId, shutdown, generatorVars>>
-----------------------------------------------------------------------------
generatorButAcks == <<generator, spin, channel, permits>>

(* AckService::spin receives an id.                                        *)
AckReceive(c) ==
  /\ ackService[c] = "select"
  /\ \E id \in sent[c] :
       /\ sent' = [sent EXCEPT ![c] = @ \ {id}]
       /\ ackIds' = [ackIds EXCEPT ![c] =
                       [k \in DOMAIN ackIds[c] \cup {id} |->
                          IF k = id THEN Retries ELSE ackIds[c][k]]]
  /\ UNCHANGED <<serverVars, shutdown, generatorButAcks, ackService, acked,
                 dropped, negatives>>

(* Every sender is gone: spin has returned and no task of the channel is   *)
(* left.  What the service still waited for is forgotten.                  *)
AckClosed(c) ==
  /\ ackService[c] = "select"
  /\ sent[c] = {}
  /\ spin = "returned"
  /\ \A i \in Tasks : conns[i].request.channel # c
  /\ ackService' = [ackService EXCEPT ![c] = "ended"]
  /\ UNCHANGED <<serverVars, shutdown, generatorButAcks, sent, ackIds, acked,
                 dropped, negatives>>

(* interval.tick() with ids to ask for.                                    *)
AckQuery(c) ==
  /\ ackService[c] = "select"
  /\ ackIds[c] # <<>>
  /\ Len(conns) + (IF spin = "acquire" THEN 1 ELSE 0) < MaxConns
  /\ conns' = Append(conns, Connection([kind |-> "ack", channel |-> c,
                                        ids |-> DOMAIN ackIds[c]], "response"))
  /\ ackService' = [ackService EXCEPT ![c] = "asking"]
  /\ UNCHANGED <<service, httpd, available, nextAckId, shutdown,
                 generatorButAcks, sent, ackIds, acked, dropped, negatives>>

EndQuery(c, i, connection) ==
  /\ ackService[c] = "asking"
  /\ i \in Queries(c)
  /\ conns' = [conns EXCEPT ![i].client = connection]
  /\ ackService' = [ackService EXCEPT ![c] = "select"]
  /\ UNCHANGED <<service, httpd, available, nextAckId, shutdown,
                 generatorButAcks, sent>>

(* Variant: an id whose retries run out is dropped with the last of them.  *)
TimedOutEarly(c, left) == {id \in left : ackIds[c][id] <= 1}

(* The ids whose retries cannot be decremented any more.                   *)
TimedOut(c, left) == {id \in left : ackIds[c][id] = 0}

(* ack_request: the acknowledged ids are removed, then the retries of the  *)
(* others decremented, and the ones with none left dropped.                *)
AckAnswer(c, i) ==
  /\ EndQuery(c, i, "idle")
  /\ conns[i].reply.kind = "ack" /\ conns[i].body
  /\ LET left == DOMAIN ackIds[c] \ conns[i].reply.ids
         timedOut == TimedOut(c, left)
     IN  /\ acked' = acked \cup conns[i].reply.ids
         /\ dropped' = dropped \cup timedOut
         /\ ackIds' = [ackIds EXCEPT ![c] =
                         [id \in left \ timedOut |-> ackIds[c][id] - 1]]
         /\ negatives' = [id \in DOMAIN negatives \cup left |->
              (IF id \in DOMAIN negatives THEN negatives[id] ELSE 0)
                + (IF id \in left THEN 1 ELSE 0)]

(* A failed request, an answer that is no HEC answer, or a second without  *)
(* one: nothing is learned and nothing changes.                            *)
AckFails(c, i) ==
  /\ EndQuery(c, i, "closed")
  /\ conns[i].server = "closed"
  /\ UNCHANGED <<ackIds, acked, dropped, negatives>>

AckUnparsed(c, i) ==
  /\ EndQuery(c, i, "idle")
  /\ conns[i].reply.kind = "plain"
  /\ UNCHANGED <<ackIds, acked, dropped, negatives>>

AckTimeout(c, i) ==
  /\ EndQuery(c, i, "closed")
  /\ UNCHANGED <<ackIds, acked, dropped, negatives>>
-----------------------------------------------------------------------------
TaskStep(i) ==
  \/ Response(i) \/ RequestFails(i) \/ RequestTimeout(i) \/ RequestShutdown(i)
  \/ BodyParsed(i) \/ BodyPanics(i) \/ BodyFails(i)

AckStep(c) ==
  \/ AckReceive(c) \/ AckClosed(c)
  \/ \E i \in ConnIds : AckAnswer(c, i) \/ AckFails(c, i) \/ AckUnparsed(c, i)
                          \/ AckTimeout(c, i)

Next ==
  \/ ServerNext /\ UNCHANGED generatorVars
  \/ Throttled \/ SpawnRequest \/ SpinShutdown \/ AcquireMany
  \/ ShutdownSignal
  \/ \E i \in ConnIds : TaskStep(i) \/ CloseIdle(i)
  \/ \E c \in Channels : AckStep(c) \/ AckQuery(c)

Spec == Init /\ [][Next]_vars

(* The runtime polls every task that can go on, the ones of lading's own   *)
(* server included, while nothing is known of a server that is not         *)
(* lading's; the select of spin picks among ready arms at random.          *)
FairSpec ==
  /\ Spec
  /\ FairServer
  /\ WF_vars(SpawnRequest)
  /\ SF_vars(SpinShutdown)
  /\ WF_vars(AcquireMany)
  /\ \A i \in ConnIds : WF_vars(TaskStep(i)) /\ WF_vars(CloseIdle(i))
  /\ \A c \in Channels : WF_vars(AckStep(c))
-----------------------------------------------------------------------------
(* However a request ends (answered, refused, shed, timed out, cut short   *)
(* by the shutdown, or by a panic in its task) its permit comes back, so   *)
(* there are never more than parallel_connections of them.                 *)
PermitsAccounted == permits + Cardinality(Tasks) = ParallelConnections

(* An id is pending at one place at most, the channel its event was sent   *)
(* on, until it is acknowledged or dropped, and retries count down with    *)
(* the answers that did not acknowledge it, never with a query that failed *)
(* or timed out: an id is dropped by exactly the answer after the last     *)
(* retry, and never when the server is lading's own blackhole.             *)
AckIdsAccounted ==
  /\ \A c, d \in Channels : c # d =>
       (sent[c] \cup DOMAIN ackIds[c]) \cap (sent[d] \cup DOMAIN ackIds[d]) = {}
  /\ \A c \in Channels :
       /\ sent[c] \cap DOMAIN ackIds[c] = {}
       /\ (sent[c] \cup DOMAIN ackIds[c]) \cap (acked \cup dropped) = {}
       /\ \A id \in DOMAIN ackIds[c] :
            ackIds[c][id] + (IF id \in DOMAIN negatives THEN negatives[id] ELSE 0)
              = Retries
  /\ \A id \in dropped : negatives[id] = Retries + 1
  /\ service = "splunk_hec" => dropped = {}

(* What a server that is not lading's owes, and no timeout and no shutdown *)
(* arm cuts short: the answer to a request of http, and the body of an     *)
(* answer to splunk_hec.                                                   *)
Owed(i) ==
  /\ ~Own
  /\ i \in Tasks
  /\ conns[i].server # "closed"
  /\ \/ generator = "http" /\ conns[i].reply = NoReply
     \/ conns[i].client = "body" /\ ~conns[i].body

Answers == \A i \in ConnIds : []<>~Owed(i)

(* After the shutdown signal everybody returns: the generator, although it *)
(* does not look at the signal while it waits for a permit; the            *)
(* acknowledgement services, which hear of it only through their closed    *)
(* channels; and the server, which waits for its peers to close.  The      *)
(* generators return from a server that is not lading's too, unless it     *)
(* leaves http without an answer, or splunk_hec without the body of one,   *)
(* for ever.                                                               *)
EverybodyReturns ==
  Answers => (shutdown ~> /\ spin = "returned"
                          /\ \A c \in Channels : ackService[c] = "ended"
                          /\ Own => httpd = "returned")
=============================================================================
