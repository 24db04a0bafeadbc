----------------------------- MODULE HttpProofs -----------------------------
(***************************************************************************)
(* That the permits and the acknowledgement ids of the HTTP generators are *)
(* accounted for, whatever the number of connections, channels, permits    *)
(* and retries.  The proofs look at a connection through its fields: the   *)
(* lemmas of the first part say what each kind of change to conns does to  *)
(* them, and everything after cites these.                                 *)
(***************************************************************************)
EXTENDS HttpGenerator, FiniteSetTheorems, TLAPS

Clients == {"response", "body", "idle", "closed"}
Servers == {"backlog", "spawned", "serving", "closed"}
RequestType == [kind : {"event"}, channel : Channels]
               \cup [kind : {"ack"}, channel : Channels, ids : SUBSET Nat]
ReplyType == {NoReply, Plain} \cup [kind : {"event"}, id : Nat]
             \cup [kind : {"ack"}, ids : SUBSET Nat]
ConnType == [request : RequestType, client : Clients, reply : ReplyType,
             body : BOOLEAN, server : Servers]
Counts == UNION {[S -> Nat] : S \in SUBSET Nat}

ConnsOK == conns \in Seq(ConnType)

AcksOK ==
  /\ ackService \in [Channels -> {"select", "asking", "ended"}]
  /\ sent \in [Channels -> SUBSET Nat]
  /\ ackIds \in [Channels -> Counts]
  /\ acked \in SUBSET Nat /\ dropped \in SUBSET Nat
  /\ negatives \in Counts

TypeInv ==
  /\ ConnsOK /\ AcksOK
  /\ nextAckId \in Nat
  /\ permits \in Nat
  /\ channel \in Channels
-----------------------------------------------------------------------------
(* What the fields of a connection may be.                                 *)
LEMMA ConnFields ==
  ASSUME ConnsOK, NEW i \in Opened
  PROVE  /\ conns[i] \in ConnType
         /\ conns[i].client \in Clients
         /\ conns[i].request \in RequestType
         /\ conns[i].reply \in ReplyType
         /\ conns[i].server \in Servers
         /\ conns[i].request.kind \in {"event", "ack"}
         /\ conns[i].request.channel \in Channels
<1>1. conns[i] \in ConnType
  BY DEF ConnsOK, Opened
<1>2. conns[i].request \in RequestType
  BY <1>1 DEF ConnType
<1>3. conns[i].request.kind \in {"event", "ack"} /\ conns[i].request.channel \in Channels
  BY <1>2 DEF RequestType
<1> QED
  BY <1>1, <1>2, <1>3 DEF ConnType

LEMMA ClientSet ==
  ASSUME ConnsOK, NEW i \in Opened, NEW s \in Clients,
         conns' = [conns EXCEPT ![i].client = s]
  PROVE  /\ ConnsOK' /\ Opened' = Opened
         /\ \A k \in Opened :
              /\ conns'[k].client = IF k = i THEN s ELSE conns[k].client
              /\ conns'[k].request = conns[k].request
              /\ conns'[k].reply = conns[k].reply
              /\ conns'[k].server = conns[k].server
<1> DEFINE e == [conns[i] EXCEPT !.client = s]
<1>1. /\ e \in ConnType /\ e.client = s
      /\ e.request = conns[i].request
      /\ e.reply = conns[i].reply
      /\ e.server = conns[i].server
  BY ConnFields DEF ConnType
<1>2. conns' = [conns EXCEPT ![i] = e]
  BY DEF ConnsOK, Opened
<1> HIDE DEF e
<1>3. ConnsOK' /\ Opened' = Opened
  BY <1>1, <1>2 DEF ConnsOK, Opened
<1>4. \A k \in Opened : conns'[k] = IF k = i THEN e ELSE conns[k]
  BY <1>2 DEF ConnsOK, Opened
<1> QED
  BY <1>1, <1>3, <1>4

LEMMA ServerSet ==
  ASSUME ConnsOK, NEW i \in Opened, NEW s \in Servers,
         conns' = [conns EXCEPT ![i].server = s]
  PROVE  /\ ConnsOK' /\ Opened' = Opened
         /\ \A k \in Opened :
              /\ conns'[k].client = conns[k].client
              /\ conns'[k].request = conns[k].request
              /\ conns'[k].reply = conns[k].reply
<1> DEFINE e == [conns[i] EXCEPT !.server = s]
<1>1. /\ e \in ConnType /\ e.server = s
      /\ e.request = conns[i].request
      /\ e.client = conns[i].client
      /\ e.reply = conns[i].reply
  BY ConnFields DEF ConnType
<1>2. conns' = [conns EXCEPT ![i] = e]
  BY DEF ConnsOK, Opened
<1> HIDE DEF e
<1>3. ConnsOK' /\ Opened' = Opened
  BY <1>1, <1>2 DEF ConnsOK, Opened
<1>4. \A k \in Opened : conns'[k] = IF k = i THEN e ELSE conns[k]
  BY <1>2 DEF ConnsOK, Opened
<1> QED
  BY <1>1, <1>3, <1>4

LEMMA ReplySet ==
  ASSUME ConnsOK, NEW i \in Opened, NEW r \in ReplyType,
         conns' = [conns EXCEPT ![i].reply = r]
  PROVE  /\ ConnsOK' /\ Opened' = Opened
         /\ \A k \in Opened :
              /\ conns'[k].client = conns[k].client
              /\ conns'[k].request = conns[k].request
              /\ conns'[k].reply = IF k = i THEN r ELSE conns[k].reply
<1> DEFINE e == [conns[i] EXCEPT !.reply = r]
<1>1. /\ e \in ConnType /\ e.reply = r
      /\ e.request = conns[i].request
      /\ e.client = conns[i].client
      /\ e.server = conns[i].server
  BY ConnFields DEF ConnType
<1>2. conns' = [conns EXCEPT ![i] = e]
  BY DEF ConnsOK, Opened
<1> HIDE DEF e
<1>3. ConnsOK' /\ Opened' = Opened
  BY <1>1, <1>2 DEF ConnsOK, Opened
<1>4. \A k \in Opened : conns'[k] = IF k = i THEN e ELSE conns[k]
  BY <1>2 DEF ConnsOK, Opened
<1> QED
  BY <1>1, <1>3, <1>4

LEMMA BodySet ==
  ASSUME ConnsOK, NEW i \in Opened, NEW b \in BOOLEAN,
         conns' = [conns EXCEPT ![i].body = b]
  PROVE  /\ ConnsOK' /\ Opened' = Opened
         /\ \A k \in Opened :
              /\ conns'[k].client = conns[k].client
              /\ conns'[k].request = conns[k].request
              /\ conns'[k].reply = conns[k].reply
<1> DEFINE e == [conns[i] EXCEPT !.body = b]
<1>1. /\ e \in ConnType
      /\ e.request = conns[i].request
      /\ e.client = conns[i].client
      /\ e.reply = conns[i].reply
  BY ConnFields DEF ConnType
<1>2. conns' = [conns EXCEPT ![i] = e]
  BY DEF ConnsOK, Opened
<1> HIDE DEF e
<1>3. ConnsOK' /\ Opened' = Opened
  BY <1>1, <1>2 DEF ConnsOK, Opened
<1>4. \A k \in Opened : conns'[k] = IF k = i THEN e ELSE conns[k]
  BY <1>2 DEF ConnsOK, Opened
<1> QED
  BY <1>1, <1>3, <1>4

(* A connection n, for a request q, is new.                                *)
Added(n, q) ==
  /\ n \notin Opened /\ Opened' = Opened \cup {n}
  /\ conns'[n].client = "response"
  /\ conns'[n].request = q
  /\ conns'[n].reply.kind = "none"
  /\ \A k \in Opened : conns'[k] = conns[k]

LEMMA ConnAdded ==
  ASSUME ConnsOK, NEW q \in RequestType,
         conns' = Append(conns, Connection(q, "response"))
  PROVE  ConnsOK' /\ Added(Len(conns) + 1, q)
<1>1. Connection(q, "response") \in ConnType
  BY DEF Connection, ConnType, Clients, Servers, ReplyType
<1>2. /\ Connection(q, "response").client = "response"
      /\ Connection(q, "response").request = q
      /\ Connection(q, "response").reply.kind = "none"
  BY DEF Connection, NoReply
<1> HIDE DEF Connection
<1> QED
  BY <1>1, <1>2 DEF ConnsOK, Opened, Added

LEMMA BacklogClosed ==
  ASSUME ConnsOK, StopAccepting
  PROVE  /\ ConnsOK' /\ Opened' = Opened
         /\ \A k \in Opened :
              /\ conns'[k].client = conns[k].client
              /\ conns'[k].request = conns[k].request
              /\ conns'[k].reply = conns[k].reply
<1>1. \A k \in Opened : /\ conns'[k] \in ConnType
                        /\ conns'[k].client = conns[k].client
                        /\ conns'[k].request = conns[k].request
                        /\ conns'[k].reply = conns[k].reply
  <2> SUFFICES ASSUME NEW k \in Opened
               PROVE  /\ conns'[k] \in ConnType
                      /\ conns'[k].client = conns[k].client
                      /\ conns'[k].request = conns[k].request
                      /\ conns'[k].reply = conns[k].reply
    OBVIOUS
  <2> DEFINE e == [conns[k] EXCEPT !.server = "closed"]
  <2>1. /\ e \in ConnType /\ e.client = conns[k].client
        /\ e.request = conns[k].request /\ e.reply = conns[k].reply
    BY ConnFields DEF ConnType, Servers
  <2>2. conns'[k] = e \/ conns'[k] = conns[k]
    BY DEF StopAccepting
  <2> QED
    BY <2>1, <2>2, ConnFields, Zenon
<1>2. DOMAIN conns' = 1..Len(conns) /\ conns' = [k \in 1..Len(conns) |-> conns'[k]]
  BY DEF StopAccepting, ConnsOK, Opened
<1> QED
  BY <1>1, <1>2 DEF ConnsOK, Opened
-----------------------------------------------------------------------------
(* What the server does to the connections: nothing that a client has a    *)
(* say in, and one reply at most.                                          *)
Replies(i) ==
  /\ conns[i].reply = NoReply
  /\ \A k \in Opened \ {i} : conns'[k].reply = conns[k].reply
  /\ \/ conns'[i].reply = Plain /\ nextAckId' = nextAckId
     \/ /\ conns'[i].reply = EventReply(nextAckId)
        /\ conns[i].request.kind = "event"
        /\ nextAckId' = nextAckId + 1
     \/ /\ conns[i].request.kind = "ack"
        /\ \E ids \in SUBSET conns[i].request.ids :
             /\ conns'[i].reply = AckReply(ids)
             /\ service = "splunk_hec" => ids = conns[i].request.ids
        /\ nextAckId' = nextAckId

ClientsKept ==
  /\ ConnsOK' /\ Opened' = Opened
  /\ \A k \in Opened : /\ conns'[k].client = conns[k].client
                        /\ conns'[k].request = conns[k].request

RepliesKept ==
  nextAckId' = nextAckId /\ \A k \in Opened : conns'[k].reply = conns[k].reply

LEMMA SrvEffect ==
  ASSUME TypeInv, NEW i, Srv(i)
  PROVE  /\ ClientsKept /\ i \in Opened /\ Replies(i)
<1>1. i \in Opened /\ ConnsOK /\ nextAckId \in Nat /\ conns[i].reply = NoReply
  BY DEF Srv, TypeInv
<1>2. ASSUME NEW r \in ReplyType, conns' = [conns EXCEPT ![i].reply = r]
      PROVE  /\ ClientsKept /\ conns'[i].reply = r
             /\ \A k \in Opened \ {i} : conns'[k].reply = conns[k].reply
  <2>1. /\ ConnsOK' /\ Opened' = Opened
        /\ \A k \in Opened :
              /\ conns'[k].client = conns[k].client
              /\ conns'[k].request = conns[k].request
              /\ conns'[k].reply = IF k = i THEN r ELSE conns[k].reply
    BY <1>1, <1>2, ReplySet, Zenon
  <2> QED
    BY <1>1, <2>1 DEF ClientsKept
<1>3. CASE HttpSrv(i)
  <2>1. Plain \in ReplyType
    BY DEF ReplyType
  <2>2. conns' = [conns EXCEPT ![i].reply = Plain] /\ nextAckId' = nextAckId
    BY <1>3 DEF HttpSrv
  <2> QED
    BY <1>1, <1>2, <2>1, <2>2, Zenon DEF Replies
<1>4. CASE service # "http" /\ HecEventSrv(i)
  <2>1. EventReply(nextAckId) \in ReplyType
    BY <1>1 DEF EventReply, ReplyType
  <2> QED
    BY <1>1, <1>2, <1>4, <2>1, Zenon DEF HecEventSrv, Replies
<1>5. CASE service # "http" /\ HecAckSrv(i)
  <2>1. conns[i].request.kind = "ack" /\ nextAckId' = nextAckId
    BY <1>5 DEF HecAckSrv
  <2>2. conns[i].request.ids \subseteq Nat
    <3>1. conns[i].request \in RequestType
      BY <1>1, ConnFields
    <3> QED
      BY <2>1, <3>1 DEF RequestType
  <2>3. CASE \E ids \in SUBSET conns[i].request.ids :
               /\ conns' = [conns EXCEPT ![i].reply = AckReply(ids)]
               /\ service = "splunk_hec" => ids = conns[i].request.ids
    <3>1. PICK ids \in SUBSET conns[i].request.ids :
               /\ conns' = [conns EXCEPT ![i].reply = AckReply(ids)]
               /\ service = "splunk_hec" => ids = conns[i].request.ids
      BY <2>3, Zenon
    <3>2. AckReply(ids) \in ReplyType
      BY <2>2 DEF AckReply, ReplyType
    <3> QED
      BY <1>1, <1>2, <2>1, <3>1, <3>2, Zenon DEF Replies
  <2>4. CASE conns' = [conns EXCEPT ![i].reply = Plain]
    BY <1>1, <1>2, <2>1, <2>4, Zenon DEF ReplyType, Replies
  <2> QED
    BY <1>5, <2>3, <2>4 DEF HecAckSrv
<1> QED
  BY <1>1, <1>3, <1>4, <1>5 DEF Srv

LEMMA ServerEffect ==
  ASSUME TypeInv, ServerNext
  PROVE  /\ ClientsKept /\ service' = service
         /\ RepliesKept \/ \E i \in Opened : Replies(i)
<1> USE DEF TypeInv
<1>1. ASSUME NEW i, NEW s \in Servers, i \in Opened,
             conns' = [conns EXCEPT ![i].server = s], nextAckId' = nextAckId
      PROVE  ClientsKept /\ RepliesKept
  BY <1>1, ServerSet, Zenon DEF ClientsKept, RepliesKept
<1>2. ASSUME NEW i, Accept(i)
      PROVE  ClientsKept /\ RepliesKept /\ service' = service
  BY <1>1, <1>2, Zenon DEF Accept, Servers
<1>3. ASSUME NEW i, TryAcquire(i)
      PROVE  ClientsKept /\ RepliesKept /\ service' = service
  <2>1. (IF available > 0 THEN "serving" ELSE "closed") \in Servers
    BY DEF Servers
  <2> QED
    BY <1>1, <1>3, <2>1, Zenon DEF TryAcquire
<1>4. ASSUME NEW i, Srv(i)
      PROVE  ClientsKept /\ i \in Opened /\ Replies(i) /\ service' = service
  BY <1>4, SrvEffect DEF Srv
<1>5. ASSUME NEW i, ServeEnds(i) \/ Reset(i)
      PROVE  ClientsKept /\ RepliesKept /\ service' = service
  BY <1>1, <1>5 DEF ServeEnds, Reset, Servers
<1>6. ASSUME StopAccepting
      PROVE  ClientsKept /\ RepliesKept /\ service' = service
  <2>1. nextAckId' = nextAckId /\ service' = service
    BY <1>6 DEF StopAccepting
  <2> QED
    BY <1>6, <2>1, BacklogClosed DEF ClientsKept, RepliesKept
<1>7. ASSUME Drained
      PROVE  ClientsKept /\ RepliesKept /\ service' = service
  <2>1. conns' = conns /\ nextAckId' = nextAckId /\ service' = service
    BY <1>7 DEF Drained
  <2> QED
    BY <2>1 DEF ClientsKept, RepliesKept, ConnsOK, Opened
<1>8. ASSUME NEW i, SendBody(i)
      PROVE  ClientsKept /\ RepliesKept /\ service' = service
  <2>1. /\ i \in Opened /\ conns' = [conns EXCEPT ![i].body = TRUE]
        /\ nextAckId' = nextAckId /\ service' = service
    BY <1>8 DEF SendBody
  <2> QED
    BY <2>1, BodySet DEF ClientsKept, RepliesKept
<1> QED
  BY <1>2, <1>3, <1>4, <1>5, <1>6, <1>7, <1>8 DEF ServerNext, ServerStep
-----------------------------------------------------------------------------
LEMMA TasksAreFinite ==
  ASSUME ConnsOK
  PROVE  IsFiniteSet(Tasks) /\ Cardinality(Tasks) \in Nat
<1>1. Opened = 1..Len(conns) /\ Len(conns) \in Nat /\ Tasks \in SUBSET Opened
  BY DEF ConnsOK, Opened, Tasks
<1>2. IsFiniteSet(Opened)
  BY <1>1, FS_Interval
<1>3. IsFiniteSet(Tasks)
  BY <1>1, <1>2, FS_Subset, Zenon
<1> QED
  BY <1>3, FS_CardinalityType

Base == ConnsOK /\ nextAckId \in Nat /\ permits \in Nat /\ channel \in Channels
Permits == Base /\ PermitsAccounted

(* A task that ends gives its permit back.                                 *)
LEMMA TaskEnds ==
  ASSUME Permits, NEW i \in Tasks, NEW s \in {"idle", "closed"}, EndTask(i, s)
  PROVE  Permits'
<1>1. i \in Opened /\ ConnsOK /\ s \in Clients
  BY DEF Tasks, Permits, Base, Clients
<1>2. /\ ConnsOK' /\ Opened' = Opened
      /\ \A k \in Opened :
           /\ conns'[k].client = IF k = i THEN s ELSE conns[k].client
           /\ conns'[k].request = conns[k].request
  BY <1>1, ClientSet, Zenon DEF EndTask
<1>3. Tasks' = Tasks \ {i}
  BY <1>2 DEF Tasks
<1>4. IsFiniteSet(Tasks) /\ Cardinality(Tasks) \in Nat
  BY <1>1, TasksAreFinite
<1>5. Cardinality(Tasks') = Cardinality(Tasks) - 1
  BY <1>3, <1>4, FS_RemoveElement
<1>6. permits \in Nat /\ permits' = permits + 1 /\ nextAckId' = nextAckId
      /\ channel' = channel /\ ParallelConnections \in Nat
  BY HttpGeneratorAssumption DEF EndTask, Permits, Base
<1> QED
  BY <1>2, <1>4, <1>5, <1>6 DEF Permits, Base, PermitsAccounted

(* A change that leaves the tasks as they are, with their number.          *)
LEMMA TasksKept ==
  ASSUME Permits, ConnsOK', nextAckId' \in Nat, Tasks' = Tasks,
         UNCHANGED <<permits, channel>>
  PROVE  Permits'
BY DEF Permits, Base, PermitsAccounted

LEMMA NextPermits ==
  TypeInv /\ PermitsAccounted /\ [Next]_vars => Permits'
<1> SUFFICES ASSUME TypeInv, PermitsAccounted, [Next]_vars PROVE Permits'
  OBVIOUS
<1>0. Permits /\ ConnsOK /\ nextAckId \in Nat
  BY DEF TypeInv, Permits, Base
<1>1. CASE ServerNext /\ UNCHANGED generatorVars
  <2>1. ClientsKept /\ nextAckId' \in Nat
    BY <1>0, <1>1, ServerEffect DEF RepliesKept, Replies
  <2>2. Tasks' = Tasks
    BY <2>1 DEF ClientsKept, Tasks
  <2> QED
    BY <1>0, <1>1, <2>1, <2>2, TasksKept DEF ClientsKept, generatorVars
<1>2. ASSUME UNCHANGED <<conns, nextAckId, permits, channel>>
      PROVE  Permits'
  BY <1>0, <1>2 DEF Permits, Base, PermitsAccounted, ConnsOK, Tasks, Opened
<1>3. CASE Throttled \/ SpinShutdown \/ AcquireMany \/ ShutdownSignal
  BY <1>2, <1>3 DEF Throttled, SpinShutdown, AcquireMany, ShutdownSignal,
     serverVars, generatorVars
<1>4. CASE SpawnRequest
  <2> DEFINE q == [kind |-> "event", channel |-> channel]
             n == Len(conns) + 1
  <2>1. q \in RequestType /\ q.kind = "event"
    BY <1>0 DEF RequestType, Permits, Base
  <2>2. conns' = Append(conns, Connection(q, "response"))
    BY <1>4 DEF SpawnRequest
  <2> HIDE DEF q
  <2>3. ConnsOK' /\ Added(n, q)
    BY <1>0, <2>1, <2>2, ConnAdded
  <2> HIDE DEF n
  <2>4. n \notin Tasks /\ Tasks' = Tasks \cup {n}
    BY <2>1, <2>3 DEF Tasks, Added
  <2>5. IsFiniteSet(Tasks) /\ Cardinality(Tasks) \in Nat
    BY <1>0, TasksAreFinite
  <2>6. Cardinality(Tasks') = Cardinality(Tasks) + 1
    BY <2>4, <2>5, FS_AddElement
  <2>7. /\ permits \in Nat /\ permits > 0 /\ permits' = permits - 1
        /\ nextAckId' = nextAckId
        /\ channel' = (channel % ParallelConnections) + 1
    BY <1>0, <1>4 DEF SpawnRequest, Permits, Base
  <2>8. channel' \in Channels
    BY <1>0, <2>7, HttpGeneratorAssumption DEF Channels, Permits, Base
  <2> QED
    BY <1>0, <2>3, <2>5, <2>6, <2>7, <2>8 DEF Permits, Base, PermitsAccounted
<1>5. ASSUME NEW i, TaskStep(i) PROVE Permits'
  <2>1. i \in Tasks
    BY <1>5 DEF TaskStep, Response, RequestFails, RequestTimeout,
       RequestShutdown, BodyParsed, BodyPanics, BodyFails
  <2>2. CASE \E s \in {"idle", "closed"} : EndTask(i, s)
    BY <1>0, <2>1, <2>2, TaskEnds
  <2>3. CASE /\ conns' = [conns EXCEPT ![i].client = "body"]
             /\ UNCHANGED <<nextAckId, permits, channel>>
    <3>1. i \in Opened /\ "body" \in Clients
      BY <2>1 DEF Tasks, Clients
    <3>2. /\ ConnsOK' /\ Opened' = Opened
          /\ \A k \in Opened :
               /\ conns'[k].client = IF k = i THEN "body" ELSE conns[k].client
               /\ conns'[k].request = conns[k].request
      BY <1>0, <2>3, <3>1, ClientSet, Zenon
    <3>3. Tasks' = Tasks
      BY <2>1, <3>2 DEF Tasks
    <3> QED
      BY <1>0, <2>3, <3>2, <3>3, TasksKept
  <2> QED
    BY <1>5, <2>2, <2>3 DEF TaskStep, Response, RequestFails, RequestTimeout,
       RequestShutdown, BodyParsed, BodyPanics, BodyFails
<1>6. ASSUME NEW i, NEW s \in {"idle", "closed"}, i \in Opened, i \notin Tasks,
             conns' = [conns EXCEPT ![i].client = s],
             UNCHANGED <<nextAckId, permits, channel>>
      PROVE  Permits'
  <2>0. s \in Clients
    BY DEF Clients
  <2>1. /\ ConnsOK' /\ Opened' = Opened
        /\ \A k \in Opened :
             /\ conns'[k].client = IF k = i THEN s ELSE conns[k].client
             /\ conns'[k].request = conns[k].request
    BY <1>0, <1>6, <2>0, ClientSet, Zenon
  <2>2. Tasks' = Tasks
    BY <1>6, <2>1 DEF Tasks
  <2> QED
    BY <1>0, <1>6, <2>1, <2>2, TasksKept
<1>7. ASSUME NEW i, CloseIdle(i) PROVE Permits'
  BY <1>6, <1>7, Zenon DEF CloseIdle, Tasks, generatorVars
<1>8. ASSUME NEW c \in Channels, AckReceive(c) \/ AckClosed(c) PROVE Permits'
  BY <1>2, <1>8 DEF AckReceive, AckClosed, serverVars, generatorButAcks
<1>9. ASSUME NEW c \in Channels, NEW i, NEW s \in {"idle", "closed"}, EndQuery(c, i, s)
      PROVE  Permits'
  BY <1>6, <1>9, Zenon DEF EndQuery, Queries, Tasks, generatorButAcks
<1>10. ASSUME NEW c \in Channels, AckQuery(c) PROVE Permits'
  <2> DEFINE q == [kind |-> "ack", channel |-> c, ids |-> DOMAIN ackIds[c]]
             n == Len(conns) + 1
  <2>1. DOMAIN ackIds[c] \in SUBSET Nat
    <3>1. ackIds[c] \in Counts
      BY DEF TypeInv, AcksOK
    <3> QED
      BY <3>1, ZenonT(40) DEF Counts
  <2>2. q \in RequestType /\ q.kind = "ack"
    BY <2>1 DEF RequestType
  <2>3. /\ conns' = Append(conns, Connection(q, "response"))
        /\ UNCHANGED <<nextAckId, permits, channel>>
    BY <1>10 DEF AckQuery, generatorButAcks
  <2> HIDE DEF q
  <2>4. ConnsOK' /\ Added(n, q)
    BY <1>0, <2>2, <2>3, ConnAdded
  <2> HIDE DEF n
  <2>5. Tasks' = Tasks
    BY <2>2, <2>4 DEF Tasks, Added
  <2> QED
    BY <1>0, <2>3, <2>4, <2>5, TasksKept
<1>11. CASE \E c \in Channels : AckStep(c) \/ AckQuery(c)
  BY <1>8, <1>9, <1>10, <1>11, Zenon
     DEF AckStep, AckAnswer, AckFails, AckUnparsed, AckTimeout
<1>12. CASE UNCHANGED vars
  BY <1>2, <1>12 DEF vars, serverVars, generatorVars
<1> QED
  BY <1>1, <1>3, <1>4, <1>5, <1>7, <1>11, <1>12 DEF Next
-----------------------------------------------------------------------------
(* The ids.  One that the server has issued is on its way in a reply until *)
(* its task has read it; from there it is used, and only once.             *)
Delivering == {i \in Opened : /\ conns[i].reply.kind = "event"
                              /\ conns[i].client \in {"response", "body"}}

IsUsed(id) ==
  \/ id \in acked \/ id \in dropped \/ id \in DOMAIN negatives
  \/ \E c \in Channels : id \in sent[c] \/ id \in DOMAIN ackIds[c]

RepliesOK ==
  \A i \in Opened :
    /\ conns[i].reply.kind = "event" =>
         /\ conns[i].reply.id < nextAckId
         /\ \A j \in Opened \ {i} :
              conns[j].reply.kind = "event" => conns[j].reply.id # conns[i].reply.id
    /\ conns[i].reply.kind = "ack" =>
         /\ conns[i].request.kind = "ack"
         /\ conns[i].reply.ids \subseteq conns[i].request.ids
         /\ service = "splunk_hec" => conns[i].reply.ids = conns[i].request.ids

UsedOK ==
  /\ \A id : IsUsed(id) => id \in Nat /\ id < nextAckId
  /\ \A i \in Delivering : ~IsUsed(conns[i].reply.id)
  /\ dropped \subseteq DOMAIN negatives
  /\ \A c \in Channels : sent[c] \cap DOMAIN negatives = {}

(* An AckService has one query at a time, for all the ids that it holds.   *)
QueriesOK ==
  \A c \in Channels : \A i \in Queries(c) :
    /\ ackService[c] = "asking"
    /\ conns[i].request.ids = DOMAIN ackIds[c]
    /\ \A j \in Queries(c) : j = i

IInv ==
  /\ TypeInv /\ PermitsAccounted
  /\ RepliesOK /\ UsedOK /\ QueriesOK
  /\ AckIdsAccounted

Ids == AcksOK /\ RepliesOK /\ UsedOK /\ QueriesOK /\ AckIdsAccounted

LEMMA ReplyIds ==
  ASSUME ConnsOK, NEW i \in Opened
  PROVE  /\ conns[i].reply.kind = "event" => conns[i].reply.id \in Nat
         /\ conns[i].reply.kind = "ack" => conns[i].reply.ids \in SUBSET Nat
<1>1. conns[i].reply \in ReplyType
  BY ConnFields
<1> QED
  BY <1>1 DEF ReplyType, NoReply, Plain

(* A step in which clients only advance and the services do nothing.       *)
LEMMA ClientsAdvance ==
  ASSUME IInv, UNCHANGED <<ackVars, service, nextAckId>>, Opened' = Opened,
         \A k \in Opened :
           /\ conns'[k].request = conns[k].request
           /\ conns'[k].reply = conns[k].reply
           /\ conns'[k].client = "response" => conns[k].client = "response"
           /\ conns'[k].client = "body" => conns[k].client \in {"response", "body"}
  PROVE  Ids'
<1>1. UNCHANGED <<ackService, sent, ackIds, acked, dropped, negatives>>
  BY DEF ackVars
<1>2. AcksOK' /\ AckIdsAccounted'
  BY <1>1 DEF IInv, TypeInv, AcksOK, AckIdsAccounted
<1>3. RepliesOK'
  BY DEF IInv, RepliesOK
<1>4. UsedOK'
  <2>1. \A id : IsUsed(id)' <=> IsUsed(id)
    BY <1>1 DEF IsUsed
  <2>2. Delivering' \subseteq Delivering
    BY DEF Delivering
  <2>3. \A i \in Delivering : i \in Opened
    BY DEF Delivering
  <2> QED
    BY <1>1, <2>1, <2>2, <2>3 DEF IInv, UsedOK
<1>5. QueriesOK'
  <2>1. \A c \in Channels : Queries(c)' \subseteq Queries(c) /\ Queries(c) \subseteq Opened
    BY DEF Queries
  <2> QED
    BY <1>1, <2>1 DEF IInv, QueriesOK
<1> QED
  BY <1>2, <1>3, <1>4, <1>5 DEF Ids

(* The server's steps: a new id is one that was never used.                *)
LEMMA ServerIds ==
  ASSUME IInv, ServerNext, UNCHANGED generatorVars
  PROVE  Ids'
<1>1. /\ ClientsKept /\ service' = service
      /\ RepliesKept \/ \E i \in Opened : Replies(i)
  BY ServerEffect DEF IInv
<1>2. UNCHANGED <<ackService, sent, ackIds, acked, dropped, negatives>>
  BY DEF generatorVars, ackVars
<1>3. CASE RepliesKept
  BY <1>1, <1>2, <1>3, ClientsAdvance DEF ClientsKept, RepliesKept, ackVars
<1>4. CASE \E i \in Opened : Replies(i)
  <2>1. PICK i \in Opened : Replies(i)
    BY <1>4
  <2>2. AcksOK' /\ AckIdsAccounted'
    BY <1>1, <1>2 DEF IInv, TypeInv, AcksOK, AckIdsAccounted
  <2>3. ConnsOK /\ nextAckId \in Nat
    BY DEF IInv, TypeInv
  <2>4. \A k \in Opened \ {i} : conns'[k].reply = conns[k].reply
    BY <2>1 DEF Replies
  <2>5. /\ Opened' = Opened
        /\ \A k \in Opened : /\ conns'[k].client = conns[k].client
                             /\ conns'[k].request = conns[k].request
    BY <1>1 DEF ClientsKept
  <2>6. \A id : IsUsed(id)' <=> IsUsed(id)
    BY <1>2 DEF IsUsed
  <2>7. QueriesOK'
    <3>1. \A c \in Channels : Queries(c)' = Queries(c) /\ Queries(c) \subseteq Opened
      BY <2>5 DEF Queries
    <3> QED
      BY <1>2, <2>5, <3>1 DEF IInv, QueriesOK
  <2>8. \A k \in Opened : conns[k].reply.kind = "event" =>
                           conns[k].reply.id \in Nat /\ conns[k].reply.id < nextAckId
    BY <2>3, ReplyIds DEF IInv, RepliesOK
  <2>9. CASE /\ conns'[i].reply = EventReply(nextAckId)
             /\ nextAckId' = nextAckId + 1
    <3>1. conns'[i].reply.kind = "event" /\ conns'[i].reply.id = nextAckId
      BY <2>9 DEF EventReply
    <3>2. RepliesOK'
      <4> SUFFICES ASSUME NEW k \in Opened
                   PROVE  /\ conns'[k].reply.kind = "event" =>
                               /\ conns'[k].reply.id < nextAckId'
                               /\ \A j \in Opened \ {k} :
                                    conns'[j].reply.kind = "event" =>
                                      conns'[j].reply.id # conns'[k].reply.id
                          /\ conns'[k].reply.kind = "ack" =>
                               /\ conns'[k].request.kind = "ack"
                               /\ conns'[k].reply.ids \subseteq conns'[k].request.ids
                               /\ service' = "splunk_hec" =>
                                    conns'[k].reply.ids = conns'[k].request.ids
        BY <2>5 DEF RepliesOK
      <4>1. CASE k = i
        BY <2>3, <2>4, <2>8, <2>9, <3>1, <4>1, SMTT(30)
      <4>2. CASE k # i
        BY <1>1, <2>3, <2>4, <2>5, <2>8, <2>9, <3>1, <4>2, SMTT(30) DEF IInv, RepliesOK
      <4> QED
        BY <4>1, <4>2
    <3>3. UsedOK'
      <4>1. \A id : IsUsed(id)' => id \in Nat /\ id < nextAckId'
        BY <2>3, <2>6, <2>9 DEF IInv, UsedOK
      <4>2. ASSUME NEW k \in Delivering' PROVE ~IsUsed(conns[k].reply.id)'
        <5>1. CASE k = i
          <6>1. ~IsUsed(nextAckId)
            BY <2>3 DEF IInv, UsedOK
          <6> QED
            BY <2>6, <3>1, <5>1, <6>1
        <5>2. CASE k # i
          <6>1. k \in Delivering /\ conns'[k].reply = conns[k].reply
            BY <2>4, <2>5, <5>2 DEF Delivering
          <6> QED
            BY <2>6, <6>1 DEF IInv, UsedOK
        <5> QED
          BY <5>1, <5>2
      <4> QED
        BY <1>2, <4>1, <4>2 DEF IInv, UsedOK
    <3> QED
      BY <2>2, <2>7, <3>2, <3>3 DEF Ids
  <2>10. CASE /\ nextAckId' = nextAckId
              /\ \/ conns'[i].reply = Plain
                 \/ /\ conns[i].request.kind = "ack"
                    /\ \E ids \in SUBSET conns[i].request.ids :
                         /\ conns'[i].reply = AckReply(ids)
                         /\ service = "splunk_hec" => ids = conns[i].request.ids
    <3>1. /\ conns'[i].reply.kind # "event"
          /\ conns'[i].reply.kind = "ack" =>
               /\ conns[i].request.kind = "ack"
               /\ conns'[i].reply.ids \subseteq conns[i].request.ids
               /\ service = "splunk_hec" => conns'[i].reply.ids = conns[i].request.ids
      <4>1. CASE conns'[i].reply = Plain
        BY <4>1 DEF Plain
      <4>2. CASE conns'[i].reply # Plain
        <5>1. PICK ids \in SUBSET conns[i].request.ids :
                /\ conns'[i].reply = AckReply(ids)
                /\ service = "splunk_hec" => ids = conns[i].request.ids
          BY <2>10, <4>2
        <5>2. conns'[i].reply.kind = "ack" /\ conns'[i].reply.ids = ids
          BY <5>1 DEF AckReply
        <5> QED
          BY <2>10, <4>2, <5>1, <5>2
      <4> QED
        BY <4>1, <4>2
    <3>2. RepliesOK'
      <4> SUFFICES ASSUME NEW k \in Opened
                   PROVE  /\ conns'[k].reply.kind = "event" =>
                               /\ conns'[k].reply.id < nextAckId'
                               /\ \A j \in Opened \ {k} :
                                    conns'[j].reply.kind = "event" =>
                                      conns'[j].reply.id # conns'[k].reply.id
                          /\ conns'[k].reply.kind = "ack" =>
                               /\ conns'[k].request.kind = "ack"
                               /\ conns'[k].reply.ids \subseteq conns'[k].request.ids
                               /\ service' = "splunk_hec" =>
                                    conns'[k].reply.ids = conns'[k].request.ids
        BY <2>5 DEF RepliesOK
      <4>1. CASE k = i
        BY <1>1, <2>5, <3>1, <4>1, SMTT(30)
      <4>2. CASE k # i
        BY <1>1, <2>4, <2>5, <2>10, <3>1, <4>2 DEF IInv, RepliesOK
      <4> QED
        BY <4>1, <4>2
    <3>3. UsedOK'
      <4>1. Delivering' \subseteq Delivering \ {i}
        BY <2>4, <2>5, <3>1 DEF Delivering
      <4>2. \A k \in Delivering' : conns'[k].reply = conns[k].reply
        BY <2>4, <4>1 DEF Delivering
      <4> QED
        BY <1>2, <2>6, <2>10, <4>1, <4>2 DEF IInv, UsedOK
    <3> QED
      BY <2>2, <2>7, <3>2, <3>3 DEF Ids
  <2> QED
    BY <2>1, <2>9, <2>10 DEF Replies
<1> QED
  BY <1>1, <1>3, <1>4

(* A new connection has no reply yet.                                      *)
LEMMA AddedIds ==
  ASSUME IInv, NEW n, NEW q, Added(n, q),
         UNCHANGED <<sent, ackIds, acked, dropped, negatives, service, nextAckId>>
  PROVE  RepliesOK' /\ UsedOK' /\ AckIdsAccounted'
<1>1. AckIdsAccounted'
  BY DEF IInv, AckIdsAccounted
<1>2. RepliesOK'
  BY DEF IInv, RepliesOK, Added
<1>3. Delivering' = Delivering /\ \A k \in Delivering : conns'[k] = conns[k]
  BY DEF Delivering, Added
<1>4. \A id : IsUsed(id)' <=> IsUsed(id)
  BY DEF IsUsed
<1>5. UsedOK'
  BY <1>3, <1>4 DEF IInv, UsedOK
<1> QED
  BY <1>1, <1>2, <1>5

LEMMA SpawnIds ==
  ASSUME IInv, SpawnRequest PROVE Ids'
<1> DEFINE q == [kind |-> "event", channel |-> channel]
           n == Len(conns) + 1
<1>1. q \in RequestType /\ q.kind = "event"
  BY DEF RequestType, IInv, TypeInv
<1>2. UNCHANGED <<ackService, sent, ackIds, acked, dropped, negatives, service, nextAckId>>
  BY DEF SpawnRequest, ackVars
<1>3. Added(n, q)
  <2>1. conns' = Append(conns, Connection(q, "response"))
    BY DEF SpawnRequest
  <2> HIDE DEF q
  <2> QED
    BY <1>1, <2>1, ConnAdded DEF IInv, TypeInv
<1> HIDE DEF n, q
<1>4. \A c \in Channels : Queries(c)' = Queries(c) /\ Queries(c) \subseteq Opened
  BY <1>1, <1>3 DEF Queries, Added
<1>5. QueriesOK'
  BY <1>2, <1>3, <1>4 DEF IInv, QueriesOK, Added
<1>6. AcksOK'
  BY <1>2 DEF IInv, TypeInv, AcksOK
<1> QED
  BY <1>2, <1>3, <1>5, <1>6, AddedIds DEF Ids

LEMMA QueryIds ==
  ASSUME IInv, NEW c \in Channels, AckQuery(c) PROVE Ids'
<1> DEFINE q == [kind |-> "ack", channel |-> c, ids |-> DOMAIN ackIds[c]]
           n == Len(conns) + 1
<1>1. DOMAIN ackIds[c] \in SUBSET Nat
  <2>1. ackIds[c] \in Counts
    BY DEF IInv, TypeInv, AcksOK
  <2> QED
    BY <2>1, Zenon DEF Counts
<1>2. /\ q \in RequestType /\ q.kind = "ack" /\ q.channel = c
      /\ q.ids = DOMAIN ackIds[c]
  BY <1>1 DEF RequestType
<1>3. /\ ackService[c] = "select"
      /\ ackService' = [ackService EXCEPT ![c] = "asking"]
      /\ UNCHANGED <<sent, ackIds, acked, dropped, negatives, service, nextAckId>>
  BY DEF AckQuery
<1>4. Added(n, q)
  <2>1. conns' = Append(conns, Connection(q, "response"))
    BY DEF AckQuery
  <2> HIDE DEF q
  <2> QED
    BY <1>2, <2>1, ConnAdded DEF IInv, TypeInv
<1> HIDE DEF n, q
<1>5. AcksOK'
  BY <1>3 DEF IInv, TypeInv, AcksOK
<1>6. QueriesOK'
  <2> SUFFICES ASSUME NEW d \in Channels, NEW i \in Queries(d)'
               PROVE  /\ ackService'[d] = "asking"
                      /\ conns'[i].request.ids = DOMAIN ackIds'[d]
                      /\ \A j \in Queries(d)' : j = i
    BY DEF QueriesOK
  <2>1. CASE d = c
    <3>1. Queries(c) = {}
      BY <1>3 DEF IInv, QueriesOK
    <3>2. Queries(c)' = {n}
      BY <1>2, <1>4, <3>1 DEF Queries, Added
    <3>3. ackService'[c] = "asking"
      BY <1>3 DEF IInv, TypeInv, AcksOK
    <3> QED
      BY <1>2, <1>3, <1>4, <2>1, <3>2, <3>3 DEF Added
  <2>2. CASE d # c
    <3>1. Queries(d)' = Queries(d) /\ Queries(d) \subseteq Opened
      BY <1>2, <1>4, <2>2 DEF Queries, Added
    <3>2. ackService'[d] = ackService[d]
      BY <1>3, <2>2 DEF IInv, TypeInv, AcksOK
    <3> QED
      BY <1>3, <1>4, <3>1, <3>2 DEF IInv, QueriesOK, Added
  <2> QED
    BY <2>1, <2>2
<1> QED
  BY <1>3, <1>4, <1>5, <1>6, AddedIds DEF Ids

(* A task reads its id and hands it to its channel's service: it is used   *)
(* from now on, and delivered no more.                                     *)
LEMMA BodyIds ==
  ASSUME IInv, NEW i, BodyParsed(i) PROVE Ids'
<1> DEFINE id == conns[i].reply.id
           c == conns[i].request.channel
<1>1. /\ i \in Opened /\ ConnsOK /\ conns[i].client = "body"
      /\ conns[i].reply.kind = "event" /\ conns[i].request.kind = "event"
      /\ UNCHANGED <<ackService, ackIds, acked, dropped, negatives, service, nextAckId>>
  BY DEF BodyParsed, Tasks, IInv, TypeInv, EndTask
<1>2. id \in Nat /\ id < nextAckId /\ c \in Channels
  BY <1>1, ReplyIds, ConnFields DEF IInv, RepliesOK
<1>3. "idle" \in Clients
  BY DEF Clients
<1>4. /\ Opened' = Opened
      /\ \A k \in Opened :
           /\ conns'[k].client = IF k = i THEN "idle" ELSE conns[k].client
           /\ conns'[k].request = conns[k].request
           /\ conns'[k].reply = conns[k].reply
  BY <1>1, <1>3, ClientSet, ZenonT(40) DEF BodyParsed, EndTask
<1>5. CASE ackService[c] = "ended"
  <2>1. sent' = sent
    BY <1>5 DEF BodyParsed
  <2> QED
    BY <1>1, <1>4, <2>1, ClientsAdvance DEF ackVars
<1>6. CASE ackService[c] # "ended"
  <2>1. sent' = [sent EXCEPT ![c] = @ \cup {id}]
    BY <1>6 DEF BodyParsed
  <2>2. sent \in [Channels -> SUBSET Nat]
    BY SMTT(30) DEF IInv, TypeInv, AcksOK
  <2>3. i \in Delivering /\ ~IsUsed(id)
    BY <1>1 DEF Delivering, IInv, UsedOK
  <2>4. AcksOK'
    BY <1>1, <1>2, <2>1, <2>2, SMTT(30) DEF IInv, TypeInv, AcksOK
  <2>5. RepliesOK'
    BY <1>1, <1>4 DEF IInv, RepliesOK
  <2>6. QueriesOK'
    <3>1. \A d \in Channels : Queries(d)' \subseteq Queries(d) /\ Queries(d) \subseteq Opened
      BY <1>4 DEF Queries
    <3> QED
      BY <1>1, <1>4, <3>1 DEF IInv, QueriesOK
  <2> HIDE DEF id, c
  <2>7. \A d \in Channels : sent'[d] = IF d = c THEN sent[c] \cup {id} ELSE sent[d]
    BY <1>2, <2>1, <2>2, SMTT(30)
  <2>8. \A x : IsUsed(x)' <=> IsUsed(x) \/ x = id
    BY <1>1, <1>2, <2>7 DEF IsUsed
  <2>9. UsedOK'
    <3>1. \A x : IsUsed(x)' => x \in Nat /\ x < nextAckId'
      BY <1>1, <1>2, <2>8 DEF IInv, UsedOK
    <3>2. ASSUME NEW k \in Delivering' PROVE ~IsUsed(conns[k].reply.id)'
      <4>1. k \in Delivering /\ k # i /\ conns'[k].reply = conns[k].reply /\ k \in Opened
        BY <1>1, <1>4 DEF Delivering
      <4>2. conns[k].reply.id # id
        BY <1>1, <4>1 DEF id, Delivering, IInv, RepliesOK
      <4>3. ~IsUsed(conns[k].reply.id)
        BY <4>1 DEF IInv, UsedOK
      <4> QED
        BY <2>8, <4>1, <4>2, <4>3
    <3>3. \A d \in Channels : sent'[d] \cap DOMAIN negatives' = {}
      BY <1>1, <2>3, <2>7, SMTT(30) DEF IInv, UsedOK, IsUsed
    <3> QED
      BY <1>1, <3>1, <3>2, <3>3 DEF IInv, UsedOK
  <2>10. AckIdsAccounted'
    <3>1. \A d \in Channels : id \notin sent[d] /\ id \notin DOMAIN ackIds[d]
      BY <2>3 DEF IsUsed
    <3>2. id \notin acked /\ id \notin dropped
      BY <2>3 DEF IsUsed
    <3>3. \A d, e \in Channels : d # e =>
            (sent'[d] \cup DOMAIN ackIds'[d]) \cap (sent'[e] \cup DOMAIN ackIds'[e]) = {}
      BY <1>1, <2>7, <3>1 DEF IInv, AckIdsAccounted
    <3>4. \A d \in Channels :
            /\ sent'[d] \cap DOMAIN ackIds'[d] = {}
            /\ (sent'[d] \cup DOMAIN ackIds'[d]) \cap (acked' \cup dropped') = {}
      BY <1>1, <2>7, <3>1, <3>2 DEF IInv, AckIdsAccounted
    <3> QED
      BY <1>1, <3>3, <3>4 DEF IInv, AckIdsAccounted
  <2> QED
    BY <2>4, <2>5, <2>6, <2>9, <2>10 DEF Ids
<1> QED
  BY <1>5, <1>6

(* An id moves from the channel to the service's table, with all retries.  *)
LEMMA ReceiveIds ==
  ASSUME IInv, NEW c \in Channels, AckReceive(c) PROVE Ids'
<1>1. /\ ackService[c] = "select"
      /\ UNCHANGED <<conns, service, nextAckId, ackService, acked, dropped, negatives>>
  BY DEF AckReceive, serverVars
<1>2. PICK id \in sent[c] :
        /\ sent' = [sent EXCEPT ![c] = @ \ {id}]
        /\ ackIds' = [ackIds EXCEPT ![c] =
                        [k \in DOMAIN ackIds[c] \cup {id} |->
                           IF k = id THEN Retries ELSE ackIds[c][k]]]
  BY Zenon DEF AckReceive
<1> DEFINE table == [k \in DOMAIN ackIds[c] \cup {id} |->
                       IF k = id THEN Retries ELSE ackIds[c][k]]
<1>3. sent \in [Channels -> SUBSET Nat] /\ ackIds \in [Channels -> Counts]
  BY DEF IInv, TypeInv, AcksOK
<1>4. /\ DOMAIN table = DOMAIN ackIds[c] \cup {id}
      /\ table[id] = Retries
      /\ \A k \in DOMAIN ackIds[c] : k # id => table[k] = ackIds[c][k]
  OBVIOUS
<1>5. table \in Counts
  <2>1. ackIds[c] \in Counts /\ id \in Nat
    BY <1>3
  <2>2. PICK S \in SUBSET Nat : ackIds[c] \in [S -> Nat]
    BY <2>1 DEF Counts
  <2>3. table \in [S \cup {id} -> Nat] /\ S \cup {id} \in SUBSET Nat
    BY <2>1, <2>2, HttpGeneratorAssumption, ZenonT(40)
  <2> HIDE DEF table
  <2> QED
    BY <2>3 DEF Counts
<1> HIDE DEF table
<1>6. \A d \in Channels : /\ sent'[d] = IF d = c THEN sent[c] \ {id} ELSE sent[d]
                          /\ ackIds'[d] = IF d = c THEN table ELSE ackIds[d]
  BY <1>2, <1>3 DEF table
<1>7. AcksOK'
  <2>1. sent' \in [Channels -> SUBSET Nat]
    BY <1>2, <1>3
  <2>2. ackIds' \in [Channels -> Counts]
    BY <1>2, <1>3, <1>5 DEF table
  <2> QED
    BY <1>1, <2>1, <2>2 DEF IInv, TypeInv, AcksOK
<1>8. RepliesOK'
  BY <1>1, SMTT(30) DEF IInv, RepliesOK, Opened
<1>9. \A x : IsUsed(x)' <=> IsUsed(x)
  BY <1>1, <1>4, <1>6 DEF IsUsed
<1>10. UsedOK'
  <2>1. Delivering' = Delivering
    BY <1>1 DEF Delivering, Opened
  <2>2. \A d \in Channels : sent'[d] \subseteq sent[d]
    BY <1>6
  <2> QED
    BY <1>1, <1>9, <2>1, <2>2 DEF IInv, UsedOK
<1>11. QueriesOK'
  <2>1. Queries(c) = {}
    BY <1>1 DEF IInv, QueriesOK
  <2>2. \A d \in Channels : Queries(d)' = Queries(d)
    BY <1>1 DEF Queries, Opened
  <2> QED
    BY <1>1, <1>6, <2>1, <2>2 DEF IInv, QueriesOK
<1>12. AckIdsAccounted'
  <2>1. \A d \in Channels :
          sent'[d] \cup DOMAIN ackIds'[d] = sent[d] \cup DOMAIN ackIds[d]
    BY <1>4, <1>6
  <2>2. \A d \in Channels : sent'[d] \cap DOMAIN ackIds'[d] = {}
    BY <1>4, <1>6 DEF IInv, AckIdsAccounted
  <2>3. id \notin DOMAIN negatives /\ Retries + 0 = Retries
    BY HttpGeneratorAssumption DEF IInv, UsedOK
  <2>4. ASSUME NEW d \in Channels, NEW x \in DOMAIN ackIds'[d]
        PROVE  ackIds'[d][x] + (IF x \in DOMAIN negatives' THEN negatives'[x] ELSE 0) = Retries
    <3>1. CASE d = c /\ x = id
      BY <1>1, <1>4, <1>6, <2>3, <3>1
    <3>2. CASE ~(d = c /\ x = id)
      <4>1. x \in DOMAIN ackIds[d] /\ ackIds'[d][x] = ackIds[d][x]
        BY <1>4, <1>6, <2>4, <3>2
      <4> QED
        BY <1>1, <4>1 DEF IInv, AckIdsAccounted
    <3> QED
      BY <3>1, <3>2
  <2>5. /\ \A x \in dropped' : negatives'[x] = Retries + 1
        /\ service' = "splunk_hec" => dropped' = {}
    BY <1>1, SMTT(30) DEF IInv, AckIdsAccounted
  <2>6. \A d, e \in Channels : d # e =>
          (sent'[d] \cup DOMAIN ackIds'[d]) \cap (sent'[e] \cup DOMAIN ackIds'[e]) = {}
    BY <2>1, SMTT(30) DEF IInv, AckIdsAccounted
  <2>7. \A d \in Channels :
          (sent'[d] \cup DOMAIN ackIds'[d]) \cap (acked' \cup dropped') = {}
    BY <1>1, <2>1 DEF IInv, AckIdsAccounted
  <2> QED
    BY <2>2, <2>4, <2>5, <2>6, <2>7 DEF AckIdsAccounted
<1> QED
  BY <1>7, <1>8, <1>10, <1>11, <1>12 DEF Ids

(* A service ends when it has no query.                                    *)
LEMMA ClosedIds ==
  ASSUME IInv, NEW c \in Channels, AckClosed(c) PROVE Ids'
<1>1. /\ ackService[c] = "select"
      /\ ackService' = [ackService EXCEPT ![c] = "ended"]
      /\ UNCHANGED <<conns, service, nextAckId, sent, ackIds, acked, dropped, negatives>>
  BY DEF AckClosed, serverVars
<1>2. AcksOK' /\ AckIdsAccounted'
  BY <1>1, SMTT(30) DEF IInv, TypeInv, AcksOK, AckIdsAccounted
<1>3. RepliesOK'
  BY <1>1, SMTT(30) DEF IInv, RepliesOK, Opened
<1>4. UsedOK'
  BY <1>1 DEF IInv, UsedOK, IsUsed, Delivering, Opened
<1>5. QueriesOK'
  <2>1. Queries(c) = {}
    BY <1>1 DEF IInv, QueriesOK
  <2>2. \A d \in Channels : Queries(d)' = Queries(d)
    BY <1>1 DEF Queries, Opened
  <2>3. \A d \in Channels : d # c => ackService'[d] = ackService[d]
    BY <1>1 DEF IInv, TypeInv, AcksOK
  <2> QED
    BY <1>1, <2>1, <2>2, <2>3, SMTT(30) DEF IInv, QueriesOK
<1> QED
  BY <1>2, <1>3, <1>4, <1>5, SMTT(30) DEF Ids

(* What the end of a query does, whatever was learned: the service has no  *)
(* query then.                                                             *)
LEMMA QueryEnds ==
  ASSUME IInv, NEW c \in Channels, NEW i, NEW s \in {"idle", "closed"},
         EndQuery(c, i, s)
  PROVE  /\ i \in Queries(c) /\ i \in Opened
         /\ UNCHANGED <<service, nextAckId, sent>>
         /\ ackService' \in [Channels -> {"select", "asking", "ended"}]
         /\ RepliesOK'
         /\ Delivering' \subseteq Delivering
         /\ \A k \in Delivering : conns'[k].reply = conns[k].reply
         /\ Queries(c)' = {}
         /\ \A d \in Channels : d # c =>
              /\ Queries(d)' = Queries(d) /\ ackService'[d] = ackService[d]
              /\ \A k \in Queries(d) : conns'[k].request = conns[k].request
<1>1. /\ i \in Queries(c) /\ i \in Opened /\ ConnsOK
      /\ ackService' = [ackService EXCEPT ![c] = "select"]
      /\ UNCHANGED <<service, nextAckId, sent>>
  BY DEF EndQuery, Queries, IInv, TypeInv
<1>2. s \in Clients
  BY DEF Clients
<1>3. /\ Opened' = Opened
      /\ \A k \in Opened :
           /\ conns'[k].client = IF k = i THEN s ELSE conns[k].client
           /\ conns'[k].request = conns[k].request
           /\ conns'[k].reply = conns[k].reply
  BY <1>1, <1>2, ClientSet, ZenonT(40) DEF EndQuery
<1>4. RepliesOK'
  BY <1>1, <1>3 DEF IInv, RepliesOK
<1>5. Delivering' \subseteq Delivering /\ \A k \in Delivering : conns'[k].reply = conns[k].reply
  BY <1>3 DEF Delivering
<1>6. Queries(c)' = {}
  <2>1. Queries(c) = {i}
    BY <1>1 DEF IInv, QueriesOK
  <2>2. Queries(c)' \subseteq Queries(c) \ {i}
    BY <1>3, SMTT(30) DEF Queries
  <2> QED
    BY <2>1, <2>2
<1>7. ASSUME NEW d \in Channels, d # c
      PROVE  /\ Queries(d)' = Queries(d) /\ ackService'[d] = ackService[d]
             /\ \A k \in Queries(d) : conns'[k].request = conns[k].request
  <2>1. i \notin Queries(d)
    BY <1>1, <1>7 DEF Queries
  <2>2. Queries(d)' = Queries(d)
    BY <1>1, <1>3, <2>1 DEF Queries
  <2>3. ackService'[d] = ackService[d]
    BY <1>1, <1>7 DEF IInv, TypeInv, AcksOK
  <2> QED
    BY <1>3, <2>2, <2>3 DEF Queries
<1>8. ackService' \in [Channels -> {"select", "asking", "ended"}]
  BY <1>1 DEF IInv, TypeInv, AcksOK
<1> QED
  BY <1>1, <1>4, <1>5, <1>6, <1>7, <1>8

LEMMA UnlearnedIds ==
  ASSUME IInv, NEW c \in Channels, NEW i, NEW s \in {"idle", "closed"},
         EndQuery(c, i, s), UNCHANGED <<ackIds, acked, dropped, negatives>>
  PROVE  Ids'
<1>1. UNCHANGED <<service, nextAckId, sent>> /\ RepliesOK'
  BY QueryEnds, SMTT(30)
<1>2. AcksOK'
  BY QueryEnds, SMTT(30) DEF IInv, TypeInv, AcksOK
<1>3. AckIdsAccounted'
  BY <1>1 DEF IInv, AckIdsAccounted
<1>4. UsedOK'
  <2>1. \A x : IsUsed(x)' <=> IsUsed(x)
    BY <1>1 DEF IsUsed
  <2>2. Delivering' \subseteq Delivering /\ \A k \in Delivering : conns'[k].reply = conns[k].reply
    BY QueryEnds, SMTT(30)
  <2> QED
    BY <1>1, <2>1, <2>2 DEF IInv, UsedOK
<1>5. QueriesOK'
  <2>1. /\ Queries(c)' = {}
        /\ \A d \in Channels : d # c =>
             /\ Queries(d)' = Queries(d) /\ ackService'[d] = ackService[d]
             /\ \A k \in Queries(d) : conns'[k].request = conns[k].request
    BY QueryEnds
  <2> QED
    BY <2>1 DEF IInv, QueriesOK
<1> QED
  BY <1>1, <1>2, <1>3, <1>4, <1>5, SMTT(30) DEF Ids

(* What an answer teaches: every id the service holds is acknowledged, has *)
(* one retry less, or is dropped.                                          *)
LEMMA AnswerIds ==
  ASSUME IInv, NEW c \in Channels, NEW i, AckAnswer(c, i) PROVE Ids'
<1> DEFINE D == DOMAIN ackIds[c]
           ids == conns[i].reply.ids
           left == D \ ids
           out == TimedOut(c, left)
           table == [id \in left \ out |-> ackIds[c][id] - 1]
<1>1. /\ EndQuery(c, i, "idle") /\ conns[i].reply.kind = "ack"
      /\ acked' = acked \cup ids /\ dropped' = dropped \cup out
      /\ ackIds' = [ackIds EXCEPT ![c] = table]
      /\ negatives' = [id \in DOMAIN negatives \cup left |->
             (IF id \in DOMAIN negatives THEN negatives[id] ELSE 0)
               + (IF id \in left THEN 1 ELSE 0)]
  BY DEF AckAnswer
<1>2. /\ i \in Queries(c) /\ i \in Opened
      /\ UNCHANGED <<service, nextAckId, sent>>
      /\ ackService' \in [Channels -> {"select", "asking", "ended"}]
      /\ RepliesOK'
      /\ Delivering' \subseteq Delivering
      /\ \A k \in Delivering : conns'[k].reply = conns[k].reply
      /\ Queries(c)' = {}
      /\ \A d \in Channels : d # c =>
           /\ Queries(d)' = Queries(d) /\ ackService'[d] = ackService[d]
           /\ \A k \in Queries(d) : conns'[k].request = conns[k].request
  BY <1>1, QueryEnds, SMTT(30)
<1>3. /\ ids \subseteq D /\ ids \in SUBSET Nat
      /\ service = "splunk_hec" => ids = D
  <2>1. conns[i].request.ids = D
    BY <1>2, SMTT(30) DEF IInv, QueriesOK
  <2>2. ids \in SUBSET Nat
    BY <1>1, <1>2, ReplyIds DEF IInv, TypeInv
  <2> QED
    BY <1>1, <1>2, <2>1, <2>2, SMTT(30) DEF IInv, RepliesOK
<1>4. /\ ackIds \in [Channels -> Counts] /\ negatives \in Counts
      /\ acked \in SUBSET Nat /\ dropped \in SUBSET Nat
      /\ sent \in [Channels -> SUBSET Nat]
  BY DEF IInv, TypeInv, AcksOK
<1>5. D \in SUBSET Nat /\ \A id \in D : ackIds[c][id] \in Nat
  <2>1. ackIds[c] \in Counts
    BY <1>4
  <2> QED
    BY <2>1, ZenonT(40) DEF Counts
<1>6. DOMAIN negatives \in SUBSET Nat /\ \A id \in DOMAIN negatives : negatives[id] \in Nat
  <2>1. PICK S \in SUBSET Nat : negatives \in [S -> Nat]
    BY <1>4 DEF Counts
  <2> QED
    BY <2>1
<1>7. /\ out \subseteq left /\ \A id \in out : ackIds[c][id] = 0
      /\ \A id \in left \ out : ackIds[c][id] - 1 \in Nat
  BY <1>5 DEF TimedOut
<1>8. table \in Counts /\ DOMAIN table = left \ out
      /\ \A id \in left \ out : table[id] = ackIds[c][id] - 1
  <2>1. table \in [left \ out -> Nat] /\ left \ out \in SUBSET Nat
    BY <1>5, <1>7, SMTT(30)
  <2>2. DOMAIN table = left \ out /\ \A id \in left \ out : table[id] = ackIds[c][id] - 1
    BY SMTT(30)
  <2> HIDE DEF table, left, out
  <2> QED
    BY <2>1, <2>2, SMTT(30) DEF Counts
<1>9. /\ DOMAIN negatives' = DOMAIN negatives \cup left
      /\ negatives' \in Counts
      /\ \A id \in left : negatives'[id] =
           (IF id \in DOMAIN negatives THEN negatives[id] ELSE 0) + 1
      /\ \A id \in DOMAIN negatives \ left : negatives'[id] = negatives[id]
  <2> HIDE DEF left
  <2>1. left \in SUBSET Nat
    BY <1>5 DEF left
  <2>2. negatives' \in [DOMAIN negatives \cup left -> Nat]
    BY <1>1, <1>6, <2>1
  <2>3. negatives' \in Counts
    BY <1>6, <2>1, <2>2, SMTT(30) DEF Counts
  <2> QED
    BY <1>1, <1>6, <2>3
<1> HIDE DEF table, out, ids
<1>10. \A d \in Channels : ackIds'[d] = IF d = c THEN table ELSE ackIds[d]
  BY <1>1, <1>4, SMTT(30)
<1> HIDE DEF left, D
<1>11. /\ left \subseteq D /\ left = D \ ids /\ D = DOMAIN ackIds[c]
       /\ DOMAIN ackIds'[c] = left \ out
       /\ \A d \in Channels : DOMAIN ackIds'[d] \subseteq DOMAIN ackIds[d]
  BY <1>7, <1>8, <1>10, SMTT(30) DEF left, D
<1>12. AcksOK'
  <2>1. ackIds' \in [Channels -> Counts]
    BY <1>1, <1>4, <1>8, SMTT(30)
  <2>2. acked' \in SUBSET Nat /\ dropped' \in SUBSET Nat
    BY <1>1, <1>3, <1>4, <1>5, <1>7, <1>11, SMTT(30)
  <2> QED
    BY <1>2, <1>4, <1>9, <2>1, <2>2, SMTT(30) DEF AcksOK
<1>13. UsedOK'
  <2>1. \A x \in D : IsUsed(x)
    BY <1>11, SMTT(30) DEF IsUsed
  <2>2. \A x : IsUsed(x)' => IsUsed(x)
    BY <1>1, <1>2, <1>3, <1>7, <1>9, <1>11, <2>1, ZenonT(40) DEF IsUsed
  <2>3. dropped' \subseteq DOMAIN negatives'
    BY <1>1, <1>7, <1>9, SMTT(30) DEF IInv, UsedOK
  <2>4. \A d \in Channels : sent'[d] \cap DOMAIN negatives' = {}
    <3>1. ASSUME NEW d \in Channels PROVE sent[d] \cap D = {}
      <4>1. AckIdsAccounted
        BY DEF IInv
      <4>2. CASE d = c
        BY <4>1, <4>2, Zenon DEF AckIdsAccounted, D
      <4>3. CASE d # c
        <5>1. (sent[d] \cup DOMAIN ackIds[d]) \cap (sent[c] \cup DOMAIN ackIds[c]) = {}
          BY <4>1, <4>3, Zenon DEF AckIdsAccounted
        <5> QED
          BY <5>1, Zenon DEF D
      <4> QED
        BY <4>2, <4>3
    <3>2. sent' = sent /\ DOMAIN negatives' = DOMAIN negatives \cup left /\ left \subseteq D
      BY <1>2, <1>9, <1>11, Zenon
    <3>3. \A d \in Channels : sent[d] \cap DOMAIN negatives = {}
      BY Zenon DEF IInv, UsedOK
    <3> QED
      BY <3>1, <3>2, <3>3, Zenon
  <2> QED
    BY <1>2, <2>2, <2>3, <2>4 DEF IInv, UsedOK
<1>14. QueriesOK'
  <2>1. ASSUME NEW d \in Channels, NEW k \in Queries(d)'
        PROVE  /\ ackService'[d] = "asking"
               /\ conns'[k].request.ids = DOMAIN ackIds'[d]
               /\ \A j \in Queries(d)' : j = k
    <3>1. d # c
      BY <1>2, <2>1, SMTT(30)
    <3>2. /\ Queries(d)' = Queries(d) /\ k \in Queries(d) /\ ackService'[d] = ackService[d]
          /\ conns'[k].request = conns[k].request /\ ackIds'[d] = ackIds[d]
      BY <1>2, <1>10, <2>1, <3>1, SMTT(30)
    <3> QED
      BY <3>2, SMTT(30) DEF IInv, QueriesOK
  <2> QED
    BY <2>1, SMTT(30) DEF QueriesOK
<1>15. AckIdsAccounted'
  <2>1. /\ \A d, e \in Channels : d # e =>
             (sent'[d] \cup DOMAIN ackIds'[d]) \cap (sent'[e] \cup DOMAIN ackIds'[e]) = {}
        /\ \A d \in Channels : sent'[d] \cap DOMAIN ackIds'[d] = {}
    BY <1>2, <1>11 DEF IInv, AckIdsAccounted
  <2>2. ASSUME NEW d \in Channels
        PROVE  (sent'[d] \cup DOMAIN ackIds'[d]) \cap (acked' \cup dropped') = {}
    <3>1. (sent[d] \cup DOMAIN ackIds[d]) \cap (acked \cup dropped) = {}
      BY DEF IInv, AckIdsAccounted
    <3>2. d # c => (sent[d] \cup DOMAIN ackIds[d]) \cap D = {}
      BY <1>11 DEF IInv, AckIdsAccounted
    <3>3. sent[c] \cap D = {}
      BY <1>11 DEF IInv, AckIdsAccounted
    <3> QED
      BY <1>1, <1>2, <1>3, <1>7, <1>11, <3>1, <3>2, <3>3, ZenonT(40)
  <2>3. ASSUME NEW d \in Channels, NEW x \in DOMAIN ackIds'[d]
        PROVE  ackIds'[d][x] + (IF x \in DOMAIN negatives' THEN negatives'[x] ELSE 0) = Retries
    <3>1. /\ x \in DOMAIN ackIds[d]
          /\ ackIds[d][x] + (IF x \in DOMAIN negatives THEN negatives[x] ELSE 0) = Retries
      BY <1>11, <2>3 DEF IInv, AckIdsAccounted
    <3>2. CASE d = c
      <4>1. x \in left /\ x \in left \ out /\ x \in D
        BY <1>11, <2>3, <3>2, SMTT(30)
      <4>2. ackIds'[d][x] = ackIds[c][x] - 1
        BY <1>8, <1>10, <3>2, <4>1
      <4>3. /\ x \in DOMAIN negatives'
            /\ negatives'[x] = (IF x \in DOMAIN negatives THEN negatives[x] ELSE 0) + 1
        BY <1>9, <4>1
      <4>4. /\ ackIds[c][x] \in Nat
            /\ (IF x \in DOMAIN negatives THEN negatives[x] ELSE 0) \in Nat
        BY <1>5, <1>6, <4>1
      <4>5. ackIds[c][x] + (IF x \in DOMAIN negatives THEN negatives[x] ELSE 0) = Retries
        BY <3>1, <3>2
      <4>6. ackIds'[d][x] + negatives'[x] = Retries
        BY <4>2, <4>3, <4>4, <4>5, SMTT(30)
      <4> QED
        BY <4>3, <4>6
    <3>3. CASE d # c
      <4>1. x \notin left
        BY <1>11, <3>1, <3>3, SMTT(30) DEF IInv, AckIdsAccounted
      <4>2. ackIds'[d][x] = ackIds[d][x]
        BY <1>10, <3>3
      <4>3. /\ x \in DOMAIN negatives' <=> x \in DOMAIN negatives
            /\ x \in DOMAIN negatives => negatives'[x] = negatives[x]
        BY <1>9, <4>1
      <4> QED
        BY <3>1, <4>2, <4>3, SMTT(30)
    <3> QED
      BY <3>2, <3>3, SMTT(30)
  <2>4. ASSUME NEW x \in dropped' PROVE negatives'[x] = Retries + 1
    <3>1. CASE x \in dropped
      <4>1. x \in DOMAIN negatives /\ negatives[x] = Retries + 1
        BY <3>1 DEF IInv, UsedOK, AckIdsAccounted
      <4>2. x \notin left
        BY <1>11, <3>1 DEF IInv, AckIdsAccounted
      <4> QED
        BY <1>9, <4>1, <4>2, SMTT(30)
    <3>2. CASE x \in out
      <4>1. x \in left /\ x \in D /\ ackIds[c][x] = 0
        BY <1>7, <1>11, <3>2, SMTT(30)
      <4>2. ackIds[c][x] + (IF x \in DOMAIN negatives THEN negatives[x] ELSE 0) = Retries
        BY <1>11, <4>1 DEF IInv, AckIdsAccounted
      <4>3. negatives'[x] = (IF x \in DOMAIN negatives THEN negatives[x] ELSE 0) + 1
        BY <1>9, <4>1
      <4>4. (IF x \in DOMAIN negatives THEN negatives[x] ELSE 0) \in Nat
        BY <1>6, SMTT(30)
      <4> QED
        BY <4>1, <4>2, <4>3, <4>4
    <3> QED
      BY <1>1, <2>4, <3>1, <3>2
  <2>5. service' = "splunk_hec" => dropped' = {}
    BY <1>1, <1>2, <1>3, <1>7, <1>11, Zenon DEF IInv, AckIdsAccounted
  <2> QED
    BY <2>1, <2>2, <2>3, <2>4, <2>5, SMTT(30) DEF AckIdsAccounted
<1> QED
  BY <1>2, <1>12, <1>13, <1>14, <1>15, SMTT(30) DEF Ids

LEMMA NextIds ==
  ASSUME IInv, [Next]_vars PROVE Ids'
<1>1. CASE ServerNext /\ UNCHANGED generatorVars
  BY <1>1, ServerIds
<1>2. ASSUME UNCHANGED serverVars, UNCHANGED ackVars PROVE Ids'
  <2>1. UNCHANGED <<conns, service, nextAckId>>
    BY <1>2 DEF serverVars
  <2> QED
    BY <1>2, <2>1, ClientsAdvance DEF Opened
<1>3. CASE Throttled \/ SpinShutdown \/ AcquireMany \/ ShutdownSignal
  BY <1>2, <1>3 DEF Throttled, SpinShutdown, AcquireMany, ShutdownSignal, generatorVars
<1>4. CASE SpawnRequest
  BY <1>4, SpawnIds
<1>5. ASSUME NEW i, NEW s \in {"body", "idle", "closed"}, i \in Opened,
             s = "body" => conns[i].client = "response",
             conns' = [conns EXCEPT ![i].client = s],
             UNCHANGED <<ackVars, service, nextAckId>>
      PROVE  Ids'
  <2>1. s \in Clients /\ ConnsOK
    BY DEF Clients, IInv, TypeInv
  <2>2. /\ Opened' = Opened
        /\ \A k \in Opened :
             /\ conns'[k].client = IF k = i THEN s ELSE conns[k].client
             /\ conns'[k].request = conns[k].request
             /\ conns'[k].reply = conns[k].reply
    BY <1>5, <2>1, ClientSet, Zenon
  <2>3. \A k \in Opened :
          /\ conns'[k].client = "response" => conns[k].client = "response"
          /\ conns'[k].client = "body" => conns[k].client \in {"response", "body"}
    BY <1>5, <2>2
  <2> QED
    BY <1>5, <2>2, <2>3, ClientsAdvance
<1>6. ASSUME NEW i \in ConnIds, TaskStep(i) \/ CloseIdle(i) PROVE Ids'
  <2>1. CASE BodyParsed(i)
    BY <2>1, BodyIds
  <2>2. CASE CloseIdle(i)
    BY <1>5, <2>2, Zenon DEF CloseIdle, generatorVars
  <2>3. ASSUME NEW s \in {"idle", "closed"}, EndTask(i, s), i \in Tasks, UNCHANGED ackVars
        PROVE  Ids'
    BY <1>5, <2>3, Zenon DEF EndTask, Tasks
  <2>4. CASE Response(i)
    <3>1. CASE generator = "http" /\ EndTask(i, "idle")
      BY <2>3, <2>4, <3>1 DEF Response
    <3>2. CASE /\ conns' = [conns EXCEPT ![i].client = "body"]
               /\ UNCHANGED <<service, nextAckId>>
      BY <1>5, <2>4, <3>2, Zenon DEF Response, Tasks
    <3> QED
      BY <2>4, <3>1, <3>2 DEF Response
  <2>5. CASE RequestFails(i) \/ RequestTimeout(i) \/ RequestShutdown(i)
    BY <2>3, <2>5 DEF RequestFails, RequestTimeout, RequestShutdown
  <2>6. CASE BodyPanics(i) \/ BodyFails(i)
    BY <2>3, <2>6 DEF BodyPanics, BodyFails
  <2> QED
    BY <1>6, <2>1, <2>2, <2>4, <2>5, <2>6 DEF TaskStep
<1>7. ASSUME NEW c \in Channels, AckStep(c) \/ AckQuery(c) PROVE Ids'
  <2>1. CASE AckQuery(c)
    BY <2>1, QueryIds
  <2>2. CASE AckReceive(c)
    BY <2>2, ReceiveIds
  <2>3. CASE AckClosed(c)
    BY <2>3, ClosedIds
  <2>4. ASSUME NEW i, AckAnswer(c, i) PROVE Ids'
    BY <2>4, AnswerIds, SMTT(30)
  <2>5. ASSUME NEW i, AckFails(c, i) \/ AckUnparsed(c, i) \/ AckTimeout(c, i) PROVE Ids'
    BY <2>5, UnlearnedIds DEF AckFails, AckUnparsed, AckTimeout
  <2> QED
    BY <1>7, <2>1, <2>2, <2>3, <2>4, <2>5 DEF AckStep
<1>8. CASE UNCHANGED vars
  BY <1>2, <1>8 DEF vars, generatorVars
<1> QED
  BY <1>1, <1>3, <1>4, <1>6, <1>7, <1>8 DEF Next

LEMMA InitIInv == Init => IInv
<1> SUFFICES ASSUME Init PROVE IInv
  OBVIOUS
<1>1. Opened = {} /\ conns = <<>> /\ nextAckId = 0
  BY DEF Init, InitServer, Opened
<1>2. [id \in {} |-> 0] \in Counts /\ DOMAIN [id \in {} |-> 0] = {}
  <2>1. [id \in {} |-> 0] \in [{} -> Nat] /\ {} \in SUBSET Nat
    OBVIOUS
  <2> QED
    BY <2>1 DEF Counts
<1> DEFINE none == [id \in {} |-> 0]
<1>3. /\ ackIds = [c \in Channels |-> none] /\ negatives = none
      /\ acked = {} /\ dropped = {} /\ sent = [c \in Channels |-> {}]
      /\ permits = ParallelConnections /\ channel = 1
  BY DEF Init
<1>4. ackService \in [Channels -> {"select", "asking", "ended"}]
  BY DEF Init
<1>5. none \in Counts /\ DOMAIN none = {}
  BY <1>2
<1> HIDE DEF none
<1>6. AcksOK
  BY <1>3, <1>4, <1>5 DEF AcksOK
<1>7. TypeInv
  <2>1. ConnsOK
    BY <1>1 DEF ConnsOK
  <2> QED
    BY <1>1, <1>3, <1>6, <2>1, HttpGeneratorAssumption DEF TypeInv, Channels
<1>8. PermitsAccounted
  <2>1. Tasks = {}
    BY <1>1 DEF Tasks
  <2>2. Cardinality(Tasks) = 0
    BY <2>1, FS_EmptySet
  <2> QED
    BY <1>3, <2>2, HttpGeneratorAssumption DEF PermitsAccounted
<1>9. RepliesOK /\ QueriesOK
  BY <1>1 DEF RepliesOK, QueriesOK, Queries
<1>10. \A id : ~IsUsed(id)
  BY <1>3, <1>5, SMTT(30) DEF IsUsed
<1>11. UsedOK
  BY <1>1, <1>3, <1>5, <1>10 DEF UsedOK, Delivering
<1>12. AckIdsAccounted
  BY <1>3, <1>5 DEF AckIdsAccounted
<1> QED
  BY <1>7, <1>8, <1>9, <1>11, <1>12 DEF IInv

LEMMA NextIInv == IInv /\ [Next]_vars => IInv'
<1> SUFFICES ASSUME IInv, [Next]_vars PROVE IInv'
  OBVIOUS
<1>1. Permits'
  BY NextPermits DEF IInv
<1>2. Ids'
  BY NextIds
<1> QED
  BY <1>1, <1>2 DEF Permits, Base, Ids, IInv, TypeInv

LEMMA Invariance == Spec => []IInv
<1> QED
  BY InitIInv, NextIInv, PTL DEF Spec
-----------------------------------------------------------------------------
(* PermitsAccounted of HttpGenerator for every number of connections: no   *)
(* way a request of generator/http.rs or generator/splunk_hec.rs can end   *)
(* loses or doubles its permit.                                            *)
THEOREM PermitsComeBack == Spec => []PermitsAccounted
<1>1. IInv => PermitsAccounted
  BY DEF IInv
<1> QED
  BY <1>1, Invariance, PTL

(* parallel_connections bounds the requests under way, whatever the server *)
(* does with them.                                                         *)
THEOREM ParallelismIsBounded == Spec => [](Cardinality(Tasks) <= ParallelConnections)
<1>1. IInv => Cardinality(Tasks) <= ParallelConnections
  <2> SUFFICES ASSUME IInv PROVE Cardinality(Tasks) <= ParallelConnections
    OBVIOUS
  <2>1. IsFiniteSet(Tasks)
    BY TasksAreFinite DEF IInv, TypeInv
  <2>2. Cardinality(Tasks) \in Nat
    BY <2>1, FS_CardinalityType
  <2> QED
    BY <2>2, HttpGeneratorAssumption DEF IInv, TypeInv, PermitsAccounted
<1> QED
  BY <1>1, Invariance, PTL

(* AckIdsAccounted of HttpGenerator for every number of channels and of    *)
(* retries: an id of splunk_hec/acknowledgements.rs is acknowledged,       *)
(* pending or dropped, never two of these, and dropped by the answer after *)
(* its last retry only.                                                    *)
THEOREM AckIdsAreSettledOnce == Spec => []AckIdsAccounted
<1>1. IInv => AckIdsAccounted
  BY DEF IInv
<1> QED
  BY <1>1, Invariance, PTL
=============================================================================
