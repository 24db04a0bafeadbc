---------------------------- MODULE HarnessProofs ---------------------------
(***************************************************************************)
(* That an integration test is told the truth, for any number of requests  *)
(* of any size: both properties of module Harness, by one inductive        *)
(* invariant.  It adds where the test stands when lading may run, what the *)
(* counters mean while requests are on their way, and, for datagrams, that *)
(* the bytes on their way are still to be counted.                         *)
(***************************************************************************)
EXTENDS Harness, FiniteSetTheorems, TLAPS

Stages == {"none", "sent", "reading", "counting", "dropped", "counted", "answered",
           "unheard", "lost"}
Counters == [set : BOOLEAN, count : Nat, bytes : Nat]

TypeInv ==
  /\ counters \in Counters
  /\ reported \in Counters
  /\ request \in [Requests -> [at : Stages, size : Nat, left : Nat, buffer : Nat]]
  /\ sent \in Nat

(* lading runs between the answers to start_test and get_metrics, once.    *)
Phases ==
  /\ test \in {"new", "waiting", "connecting"} => lading = "none" /\ call = "none"
  /\ call = "start_test" => lading = "none"
  /\ call = "get_metrics" => lading = "exited"
  /\ lading = "none" => ~reported.set
  /\ reported.set => lading = "exited"

At(stages) == {r \in Requests : request[r].at \in stages}
Seen == At({"counted", "answered", "unheard"})

HttpCounted == listen = "Http" => counters.count = Cardinality(Seen)

(* The bytes of the datagrams on their way.                                *)
Flight == {u \in Requests \X (Nat \ {0}) :
             request[u[1]].at = "sent" /\ u[2] <= request[u[1]].size}

UdpCounted ==
  listen = "Udp" =>
    IsFiniteSet(Flight) /\ counters.bytes + Cardinality(Flight) <= sent

TcpCounted == listen = "Tcp" => counters.bytes + Cardinality(Uncounted) = sent

(* What a connection holds has been sent, and one that is not made holds   *)
(* nothing.                                                                *)
Held ==
  \A r \in Requests :
    /\ request[r].left + request[r].buffer <= sent
    /\ request[r].at = "none" => request[r].left = 0 /\ request[r].buffer = 0

ReportedSent == listen \in {"Tcp", "Udp"} => reported.bytes <= sent

IInv ==
  /\ TypeInv /\ Phases /\ Held
  /\ HttpCounted /\ UdpCounted /\ TcpCounted
  /\ AnsweredIsReported /\ ReportedSent
-----------------------------------------------------------------------------
(* Bytes of one message, as the members of a set: each has its place.      *)
LEMMA PlacesOfOne ==
  ASSUME NEW r, NEW S, IsFiniteSet(S)
  PROVE  IsFiniteSet({r} \X S) /\ Cardinality({r} \X S) = Cardinality(S)
<1>1. IsFiniteSet({r}) /\ Cardinality({r}) = 1
  BY FS_Singleton
<1>2. IsFiniteSet({r} \X S) /\ Cardinality({r} \X S) = 1 * Cardinality(S)
  BY <1>1, FS_Product
<1>3. Cardinality(S) \in Nat
  BY FS_CardinalityType
<1> QED
  BY <1>2, <1>3

LEMMA MessageBytes ==
  ASSUME NEW r, NEW size \in Nat
  PROVE  IsFiniteSet({r} \X (1..size)) /\ Cardinality({r} \X (1..size)) = size
<1>1. IsFiniteSet(1..size) /\ Cardinality(1..size) = size
  BY FS_Interval
<1> QED
  BY <1>1, PlacesOfOne, Zenon

LEMMA DisjointUnion ==
  ASSUME NEW S, NEW T, IsFiniteSet(S), IsFiniteSet(T), S \cap T = {}
  PROVE  /\ IsFiniteSet(S \cup T)
         /\ Cardinality(S \cup T) = Cardinality(S) + Cardinality(T)
<1>1. Cardinality(S) \in Nat /\ Cardinality(T) \in Nat
  BY FS_CardinalityType
<1>2. Cardinality(S \cap T) = 0
  BY FS_EmptySet
<1>3. /\ IsFiniteSet(S \cup T)
      /\ Cardinality(S \cup T) = Cardinality(S) + Cardinality(T) - Cardinality(S \cap T)
  BY FS_Union, Zenon
<1> DEFINE both == Cardinality(S \cup T)
           shared == Cardinality(S \cap T)
<1>4. both = Cardinality(S) + Cardinality(T) - shared /\ shared = 0
  BY <1>2, <1>3
<1>5. both = Cardinality(S) + Cardinality(T)
  <2> HIDE DEF both, shared
  <2> QED
    BY <1>1, <1>4
<1> QED
  BY <1>3, <1>5

LEMMA PartRemoved ==
  ASSUME NEW S, NEW T, IsFiniteSet(S), T \subseteq S
  PROVE  /\ IsFiniteSet(S \ T)
         /\ Cardinality(S \ T) = Cardinality(S) - Cardinality(T)
<1>1. S \cap T = T
  OBVIOUS
<1> QED
  BY <1>1, FS_Difference

(* What Count does to the counters.                                        *)
LEMMA CountCounters ==
  ASSUME counters \in Counters, NEW n \in Nat
  PROVE  /\ Count(n) \in Counters
         /\ Count(n).bytes = counters.bytes + n
         /\ Count(n).count = counters.count + 1
<1>1. \A k, b \in Nat : [counters EXCEPT !.count = k, !.bytes = b] \in Counters
  BY Zenon DEF Counters
<1>2. counters.count + 1 \in Nat /\ counters.bytes + n \in Nat
  BY DEF Counters
<1>3. Count(n) \in Counters
  BY <1>1, <1>2, Zenon DEF Count
<1>4. Count(n).bytes = counters.bytes + n /\ Count(n).count = counters.count + 1
  BY DEF Count, Counters
<1> QED
  BY <1>3, <1>4

LEMMA FiniteStages == \A S \in SUBSET Requests : IsFiniteSet(S) /\ Cardinality(S) \in Nat
BY HarnessAssumption, FS_Subset, FS_CardinalityType

LEMMA InitIInv == Init => IInv
<1> SUFFICES ASSUME Init PROVE IInv
  OBVIOUS
<1>1. TypeInv
  BY DEF Init, TypeInv, Counters, Unset, Unmade, Stages
<1>2. Phases
  BY DEF Init, Phases, Unset
<1>3. Seen = {} /\ Flight = {}
  BY DEF Init, Seen, At, Flight, Unmade
<1>4. Uncounted = {}
  BY DEF Init, Uncounted, Unmade
<1>5. HttpCounted /\ UdpCounted /\ TcpCounted
  BY <1>3, <1>4, FS_EmptySet DEF Init, HttpCounted, UdpCounted, TcpCounted, Unset
<1>6. AnsweredIsReported /\ ReportedSent
  BY DEF Init, AnsweredIsReported, ReportedSent, Unset
<1>7. Held
  BY DEF Init, Held, Unmade
<1> QED
  BY <1>1, <1>2, <1>5, <1>6, <1>7 DEF IInv
-----------------------------------------------------------------------------
LEMMA NextTypeInv == TypeInv /\ [Next]_vars => TypeInv'
<1> SUFFICES ASSUME TypeInv, [Next]_vars PROVE TypeInv'
  OBVIOUS
<1> USE DEF TypeInv
<1>1. ASSUME UNCHANGED <<counters, netVars>>, reported' = reported \/ reported' = counters
      PROVE  TypeInv'
  BY <1>1 DEF netVars
<1>2. CASE TestNext \/ TestTimesOut
  BY <1>1, <1>2 DEF TestNext, TestTimesOut, LaunchDucks, LaunchFails,
     SocketExists, Connect, RunLading, RunInnerFails, LadingExited, RequestShutdown, JoinDucks,
     CallFails, TestPasses, ducksVars
<1>3. CASE DucksNext \/ BindFails \/ DucksTimesOut
  BY <1>1, <1>3 DEF DucksNext, BindFails, DucksTimesOut, Bind, Serve, StartTest,
     StartTestFails, GetMetrics, ShutdownRpc, AnswerShutdown, DucksExits, DucksMoves
<1>4. CASE Listen \/ ListenFails
  BY <1>4, Zenon DEF Listen, ListenFails, ListenerMoves, netVars, Counters
<1>5. ASSUME NEW r \in Requests, TcpRead(r)
      PROVE  TypeInv'
  <2>1. PICK n \in 0..request[r].left :
          request' = [request EXCEPT ![r].at = "counting", ![r].left = @ - n,
                                     ![r].buffer = @ + n]
    BY <1>5 DEF TcpRead
  <2>2. request[r].left - n \in Nat /\ request[r].buffer + n \in Nat
    OBVIOUS
  <2>3. \A a, b \in Nat :
          [request EXCEPT ![r].at = "counting", ![r].left = a, ![r].buffer = b]
            \in [Requests -> [at : Stages, size : Nat, left : Nat, buffer : Nat]]
    BY Zenon DEF Stages
  <2>4. request' \in [Requests -> [at : Stages, size : Nat, left : Nat, buffer : Nat]]
    BY <2>1, <2>2, <2>3, Zenon
  <2> QED
    BY <1>5, <2>4 DEF TcpRead, ListenerMoves
<1>6. ASSUME NEW r \in Requests, TcpCount(r)
      PROVE  TypeInv'
  <2>1. request[r].buffer \in Nat
    OBVIOUS
  <2>2. counters' \in Counters
    BY <1>6, <2>1, CountCounters DEF TcpCount
  <2>3. request' \in [Requests -> [at : Stages, size : Nat, left : Nat, buffer : Nat]]
    BY <1>6 DEF TcpCount, Stages
  <2> QED
    BY <1>6, <2>2, <2>3 DEF TcpCount, ListenerMoves
<1>7. ASSUME NEW r \in Requests, HttpRequest(r) \/ UdpReceive(r)
      PROVE  TypeInv'
  <2>1. request[r].size \in Nat /\ Least(request[r].size, DatagramMax) \in Nat
    BY HarnessAssumption DEF Least
  <2>2. counters' \in Counters
    <3>1. CASE HttpRequest(r)
      <4>1. counters' = [set |-> counters.set, count |-> counters.count + 1,
                         bytes |-> request[r].size]
        BY <3>1, Zenon DEF HttpRequest, Counters
      <4>2. counters.set \in BOOLEAN /\ counters.count + 1 \in Nat
        BY DEF Counters
      <4> QED
        BY <2>1, <4>1, <4>2, Zenon DEF Counters
    <3>2. CASE UdpReceive(r)
      BY <2>1, <3>2, CountCounters DEF UdpReceive
    <3> QED
      BY <1>7, <3>1, <3>2
  <2>3. request' \in [Requests -> [at : Stages, size : Nat, left : Nat, buffer : Nat]]
    BY <1>7 DEF HttpRequest, UdpReceive, Stages
  <2> QED
    BY <1>7, <2>2, <2>3 DEF HttpRequest, UdpReceive, ListenerMoves
<1>8. ASSUME NEW r \in Requests,
             HttpAnswer(r) \/ UdpDrop(r) \/ TcpAccept(r) \/ TcpReadFails(r)
      PROVE  TypeInv'
  BY <1>8 DEF HttpAnswer, UdpDrop, TcpAccept, TcpReadFails, ListenerMoves, Stages
<1>9. ASSUME NEW r \in Requests, NEW size \in Sizes, LadingSends(r, size)
      PROVE  TypeInv'
  BY <1>9, HarnessAssumption DEF LadingSends, LadingMoves, ducksVars, Stages
<1>10. CASE LadingExits
  BY <1>1, <1>10 DEF LadingExits, LadingMoves, ducksVars
<1>11. CASE UNCHANGED vars
  BY <1>1, <1>11 DEF vars, ducksVars
<1> QED
  BY <1>2, <1>3, <1>4, <1>5, <1>6, <1>7, <1>8, <1>9, <1>10, <1>11
  DEF Next, ListenerNext

LEMMA NextPhases == TypeInv /\ Phases /\ [Next]_vars => Phases'
<1> SUFFICES ASSUME TypeInv, Phases, [Next]_vars PROVE Phases'
  OBVIOUS
<1> USE DEF Phases
<1>1. CASE TestNext \/ TestTimesOut
  BY <1>1 DEF TestNext, TestTimesOut, LaunchDucks, LaunchFails, SocketExists,
     Connect, Call, RunLading, RunInnerFails, LadingExited, RequestShutdown, JoinDucks,
     CallFails, TestPasses, Running
<1>2. CASE DucksNext \/ BindFails \/ DucksTimesOut
  BY <1>2, SMTT(30) DEF DucksNext, BindFails, DucksTimesOut, Bind, Serve, StartTest,
     StartTestFails, GetMetrics, Serving, ShutdownRpc, AnswerShutdown, DucksExits, DucksMoves
<1>3. CASE ListenerNext
  BY <1>3, Zenon DEF ListenerNext, Listen, ListenFails, TcpAccept, TcpRead,
     TcpCount, TcpReadFails, HttpRequest, HttpAnswer, UdpReceive, UdpDrop,
     ListenerMoves
<1>4. CASE (\E r \in Requests, size \in Sizes : LadingSends(r, size)) \/ LadingExits
  BY <1>4 DEF LadingSends, LadingExits, LadingMoves
<1>5. CASE UNCHANGED vars
  BY <1>5 DEF vars
<1> QED
  BY <1>1, <1>2, <1>3, <1>4, <1>5 DEF Next

(* The steps that change no counter and nothing on its way.                *)
LEMMA QuietStep ==
  ASSUME IInv, UNCHANGED <<listen, netVars>>, counters'.count = counters.count,
         counters'.bytes = counters.bytes
  PROVE  HttpCounted' /\ UdpCounted' /\ TcpCounted'
BY DEF IInv, HttpCounted, UdpCounted, TcpCounted, Seen, At, Flight, Uncounted, netVars

LEMMA NextHeld == TypeInv /\ Held /\ [Next]_vars => Held'
<1> SUFFICES ASSUME TypeInv, Held, [Next]_vars PROVE Held'
  OBVIOUS
<1> USE DEF TypeInv
<1>1. ASSUME UNCHANGED <<request, sent>>
      PROVE  Held'
  BY <1>1 DEF Held
<1>2. ASSUME NEW r \in Requests, NEW stage, stage # "none", sent' = sent,
             request' = [request EXCEPT ![r].at = stage]
      PROVE  Held'
  BY <1>2 DEF Held
<1>3. CASE TestNext \/ TestTimesOut
  BY <1>1, <1>3 DEF TestNext, TestTimesOut, LaunchDucks, LaunchFails,
     SocketExists, Connect, RunLading, RunInnerFails, LadingExited, RequestShutdown,
     JoinDucks, CallFails, TestPasses, netVars
<1>4. CASE DucksNext \/ BindFails \/ DucksTimesOut
  BY <1>1, <1>4 DEF DucksNext, BindFails, DucksTimesOut, Bind, Serve, StartTest,
     StartTestFails, GetMetrics, ShutdownRpc, AnswerShutdown, DucksExits, DucksMoves,
     netVars
<1>5. CASE Listen \/ ListenFails \/ LadingExits \/ UNCHANGED vars
  BY <1>1, <1>5 DEF Listen, ListenFails, LadingExits, vars, netVars
<1>6. ASSUME NEW r \in Requests,
             \/ HttpRequest(r) \/ HttpAnswer(r) \/ UdpReceive(r) \/ UdpDrop(r)
             \/ TcpAccept(r) \/ TcpReadFails(r)
      PROVE  Held'
  BY <1>2, <1>6 DEF HttpRequest, HttpAnswer, UdpReceive, UdpDrop, TcpAccept, TcpReadFails
<1>7. ASSUME NEW r \in Requests, TcpRead(r)
      PROVE  Held'
  <2>1. PICK n \in 0..request[r].left :
          request' = [request EXCEPT ![r].at = "counting", ![r].left = @ - n,
                                     ![r].buffer = @ + n]
    BY <1>7 DEF TcpRead
  <2> QED
    BY <1>7, <2>1 DEF TcpRead, Held
<1>8. ASSUME NEW r \in Requests, TcpCount(r)
      PROVE  Held'
  BY <1>8 DEF TcpCount, Held
<1>9. ASSUME NEW r \in Requests, NEW size \in Sizes, LadingSends(r, size)
      PROVE  Held'
  BY <1>9, HarnessAssumption DEF LadingSends, Held
<1> QED
  BY <1>3, <1>4, <1>5, <1>6, <1>7, <1>8, <1>9 DEF Next, ListenerNext

(* There are finitely many bytes to be counted.                            *)
LEMMA UncountedFinite ==
  ASSUME TypeInv
  PROVE  IsFiniteSet(Uncounted) /\ Cardinality(Uncounted) \in Nat
<1>1. IsFiniteSet(1..sent)
  BY FS_Interval DEF TypeInv
<1>2. IsFiniteSet(Requests \X (1..sent))
  BY <1>1, HarnessAssumption, FS_Product
<1>3. Uncounted \subseteq Requests \X (1..sent)
  BY DEF Uncounted
<1>4. IsFiniteSet(Uncounted)
  BY <1>2, <1>3, FS_Subset
<1> QED
  BY <1>4, FS_CardinalityType

LEMMA NextCounted == IInv /\ [Next]_vars => HttpCounted' /\ UdpCounted' /\ TcpCounted'
<1> SUFFICES ASSUME IInv, [Next]_vars PROVE HttpCounted' /\ UdpCounted' /\ TcpCounted'
  OBVIOUS
<1> USE DEF IInv
<1>1. CASE TestNext \/ TestTimesOut
  BY <1>1, QuietStep DEF TestNext, TestTimesOut, LaunchDucks, LaunchFails,
     SocketExists, Connect, RunLading, RunInnerFails, LadingExited, RequestShutdown, JoinDucks,
     CallFails, TestPasses, ducksVars
<1>2. CASE DucksNext \/ BindFails \/ DucksTimesOut
  BY <1>2, QuietStep DEF DucksNext, BindFails, DucksTimesOut, Bind, Serve,
     StartTest, StartTestFails, GetMetrics, ShutdownRpc, AnswerShutdown, DucksExits, DucksMoves
<1>3. CASE Listen \/ ListenFails
  BY <1>3, QuietStep DEF Listen, ListenFails, ListenerMoves, TypeInv, Counters
<1>4. ASSUME NEW r \in Requests, TcpAccept(r) \/ TcpRead(r) \/ TcpReadFails(r)
      PROVE  HttpCounted' /\ UdpCounted' /\ TcpCounted'
  <2>1. listen = "Tcp" /\ listen' = "Tcp" /\ sent' = sent /\ counters' = counters
    BY <1>4 DEF TcpAccept, TcpRead, TcpReadFails, ListenerMoves
  <2>2. \A q \in Requests : request'[q].left + request'[q].buffer
                             = request[q].left + request[q].buffer
    <3>1. CASE TcpRead(r)
      <4>1. PICK n \in 0..request[r].left :
              request' = [request EXCEPT ![r].at = "counting", ![r].left = @ - n,
                                         ![r].buffer = @ + n]
        BY <3>1 DEF TcpRead
      <4> QED
        BY <4>1 DEF TypeInv
    <3>2. CASE TcpAccept(r) \/ TcpReadFails(r)
      BY <3>2 DEF TcpAccept, TcpReadFails, TypeInv
    <3> QED
      BY <1>4, <3>1, <3>2
  <2>3. Uncounted' = Uncounted
    BY <2>1, <2>2 DEF Uncounted
  <2> QED
    BY <2>1, <2>3 DEF HttpCounted, UdpCounted, TcpCounted
<1>5. ASSUME NEW r \in Requests, TcpCount(r)
      PROVE  HttpCounted' /\ UdpCounted' /\ TcpCounted'
  <2> DEFINE left == request[r].left
             buffer == request[r].buffer
             bytes == {r} \X ((left + 1)..(left + buffer))
  <2>1. /\ listen = "Tcp" /\ listen' = "Tcp" /\ sent' = sent
        /\ counters' = Count(request[r].buffer)
    BY <1>5 DEF TcpCount, ListenerMoves
  <2>2. left \in Nat /\ buffer \in Nat /\ left + buffer <= sent /\ sent \in Nat
    BY DEF TypeInv, Held
  <2>3. counters'.bytes = counters.bytes + buffer
    BY <2>1, <2>2, CountCounters DEF TypeInv
  <2>4. IsFiniteSet(bytes) /\ Cardinality(bytes) = buffer
    <3> DEFINE first == left + 1
               last == left + buffer
               places == first..last
    <3>1. /\ first \in Int /\ last \in Int
          /\ (IF first > last THEN 0 ELSE last - first + 1) = buffer
      <4> HIDE DEF left, buffer
      <4> QED
        BY <2>2
    <3>2. IsFiniteSet(places) /\ Cardinality(places) = buffer
      <4> HIDE DEF first, last, buffer
      <4>1. /\ IsFiniteSet(places)
            /\ Cardinality(places) = IF first > last THEN 0 ELSE last - first + 1
        BY <3>1, FS_Interval, Zenon
      <4> QED
        BY <3>1, <4>1, Zenon
    <3> HIDE DEF places
    <3>3. IsFiniteSet({r} \X places) /\ Cardinality({r} \X places) = buffer
      BY <3>2, PlacesOfOne, Zenon
    <3> QED
      BY <3>3, Zenon DEF places
  <2>5. /\ request'[r].left = left /\ request'[r].buffer = 0
        /\ \A q \in Requests \ {r} : request'[q] = request[q]
    BY <1>5 DEF TcpCount, TypeInv
  <2>6. Uncounted' = Uncounted \ bytes
    <3>1. ASSUME NEW q \in Requests, NEW i \in 1..sent
          PROVE  i <= request'[q].left + request'[q].buffer
                 <=> /\ i <= request[q].left + request[q].buffer
                     /\ ~(q = r /\ i \in (left + 1)..(left + buffer))
      BY <2>2, <2>5 DEF TypeInv
    <3> QED
      BY <2>1, <3>1 DEF Uncounted
  <2>7. bytes \subseteq Uncounted
    BY <2>2 DEF Uncounted
  <2>8. IsFiniteSet(Uncounted) /\ Cardinality(Uncounted) \in Nat
    BY UncountedFinite
  <2>9. Cardinality(Uncounted') = Cardinality(Uncounted) - buffer
    <3> HIDE DEF bytes
    <3> QED
      BY <2>4, <2>6, <2>7, <2>8, PartRemoved
  <2>10. counters'.bytes + Cardinality(Uncounted') = sent'
    <3>1. counters.bytes + Cardinality(Uncounted) = sent /\ counters.bytes \in Nat
      BY <2>1 DEF TcpCounted, TypeInv, Counters
    <3> QED
      BY <2>1, <2>2, <2>3, <2>8, <2>9, <3>1
  <2> QED
    BY <2>1, <2>10 DEF HttpCounted, UdpCounted, TcpCounted
<1>6. ASSUME NEW r \in Requests, HttpRequest(r)
      PROVE  HttpCounted' /\ UdpCounted' /\ TcpCounted'
  <2>1. listen = "Http" /\ listen' = "Http"
    BY <1>6 DEF HttpRequest, ListenerMoves
  <2>2. r \notin Seen /\ Seen' = Seen \cup {r}
    BY <1>6 DEF HttpRequest, Seen, At, TypeInv
  <2>3. Cardinality(Seen') = Cardinality(Seen) + 1
    BY <2>2, FS_AddElement, FiniteStages, Zenon DEF Seen, At
  <2>4. counters'.count = counters.count + 1
    BY <1>6 DEF HttpRequest, TypeInv, Counters
  <2> QED
    BY <2>1, <2>3, <2>4 DEF HttpCounted, UdpCounted, TcpCounted
<1>7. ASSUME NEW r \in Requests, HttpAnswer(r)
      PROVE  HttpCounted' /\ UdpCounted' /\ TcpCounted'
  <2>1. listen = "Http" /\ listen' = "Http" /\ counters' = counters
    BY <1>7 DEF HttpAnswer, ListenerMoves
  <2>2. Seen' = Seen
    BY <1>7 DEF HttpAnswer, Seen, At, TypeInv
  <2> QED
    BY <2>1, <2>2 DEF HttpCounted, UdpCounted, TcpCounted
<1>8. ASSUME NEW r \in Requests, UdpReceive(r) \/ UdpDrop(r)
      PROVE  HttpCounted' /\ UdpCounted' /\ TcpCounted'
  <2> DEFINE bytes == {r} \X (1..request[r].size)
  <2>1. listen = "Udp" /\ listen' = "Udp" /\ sent' = sent /\ request[r].at = "sent"
    BY <1>8 DEF UdpReceive, UdpDrop, ListenerMoves
  <2>2. request[r].size \in Nat
    BY DEF TypeInv
  <2>3. counters'.bytes <= counters.bytes + request[r].size /\ counters'.bytes \in Nat
    <3>1. CASE UdpReceive(r)
      <4>1. Least(request[r].size, DatagramMax) \in Nat
            /\ Least(request[r].size, DatagramMax) <= request[r].size
        BY <2>2, HarnessAssumption DEF Least
      <4> QED
        BY <2>2, <3>1, <4>1, CountCounters DEF UdpReceive, TypeInv, Counters
    <3>2. CASE UdpDrop(r)
      BY <2>2, <3>2 DEF UdpDrop, TypeInv, Counters
    <3> QED
      BY <1>8, <3>1, <3>2
  <2>4. IsFiniteSet(bytes) /\ Cardinality(bytes) = request[r].size
    BY <2>2, MessageBytes, Zenon
  <2>5. Flight' = Flight \ bytes
    <3>1. \A q \in Requests : /\ request'[q].size = request[q].size
                              /\ request'[q].at = "sent" <=> request[q].at = "sent" /\ q # r
      BY <1>8 DEF UdpReceive, UdpDrop, TypeInv
    <3> QED
      BY <2>2, <3>1 DEF Flight
  <2>6. bytes \subseteq Flight
    BY <2>1, <2>2 DEF Flight
  <2>7. IsFiniteSet(Flight) /\ Cardinality(Flight) \in Nat
    BY <2>1, FS_CardinalityType DEF UdpCounted
  <2>8. IsFiniteSet(Flight') /\ Cardinality(Flight') = Cardinality(Flight) - request[r].size
    <3> HIDE DEF bytes
    <3> QED
      BY <2>4, <2>5, <2>6, <2>7, PartRemoved
  <2>9. counters'.bytes + Cardinality(Flight') <= sent'
    <3>1. counters.bytes + Cardinality(Flight) <= sent
      BY <2>1 DEF UdpCounted
    <3>2. counters.bytes \in Nat /\ sent \in Nat
      BY DEF TypeInv, Counters
    <3> QED
      BY <2>1, <2>2, <2>3, <2>7, <2>8, <3>1, <3>2
  <2> QED
    BY <2>1, <2>8, <2>9 DEF HttpCounted, UdpCounted, TcpCounted
<1>9. ASSUME NEW r \in Requests, NEW size \in Sizes, LadingSends(r, size)
      PROVE  HttpCounted' /\ UdpCounted' /\ TcpCounted'
  <2> DEFINE bytes == {r} \X (1..size)
  <2>1. size \in Nat /\ listen' = listen /\ counters' = counters /\ sent' = sent + size
        /\ request[r].at = "none"
    BY <1>9, HarnessAssumption DEF LadingSends, LadingMoves, ducksVars
  <2>2. HttpCounted'
    <3>1. Seen' = Seen
      BY <1>9, <2>1 DEF LadingSends, Seen, At, TypeInv
    <3> QED
      BY <2>1, <3>1 DEF HttpCounted
  <2>3. ASSUME listen = "Tcp"
        PROVE  counters'.bytes + Cardinality(Uncounted') = sent'
    <3>1. /\ request'[r].left = size /\ request'[r].buffer = 0
          /\ \A q \in Requests \ {r} : request'[q] = request[q]
      BY <1>9, <2>3 DEF LadingSends, TypeInv
    <3>2. sent \in Nat /\ request[r].left = 0 /\ request[r].buffer = 0
      BY <2>1 DEF TypeInv, Held
    <3>3. Uncounted' = Uncounted \cup bytes /\ Uncounted \cap bytes = {}
      <4>1. \A q \in Requests, i \in 1..sent' :
              i <= request'[q].left + request'[q].buffer
              <=> \/ i \in 1..sent /\ i <= request[q].left + request[q].buffer
                  \/ q = r /\ i \in 1..size
        BY <2>1, <3>1, <3>2 DEF TypeInv, Held
      <4>2. 1..sent \subseteq 1..sent' /\ 1..size \subseteq 1..sent'
        BY <2>1, <3>2
      <4>3. Uncounted' = Uncounted \cup bytes
        BY <4>1, <4>2, Zenon DEF Uncounted
      <4>4. Uncounted \cap bytes = {}
        BY <2>1, <3>2 DEF Uncounted
      <4> QED
        BY <4>3, <4>4
    <3>4. IsFiniteSet(bytes) /\ Cardinality(bytes) = size
      BY <2>1, MessageBytes, Zenon
    <3>5. IsFiniteSet(Uncounted) /\ Cardinality(Uncounted) \in Nat
      BY UncountedFinite
    <3>6. Cardinality(Uncounted') = Cardinality(Uncounted) + size
      <4> HIDE DEF bytes
      <4> QED
        BY <3>3, <3>4, <3>5, DisjointUnion
    <3>7. counters.bytes + Cardinality(Uncounted) = sent /\ counters.bytes \in Nat
      BY <2>3 DEF TcpCounted, TypeInv, Counters
    <3> QED
      BY <2>1, <3>2, <3>5, <3>6, <3>7
  <2>4. ASSUME listen = "Udp"
        PROVE  IsFiniteSet(Flight') /\ counters'.bytes + Cardinality(Flight') <= sent'
    <3>1. /\ request'[r].at = "sent" /\ request'[r].size = size
          /\ \A q \in Requests \ {r} : request'[q] = request[q]
      BY <1>9, <2>4 DEF LadingSends, TypeInv
    <3>2. Flight' = Flight \cup bytes /\ Flight \cap bytes = {}
      BY <2>1, <3>1 DEF Flight, TypeInv
    <3>3. IsFiniteSet(bytes) /\ Cardinality(bytes) = size
      BY <2>1, MessageBytes, Zenon
    <3>4. IsFiniteSet(Flight) /\ Cardinality(Flight) \in Nat
          /\ counters.bytes + Cardinality(Flight) <= sent
      BY <2>4, FS_CardinalityType DEF UdpCounted
    <3>5. IsFiniteSet(Flight') /\ Cardinality(Flight') = Cardinality(Flight) + size
      <4> HIDE DEF bytes
      <4> QED
        BY <3>2, <3>3, <3>4, DisjointUnion
    <3>6. counters.bytes \in Nat /\ sent \in Nat
      BY DEF TypeInv, Counters
    <3> QED
      BY <2>1, <3>4, <3>5, <3>6
  <2> QED
    BY <2>1, <2>2, <2>3, <2>4 DEF UdpCounted, TcpCounted
<1>10. CASE LadingExits
  BY <1>10, QuietStep DEF LadingExits, LadingMoves, ducksVars
<1>11. CASE UNCHANGED vars
  BY <1>11, QuietStep DEF vars, ducksVars
<1> QED
  BY <1>1, <1>2, <1>3, <1>4, <1>5, <1>6, <1>7, <1>8, <1>9, <1>10, <1>11
  DEF Next, ListenerNext
-----------------------------------------------------------------------------
Made == {r \in Requests : request[r].at # "none"}
Answered == {r \in Requests : request[r].at = "answered"}

(* Once the metrics have been reported no answer reaches lading any more,  *)
(* and no request is made.                                                 *)
LEMMA NextReported == IInv /\ [Next]_vars => AnsweredIsReported'
<1> SUFFICES ASSUME IInv, [Next]_vars, reported'.set, listen' = "Http"
             PROVE  /\ Cardinality(Answered') <= reported'.count
                    /\ reported'.count <= Cardinality(Made')
  BY DEF AnsweredIsReported, Answered, Made
<1>1. listen = "Http" /\ TypeInv /\ Phases /\ TypeInv' /\ Phases'
  <2>1. listen' = listen
    BY Zenon DEF Next, vars, TestNext, TestTimesOut, LaunchDucks, LaunchFails,
       SocketExists, Connect, RunLading, RunInnerFails, LadingExited, RequestShutdown, JoinDucks,
       CallFails, TestPasses, DucksNext, BindFails, DucksTimesOut, Bind, Serve,
       StartTest, StartTestFails, GetMetrics, ShutdownRpc, AnswerShutdown, DucksExits, DucksMoves,
       ListenerNext, Listen, ListenFails, TcpAccept, TcpRead, TcpCount, TcpReadFails,
       HttpRequest, HttpAnswer, UdpReceive, UdpDrop, ListenerMoves, LadingSends,
       LadingExits, LadingMoves
  <2> QED
    BY <2>1, NextTypeInv, NextPhases DEF IInv
<1>2. ASSUME Answered' = Answered, Made' = Made, reported' = reported
      PROVE  /\ Cardinality(Answered') <= reported'.count
             /\ reported'.count <= Cardinality(Made')
  BY <1>1, <1>2, Zenon DEF IInv, AnsweredIsReported, Answered, Made
<1>3. ASSUME request' = request, reported' = reported
      PROVE  /\ Cardinality(Answered') <= reported'.count
             /\ reported'.count <= Cardinality(Made')
  BY <1>2, <1>3 DEF Answered, Made
<1>4. CASE TestNext \/ TestTimesOut
  BY <1>3, <1>4 DEF TestNext, TestTimesOut, LaunchDucks, LaunchFails,
     SocketExists, Connect, RunLading, RunInnerFails, LadingExited, RequestShutdown, JoinDucks,
     CallFails, TestPasses, netVars
<1>5. CASE GetMetrics
  <2>1. reported' = counters /\ request' = request
    BY <1>5 DEF GetMetrics, DucksMoves, netVars
  <2>2. counters.count = Cardinality(Seen)
    BY <1>1 DEF IInv, HttpCounted
  <2>3. Answered \subseteq Seen /\ Seen \subseteq Made /\ Made \subseteq Requests
    BY DEF Answered, Seen, At, Made
  <2>4. Cardinality(Answered) <= Cardinality(Seen)
    BY <2>3, FS_Subset, FiniteStages
  <2>5. Cardinality(Seen) <= Cardinality(Made)
    BY <2>3, FS_Subset, FiniteStages
  <2>6. Answered' = Answered /\ Made' = Made
    BY <2>1 DEF Answered, Made
  <2> QED
    BY <2>1, <2>2, <2>4, <2>5, <2>6
<1>6. CASE \/ Bind \/ Serve \/ StartTest \/ StartTestFails \/ ShutdownRpc
           \/ AnswerShutdown \/ DucksExits \/ BindFails \/ DucksTimesOut
  BY <1>3, <1>6 DEF Bind, Serve, StartTest, StartTestFails, ShutdownRpc,
     AnswerShutdown, DucksExits, BindFails, DucksTimesOut, DucksMoves, netVars
<1>7. CASE Listen \/ ListenFails
  BY <1>3, <1>7 DEF Listen, ListenFails, ListenerMoves, netVars
<1>8. ASSUME NEW r \in Requests, HttpRequest(r)
      PROVE  Answered' = Answered /\ Made' = Made /\ reported' = reported
  BY <1>1, <1>8 DEF HttpRequest, ListenerMoves, Answered, Made, TypeInv
<1>9. ASSUME NEW r \in Requests, HttpAnswer(r)
      PROVE  Answered' = Answered /\ Made' = Made /\ reported' = reported
  <2>1. reported' = reported /\ lading = "exited"
    BY <1>1, <1>9 DEF HttpAnswer, ListenerMoves, Phases
  <2>2. request' = [request EXCEPT ![r].at = "unheard"] /\ request[r].at = "counted"
    BY <1>9, <2>1 DEF HttpAnswer
  <2> QED
    BY <1>1, <2>1, <2>2 DEF Answered, Made, TypeInv
<1>10. ASSUME NEW r \in Requests,
              \/ UdpReceive(r) \/ UdpDrop(r)
              \/ TcpAccept(r) \/ TcpRead(r) \/ TcpCount(r) \/ TcpReadFails(r)
       PROVE  FALSE
  BY <1>1, <1>10 DEF UdpReceive, UdpDrop, TcpAccept, TcpRead, TcpCount, TcpReadFails
<1>11. ASSUME NEW r \in Requests, NEW size \in Sizes, LadingSends(r, size) PROVE FALSE
  BY <1>1, <1>11 DEF LadingSends, LadingMoves, Phases
<1>12. CASE LadingExits
  BY <1>3, <1>12 DEF LadingExits, LadingMoves, netVars
<1>13. CASE UNCHANGED vars
  BY <1>3, <1>13 DEF vars, netVars
<1> QED
  BY <1>2, <1>4, <1>5, <1>6, <1>7, <1>8, <1>9, <1>10, <1>11, <1>12, <1>13
  DEF Next, DucksNext, ListenerNext

(* What is counted over a socket has been sent.                            *)
LEMMA CountedSent ==
  ASSUME TypeInv, UdpCounted, TcpCounted, listen \in {"Tcp", "Udp"}
  PROVE  counters.bytes <= sent
<1>1. CASE listen = "Tcp"
  BY <1>1, UncountedFinite DEF TcpCounted, TypeInv, Counters
<1>2. CASE listen = "Udp"
  <2>1. Cardinality(Flight) \in Nat /\ counters.bytes + Cardinality(Flight) <= sent
    BY <1>2, FS_CardinalityType DEF UdpCounted
  <2> QED
    BY <2>1 DEF TypeInv, Counters
<1> QED
  BY <1>1, <1>2

LEMMA NextReportedSent == IInv /\ [Next]_vars => ReportedSent'
<1> SUFFICES ASSUME IInv, [Next]_vars PROVE ReportedSent'
  OBVIOUS
<1> USE DEF IInv
<1>1. ASSUME UNCHANGED <<listen, reported>>, sent' = sent
      PROVE  ReportedSent'
  BY <1>1 DEF ReportedSent
<1>2. CASE TestNext \/ TestTimesOut
  BY <1>1, <1>2 DEF TestNext, TestTimesOut, LaunchDucks, LaunchFails,
     SocketExists, Connect, RunLading, RunInnerFails, LadingExited, RequestShutdown,
     JoinDucks, CallFails, TestPasses, netVars
<1>3. CASE GetMetrics
  BY <1>3, CountedSent DEF GetMetrics, DucksMoves, netVars, ReportedSent
<1>4. CASE \/ Bind \/ Serve \/ StartTest \/ StartTestFails \/ ShutdownRpc
           \/ AnswerShutdown \/ DucksExits \/ BindFails \/ DucksTimesOut
  BY <1>1, <1>4 DEF Bind, Serve, StartTest, StartTestFails, ShutdownRpc,
     AnswerShutdown, DucksExits, BindFails, DucksTimesOut, DucksMoves, netVars
<1>5. CASE ListenerNext
  BY <1>1, <1>5, Zenon DEF ListenerNext, Listen, ListenFails, TcpAccept, TcpRead,
     TcpCount, TcpReadFails, HttpRequest, HttpAnswer, UdpReceive, UdpDrop,
     ListenerMoves, netVars
<1>6. ASSUME NEW r \in Requests, NEW size \in Sizes, LadingSends(r, size)
      PROVE  ReportedSent'
  BY <1>6, HarnessAssumption DEF LadingSends, LadingMoves, ReportedSent, TypeInv, Counters
<1>7. CASE LadingExits \/ UNCHANGED vars
  BY <1>1, <1>7 DEF LadingExits, LadingMoves, vars, netVars
<1> QED
  BY <1>2, <1>3, <1>4, <1>5, <1>6, <1>7 DEF Next, DucksNext

LEMMA NextIInv == IInv /\ [Next]_vars => IInv'
BY NextTypeInv, NextPhases, NextHeld, NextCounted, NextReported, NextReportedSent DEF IInv

LEMMA Invariance == Spec => []IInv
BY InitIInv, NextIInv, PTL DEF Spec

(* For any number of requests, a test that has its metrics has every       *)
(* request in them whose answer reached lading, and no more than were      *)
(* made, whenever lading, ducks or the test stopped or timed out.          *)
THEOREM MetricsCoverAnswers == Spec => []AnsweredIsReported
<1>1. IInv => AnsweredIsReported
  BY DEF IInv
<1> QED
  BY Invariance, <1>1, PTL

(* For any number of connections and datagrams of any size: the bytes that *)
(* ducks has counted over TCP, those it has not read and those in the      *)
(* buffers it uses again and again are the bytes sent, over UDP it counts  *)
(* at most the bytes sent, whatever is lost or cut short, and the test is  *)
(* told of no more.                                                        *)
THEOREM NoByteIsInvented == Spec => []CountedWasSent
<1>1. IInv => CountedWasSent
  <2> SUFFICES ASSUME IInv PROVE CountedWasSent
    OBVIOUS
  <2>1. listen = "Udp" => counters.bytes <= sent
    BY CountedSent DEF IInv
  <2> QED
    BY <2>1 DEF IInv, TcpCounted, ReportedSent, CountedWasSent
<1> QED
  BY Invariance, <1>1, PTL
=============================================================================
