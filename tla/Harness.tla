------------------------------- MODULE Harness -------------------------------
(***************************************************************************)
(* One integration test: sheepdog (integration/sheepdog) starts ducks      *)
(* (integration/ducks), a target that counts what it receives, tells it    *)
(* over an RPC socket what to listen on, runs lading against it, asks for  *)
(* the counters and shuts ducks down.  Four things run concurrently: the   *)
(* test, the main task of ducks, its listener and handlers, and lading,    *)
(* which is seen only through what it sends and when it exits.             *)
(***************************************************************************)
EXTENDS Naturals, FiniteSets

CONSTANTS
  Listens,      \* listen configurations to consider: "None", "Http", "Tcp", "Udp"
  Requests,     \* bound: the requests or writes lading may make
  Sizes,        \* sizes of a request's body, a write or a datagram
  DatagramMax,  \* the length of the buffer of udp_listen
  MaxSpin       \* bound: reads of a closed connection that are told apart

ASSUME HarnessAssumption ==
  /\ Listens \subseteq {"None", "Http", "Tcp", "Udp"}
  /\ IsFiniteSet(Requests)
  /\ Sizes \subseteq Nat \ {0}
  /\ DatagramMax \in Nat

VARIABLES
  listen,       \* the DucksConfig of this test
  test,         \* where run_inner stands, and how run ended
  call, reply,  \* the RPC in progress and its answer
  ducks,        \* the ducks process
  shutdown_rx,  \* shutdown messages in the channel of capacity one
  listener,     \* the task start_test spawned
  counters,     \* HTTP_COUNTERS, TCP_COUNTERS or UDP_COUNTERS
  request,      \* each request, datagram or TCP connection: how far it has got,
                \* the bytes lading sent, those a tcp_handler has not read and
                \* those in its buffer
  lading,       \* the lading process
  reported,     \* the metrics the test has been given
  sent          \* auxiliary: bytes lading has sent

ducksVars == <<ducks, shutdown_rx, listener, counters>>
netVars == <<request, sent>>
vars == <<listen, test, call, reply, ducksVars, netVars, lading, reported>>

Unset == [set |-> FALSE, count |-> 0, bytes |-> 0]
Running == {"waiting", "connecting", "calling", "running_lading", "joining"}
DucksRuns == ducks \in {"starting", "bound", "serving"}
Unmade == [at |-> "none", size |-> 0, left |-> 0, buffer |-> 0]

(* IntegrationTest::new.                                                   *)
Init ==
  /\ listen \in Listens
  /\ test = "new"
  /\ call = "none"
  /\ reply = "none"
  /\ ducks = "none"
  /\ shutdown_rx = 0
  /\ listener = "none"
  /\ counters = Unset
  /\ request = [r \in Requests |-> Unmade]
  /\ lading = "none"
  /\ reported = Unset
  /\ sent = 0
-----------------------------------------------------------------------------
(* The builds, and the launch of ducks with its socket and its timeout.    *)
LaunchDucks ==
  /\ test = "new"
  /\ test' = "waiting"
  /\ ducks' = "starting"
  /\ UNCHANGED <<listen, call, reply, shutdown_rx, listener, counters, netVars,
                 lading, reported>>

LaunchFails ==
  /\ test = "new"
  /\ test' = "failed"
  /\ UNCHANGED <<listen, call, reply, ducksVars, netVars, lading, reported>>

(* The socket file is there, and may be there before anyone listens on it. *)
SocketExists ==
  /\ test = "waiting" /\ ducks \in {"bound", "serving", "exited_bound"}
  /\ test' = "connecting"
  /\ UNCHANGED <<listen, call, reply, ducksVars, netVars, lading, reported>>

(* The test calls ducks; a call nobody answers is an error of the test.    *)
Call(method) ==
  /\ call' = method
  /\ reply' = "none"
  /\ test' = "calling"

Connect ==
  /\ test = "connecting"
  /\ IF ducks = "serving"
     THEN Call("start_test")
     ELSE test' = "failed" /\ UNCHANGED <<call, reply>>
  /\ UNCHANGED <<listen, ducksVars, netVars, lading, reported>>

(* start_test has answered with the port: write the configuration, run     *)
(* lading with the PID of ducks as its target, and wait for it to exit.    *)
RunLading ==
  /\ test = "calling" /\ call = "start_test" /\ reply = "answered"
  /\ test' = "running_lading"
  /\ call' = "none"
  /\ reply' = "none"
  /\ lading' = "running"
  /\ UNCHANGED <<listen, ducksVars, netVars, reported>>

(* The configuration cannot be written, lading not launched, or a child    *)
(* not waited for: the test returns the error, and what it started stays.  *)
RunInnerFails ==
  /\ \/ test = "calling" /\ call = "start_test" /\ reply = "answered"
     \/ test \in {"running_lading", "joining"}
  /\ test' = "failed"
  /\ call' = "none"
  /\ reply' = "none"
  /\ UNCHANGED <<listen, ducksVars, netVars, lading, reported>>

(* Whatever its exit status, the metrics are asked for.                    *)
LadingExited ==
  /\ test = "running_lading" /\ lading = "exited"
  /\ Call("get_metrics")
  /\ UNCHANGED <<listen, ducksVars, netVars, lading, reported>>

RequestShutdown ==
  /\ test = "calling" /\ call = "get_metrics" /\ reply = "answered"
  /\ Call("shutdown")
  /\ UNCHANGED <<listen, ducksVars, netVars, lading, reported>>

JoinDucks ==
  /\ test = "calling" /\ call = "shutdown" /\ reply = "answered"
  /\ test' = "joining"
  /\ call' = "none"
  /\ reply' = "none"
  /\ UNCHANGED <<listen, ducksVars, netVars, lading, reported>>

(* The answer is an error, or the connection is gone before it came.       *)
CallFails ==
  /\ test = "calling"
  /\ reply = "refused" \/ (reply = "none" /\ ~DucksRuns)
  /\ test' = "failed"
  /\ call' = "none"
  /\ UNCHANGED <<listen, reply, ducksVars, netVars, lading, reported>>

TestPasses ==
  /\ test = "joining" /\ ~DucksRuns
  /\ test' = "ok"
  /\ UNCHANGED <<listen, call, reply, ducksVars, netVars, lading, reported>>

(* The half hour of run: the test panics, and what it started stays.       *)
TestTimesOut ==
  /\ test \in Running
  /\ test' = "panicked"
  /\ call' = "none"
  /\ reply' = "none"
  /\ UNCHANGED <<listen, ducksVars, netVars, lading, reported>>
-----------------------------------------------------------------------------
DucksMoves == UNCHANGED <<listen, netVars, lading>>

(* UnixListener::bind makes the socket file and then listens on it.        *)
Bind ==
  /\ ducks = "starting"
  /\ ducks' = "bound"
  /\ DucksMoves
  /\ UNCHANGED <<test, call, reply, shutdown_rx, listener, counters, reported>>

Serve ==
  /\ ducks = "bound"
  /\ ducks' = "serving"
  /\ DucksMoves
  /\ UNCHANGED <<test, call, reply, shutdown_rx, listener, counters, reported>>

BindFails ==
  /\ ducks \in {"starting", "bound"}
  /\ ducks' = IF ducks = "starting" THEN "exited" ELSE "exited_bound"
  /\ DucksMoves
  /\ UNCHANGED <<test, call, reply, shutdown_rx, listener, counters, reported>>

Serving(method) == ducks = "serving" /\ call = method /\ reply = "none"

(* start_test: the port is bound and the listener spawned, not yet run.    *)
StartTest ==
  /\ Serving("start_test")
  /\ listener' = IF listen = "None" THEN "none" ELSE "spawned"
  /\ reply' = "answered"
  /\ DucksMoves
  /\ UNCHANGED <<test, call, ducks, shutdown_rx, counters, reported>>

(* The port cannot be bound.                                               *)
StartTestFails ==
  /\ Serving("start_test") /\ listen # "None"
  /\ reply' = "refused"
  /\ DucksMoves
  /\ UNCHANGED <<test, call, ducks, shutdown_rx, listener, counters, reported>>

(* get_metrics, and Metrics::from, which turns absent metrics into zeroes. *)
GetMetrics ==
  /\ Serving("get_metrics")
  /\ reported' = counters
  /\ reply' = "answered"
  /\ DucksMoves
  /\ UNCHANGED <<test, call, ducks, shutdown_rx, listener, counters>>

(* shutdown: a message to the main task, then the answer.                  *)
ShutdownRpc ==
  /\ Serving("shutdown") /\ shutdown_rx = 0
  /\ shutdown_rx' = 1
  /\ DucksMoves
  /\ UNCHANGED <<test, call, reply, ducks, listener, counters, reported>>

AnswerShutdown ==
  /\ Serving("shutdown") /\ shutdown_rx = 1
  /\ reply' = "answered"
  /\ DucksMoves
  /\ UNCHANGED <<test, call, ducks, shutdown_rx, listener, counters, reported>>

(* main returns, on the message, maybe before the answer has gone out, or  *)
(* on its own timeout; every other task of the runtime goes with it.       *)
DucksExits ==
  /\ ducks = "serving" /\ shutdown_rx = 1
  /\ ducks' = "exited_bound"
  /\ listener' = "none"
  /\ DucksMoves
  /\ UNCHANGED <<test, call, reply, shutdown_rx, counters, reported>>

DucksTimesOut ==
  /\ ducks = "serving"
  /\ ducks' = "exited_bound"
  /\ listener' = "none"
  /\ DucksMoves
  /\ UNCHANGED <<test, call, reply, shutdown_rx, counters, reported>>
-----------------------------------------------------------------------------
ListenerMoves ==
  UNCHANGED <<listen, test, call, reply, ducks, shutdown_rx, lading, reported>>

Count(bytes) ==
  [counters EXCEPT !.count = @ + 1, !.bytes = @ + bytes]

(* http_listen, tcp_listen, udp_listen up to their loops: the counters are *)
(* there before the first connection is accepted.                          *)
Listen ==
  /\ listener = "spawned"
  /\ listener' = "active"
  /\ counters' = [counters EXCEPT !.set = TRUE]
  /\ ListenerMoves /\ UNCHANGED netVars

(* accept, or recv_from, fails: nothing more comes in, and the connections *)
(* that have go on.                                                        *)
ListenFails ==
  /\ listener = "active"
  /\ listener' = "closed"
  /\ ListenerMoves /\ UNCHANGED <<counters, netVars>>

(* Connections that were accepted are served.                              *)
Handling == listener \in {"active", "closed"}

(* Variant: the answer goes out before the request is counted.             *)
HttpRequestAnswersFirst(r) ==
  /\ Handling /\ listen = "Http"
  /\ request[r].at \in {"sent", "answered"}
  /\ IF request[r].at = "sent"
     THEN /\ request' = [request EXCEPT ![r].at =
                           IF lading = "running" THEN "answered" ELSE "unheard"]
          /\ UNCHANGED counters
     ELSE /\ counters' = [counters EXCEPT !.count = @ + 1, !.bytes = request[r].size]
          /\ request' = [request EXCEPT ![r].at = "unheard"]
  /\ ListenerMoves /\ UNCHANGED <<listener, sent>>

(* http_req_handler: under the lock it counts the request and notes the    *)
(* length of its body, which replaces that of the request before it.       *)
HttpRequest(r) ==
  /\ Handling /\ listen = "Http"
  /\ request[r].at = "sent"
  /\ counters' = [counters EXCEPT !.count = @ + 1, !.bytes = request[r].size]
  /\ request' = [request EXCEPT ![r].at = "counted"]
  /\ ListenerMoves /\ UNCHANGED <<listener, sent>>

HttpAnswer(r) ==
  /\ Handling /\ listen = "Http"
  /\ request[r].at = "counted"
  /\ request' = [request EXCEPT ![r].at =
                   IF lading = "running" THEN "answered" ELSE "unheard"]
  /\ ListenerMoves /\ UNCHANGED <<listener, counters, sent>>

(* tcp_listen accepts a connection and spawns its tcp_handler.             *)
TcpAccept(r) ==
  /\ listener = "active" /\ listen = "Tcp"
  /\ request[r].at = "sent"
  /\ request' = [request EXCEPT ![r].at = "reading"]
  /\ ListenerMoves /\ UNCHANGED <<listener, counters, sent>>

(* tcp_handler: read_buf appends to the buffer some of what has arrived.   *)
(* The end of the connection is no error, and nothing is appended, as      *)
(* often as the handler reads, of which MaxSpin times are told apart.      *)
TcpRead(r) ==
  /\ Handling /\ listen = "Tcp"
  /\ request[r].at = "reading"
  /\ \E n \in 0..request[r].left :
       /\ n = 0 => /\ lading = "exited" /\ request[r].left = 0
                  /\ counters.count < MaxSpin
       /\ request' = [request EXCEPT ![r].at = "counting", ![r].left = @ - n,
                                     ![r].buffer = @ + n]
  /\ ListenerMoves /\ UNCHANGED <<listener, counters, sent>>

(* Variant: the buffer is not cleared.                                     *)
TcpCountUncleared(r) ==
  /\ Handling /\ listen = "Tcp"
  /\ request[r].at = "counting"
  /\ counters' = Count(request[r].buffer)
  /\ request' = [request EXCEPT ![r].at = "reading"]
  /\ ListenerMoves /\ UNCHANGED <<listener, sent>>

(* With the lock on the counters, the length of the buffer is added; then  *)
(* the buffer is cleared.                                                  *)
TcpCount(r) ==
  /\ Handling /\ listen = "Tcp"
  /\ request[r].at = "counting"
  /\ counters' = Count(request[r].buffer)
  /\ request' = [request EXCEPT ![r].at = "reading", ![r].buffer = 0]
  /\ ListenerMoves /\ UNCHANGED <<listener, sent>>

(* A read fails: the handler returns.                                      *)
TcpReadFails(r) ==
  /\ Handling /\ listen = "Tcp"
  /\ request[r].at = "reading"
  /\ request' = [request EXCEPT ![r].at = "dropped"]
  /\ ListenerMoves /\ UNCHANGED <<listener, counters, sent>>

Least(a, b) == IF a < b THEN a ELSE b

(* udp_listen: what fits into the buffer.                                  *)
UdpReceive(r) ==
  /\ listener = "active" /\ listen = "Udp"
  /\ request[r].at = "sent"
  /\ counters' = Count(Least(request[r].size, DatagramMax))
  /\ request' = [request EXCEPT ![r].at = "counted"]
  /\ ListenerMoves /\ UNCHANGED <<listener, sent>>

UdpDrop(r) ==
  /\ listen = "Udp"
  /\ request[r].at = "sent"
  /\ request' = [request EXCEPT ![r].at = "lost"]
  /\ ListenerMoves /\ UNCHANGED <<listener, counters, sent>>
-----------------------------------------------------------------------------
LadingMoves ==
  UNCHANGED <<listen, test, call, reply, ducksVars, reported>>

(* lading as the test sees it: it sends, and exits by itself or because    *)
(* its target has died.                                                    *)
LadingSends(r, size) ==
  /\ lading = "running" /\ listen # "None"
  /\ request[r].at = "none"
  /\ sent' = sent + size
  /\ request' = [request EXCEPT ![r] = [at |-> "sent", size |-> size, buffer |-> 0,
                                        left |-> IF listen = "Tcp" THEN size ELSE 0]]
  /\ LadingMoves /\ UNCHANGED lading

LadingExits ==
  /\ lading = "running"
  /\ lading' = "exited"
  /\ LadingMoves /\ UNCHANGED netVars
-----------------------------------------------------------------------------
TestNext ==
  \/ LaunchDucks \/ LaunchFails \/ SocketExists \/ Connect \/ RunLading
  \/ RunInnerFails \/ LadingExited \/ RequestShutdown \/ JoinDucks \/ CallFails \/ TestPasses

DucksNext ==
  \/ Bind \/ Serve \/ StartTest \/ StartTestFails \/ GetMetrics \/ ShutdownRpc \/ AnswerShutdown
  \/ DucksExits

ListenerNext ==
  \/ Listen \/ ListenFails
  \/ \E r \in Requests :
       \/ HttpRequest(r) \/ HttpAnswer(r)
       \/ TcpAccept(r) \/ TcpRead(r) \/ TcpCount(r) \/ TcpReadFails(r)
       \/ UdpReceive(r) \/ UdpDrop(r)

Next ==
  \/ TestNext \/ TestTimesOut
  \/ DucksNext \/ BindFails \/ DucksTimesOut
  \/ ListenerNext
  \/ \E r \in Requests, size \in Sizes : LadingSends(r, size)
  \/ LadingExits

Spec == Init /\ [][Next]_vars
-----------------------------------------------------------------------------
(* A request whose answer reached lading is in the metrics of the test:    *)
(* http_req_handler counts before it answers, and get_metrics is called    *)
(* only when lading is gone.  Nothing is counted that was not sent.        *)
AnsweredIsReported ==
  reported.set /\ listen = "Http" =>
    /\ Cardinality({r \in Requests : request[r].at = "answered"}) <= reported.count
    /\ reported.count <= Cardinality({r \in Requests : request[r].at # "none"})

(* The bytes of TCP connections that are still to be counted.              *)
Uncounted ==
  {u \in Requests \X (1..sent) :
     u[2] <= request[u[1]].left + request[u[1]].buffer}

(* What ducks counts on sockets has been sent, byte for byte: over TCP the *)
(* bytes counted, unread and in the buffers of the handlers are those      *)
(* sent, however reads, counts and the clearing of the buffers fall among  *)
(* the connections, and however often a closed one is read; a datagram     *)
(* adds at most what was in it; and the test is told no more than that.    *)
CountedWasSent ==
  /\ listen = "Tcp" => counters.bytes + Cardinality(Uncounted) = sent
  /\ listen = "Udp" => counters.bytes <= sent
  /\ listen \in {"Tcp", "Udp"} => reported.bytes <= sent
=============================================================================
