--------------------------- MODULE SocketGenerator --------------------------
(***************************************************************************)
(* The generators that write blocks to a socket or a file and wait for no  *)
(* answer: generator/{tcp,udp,unix_stream,unix_datagram,passthru_file}.rs  *)
(* and, with an answer that is only counted, grpc.rs.  Each takes blocks   *)
(* from the block cache's thread and writes to a peer: the blackhole of    *)
(* the same kind (blackhole/{tcp,udp,unix_stream,unix_datagram}.rs), a     *)
(* file, or a server that is not lading's.                                 *)
(***************************************************************************)
EXTENDS Naturals, Sequences, SequencesExt

CONSTANTS
  Blocks,       \* the sizes of the cache's blocks, in order
  ChannelSize,  \* the capacity of the channel of blocks, 1024
  ReceiveBytes, \* the buffer the datagram blackholes receive into, 65536
  UdpBytes,     \* the largest datagram that udp carries, 65507
  SocketBytes,  \* bound: bytes the kernel holds for a connection
  MaxBlocks,    \* bound: blocks written
  MaxBreaks     \* bound: how often a connection breaks or a write fails

Streams == {"tcp", "unix_stream"}
Datagrams == {"udp", "unix_datagram"}

NoChunk == [block |-> 0, first |-> 1, last |-> 0]
Size(c) == c.last + 1 - c.first
Bytes(chunks) == FoldSeq(LAMBDA c, sum : Size(c) + sum, 0, chunks)
Successor(b) == (b % Len(Blocks)) + 1

VARIABLES
  kind,       \* Streams, Datagrams, "passthru_file" or "grpc"
  shutdown,   \* the shutdown signal
  thread,     \* Cache::spin's thread: "none", "running" or "ended"
  idx,        \* Cache::spin's idx: the block it sends next
  channel,    \* the channel of blocks
  buffer,     \* PeekableReceiver::buffer, a block or None
  spin,       \* where the generator is
  blk,        \* the block that is being written
  offset,     \* how many of its bytes the kernel has
  granted,    \* the bytes the throttle granted for it
  link,       \* the connection: "none", "up", "down"
  wire,       \* the chunks the kernel holds
  peer,       \* the blackhole: "starting", "listening", "returned"
  handler,    \* handle_connection: "none", "backlog", "reading"
  written, received,  \* the counters bytes_written and bytes_received
  lost, abandoned,    \* history: bytes lost, bytes of blocks given up
  cut,        \* history: bytes of datagrams longer than the receive buffer
  lastChunk,  \* history: the last chunk on the connection
  taken,      \* blocks taken so far
  breaks      \* breaks so far

cacheVars == <<thread, idx, channel>>
peerVars == <<peer, handler>>
counters == <<written, received, lost, abandoned, cut>>
bounds == <<taken, breaks>>
vars == <<kind, shutdown, cacheVars, buffer, spin, blk, offset, granted, link,
          wire, peerVars, counters, lastChunk, bounds>>

None == 0

(* The generator's new and the blackhole's; runs tells whether they are    *)
(* configured.                                                             *)
Init(runs) ==
  /\ thread = IF ~runs THEN "ended"
              ELSE IF kind \in {"unix_datagram", "grpc"} THEN "none" ELSE "running"
  /\ idx = 1 /\ channel = <<>> /\ buffer = None
  /\ spin = CASE ~runs -> "returned"
              [] kind = "unix_datagram" -> "startup"
              [] kind = "udp" -> "peek"
              [] OTHER -> "connect"
  /\ blk = Len(Blocks) /\ offset = 0 /\ granted = 0
  /\ link = "none" /\ wire = <<>> /\ handler = "none"
  /\ peer = IF runs THEN "starting" ELSE "returned"
  /\ written = 0 /\ received = 0 /\ lost = 0 /\ abandoned = 0 /\ cut = 0
  /\ lastChunk = NoChunk /\ taken = 0 /\ breaks = 0
-----------------------------------------------------------------------------
(* Cache::spin: send the block, then advance.                              *)
CacheSends ==
  /\ thread = "running"
  /\ spin # "returned"
  /\ Len(channel) < ChannelSize
  /\ channel' = Append(channel, idx)
  /\ idx' = Successor(idx)
  /\ UNCHANGED <<kind, shutdown, thread, buffer, spin, blk, offset, granted,
                 link, wire, peerVars, counters, lastChunk, bounds>>

(* blocking_send fails when the receiver is gone, blocked in it or not.    *)
CacheEnds ==
  /\ thread = "running"
  /\ spin = "returned"
  /\ thread' = "ended"
  /\ UNCHANGED <<kind, shutdown, idx, channel, buffer, spin, blk, offset,
                 granted, link, wire, peerVars, counters, lastChunk, bounds>>
-----------------------------------------------------------------------------
generatorOnly == <<kind, shutdown, cacheVars, wire, counters, bounds>>

(* unix_datagram: spin releases the children.                              *)
Startup ==
  /\ spin = "startup"
  /\ spin' = "connect"
  /\ UNCHANGED <<generatorOnly, buffer, blk, offset, granted, link, peerVars,
                 lastChunk>>

connecting == <<kind, shutdown, idx, channel, buffer, blk, offset, granted,
                wire, peer, counters, bounds>>

(* tcp and unix_stream: the connection waits to be accepted.  A failure is *)
(* tried again after a second, in a loop that does not look at the         *)
(* shutdown signal; so are the three that follow.                          *)
Connect ==
  /\ spin = "connect"
  /\ kind \in Streams
  /\ peer = "listening"
  /\ link' = "up"
  /\ handler' = "backlog"
  /\ lastChunk' = NoChunk
  /\ spin' = "peek"
  /\ UNCHANGED <<connecting, thread>>

(* unix_datagram: the cache's thread starts once the socket is connected.  *)
ConnectDatagram ==
  /\ spin = "connect"
  /\ kind = "unix_datagram"
  /\ peer = "listening"
  /\ link' = "up"
  /\ thread' = "running"
  /\ spin' = "peek"
  /\ UNCHANGED <<connecting, handler, lastChunk>>

(* grpc: likewise, with a server that is not lading's.                     *)
ConnectGrpc ==
  /\ spin = "connect"
  /\ kind = "grpc"
  /\ link' = "up"
  /\ thread' = "running"
  /\ spin' = "peek"
  /\ UNCHANGED <<connecting, handler, lastChunk>>

(* passthru_file: the file is created or truncated, once.                  *)
OpenFile ==
  /\ spin = "connect"
  /\ kind = "passthru_file"
  /\ link' = "up"
  /\ spin' = "peek"
  /\ UNCHANGED <<connecting, thread, handler, lastChunk>>

(* udp: the select's own arm, beside the one for the shutdown signal.      *)
Bind ==
  /\ spin = "select"
  /\ kind = "udp"
  /\ link = "none"
  /\ link' = "up"
  /\ spin' = "peek"
  /\ UNCHANGED <<connecting, thread, handler, lastChunk>>

(* PeekableReceiver::peek.                                                 *)
Peek ==
  /\ spin = "peek"
  /\ \/ buffer # None /\ UNCHANGED <<buffer, channel>>
     \/ /\ buffer = None
        /\ channel # <<>>
        /\ buffer' = Head(channel)
        /\ channel' = Tail(channel)
  /\ spin' = "select"
  /\ UNCHANGED <<kind, shutdown, thread, idx, blk, offset, granted, link, wire,
                 peerVars, counters, lastChunk, bounds>>

(* Variant: next receives from the channel and forgets the buffer.         *)
ThrottledPastBuffer ==
  /\ spin = "select"
  /\ link # "none"
  /\ taken < MaxBlocks
  /\ channel # <<>>
  /\ granted' = Blocks[buffer]
  /\ blk' = Head(channel)
  /\ channel' = Tail(channel)
  /\ buffer' = None
  /\ offset' = 0
  /\ taken' = taken + 1
  /\ spin' = "write"
  /\ UNCHANGED <<kind, shutdown, thread, idx, link, wire, peerVars, counters,
                 lastChunk, breaks>>

(* The throttle grants the peeked block's bytes, and next takes it.        *)
Throttled ==
  /\ spin = "select"
  /\ link # "none"
  /\ taken < MaxBlocks
  /\ granted' = Blocks[buffer]
  /\ blk' = buffer
  /\ buffer' = None
  /\ offset' = 0
  /\ taken' = taken + 1
  /\ spin' = "write"
  /\ UNCHANGED <<kind, shutdown, cacheVars, link, wire, peerVars, counters,
                 lastChunk, breaks>>

(* The shutdown arm; the socket is closed behind it.                       *)
SpinShutdown ==
  /\ spin = "select"
  /\ shutdown
  /\ spin' = "returned"
  /\ link' = IF link = "up" THEN "down" ELSE link
  /\ UNCHANGED <<generatorOnly, buffer, blk, offset, granted, peerVars,
                 lastChunk>>

-----------------------------------------------------------------------------
writing == <<kind, shutdown, cacheVars, buffer, blk, granted, handler, peer,
             cut, taken>>

(* The kernel takes some more bytes of the block; tcp counts a block when  *)
(* it is complete, unix_stream counts every write and tries again after    *)
(* WouldBlock or an error other than a broken pipe.  A tcp peer that is    *)
(* gone is only noticed by a later write: what goes out before is lost.    *)
WriteSome ==
  /\ spin = "write"
  /\ kind \in Streams
  /\ link = "up" \/ (link = "down" /\ kind = "tcp")
  /\ \E n \in 1..(Blocks[blk] - offset) :
       LET chunk == [block |-> blk, first |-> offset + 1, last |-> offset + n]
           done == offset + n = Blocks[blk]
       IN  /\ IF link = "up"
              THEN /\ Bytes(wire) + n <= SocketBytes
                   /\ wire' = Append(wire, chunk)
                   /\ UNCHANGED lost
              ELSE lost' = lost + n /\ UNCHANGED wire
           /\ offset' = offset + n
           /\ lastChunk' = chunk
           /\ written' = CASE kind = "unix_stream" -> written + n
                           [] kind = "tcp" /\ done -> written + Blocks[blk]
                           [] OTHER -> written
           /\ spin' = IF done THEN "peek" ELSE "write"
  /\ UNCHANGED <<writing, link, received, abandoned, breaks>>

(* passthru_file: write_all hands the block to tokio's file, whose bytes   *)
(* stand for the ones received.                                            *)
WriteFile ==
  /\ spin = "write"
  /\ kind = "passthru_file"
  /\ written' = written + Blocks[blk]
  /\ received' = received + Blocks[blk]
  /\ spin' = "peek"
  /\ UNCHANGED <<writing, offset, link, wire, lost, abandoned, lastChunk,
                 breaks>>

(* A failure, after part of the block, is counted; the next block goes to  *)
(* the same file.                                                          *)
WriteFileFails ==
  /\ spin = "write"
  /\ kind = "passthru_file"
  /\ breaks < MaxBreaks
  /\ breaks' = breaks + 1
  /\ \E n \in 0..(Blocks[blk] - 1) :
       /\ received' = received + n
       /\ abandoned' = abandoned + n
  /\ spin' = "peek"
  /\ UNCHANGED <<writing, offset, link, wire, written, lost, lastChunk>>

(* Variant: the write of the block goes on where the connection broke.     *)
WriteFailsResuming ==
  /\ spin = "write"
  /\ kind \in Streams
  /\ link = "down"
  /\ peer = "listening"
  /\ link' = "up"
  /\ lastChunk' = NoChunk
  /\ UNCHANGED <<writing, spin, offset, wire, counters, breaks>>

(* Variant: the write is tried again for ever.                             *)
WriteFailsRetrying ==
  /\ spin = "write"
  /\ kind \in Streams
  /\ link = "down"
  /\ UNCHANGED vars

(* The connection is broken: what is left of the block is given up and a   *)
(* new connection made.                                                    *)
WriteFails ==
  /\ spin = "write"
  /\ kind \in Streams
  /\ link = "down"
  /\ link' = "none"
  /\ abandoned' = IF kind = "tcp" THEN abandoned + offset ELSE abandoned
  /\ spin' = "connect"
  /\ UNCHANGED <<writing, offset, wire, written, received, lost, lastChunk,
                 breaks>>

(* unary fails: the block, of which the server may have seen all, is not   *)
(* counted nor sent again.                                                 *)
GrpcFails ==
  /\ spin = "write"
  /\ kind = "grpc"
  /\ breaks < MaxBreaks
  /\ breaks' = breaks + 1
  /\ \E n \in {0, Blocks[blk]} :
       /\ received' = received + n
       /\ abandoned' = abandoned + n
  /\ spin' = "peek"
  /\ UNCHANGED <<writing, offset, link, wire, written, lost, lastChunk>>

(* unary answers: the block has arrived.                                   *)
GrpcResponds ==
  /\ spin = "write"
  /\ kind = "grpc"
  /\ written' = written + Blocks[blk]
  /\ received' = received + Blocks[blk]
  /\ spin' = "peek"
  /\ UNCHANGED <<writing, offset, link, wire, lost, abandoned, lastChunk,
                 breaks>>

Room == peer = "listening" /\ Bytes(wire) + Blocks[blk] <= SocketBytes
Datagram == [block |-> blk, first |-> 1, last |-> Blocks[blk]]

(* udp sends a datagram whole; the kernel drops it when nobody listens or  *)
(* nothing more fits.                                                      *)
SendTo ==
  /\ spin = "write"
  /\ kind = "udp"
  /\ Blocks[blk] <= UdpBytes
  /\ IF Room
     THEN wire' = Append(wire, Datagram) /\ UNCHANGED lost
     ELSE lost' = lost + Blocks[blk] /\ UNCHANGED wire
  /\ written' = written + Blocks[blk]
  /\ spin' = "peek"
  /\ UNCHANGED <<writing, offset, link, received, abandoned, lastChunk, breaks>>

(* unix_datagram waits for room.                                           *)
Send ==
  /\ spin = "write"
  /\ kind = "unix_datagram"
  /\ Room
  /\ wire' = Append(wire, Datagram)
  /\ written' = written + Blocks[blk]
  /\ spin' = "peek"
  /\ UNCHANGED <<writing, offset, link, received, lost, abandoned, lastChunk,
                 breaks>>

Broken == breaks < MaxBreaks /\ breaks' = breaks + 1

(* Nobody is there any more, or the kernel refuses the datagram:           *)
(* unix_datagram counts the failure and goes on with the next block.       *)
SendFails ==
  /\ spin = "write"
  /\ kind = "unix_datagram"
  /\ (peer = "returned" /\ UNCHANGED breaks) \/ Broken
  /\ spin' = "peek"
  /\ UNCHANGED <<writing, offset, link, wire, counters, lastChunk>>

(* udp binds a new socket after a failure, which is certain for a block    *)
(* that no datagram can hold.                                              *)
SendToFails ==
  /\ spin = "write"
  /\ kind = "udp"
  /\ (Blocks[blk] > UdpBytes /\ UNCHANGED breaks) \/ Broken
  /\ link' = "none"
  /\ spin' = "peek"
  /\ UNCHANGED <<writing, offset, wire, counters, lastChunk>>
-----------------------------------------------------------------------------
generatorVars == <<kind, shutdown, cacheVars, buffer, spin, blk, offset, granted,
                   lastChunk, taken>>

(* The blackhole binds its address.                                        *)
Listen ==
  /\ peer = "starting"
  /\ peer' = "listening"
  /\ UNCHANGED <<generatorVars, handler, link, wire, counters, breaks>>

(* The address is taken: run returns the error.                            *)
ListenFails ==
  /\ peer = "starting"
  /\ peer' = "returned"
  /\ UNCHANGED <<generatorVars, handler, link, wire, counters, breaks>>

(* listener.accept() and the spawned handle_connection.                    *)
Accept ==
  /\ peer = "listening"
  /\ handler = "backlog"
  /\ handler' = "reading"
  /\ UNCHANGED <<generatorVars, peer, link, wire, counters, breaks>>

(* Variant: a chunk is counted as one byte.                                *)
HandlerReadsMessages ==
  /\ handler = "reading"
  /\ wire # <<>>
  /\ received' = received + 1
  /\ wire' = Tail(wire)
  /\ UNCHANGED <<generatorVars, peerVars, link, written, lost, abandoned, cut,
                 breaks>>

(* handle_connection reads, a task of its own that outlives run.           *)
HandlerReads ==
  /\ handler = "reading"
  /\ wire # <<>>
  /\ received' = received + Size(Head(wire))
  /\ wire' = Tail(wire)
  /\ UNCHANGED <<generatorVars, peerVars, link, written, lost, abandoned, cut,
                 breaks>>

(* The datagram blackholes read in run itself, into a buffer of a fixed    *)
(* size: the kernel drops the rest of a longer datagram.                   *)
Receive ==
  /\ kind \in Datagrams
  /\ peer = "listening"
  /\ wire # <<>>
  /\ LET size == Size(Head(wire))
         n == IF size < ReceiveBytes THEN size ELSE ReceiveBytes
     IN  /\ received' = received + n
         /\ cut' = cut + (size - n)
  /\ wire' = Tail(wire)
  /\ UNCHANGED <<generatorVars, peerVars, link, written, lost, abandoned, breaks>>

(* handle_connection sees the end of the stream.                           *)
HandlerEnds ==
  /\ handler = "reading"
  /\ link # "up"
  /\ wire = <<>>
  /\ handler' = "none"
  /\ UNCHANGED <<generatorVars, peer, link, wire, counters, breaks>>

(* The peer breaks the connection.                                         *)
Break ==
  /\ kind \in Streams
  /\ handler # "none"
  /\ breaks < MaxBreaks
  /\ breaks' = breaks + 1
  /\ link' = IF link = "up" THEN "down" ELSE link
  /\ handler' = "none"
  /\ lost' = lost + Bytes(wire)
  /\ wire' = <<>>
  /\ UNCHANGED <<generatorVars, peer, written, received, abandoned, cut>>

(* run returns: the listener is closed, and with it a connection that was  *)
(* not accepted; a datagram socket takes what it holds along.              *)
RunReturns ==
  /\ peer = "listening"
  /\ peer' = "returned"
  /\ IF kind \in Datagrams \/ handler = "backlog"
     THEN /\ lost' = lost + Bytes(wire)
          /\ wire' = <<>>
          /\ handler' = "none"
          /\ link' = IF handler = "backlog" /\ link = "up" THEN "down" ELSE link
     ELSE UNCHANGED <<lost, wire, handler, link>>
  /\ UNCHANGED <<generatorVars, written, received, abandoned, cut>>

PeerShutdown == shutdown /\ RunReturns /\ UNCHANGED breaks

(* accept or recv fails, and run returns the error.                        *)
PeerFails ==
  /\ breaks < MaxBreaks
  /\ breaks' = breaks + 1
  /\ RunReturns
-----------------------------------------------------------------------------
Write ==
  \/ WriteSome \/ WriteFails \/ WriteFile \/ WriteFileFails
  \/ GrpcResponds \/ GrpcFails \/ SendTo \/ SendToFails \/ Send \/ SendFails

Open == Connect \/ ConnectDatagram \/ ConnectGrpc \/ OpenFile

Next ==
  \/ CacheSends \/ CacheEnds
  \/ Startup \/ Open \/ Bind \/ Peek \/ Throttled \/ SpinShutdown
  \/ Write
  \/ Listen \/ ListenFails \/ Accept \/ HandlerReads \/ Receive \/ HandlerEnds
  \/ Break \/ PeerShutdown \/ PeerFails

(* What each task does for certain: the runtime polls the tasks and the    *)
(* system runs the cache's thread.  The peer of a stream reads, as the     *)
(* blackholes do, and a grpc server answers: spin has no timeout for one   *)
(* that does not.                                                          *)
GeneratorStep == Startup \/ Open \/ Peek \/ Write
CacheStep == CacheSends \/ CacheEnds
PeerStep ==
  Listen \/ ListenFails \/ Accept \/ HandlerReads \/ Receive \/ HandlerEnds
-----------------------------------------------------------------------------
(* The throttle is paid for the very block that is written, although it is *)
(* only peeked at before the wait and a wait may be cut short, and what    *)
(* the generator has not taken yet follows it in the cache's order: no     *)
(* block is skipped or sent twice.                                         *)
BlocksInOrder ==
  LET pending == (IF buffer = None THEN <<>> ELSE <<buffer>>) \o channel
                   \o <<idx>>
  IN  /\ spin = "write" => granted = Blocks[blk]
      /\ pending[1] = Successor(blk)
      /\ \A i \in 1..(Len(pending) - 1) : pending[i + 1] = Successor(pending[i])

(* bytes_written of the generator and bytes_received of the blackhole      *)
(* agree, up to the bytes in flight, the ones lost with a connection or a  *)
(* datagram, and, where only whole blocks are counted, the part of a block *)
(* that got through.  The end of a datagram is cut only when it is longer  *)
(* than the blackhole's buffer, which no udp datagram is; and over a unix  *)
(* datagram socket nothing is lost while the blackhole runs.               *)
BytesConserved ==
  /\ received + Bytes(wire) + lost + cut =
       written + abandoned
         + (IF kind = "tcp" /\ spin = "write" THEN offset ELSE 0)
  /\ cut > 0 => /\ kind = "unix_datagram"
                /\ \E b \in DOMAIN Blocks : Blocks[b] > ReceiveBytes
  /\ kind = "unix_datagram" /\ peer # "returned" => lost = 0

(* The chunk d may come after c on a connection: it goes on with c's       *)
(* block, or begins the next one if c ends its own.                        *)
Follows(c, d) ==
  CASE c = NoChunk -> d.first = 1
    [] c # NoChunk /\ c.last < Blocks[c.block] ->
         d.block = c.block /\ d.first = c.last + 1
    [] OTHER -> d.block = Successor(c.block) /\ d.first = 1

(* A stream's connection carries whole blocks in the cache's order; only   *)
(* the last one may be cut short, and never is the rest of it sent on the  *)
(* next connection.                                                        *)
StreamsAreWholeBlocks ==
  [][(kind \in Streams /\ lastChunk' \notin {lastChunk, NoChunk})
       => Follows(lastChunk, lastChunk')]_vars

(* After the shutdown signal a generator that has its connection returns,  *)
(* as long as its peer reads or the connection breaks; the cache's thread  *)
(* ends behind it; and the blackhole returns.  The ones left are in the    *)
(* loop that connects.                                                     *)
Returned ==
  /\ \/ spin = "returned" /\ thread = "ended"
     \/ spin = "connect"
  /\ peer = "returned"
=============================================================================
