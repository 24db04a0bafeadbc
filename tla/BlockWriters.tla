---------------------------- MODULE BlockWriters ----------------------------
(***************************************************************************)
(* generator.rs: the Server, when it holds one of the generators that      *)
(* write the blocks of a cache to files (RotatedFiles) or to a peer        *)
(* (SocketGenerator).  Its kind is the configuration's choice; the one it  *)
(* does not hold is as good as returned.                                   *)
(***************************************************************************)
EXTENDS Naturals, Sequences, FiniteSets

CONSTANTS
  Children, Rotations, Sizes, MaxBytes, Capacity, MaxWrites, MaxDeletes, MaxFaults,
  Blocks, ChannelSize, ReceiveBytes, UdpBytes, SocketBytes, MaxBlocks, MaxBreaks

ASSUME BlockWritersAssumption ==
  /\ IsFiniteSet(Children) /\ Children \subseteq Nat /\ Rotations \in Nat
  /\ Sizes \in Seq(Nat \ {0}) /\ Sizes # <<>>
  /\ MaxBytes \in Nat \ {0} /\ Capacity \in Nat \ {0}
  /\ Blocks \in Seq(Nat \ {0}) /\ Blocks # <<>> /\ ChannelSize \in Nat \ {0}
  /\ \A b \in DOMAIN Blocks : Blocks[b] <= SocketBytes
  /\ UdpBytes <= ReceiveBytes

VARIABLES
  kind,      \* the variant of Server and of its configuration
  shutdown,  \* the shutdown signal
  server, pc, next, path, fp, buf, total, step, file_index, disk, files,
  deletes, faults,
  thread, idx, channel, buffer, spin, blk, offset, granted, link, wire, peer,
  handler, written, received, lost, abandoned, cut, lastChunk, taken, breaks

Files == INSTANCE RotatedFiles WITH MaxBlocks <- MaxWrites
Sockets == INSTANCE SocketGenerator

filesVars == <<server, pc, next, path, fp, buf, total, step, file_index, disk,
               files, deletes, faults>>
socketsVars == <<thread, idx, channel, buffer, spin, blk, offset, granted, link,
                 wire, peer, handler, written, received, lost, abandoned, cut,
                 lastChunk, taken, breaks>>
vars == <<kind, shutdown, filesVars, socketsVars>>

FileKinds == {"logrotate", "rotate", "keep"}
SocketKinds ==
  {"tcp", "udp", "unix_stream", "unix_datagram", "passthru_file", "grpc"}

(* Server::new.                                                            *)
Init ==
  /\ kind \in FileKinds \cup SocketKinds
  /\ shutdown = FALSE
  /\ Files!Init(kind \in FileKinds)
  /\ Sockets!Init(kind \in SocketKinds)

(* The signal that main sends at the end of the experiment.                *)
ShutdownSignal ==
  /\ ~shutdown
  /\ shutdown' = TRUE
  /\ UNCHANGED <<kind, filesVars, socketsVars>>

OnlyFiles == kind \in FileKinds /\ UNCHANGED socketsVars
OnlySockets == kind \in SocketKinds /\ UNCHANGED filesVars

(* Server::run: the generator that the server holds.                       *)
Next ==
  \/ ShutdownSignal
  \/ OnlyFiles /\ Files!Next
  \/ OnlySockets /\ Sockets!Next

Spec == Init /\ [][Next]_vars

(* The tasks of either kind: a child, or the generator; the other child,   *)
(* or the cache's thread; whoever waits for the children, or listens at    *)
(* the other end.  A select picks among its ready arms at random.              *)
Task ==
  \/ OnlyFiles /\ Files!ChildStep(1)
  \/ OnlySockets /\ Sockets!GeneratorStep
SecondTask ==
  \/ OnlyFiles /\ Files!ChildStep(2)
  \/ OnlySockets /\ Sockets!CacheStep
OuterTask ==
  \/ OnlyFiles /\ Files!ServerStep
  \/ OnlySockets /\ Sockets!PeerStep
Select ==
  \/ OnlyFiles /\ Files!ChildShutdown(1)
  \/ OnlySockets /\ Sockets!SpinShutdown
OtherSelect ==
  \/ OnlyFiles /\ Files!ChildShutdown(2)
  \/ OnlySockets /\ Sockets!PeerShutdown

(* Only one of a task's disjuncts is ever enabled, for one kind is held.   *)
FairSpec ==
  /\ Spec
  /\ WF_vars(Task) /\ WF_vars(SecondTask) /\ WF_vars(OuterTask)
  /\ SF_vars(Select) /\ SF_vars(OtherSelect)
-----------------------------------------------------------------------------
(* Read through its rotated files, from the oldest name to the newest, a   *)
(* log has its blocks in the order they were written, wherever the         *)
(* rotation stands, and unless files are deleted none is missing up to the *)
(* last one, except what the error of a failed child cost.                 *)
LogsAreContiguous == Files!LogsAreContiguous

(* The throttle is paid for the very block that is written to a socket,    *)
(* although the wait for it may be cut short, and no block of the cache is *)
(* skipped or sent twice.                                                  *)
BlocksInOrder == Sockets!BlocksInOrder

(* The bytes a generator counts as written and those the blackhole counts  *)
(* as received agree, up to those in flight, lost, given up or cut from a  *)
(* datagram longer than the blackhole's buffer.                            *)
BytesConserved == Sockets!BytesConserved

(* A stream's connection carries whole blocks in the cache's order; only   *)
(* the last one may be cut short, and its rest is never sent.              *)
StreamsAreWholeBlocks == Sockets!StreamsAreWholeBlocks

(* After the shutdown signal the children get out of their rotation, flush *)
(* and return, and the server with them; a socket generator returns unless *)
(* it is in the loop that connects, as long as its peer reads or the       *)
(* connection breaks, the cache's thread ends behind it, and the blackhole *)
(* returns.                                                                *)
WriterReturns == shutdown ~> Files!Returned /\ Sockets!Returned
=============================================================================
