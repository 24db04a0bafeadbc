---------------------------- MODULE SignalProofs ----------------------------
(***************************************************************************)
(* Proofs about Signal for any finite set of watchers: the peer counter is *)
(* exact, signal_and_wait returns only when nobody is outstanding, and     *)
(* Signal implements PhaseLatch.                                           *)
(***************************************************************************)
EXTENDS Signal, FiniteSetTheorems, TLAPS

(* Inside decrease_peer_count a watcher is registered and not yet marked,  *)
(* and it is there on behalf of recv or try_recv only once the signal is   *)
(* out.                                                                    *)
Deciding ==
  \A w \in Watchers :
    wpc[w] \in {"load", "cas", "notify"} =>
      registered[w] /\ ~decreased[w] /\ (caller[w] # "drop" => ~senderOpen)

(* The exchange is attempted only with a positive value.                   *)
OldPositive == \A w \in Watchers : wpc[w] = "cas" => old[w] > 0

(* The sender lives exactly as long as the Broadcaster is unused.          *)
SenderPhase == senderOpen <=> bpc = "idle"

IInv ==
  /\ TypeOK
  /\ PeersCountsOutstanding
  /\ Deciding
  /\ OldPositive
  /\ SenderPhase
  /\ ReceivedMeansAcked
-----------------------------------------------------------------------------
(* The outstanding watchers are finitely many, and fewer than the counter  *)
(* can hold.                                                               *)
LEMMA OutstandingFinite ==
  /\ IsFiniteSet(Outstanding)
  /\ Cardinality(Outstanding) \in Nat
  /\ Cardinality(Outstanding) < PeerModulus
<1>1. Outstanding \subseteq Watchers
  BY DEF Outstanding
<1>2. /\ IsFiniteSet(Outstanding)
      /\ Cardinality(Outstanding) <= Cardinality(Watchers)
  BY <1>1, FS_Subset, WatchersAssumption
<1>3. Cardinality(Outstanding) \in Nat /\ Cardinality(Watchers) \in Nat
  BY <1>2, FS_CardinalityType, WatchersAssumption
<1> QED
  BY <1>2, <1>3, PeerModulusAssumption

(* A watcher still to be decremented keeps the counter above zero.         *)
LEMMA OutstandingKeepsPeersPositive ==
  ASSUME PeersCountsOutstanding, NEW w \in Outstanding
  PROVE  peers > 0
<1>1. Cardinality(Outstanding) # 0
  BY OutstandingFinite, FS_EmptySet
<1> QED
  BY <1>1, OutstandingFinite DEF PeersCountsOutstanding

(* decrease_peer_count never finds the counter at zero.                    *)
LEMMA IInvNeverDecreasesZero ==
  IInv => NeverDecreasesZero
<1> SUFFICES ASSUME IInv, NEW w \in Watchers, wpc[w] \in {"load", "cas"}
             PROVE  peers > 0
  BY DEF NeverDecreasesZero
<1>1. w \in Outstanding
  BY DEF IInv, Deciding, Outstanding
<1> QED
  BY <1>1, OutstandingKeepsPeersPositive DEF IInv

(* An unused Broadcaster and one registered, counted watcher.              *)
LEMMA InitIInv ==
  Init => IInv
<1> SUFFICES ASSUME Init PROVE IInv
  OBVIOUS
<1>1. PICK first \in Watchers :
        /\ wpc = [w \in Watchers |-> IF w = first THEN "idle" ELSE "absent"]
        /\ registered = [w \in Watchers |-> w = first]
  BY DEF Init
<1>2. Outstanding = {first}
  BY <1>1, Zenon DEF Init, Outstanding
<1>3. PeersCountsOutstanding
  BY <1>2, FS_Singleton, Zenon DEF Init, PeersCountsOutstanding
<1>4. 1 < PeerModulus
  BY <1>2, OutstandingFinite, FS_Singleton, PeerModulusAssumption
<1>5. TypeOK
  <2>1. peers \in 0..(PeerModulus - 1)
    BY <1>4, PeerModulusAssumption DEF Init
  <2>2. wpc \in [Watchers -> WatcherPCs]
    BY <1>1 DEF WatcherPCs
  <2>3. registered \in [Watchers -> BOOLEAN]
    BY <1>1
  <2> QED
    BY <2>1, <2>2, <2>3, Zenon DEF Init, TypeOK, BroadcasterPCs, Callers
<1>6. Deciding /\ OldPositive /\ SenderPhase /\ ReceivedMeansAcked
  BY <1>1 DEF Init, Deciding, OldPositive, SenderPhase, ReceivedMeansAcked
<1> QED
  BY <1>3, <1>5, <1>6 DEF IInv
-----------------------------------------------------------------------------
(* The Broadcaster's own steps leave the watchers and the counter alone.   *)
LEMMA BroadcasterStep ==
  ASSUME IInv, BroadcasterNext
  PROVE  IInv' /\ Outstanding' = Outstanding /\ peers' = peers
<1>1. UNCHANGED <<peers, watcherVars>>
  BY DEF BroadcasterNext, BroadcastSignal, SignalAndWait, LoadPeers, Listen,
         Wake, watcherVars
<1>2. senderOpen' = senderOpen \/ senderOpen' = FALSE
  BY DEF BroadcasterNext, BroadcastSignal, SignalAndWait, LoadPeers, Listen,
         Wake
<1>3. bpc' \in BroadcasterPCs /\ woken' \in BOOLEAN
  BY Zenon DEF BroadcasterNext, BroadcastSignal, SignalAndWait, LoadPeers, Listen,
         Wake, IInv, TypeOK, BroadcasterPCs
<1>4. SenderPhase'
  BY DEF BroadcasterNext, BroadcastSignal, SignalAndWait, LoadPeers, Listen,
         Wake, IInv, SenderPhase
<1>5. Outstanding' = Outstanding
  BY <1>1 DEF Outstanding, watcherVars
<1>6. TypeOK'
  BY <1>1, <1>2, <1>3, Zenon DEF IInv, TypeOK, watcherVars
<1>7. PeersCountsOutstanding'
  BY <1>1, <1>5 DEF IInv, PeersCountsOutstanding
<1>8. Deciding' /\ OldPositive' /\ ReceivedMeansAcked'
  BY <1>1, <1>2, <1>5
  DEF IInv, Deciding, OldPositive, ReceivedMeansAcked, watcherVars
<1> QED
  BY <1>1, <1>4, <1>5, <1>6, <1>7, <1>8 DEF IInv

(* Calling decrease_peer_count changes the standing of no watcher.         *)
LEMMA CallDecreaseStep ==
  ASSUME IInv, NEW w \in Watchers, NEW from \in Callers,
         wpc[w] \in {"idle", "recv"}, from # "drop" => ~senderOpen,
         CallDecrease(w, from)
  PROVE  IInv' /\ Outstanding' = Outstanding /\ peers' = peers
<1>1. TypeOK'
  BY Zenon DEF IInv, TypeOK, CallDecrease, Resume, WatcherPCs, Callers
<1>2. Outstanding' = Outstanding
  BY DEF IInv, TypeOK, CallDecrease, Resume, Outstanding
<1>3. PeersCountsOutstanding' /\ peers' = peers
  BY <1>2 DEF IInv, PeersCountsOutstanding, CallDecrease
<1>4. Deciding'
  BY DEF IInv, TypeOK, Deciding, CallDecrease, Resume
<1>5. OldPositive' /\ SenderPhase'
  BY DEF IInv, TypeOK, OldPositive, SenderPhase, CallDecrease, Resume
<1>6. ReceivedMeansAcked'
  <2> SUFFICES ASSUME NEW x \in Watchers, received'[x]
               PROVE  ~senderOpen' /\ x \notin Outstanding'
    BY DEF ReceivedMeansAcked
  <2>1. CASE received[x]
    BY <2>1, <1>2 DEF IInv, ReceivedMeansAcked, CallDecrease
  <2>2. CASE ~received[x]
    <3>1. x = w /\ ~(registered[w] /\ ~decreased[w]) /\ from # "drop"
      BY <2>2 DEF IInv, TypeOK, CallDecrease, Resume
    <3> QED
      BY <3>1, <1>2 DEF Outstanding, CallDecrease
  <2> QED
    BY <2>1, <2>2
<1> QED
  BY <1>1, <1>2, <1>3, <1>4, <1>5, <1>6 DEF IInv

(* A read of the counter, first or after a failed exchange, finds it       *)
(* positive and leads to an attempt of the exchange.                       *)
LEMMA ReadStep ==
  ASSUME IInv, NEW w \in Watchers, wpc[w] \in {"load", "cas"},
         TryWith(w, peers),
         UNCHANGED <<senderOpen, peers, bpc, woken, caller, registered>>
  PROVE  IInv' /\ Outstanding' = Outstanding
<1>1. peers > 0
  BY IInvNeverDecreasesZero DEF NeverDecreasesZero
<1>2. /\ wpc' = [wpc EXCEPT ![w] = "cas"]
      /\ old' = [old EXCEPT ![w] = peers]
      /\ UNCHANGED <<decreased, received>>
  BY <1>1 DEF TryWith
<1>3. Outstanding' = Outstanding
  BY <1>2 DEF IInv, TypeOK, Outstanding
<1>4. TypeOK'
  BY <1>2, PeerModulusAssumption DEF IInv, TypeOK, WatcherPCs
<1>5. PeersCountsOutstanding' /\ ReceivedMeansAcked'
  BY <1>2, <1>3 DEF IInv, PeersCountsOutstanding, ReceivedMeansAcked
<1>6. Deciding' /\ OldPositive' /\ SenderPhase'
  BY <1>1, <1>2 DEF IInv, TypeOK, Deciding, OldPositive, SenderPhase
<1> QED
  BY <1>3, <1>4, <1>5, <1>6 DEF IInv

(* A successful exchange takes exactly its watcher off the count.          *)
LEMMA DecrementStep ==
  ASSUME IInv, NEW w \in Watchers, wpc[w] = "cas",
         peers = old[w], peers' = old[w] - 1,
         wpc' = [wpc EXCEPT ![w] = "notify"],
         UNCHANGED <<old, decreased, received>>,
         UNCHANGED <<senderOpen, bpc, woken, caller, registered>>
  PROVE  IInv' /\ w \in Outstanding /\ Outstanding' = Outstanding \ {w}
<1>1. w \in Outstanding
  BY DEF IInv, Deciding, Outstanding
<1>2. Outstanding' = Outstanding \ {w}
  BY DEF IInv, TypeOK, Outstanding
<1>3. PeersCountsOutstanding'
  <2>1. Cardinality(Outstanding \ {w}) = Cardinality(Outstanding) - 1
    BY <1>1, OutstandingFinite, FS_RemoveElement, Zenon
  <2>2. Cardinality(Outstanding') = Cardinality(Outstanding) - 1
    BY <2>1, <1>2
  <2> QED
    BY <2>2, Zenon DEF IInv, PeersCountsOutstanding
<1>4. peers > 0
  BY <1>1, OutstandingKeepsPeersPositive DEF IInv
<1>5. TypeOK'
  BY <1>4, PeerModulusAssumption DEF IInv, TypeOK, WatcherPCs
<1>6. Deciding' /\ OldPositive' /\ SenderPhase'
  BY DEF IInv, TypeOK, Deciding, OldPositive, SenderPhase
<1>7. ReceivedMeansAcked'
  BY <1>2 DEF IInv, ReceivedMeansAcked
<1> QED
  BY <1>1, <1>2, <1>3, <1>5, <1>6, <1>7 DEF IInv

(* notify_waiters and the end of decrease_peer_count: the watcher was off  *)
(* the count before.                                                       *)
LEMMA NotifyStep ==
  ASSUME IInv, NEW w \in Watchers, NotifyWaiters(w)
  PROVE  IInv' /\ Outstanding' = Outstanding
<1> USE DEF NotifyWaiters, FinishDecrease, Resume
<1>1. Outstanding' = Outstanding
  BY DEF IInv, TypeOK, Outstanding
<1>2. TypeOK'
  BY DEF IInv, TypeOK, WatcherPCs
<1>3. PeersCountsOutstanding'
  BY <1>1 DEF IInv, PeersCountsOutstanding
<1>4. Deciding' /\ OldPositive' /\ SenderPhase'
  BY DEF IInv, TypeOK, Deciding, OldPositive, SenderPhase
<1>5. ReceivedMeansAcked'
  <2> SUFFICES ASSUME NEW x \in Watchers, received'[x]
               PROVE  ~senderOpen' /\ x \notin Outstanding'
    BY DEF ReceivedMeansAcked
  <2>1. CASE received[x]
    BY <2>1, <1>1 DEF IInv, ReceivedMeansAcked
  <2>2. CASE ~received[x]
    <3>1. x = w /\ caller[w] # "drop"
      BY <2>2 DEF IInv, TypeOK
    <3> QED
      BY <3>1, <1>1 DEF IInv, Deciding, Outstanding
  <2> QED
    BY <2>1, <2>2
<1> QED
  BY <1>1, <1>2, <1>3, <1>4, <1>5 DEF IInv

(* A clone is not counted.                                                 *)
LEMMA CloneStep ==
  ASSUME IInv, NEW w \in Watchers, NEW n \in Watchers, CloneWatcher(w, n)
  PROVE  IInv' /\ Outstanding' = Outstanding
<1> USE DEF CloneWatcher, Create
<1>1. Outstanding' = Outstanding
  BY DEF IInv, TypeOK, Outstanding
<1>2. TypeOK'
  BY DEF IInv, TypeOK, WatcherPCs
<1>3. PeersCountsOutstanding'
  BY <1>1 DEF IInv, PeersCountsOutstanding
<1>4. Deciding' /\ OldPositive' /\ SenderPhase'
  BY DEF IInv, TypeOK, Deciding, OldPositive, SenderPhase
<1>5. ReceivedMeansAcked'
  <2> SUFFICES ASSUME NEW x \in Watchers, received'[x]
               PROVE  ~senderOpen' /\ x \notin Outstanding'
    BY DEF ReceivedMeansAcked
  <2>1. CASE x # n
    BY <2>1, <1>1 DEF IInv, TypeOK, ReceivedMeansAcked
  <2>2. CASE x = n
    BY <2>2, <1>1 DEF IInv, TypeOK, ReceivedMeansAcked, Outstanding
  <2> QED
    BY <2>1, <2>2
<1> QED
  BY <1>1, <1>2, <1>3, <1>4, <1>5 DEF IInv

(* register adds exactly the new watcher, and the counter does not wrap.   *)
LEMMA RegisterStep ==
  ASSUME IInv, NEW w \in Watchers, NEW n \in Watchers, Register(w, n)
  PROVE  IInv' /\ n \notin Outstanding /\ Outstanding' = Outstanding \cup {n}
<1> USE DEF Register, Create
<1>1. n \notin Outstanding
  BY DEF Outstanding
<1>2. Outstanding' = Outstanding \cup {n}
  BY DEF IInv, TypeOK, Outstanding
<1>3. Cardinality(Outstanding') = Cardinality(Outstanding) + 1
  BY <1>1, <1>2, OutstandingFinite, FS_AddElement, Zenon
<1>4. Cardinality(Outstanding') < PeerModulus
  <2>1. Outstanding' \subseteq Watchers
    BY <1>2 DEF Outstanding
  <2>2. Cardinality(Outstanding') <= Cardinality(Watchers)
    BY <2>1, FS_Subset, WatchersAssumption
  <2> QED
    BY <2>2, <1>3, OutstandingFinite, FS_CardinalityType, WatchersAssumption,
       PeerModulusAssumption
<1>5. peers' = peers + 1 /\ peers' \in 0..(PeerModulus - 1)
  BY <1>3, <1>4, OutstandingFinite, PeerModulusAssumption
  DEF IInv, PeersCountsOutstanding
<1>6. PeersCountsOutstanding'
  BY <1>3, <1>5 DEF IInv, PeersCountsOutstanding
<1>7. TypeOK'
  BY <1>5 DEF IInv, TypeOK, WatcherPCs
<1>8. Deciding' /\ OldPositive' /\ SenderPhase'
  BY DEF IInv, TypeOK, Deciding, OldPositive, SenderPhase
<1>9. ReceivedMeansAcked'
  BY <1>2 DEF IInv, TypeOK, ReceivedMeansAcked
<1> QED
  BY <1>1, <1>2, <1>6, <1>7, <1>8, <1>9 DEF IInv

(* Suspending in recv changes nothing that is shared.                      *)
LEMMA RecvStep ==
  ASSUME IInv, NEW w \in Watchers, Recv(w)
  PROVE  IInv' /\ Outstanding' = Outstanding
<1> USE DEF Recv, fields
<1>1. Outstanding' = Outstanding
  BY DEF IInv, TypeOK, Outstanding
<1>2. TypeOK'
  BY DEF IInv, TypeOK, WatcherPCs
<1>3. PeersCountsOutstanding' /\ ReceivedMeansAcked'
  BY <1>1 DEF IInv, PeersCountsOutstanding, ReceivedMeansAcked
<1>4. Deciding' /\ OldPositive' /\ SenderPhase'
  BY DEF IInv, TypeOK, Deciding, OldPositive, SenderPhase
<1> QED
  BY <1>1, <1>2, <1>3, <1>4 DEF IInv

(* Every step of a watcher keeps the invariant, leaves the Broadcaster     *)
(* where it is, and adds or removes at most one outstanding watcher.       *)
LEMMA WatcherStep ==
  ASSUME IInv, NEW w \in Watchers, WatcherNext(w)
  PROVE  /\ IInv'
         /\ bpc' = bpc /\ senderOpen' = senderOpen
         /\ \/ Outstanding' = Outstanding
            \/ \E x \in Watchers :
                 x \notin Outstanding /\ Outstanding' = Outstanding \cup {x}
            \/ \E x \in Watchers :
                 x \in Outstanding /\ Outstanding' = Outstanding \ {x}
<1>1. CASE LoadOld(w)
  BY <1>1, ReadStep DEF LoadOld
<1>2. CASE Exchange(w)
  <2>1. CASE /\ peers = old[w] /\ peers' = old[w] - 1
             /\ wpc' = [wpc EXCEPT ![w] = "notify"]
             /\ UNCHANGED <<old, decreased, received>>
    BY <1>2, <2>1, DecrementStep, Zenon DEF Exchange
  <2>2. CASE TryWith(w, peers) /\ UNCHANGED peers
    BY <1>2, <2>2, ReadStep DEF Exchange
  <2> QED
    BY <1>2, <2>1, <2>2 DEF Exchange
<1>3. CASE NotifyWaiters(w)
  BY <1>3, NotifyStep DEF NotifyWaiters
<1>4. CASE Recv(w)
  BY <1>4, RecvStep, Zenon DEF Recv
<1>5. CASE RecvAgain(w) \/ DropWatcher(w) \/ CancelRecv(w)
  <2>1. CallDecrease(w, "drop") /\ wpc[w] \in {"idle", "recv"}
    BY <1>5 DEF RecvAgain, DropWatcher, CancelRecv
  <2> QED
    BY <2>1, CallDecreaseStep, Zenon DEF CallDecrease, Callers
<1>6. CASE RecvClosed(w)
  BY <1>6, CallDecreaseStep, Zenon DEF RecvClosed, CallDecrease, Callers
<1>7. CASE TryRecv(w)
  BY <1>7, CallDecreaseStep, Zenon DEF TryRecv, CallDecrease, Callers
<1>8. CASE \E n \in Watchers : CloneWatcher(w, n)
  BY <1>8, CloneStep, Zenon DEF CloneWatcher
<1>9. CASE \E n \in Watchers : Register(w, n)
  BY <1>9, RegisterStep, Zenon DEF Register
<1> QED
  BY <1>1, <1>2, <1>3, <1>4, <1>5, <1>6, <1>7, <1>8, <1>9 DEF WatcherNext
-----------------------------------------------------------------------------
(* The inductive invariant holds in every reachable state.                 *)
THEOREM IInvHolds ==
  Spec => []IInv
<1>1. IInv /\ [Next]_vars => IInv'
  <2> SUFFICES ASSUME IInv, [Next]_vars PROVE IInv'
    OBVIOUS
  <2>1. CASE Next
    BY <2>1, BroadcasterStep, WatcherStep DEF Next
  <2>2. CASE UNCHANGED vars
    BY <2>2 DEF vars, IInv, TypeOK, PeersCountsOutstanding, Outstanding,
                Deciding, OldPositive, SenderPhase, ReceivedMeansAcked
  <2> QED
    BY <2>1, <2>2
<1> QED
  BY <1>1, InitIInv, PTL DEF Spec

(* Every variable keeps its type; the counter stays within a u32.          *)
THEOREM TypeCorrect ==
  Spec => []TypeOK
BY IInvHolds, PTL DEF IInv

(* The counter the Broadcaster waits on is exactly the number of           *)
(* outstanding watchers.                                                   *)
THEOREM PeersExact ==
  Spec => []PeersCountsOutstanding
BY IInvHolds, PTL DEF IInv

(* A watcher that reports the signal is off the count, and the signal was  *)
(* sent.                                                                   *)
THEOREM ReceivedIsAcked ==
  Spec => []ReceivedMeansAcked
BY IInvHolds, PTL DEF IInv

(* The decrement never meets a zero counter.                               *)
THEOREM NoUnderflow ==
  Spec => []NeverDecreasesZero
BY IInvHolds, IInvNeverDecreasesZero, PTL

(* signal_and_wait returns only when no registered watcher is outstanding. *)
THEOREM WaitIsSound ==
  Spec => ReturnsOnlyWhenAllAcked
<1>1. IInv /\ [Next]_vars
        => [bpc # "returned" /\ bpc' = "returned" => Outstanding = {}]_vars
  <2> SUFFICES ASSUME IInv, Next, bpc # "returned", bpc' = "returned"
               PROVE  Outstanding = {}
    OBVIOUS
  <2>1. BroadcasterNext
    BY WatcherStep DEF Next
  <2>2. peers = 0
    BY <2>1 DEF BroadcasterNext, BroadcastSignal, SignalAndWait, LoadPeers,
                Listen, Wake
  <2> QED
    BY <2>2, OutstandingFinite, FS_EmptySet, Zenon DEF IInv, PeersCountsOutstanding
<1> QED
  BY <1>1, IInvHolds, PTL DEF Spec, ReturnsOnlyWhenAllAcked
-----------------------------------------------------------------------------
(* The Broadcaster's steps announce, announce and wait, release, or are    *)
(* internal to the wait.                                                   *)
LEMMA BroadcasterImplements ==
  ASSUME IInv, BroadcasterNext
  PROVE  [Latch!Next]_(Latch!vars)
<1>1. Outstanding' = Outstanding
  BY BroadcasterStep
<1>2. CASE BroadcastSignal
  <2>1. Latch!Announce
    BY <1>1, <1>2 DEF BroadcastSignal, Latch!Announce, IInv, SenderPhase
  <2> QED
    BY <2>1 DEF Latch!Next
<1>3. CASE SignalAndWait
  <2>1. Latch!AnnounceAndWait
    BY <1>1, <1>3 DEF SignalAndWait, Latch!AnnounceAndWait, IInv, SenderPhase
  <2> QED
    BY <2>1 DEF Latch!Next
<1>4. CASE LoadPeers /\ peers = 0
  <2>1. Outstanding = {}
    BY <1>4, OutstandingFinite, FS_EmptySet, Zenon DEF IInv, PeersCountsOutstanding
  <2>2. Latch!Release
    BY <1>1, <1>4, <2>1 DEF LoadPeers, Latch!Release, IInv, SenderPhase
  <2> QED
    BY <2>2 DEF Latch!Next
<1>5. CASE LoadPeers /\ peers # 0
  BY <1>1, <1>5 DEF LoadPeers, Latch!vars
<1>6. CASE Listen
  BY <1>1, <1>6 DEF Listen, Latch!vars
<1>7. CASE Wake
  BY <1>1, <1>7 DEF Wake, Latch!vars
<1> QED
  BY <1>2, <1>3, <1>4, <1>5, <1>6, <1>7 DEF BroadcasterNext

(* A watcher's steps register, acknowledge, or are internal.               *)
LEMMA WatcherImplements ==
  ASSUME IInv, NEW w \in Watchers, WatcherNext(w)
  PROVE  [Latch!Next]_(Latch!vars)
<1>1. bpc' = bpc /\ senderOpen' = senderOpen
  BY WatcherStep
<1>2. CASE Outstanding' = Outstanding
  BY <1>1, <1>2 DEF Latch!vars
<1>3. ASSUME NEW x \in Watchers, x \notin Outstanding,
             Outstanding' = Outstanding \cup {x}
      PROVE  [Latch!Next]_(Latch!vars)
  <2>1. Latch!Register(x)
    BY <1>1, <1>3 DEF Latch!Register
  <2> QED
    BY <2>1 DEF Latch!Next
<1>4. ASSUME NEW x \in Watchers, x \in Outstanding,
             Outstanding' = Outstanding \ {x}
      PROVE  [Latch!Next]_(Latch!vars)
  <2>1. Latch!Acknowledge(x)
    BY <1>1, <1>4 DEF Latch!Acknowledge
  <2> QED
    BY <2>1 DEF Latch!Next
<1> QED
  BY <1>2, <1>3, <1>4, WatcherStep

(* The counter, the channel and the notifier together implement the        *)
(* abstract latch.                                                         *)
THEOREM SignalImplementsLatch ==
  Spec => ImplementsLatch
<1>1. Init => Latch!Init
  <2> SUFFICES ASSUME Init PROVE Latch!Init
    OBVIOUS
  <2>1. PICK first \in Watchers :
          /\ wpc = [w \in Watchers |-> IF w = first THEN "idle" ELSE "absent"]
          /\ registered = [w \in Watchers |-> w = first]
    BY DEF Init
  <2>2. Outstanding = {first}
    BY <2>1, Zenon DEF Init, Outstanding
  <2> QED
    BY <2>2 DEF Init, Latch!Init
<1>2. IInv /\ [Next]_vars => [Latch!Next]_(Latch!vars)
  <2> SUFFICES ASSUME IInv, [Next]_vars PROVE [Latch!Next]_(Latch!vars)
    OBVIOUS
  <2>1. CASE Next
    BY <2>1, BroadcasterImplements, WatcherImplements DEF Next
  <2>2. CASE UNCHANGED vars
    BY <2>2 DEF vars, Outstanding, Latch!vars
  <2> QED
    BY <2>1, <2>2
<1> QED
  BY <1>1, <1>2, IInvHolds, PTL DEF Spec, ImplementsLatch, Latch!Spec
=============================================================================
