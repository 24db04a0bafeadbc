------------------------------- MODULE Signal -------------------------------
(***************************************************************************)
(* lading_signal/src/lib.rs: one Broadcaster and the Watchers derived from *)
(* one call of signal().  Every access to the shared peer counter and to   *)
(* the tokio Notify is a step of its own; what a thread does between two   *)
(* such accesses is local and belongs to the step before it.               *)
(***************************************************************************)
EXTENDS Naturals, FiniteSets

CONSTANTS
  Watchers,     \* identities; a Watcher value takes one when it is created
  PeerModulus   \* 2^32: the peer counter is an AtomicU32

ASSUME WatchersAssumption == IsFiniteSet(Watchers) /\ Watchers # {}
ASSUME PeerModulusAssumption ==
  PeerModulus \in Nat /\ Cardinality(Watchers) < PeerModulus

VARIABLES
  senderOpen,  \* the broadcast::Sender has not been dropped
  peers,       \* the AtomicU32 shared by the Broadcaster and every Watcher
  bpc,         \* where the Broadcaster is
  woken,       \* the pending Notified future has been completed
  wpc,         \* where each Watcher is
  caller,      \* the function that called decrease_peer_count
  old,         \* decrease_peer_count's local variable
  registered, decreased, received  \* the Boolean fields of each Watcher

vars == <<senderOpen, peers, bpc, woken, wpc, caller, old,
          registered, decreased, received>>
watcherVars == <<wpc, caller, old, registered, decreased, received>>
fields == <<registered, decreased, received>>

BroadcasterPCs == {"idle", "load", "listen", "parked", "returned", "signalled"}
WatcherPCs == {"absent", "idle", "recv", "load", "cas", "notify", "gone"}
Callers == {"recv", "try_recv", "drop"}

TypeOK ==
  /\ senderOpen \in BOOLEAN
  /\ peers \in 0..(PeerModulus - 1)
  /\ bpc \in BroadcasterPCs
  /\ woken \in BOOLEAN
  /\ wpc \in [Watchers -> WatcherPCs]
  /\ caller \in [Watchers -> Callers]
  /\ old \in [Watchers -> Nat]
  /\ registered \in [Watchers -> BOOLEAN]
  /\ decreased \in [Watchers -> BOOLEAN]
  /\ received \in [Watchers -> BOOLEAN]

(* signal(): the first watcher is registered and already counted.          *)
Init ==
  /\ senderOpen = TRUE
  /\ peers = 1
  /\ bpc = "idle"
  /\ woken = FALSE
  /\ \E first \in Watchers :
       /\ wpc = [w \in Watchers |-> IF w = first THEN "idle" ELSE "absent"]
       /\ registered = [w \in Watchers |-> w = first]
  /\ caller = [w \in Watchers |-> "drop"]
  /\ old = [w \in Watchers |-> 0]
  /\ decreased = [w \in Watchers |-> FALSE]
  /\ received = [w \in Watchers |-> FALSE]
-----------------------------------------------------------------------------
(* Broadcaster::signal, and equally the drop of a Broadcaster nobody       *)
(* called: both drop the sender and wait for nothing.                      *)
BroadcastSignal ==
  /\ bpc = "idle"
  /\ senderOpen' = FALSE
  /\ bpc' = "signalled"
  /\ UNCHANGED <<peers, woken, watcherVars>>

(* Broadcaster::signal_and_wait up to the first iteration of its loop.     *)
SignalAndWait ==
  /\ bpc = "idle"
  /\ senderOpen' = FALSE
  /\ bpc' = "load"
  /\ UNCHANGED <<peers, woken, watcherVars>>

(* The SeqCst load, and the exit from the loop when it reads zero.         *)
LoadPeers ==
  /\ bpc = "load"
  /\ bpc' = IF peers = 0 THEN "returned" ELSE "listen"
  /\ UNCHANGED <<senderOpen, peers, woken, watcherVars>>

(* notify.notified(): from here on, and not before, the future hears       *)
(* notify_waiters().                                                       *)
Listen ==
  /\ bpc = "listen"
  /\ bpc' = "parked"
  /\ woken' = FALSE
  /\ UNCHANGED <<senderOpen, peers, watcherVars>>

(* Variant: the loop is an if, the counter is not read again.              *)
WakeAndReturn ==
  /\ bpc = "parked"
  /\ woken
  /\ bpc' = "returned"
  /\ UNCHANGED <<senderOpen, peers, woken, watcherVars>>

(* The completed future lets the loop go round again.                      *)
Wake ==
  /\ bpc = "parked"
  /\ woken
  /\ bpc' = "load"
  /\ UNCHANGED <<senderOpen, peers, woken, watcherVars>>
-----------------------------------------------------------------------------
(* What the caller of decrease_peer_count does when it returns: recv and   *)
(* try_recv record the signal, recv and drop end the Watcher (recv owns    *)
(* self, so the Drop that follows finds nothing left to decrease).         *)
Resume(w, from) ==
  /\ wpc' = [wpc EXCEPT ![w] = IF from = "try_recv" THEN "idle" ELSE "gone"]
  /\ received' = [received EXCEPT ![w] = @ \/ from # "drop"]

(* The call of decrease_peer_count with its two early returns.             *)
CallDecrease(w, from) ==
  /\ IF registered[w] /\ ~decreased[w]
     THEN /\ wpc' = [wpc EXCEPT ![w] = "load"]
          /\ UNCHANGED received
     ELSE Resume(w, from)
  /\ caller' = [caller EXCEPT ![w] = from]
  /\ UNCHANGED <<senderOpen, peers, bpc, woken, old, registered, decreased>>

(* Leaving decrease_peer_count through its last statement.                 *)
FinishDecrease(w) ==
  /\ decreased' = [decreased EXCEPT ![w] = TRUE]
  /\ Resume(w, caller[w])

(* Entering the while loop with the value v read from the counter.         *)
TryWith(w, v) ==
  /\ old' = [old EXCEPT ![w] = v]
  /\ IF v > 0
     THEN /\ wpc' = [wpc EXCEPT ![w] = "cas"]
          /\ UNCHANGED <<decreased, received>>
     ELSE FinishDecrease(w)

(* The first read of the counter.  The load is Relaxed and may return an   *)
(* older value, but none older than the watcher's own registration, so     *)
(* never zero; an outdated value only makes the exchange fail.             *)
LoadOld(w) ==
  /\ wpc[w] = "load"
  /\ TryWith(w, peers)
  /\ UNCHANGED <<senderOpen, peers, bpc, woken, caller, registered>>

(* Variant: a store where the compare_exchange is.                         *)
StoreDecreased(w) ==
  /\ wpc[w] = "cas"
  /\ peers' = old[w] - 1
  /\ wpc' = [wpc EXCEPT ![w] = "notify"]
  /\ UNCHANGED <<senderOpen, bpc, woken, caller, old, fields>>

(* compare_exchange_weak: it may succeed when the values agree, and may    *)
(* fail, spuriously too, and hand back the current value.                  *)
Exchange(w) ==
  /\ wpc[w] = "cas"
  /\ \/ /\ peers = old[w]
        /\ peers' = old[w] - 1
        /\ wpc' = [wpc EXCEPT ![w] = "notify"]
        /\ UNCHANGED <<old, decreased, received>>
     \/ /\ TryWith(w, peers)
        /\ UNCHANGED peers
  /\ UNCHANGED <<senderOpen, bpc, woken, caller, registered>>

(* notify_waiters() completes the futures that exist and leaves no permit  *)
(* for one created later.                                                  *)
NotifyWaiters(w) ==
  /\ wpc[w] = "notify"
  /\ woken' = (woken \/ bpc = "parked")
  /\ FinishDecrease(w)
  /\ UNCHANGED <<senderOpen, peers, bpc, caller, old, registered>>
-----------------------------------------------------------------------------
(* Watcher::recv: without the signal it suspends on the channel; with it   *)
(* the owned Watcher is dropped at once.                                   *)
Recv(w) ==
  /\ wpc[w] = "idle"
  /\ ~received[w]
  /\ wpc' = [wpc EXCEPT ![w] = "recv"]
  /\ UNCHANGED <<senderOpen, peers, bpc, woken, caller, old, fields>>

RecvAgain(w) ==
  /\ wpc[w] = "idle"
  /\ received[w]
  /\ CallDecrease(w, "drop")

(* The channel is closed: RecvError::Closed.                               *)
RecvClosed(w) ==
  /\ wpc[w] = "recv"
  /\ ~senderOpen
  /\ CallDecrease(w, "recv")

(* A select! that takes another arm drops the recv future and with it the  *)
(* Watcher.                                                                *)
CancelRecv(w) ==
  /\ wpc[w] = "recv"
  /\ CallDecrease(w, "drop")

(* Watcher::try_recv on a closed channel.  The other two outcomes, Empty   *)
(* and SignalReceived, change nothing.                                     *)
TryRecv(w) ==
  /\ wpc[w] = "idle"
  /\ ~received[w]
  /\ ~senderOpen
  /\ CallDecrease(w, "try_recv")

(* Watcher::drop.                                                          *)
DropWatcher(w) ==
  /\ wpc[w] = "idle"
  /\ CallDecrease(w, "drop")

(* The fields of a new Watcher n made from w.                              *)
Create(w, n, reg) ==
  /\ wpc[w] = "idle"
  /\ wpc[n] = "absent"
  /\ wpc' = [wpc EXCEPT ![n] = "idle"]
  /\ registered' = [registered EXCEPT ![n] = reg]
  /\ received' = [received EXCEPT ![n] = received[w]]
  /\ decreased' = [decreased EXCEPT ![n] = FALSE]

(* Watcher::clone.                                                         *)
CloneWatcher(w, n) ==
  /\ Create(w, n, FALSE)
  /\ UNCHANGED <<senderOpen, peers, bpc, woken, caller, old>>

(* Watcher::register; a watcher that has seen the signal is refused.       *)
Register(w, n) ==
  /\ ~received[w]
  /\ peers' = (peers + 1) % PeerModulus
  /\ Create(w, n, TRUE)
  /\ UNCHANGED <<senderOpen, bpc, woken, caller, old>>
-----------------------------------------------------------------------------
BroadcasterNext ==
  \/ BroadcastSignal
  \/ SignalAndWait
  \/ LoadPeers
  \/ Listen
  \/ Wake

WatcherNext(w) ==
  \/ LoadOld(w)
  \/ Exchange(w)
  \/ NotifyWaiters(w)
  \/ Recv(w)
  \/ RecvAgain(w)
  \/ RecvClosed(w)
  \/ CancelRecv(w)
  \/ TryRecv(w)
  \/ DropWatcher(w)
  \/ \E n \in Watchers : CloneWatcher(w, n) \/ Register(w, n)

Next ==
  \/ BroadcasterNext
  \/ \E w \in Watchers : WatcherNext(w)

Spec == Init /\ [][Next]_vars

(* Threads run: a call in progress is continued, a parked future that was  *)
(* completed is polled, and a recv on a closed channel returns.            *)
Progress ==
  /\ WF_vars(LoadPeers)
  /\ WF_vars(Listen)
  /\ WF_vars(Wake)
  /\ \A w \in Watchers :
       /\ WF_vars(LoadOld(w))
       /\ WF_vars(Exchange(w))
       /\ WF_vars(NotifyWaiters(w))
       /\ WF_vars(RecvClosed(w))

(* Owners let go of their watchers: each one is dropped in the end.        *)
OwnersLetGo == \A w \in Watchers : WF_vars(DropWatcher(w))

FairSpec == Spec /\ Progress
ClosingSpec == FairSpec /\ OwnersLetGo
-----------------------------------------------------------------------------
(* Registered watchers whose decrement has not taken effect.               *)
Outstanding ==
  {w \in Watchers : /\ registered[w]
                    /\ ~decreased[w]
                    /\ wpc[w] \notin {"absent", "notify", "gone"}}

(* The counter the Broadcaster waits on is at all times the number of      *)
(* registered watchers whose compare_exchange has not succeeded: no        *)
(* decrement is lost or made twice, whatever the interleaving of register, *)
(* recv, try_recv and drop.                                                *)
PeersCountsOutstanding == peers = Cardinality(Outstanding)

(* The wait of signal_and_wait ends only in a state in which every         *)
(* registered watcher has acknowledged or is gone.                         *)
ReturnsOnlyWhenAllAcked ==
  [][bpc # "returned" /\ bpc' = "returned" => Outstanding = {}]_vars

(* A watcher that reports the signal has already taken itself off the      *)
(* counter, so it cannot hold up the Broadcaster afterwards; and it never  *)
(* reports a signal that was not sent.                                     *)
ReceivedMeansAcked ==
  \A w \in Watchers :
    received[w] => ~senderOpen /\ w \notin Outstanding

(* decrease_peer_count never finds the counter at zero, so the guard that  *)
(* replaces fetch_sub's wrap-around is never what ends its loop.           *)
NeverDecreasesZero ==
  \A w \in Watchers : wpc[w] \in {"load", "cas"} => peers > 0

(* Signal implements the abstract one-shot latch.                          *)
Latch == INSTANCE PhaseLatch WITH
  phase <- IF senderOpen THEN "open" ELSE "signalled",
  outstanding <- Outstanding,
  waiter <- CASE bpc \in {"load", "listen", "parked"} -> "waiting"
              [] bpc = "returned" -> "done"
              [] OTHER -> "none"

ImplementsLatch == Latch!Spec

(* The documentation of signal_and_wait: it blocks until all peers have    *)
(* acknowledged, so when every watcher is eventually dropped it returns.   *)
SignalAndWaitReturns == bpc = "load" ~> bpc = "returned"
=============================================================================
