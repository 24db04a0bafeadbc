--------------------------- MODULE ThrottleProofs ---------------------------
(***************************************************************************)
(* Proofs about Throttle for every capacity, interval length and set of    *)
(* requests, and without the bounds on time mattering.                     *)
(***************************************************************************)
EXTENDS Throttle, TLAPS

(* The valve never runs ahead of the clock; in the clock's interval it     *)
(* holds what was not granted, and behind it nothing has been granted yet. *)
Budget ==
  throttle = "Stable" =>
    /\ interval <= IntervalOf(now)
    /\ interval = IntervalOf(now) => capacity + spent = MaximumCapacity
    /\ interval < IntervalOf(now) => spent = 0

(* A sleeper has a request the valve can hold and a deadline beyond the    *)
(* valve's interval.                                                       *)
Sleeper ==
  /\ pc = "idle" => sleeps <= 1
  /\ pc = "asleep" =>
       /\ throttle = "Stable"
       /\ sleeps = 1
       /\ request <= MaximumCapacity
       /\ IntervalOf(wakeAt) > interval
  /\ pc = "ready" =>
       \/ sleeps = 0
       \/ /\ throttle = "Stable"
          /\ sleeps = 1
          /\ request <= MaximumCapacity
          /\ RolledOver

IInv == ThrottleTypeOK /\ Budget /\ Sleeper
-----------------------------------------------------------------------------
(* Division by the length of the interval: t lies in the interval that     *)
(* starts at Start(IntervalOf(t)).                                         *)
Start(i) == IntervalTicks * i

LEMMA IntervalOfBounds ==
  ASSUME NEW t \in Nat
  PROVE  /\ IntervalOf(t) \in Nat
         /\ Start(IntervalOf(t)) \in Nat
         /\ Start(IntervalOf(t)) <= t
         /\ t < Start(IntervalOf(t)) + IntervalTicks
         /\ t + Slop(t) = Start(IntervalOf(t)) + IntervalTicks
<1> DEFINE r == t % IntervalTicks
<1>1. /\ IntervalOf(t) \in Nat
      /\ r \in 0..(IntervalTicks - 1)
      /\ t = IntervalTicks * IntervalOf(t) + r
  BY IntervalTicksAssumption DEF IntervalOf
<1>2. \A i \in Nat : IntervalTicks * i \in Nat
  BY IntervalTicksAssumption
<1>3. Slop(t) = IntervalTicks - r
  BY DEF Slop
<1> HIDE DEF r
<1>4. Start(IntervalOf(t)) \in Nat /\ t = Start(IntervalOf(t)) + r
  BY <1>1, <1>2 DEF Start
<1> QED
  BY <1>1, <1>3, <1>4, IntervalTicksAssumption

(* A later interval starts at least one length later.                      *)
LEMMA StartsApart ==
  ASSUME NEW i \in Nat, NEW j \in Nat, i < j
  PROVE  Start(i) \in Nat /\ Start(j) \in Nat /\ Start(i) + IntervalTicks <= Start(j)
<1>1. PICK d \in Nat : j = i + 1 + d
  <2>1. j - i - 1 \in Nat /\ j = i + 1 + (j - i - 1)
    OBVIOUS
  <2> QED
    BY <2>1
<1>2. IntervalTicks * j = IntervalTicks * i + IntervalTicks + IntervalTicks * d
  BY <1>1, IntervalTicksAssumption
<1>3. IntervalTicks * d \in Nat /\ IntervalTicks * i \in Nat
      /\ IntervalTicks * j \in Nat
  BY <1>1, IntervalTicksAssumption
<1> QED
  BY <1>2, <1>3, IntervalTicksAssumption DEF Start

(* Later ticks lie in the same or a later interval.                        *)
LEMMA IntervalOfMonotone ==
  ASSUME NEW s \in Nat, NEW t \in Nat, s <= t
  PROVE  IntervalOf(s) <= IntervalOf(t)
<1>1. /\ IntervalOf(s) \in Nat /\ IntervalOf(t) \in Nat
      /\ Start(IntervalOf(s)) \in Nat /\ Start(IntervalOf(t)) \in Nat
      /\ s >= Start(IntervalOf(s))
      /\ t < Start(IntervalOf(t)) + IntervalTicks
  BY IntervalOfBounds, IntervalTicksAssumption
<1>2. ASSUME IntervalOf(t) < IntervalOf(s) PROVE FALSE
  <2>1. Start(IntervalOf(t)) + IntervalTicks <= Start(IntervalOf(s))
    BY <1>1, <1>2, StartsApart
  <2> QED
    BY <1>1, <2>1, IntervalTicksAssumption
<1> QED
  BY <1>1, <1>2

(* Waiting for the slop leads into the next interval.                      *)
LEMMA SlopReachesRollOver ==
  ASSUME NEW t \in Nat
  PROVE  t + Slop(t) \in Nat /\ IntervalOf(t + Slop(t)) > IntervalOf(t)
<1>1. /\ IntervalOf(t) \in Nat /\ Start(IntervalOf(t)) \in Nat
      /\ t + Slop(t) \in Nat
      /\ t + Slop(t) = Start(IntervalOf(t)) + IntervalTicks
  BY IntervalOfBounds, IntervalTicksAssumption
<1> DEFINE u == t + Slop(t)
<1> HIDE DEF u
<1>2. u \in Nat /\ u = Start(IntervalOf(t)) + IntervalTicks
  BY <1>1 DEF u
<1>3. /\ IntervalOf(u) \in Nat /\ Start(IntervalOf(u)) \in Nat
      /\ u < Start(IntervalOf(u)) + IntervalTicks
  BY <1>2, IntervalOfBounds, IntervalTicksAssumption
<1>4. ASSUME IntervalOf(u) <= IntervalOf(t) PROVE FALSE
  <2>1. Start(IntervalOf(u)) <= Start(IntervalOf(t))
    <3>1. CASE IntervalOf(u) = IntervalOf(t)
      BY <3>1, <1>1, <1>3
    <3>2. CASE IntervalOf(u) < IntervalOf(t)
      BY <3>2, <1>1, <1>3, StartsApart, IntervalTicksAssumption
    <3> QED
      BY <1>1, <1>3, <1>4, <3>1, <3>2
  <2> QED
    BY <1>1, <1>2, <1>3, <2>1, IntervalTicksAssumption
<1> QED
  BY <1>1, <1>3, <1>4 DEF u
-----------------------------------------------------------------------------
(* A new valve is full and in the clock's first interval.                  *)
LEMMA InitIInv ==
  ThrottleInit => IInv
<1> SUFFICES ASSUME ThrottleInit PROVE IInv
  OBVIOUS
<1>1. IntervalOf(0) = 0
  BY IntervalOfBounds, IntervalTicksAssumption DEF IntervalOf
<1> QED
  BY <1>1, MaximumCapacityAssumption DEF ThrottleInit, IInv, ThrottleTypeOK, Budget, Sleeper

(* A sleeper whose deadline has come finds the interval rolled over.       *)
LEMMA WakeFindsRollOver ==
  ASSUME IInv, Wake
  PROVE  RolledOver
<1>1. IntervalOf(now) >= IntervalOf(wakeAt) /\ IntervalOf(wakeAt) > interval
  BY IntervalOfMonotone DEF IInv, ThrottleTypeOK, Sleeper, Wake
<1> QED
  BY <1>1, IntervalOfBounds DEF RolledOver, IInv, ThrottleTypeOK

(* A grant is taken from what the interval has left.                       *)
LEMMA GrantStep ==
  ASSUME IInv, Grant
  PROVE  IInv'
<1>1. IntervalOf(now) \in Nat /\ IntervalOf(now)' = IntervalOf(now)
  BY IntervalOfBounds DEF IInv, ThrottleTypeOK, Grant, IntervalOf
<1>2. ThrottleTypeOK'
  BY <1>1, MaximumCapacityAssumption
  DEF IInv, ThrottleTypeOK, Grant, CurrentCapacity, CurrentInterval
<1>3. Budget'
  BY <1>1, MaximumCapacityAssumption
  DEF IInv, ThrottleTypeOK, Budget, Grant, CurrentCapacity, CurrentInterval, RolledOver
<1>4. Sleeper'
  BY <1>1 DEF IInv, ThrottleTypeOK, Sleeper, Grant
<1> QED
  BY <1>2, <1>3, <1>4 DEF IInv

(* Only a first attempt is deferred, and its deadline is the roll-over.    *)
LEMMA DeferStep ==
  ASSUME IInv, Defer
  PROVE  IInv'
<1>1. IntervalOf(now) \in Nat /\ IntervalOf(now)' = IntervalOf(now)
  BY IntervalOfBounds DEF IInv, ThrottleTypeOK, Defer, IntervalOf
<1>2. now + Slop(now) \in Nat /\ IntervalOf(now + Slop(now)) > IntervalOf(now)
  BY SlopReachesRollOver DEF IInv, ThrottleTypeOK
<1>3. sleeps = 0
  <2>1. RolledOver => CurrentCapacity = MaximumCapacity
    BY DEF CurrentCapacity
  <2>2. request > CurrentCapacity /\ request \in Nat /\ pc = "ready"
    BY DEF Defer, IInv, ThrottleTypeOK
  <2>3. ~(request <= MaximumCapacity /\ RolledOver)
    BY <2>1, <2>2, MaximumCapacityAssumption
  <2> QED
    BY <2>2, <2>3 DEF IInv, Sleeper
<1>4. ThrottleTypeOK'
  BY <1>1, <1>2, MaximumCapacityAssumption
  DEF IInv, ThrottleTypeOK, Defer, CurrentCapacity, CurrentInterval
<1>5. Budget'
  BY <1>1, MaximumCapacityAssumption
  DEF IInv, ThrottleTypeOK, Budget, Defer, CurrentCapacity, CurrentInterval, RolledOver
<1>6. Sleeper'
  <2>1. interval' = IntervalOf(now)
    BY <1>1, MaximumCapacityAssumption
    DEF IInv, ThrottleTypeOK, Budget, Defer, CurrentInterval, RolledOver
  <2>2. IntervalOf(wakeAt)' = IntervalOf(now + Slop(now))
    BY DEF Defer, IntervalOf
  <2> QED
    BY <1>2, <1>3, <2>1, <2>2 DEF Defer, Sleeper
<1> QED
  BY <1>4, <1>5, <1>6 DEF IInv

(* Time moves the clock, never the valve.                                  *)
LEMMA TickStep ==
  ASSUME IInv, Tick
  PROVE  IInv'
<1>1. /\ IntervalOf(now) \in Nat
      /\ IntervalOf(now)' \in Nat
      /\ IntervalOf(now)' = IntervalOf(now')
      /\ IntervalOf(now) <= IntervalOf(now')
  <2>1. now \in Nat /\ now' \in Nat /\ now <= now'
    BY DEF IInv, ThrottleTypeOK, Tick
  <2>2. IntervalOf(now)' = IntervalOf(now')
    BY DEF IntervalOf
  <2> QED
    BY <2>1, <2>2, IntervalOfBounds, IntervalOfMonotone
<1>2. ThrottleTypeOK'
  BY DEF IInv, ThrottleTypeOK, Tick
<1>3. Budget'
  BY <1>1 DEF IInv, ThrottleTypeOK, Budget, Tick
<1>4. Sleeper'
  <2>1. IntervalOf(wakeAt)' = IntervalOf(wakeAt)
    BY DEF Tick, IntervalOf
  <2>2. RolledOver => RolledOver'
    BY <1>1 DEF RolledOver, IInv, ThrottleTypeOK, Tick
  <2> QED
    BY <2>1, <2>2 DEF IInv, Sleeper, Tick
<1> QED
  BY <1>2, <1>3, <1>4 DEF IInv

(* The other steps move the owner only.                                    *)
LEMMA OwnerStep ==
  ASSUME IInv,
         \/ \E r \in Requests : WaitFor(r)
         \/ PassThrough \/ Reject \/ Wake \/ Cancel
  PROVE  IInv'
<1> USE RequestsAssumption
    DEF WaitFor, PassThrough, Reject, Wake, Cancel
<1>1. UNCHANGED <<throttle, now, capacity, interval, wakeAt, spent>>
  OBVIOUS
<1>2. /\ IntervalOf(now)' = IntervalOf(now)
      /\ IntervalOf(wakeAt)' = IntervalOf(wakeAt)
      /\ RolledOver' = RolledOver
  BY <1>1 DEF IntervalOf, RolledOver
<1>3. ThrottleTypeOK'
  BY <1>1 DEF IInv, ThrottleTypeOK
<1>4. Budget'
  BY <1>1, <1>2 DEF IInv, Budget
<1>5. Sleeper'
  <2>1. CASE \E r \in Requests : WaitFor(r)
    BY <2>1 DEF Sleeper
  <2>2. CASE PassThrough \/ Reject \/ Cancel
    BY <2>2 DEF IInv, Sleeper
  <2>3. CASE Wake
    BY <2>3, <1>2, WakeFindsRollOver DEF IInv, Sleeper
  <2> QED
    BY <2>1, <2>2, <2>3
<1> QED
  BY <1>3, <1>4, <1>5 DEF IInv
-----------------------------------------------------------------------------
(* The inductive invariant holds in every reachable state.                 *)
THEOREM IInvHolds ==
  ThrottleSpec => []IInv
<1>1. IInv /\ [ThrottleNext]_throttleVars => IInv'
  <2> SUFFICES ASSUME IInv, [ThrottleNext]_throttleVars PROVE IInv'
    OBVIOUS
  <2>1. CASE ThrottleNext
    BY <2>1, GrantStep, DeferStep, TickStep, OwnerStep DEF ThrottleNext
  <2>2. CASE UNCHANGED throttleVars
    BY <2>2 DEF throttleVars, IInv, ThrottleTypeOK, Budget, Sleeper, RolledOver, IntervalOf
  <2> QED
    BY <2>1, <2>2
<1> QED
  BY <1>1, InitIInv, PTL DEF ThrottleSpec

(* Within one interval of the clock at most the maximum is granted.        *)
THEOREM RateBound ==
  ThrottleSpec => []SpentWithinMaximum
<1>1. IInv => SpentWithinMaximum
  BY IntervalOfBounds, MaximumCapacityAssumption
  DEF IInv, ThrottleTypeOK, Budget, SpentWithinMaximum
<1> QED
  BY <1>1, IInvHolds, PTL

(* wait_for sleeps at most once.                                           *)
THEOREM OneSleep ==
  ThrottleSpec => []SleepsAtMostOnce
<1>1. IInv => SleepsAtMostOnce
  BY DEF IInv, ThrottleTypeOK, Sleeper, SleepsAtMostOnce
<1> QED
  BY <1>1, IInvHolds, PTL

(* In the clock's interval the valve holds what was not granted.           *)
THEOREM UnspentCapacity ==
  ThrottleSpec => []CapacityIsUnspent
<1>1. IInv => CapacityIsUnspent
  BY DEF IInv, Budget, CapacityIsUnspent
<1> QED
  BY <1>1, IInvHolds, PTL
=============================================================================
