------------------------------ MODULE Throttle ------------------------------
(***************************************************************************)
(* lading_throttle: a Throttle, its Valve and its clock, and the one task  *)
(* that owns it.  Time is the tick count RealClock reports; it advances    *)
(* while the owner runs and while it sleeps.  A sleep never ends early and *)
(* may end late.                                                           *)
(***************************************************************************)
EXTENDS Naturals

CONSTANTS
  MaximumCapacity,  \* NonZeroU32, the capacity of an interval
  IntervalTicks,    \* INTERVAL_TICKS, 1_000_000 in the build
  Requests,         \* the capacities the owner asks for, NonZeroU32
  LastRequestTick,  \* bound: no wait_for starts after this tick
  LastTick          \* bound: the clock stops here

ASSUME MaximumCapacityAssumption == MaximumCapacity \in Nat \ {0}
ASSUME IntervalTicksAssumption == IntervalTicks \in Nat \ {0}
ASSUME RequestsAssumption == Requests \subseteq Nat \ {0}
ASSUME TickBoundsAssumption == LastRequestTick \in Nat /\ LastTick \in Nat

VARIABLES
  throttle,  \* the Throttle variant: "Stable" or "AllOut"
  now,       \* ticks since the clock was created
  capacity,  \* Valve::capacity
  interval,  \* Valve::interval
  pc,        \* the owner: outside wait_for, about to ask, or sleeping
  request,   \* wait_for's argument
  wakeAt,    \* the deadline of the current sleep
  sleeps,    \* how often the current wait_for has slept
  spent      \* capacity granted in the clock's current interval

throttleVars ==
  <<throttle, now, capacity, interval, pc, request, wakeAt, sleeps, spent>>

ThrottleTypeOK ==
  /\ throttle \in {"Stable", "AllOut"}
  /\ now \in Nat
  /\ capacity \in 0..MaximumCapacity
  /\ interval \in Nat
  /\ pc \in {"idle", "ready", "asleep"}
  /\ request \in Nat
  /\ wakeAt \in Nat
  /\ sleeps \in Nat
  /\ spent \in Nat

(* Throttle::new_with_config and Valve::new.                               *)
ThrottleInit ==
  /\ throttle \in {"Stable", "AllOut"}
  /\ now = 0
  /\ capacity = MaximumCapacity
  /\ interval = 0
  /\ pc = "idle"
  /\ request = 0
  /\ wakeAt = 0
  /\ sleeps = 0
  /\ spent = 0
-----------------------------------------------------------------------------
IntervalOf(ticks) == ticks \div IntervalTicks

(* Ticks until the interval rolls over.                                    *)
Slop(ticks) == IntervalTicks - (ticks % IntervalTicks)

(* Variant: every request resets the capacity.                             *)
RolledOverAlways == IntervalOf(now) >= interval

(* The valve once Valve::request has compared the clock's interval with    *)
(* its own: at a roll-over the capacity is reset.                          *)
RolledOver == IntervalOf(now) > interval
CurrentCapacity == IF RolledOver THEN MaximumCapacity ELSE capacity
CurrentInterval == IF RolledOver THEN IntervalOf(now) ELSE interval

(* Throttle::wait_for is called; wait is wait_for of one.                  *)
WaitFor(r) ==
  /\ pc = "idle"
  /\ now <= LastRequestTick
  /\ request' = r
  /\ sleeps' = 0
  /\ pc' = "ready"
  /\ UNCHANGED <<throttle, now, capacity, interval, wakeAt, spent>>

(* The AllOut throttle lets every request through.                         *)
PassThrough ==
  /\ throttle = "AllOut"
  /\ pc = "ready"
  /\ pc' = "idle"
  /\ UNCHANGED <<throttle, now, capacity, interval, request, wakeAt, sleeps, spent>>

(* Valve::request, more than the valve will ever hold: Err, and the        *)
(* interval does not advance.                                              *)
Reject ==
  /\ throttle = "Stable"
  /\ pc = "ready"
  /\ request > MaximumCapacity
  /\ pc' = "idle"
  /\ UNCHANGED <<throttle, now, capacity, interval, request, wakeAt, sleeps, spent>>

(* Valve::request, enough capacity: Ok(0) and wait_for returns.            *)
Grant ==
  /\ throttle = "Stable"
  /\ pc = "ready"
  /\ request <= MaximumCapacity
  /\ request <= CurrentCapacity
  /\ capacity' = CurrentCapacity - request
  /\ interval' = CurrentInterval
  /\ spent' = spent + request
  /\ pc' = "idle"
  /\ UNCHANGED <<throttle, now, request, wakeAt, sleeps>>

(* Valve::request, not enough capacity: Ok(slop) and the owner sleeps.     *)
Defer ==
  /\ throttle = "Stable"
  /\ pc = "ready"
  /\ request <= MaximumCapacity
  /\ request > CurrentCapacity
  /\ capacity' = CurrentCapacity
  /\ interval' = CurrentInterval
  /\ wakeAt' = now + Slop(now)
  /\ sleeps' = sleeps + 1
  /\ pc' = "asleep"
  /\ UNCHANGED <<throttle, now, request, spent>>

(* The sleep is over; the loop asks again.                                 *)
Wake ==
  /\ pc = "asleep"
  /\ now >= wakeAt
  /\ pc' = "ready"
  /\ UNCHANGED <<throttle, now, capacity, interval, request, wakeAt, sleeps, spent>>

(* The select! around wait_for takes another arm while it sleeps.          *)
Cancel ==
  /\ pc = "asleep"
  /\ pc' = "idle"
  /\ UNCHANGED <<throttle, now, capacity, interval, request, wakeAt, sleeps, spent>>

(* The clock.  spent counts the grants of one interval of the clock.       *)
Tick ==
  /\ now < LastTick
  /\ now' = now + 1
  /\ spent' = IF IntervalOf(now') > IntervalOf(now) THEN 0 ELSE spent
  /\ UNCHANGED <<throttle, capacity, interval, pc, request, wakeAt, sleeps>>

ThrottleNext ==
  \/ \E r \in Requests : WaitFor(r)
  \/ PassThrough
  \/ Reject
  \/ Grant
  \/ Defer
  \/ Wake
  \/ Cancel
  \/ Tick

ThrottleSpec == ThrottleInit /\ [][ThrottleNext]_throttleVars

(* What is done for certain: a timer fires, and a running task goes on.    *)
ThrottleStep == Wake \/ PassThrough \/ Reject \/ Grant \/ Defer
-----------------------------------------------------------------------------
(* A stable throttle never lets through more than its maximum capacity     *)
(* within one interval of the clock, however late its owner asks and       *)
(* however its requests fall around the roll-over.                         *)
SpentWithinMaximum == throttle = "Stable" => spent <= MaximumCapacity

(* The slop Valve::request returns takes the sleeper past the roll-over:   *)
(* wait_for sleeps at most once, then its request is granted.              *)
SleepsAtMostOnce == sleeps <= 1

(* Capacity that was asked for and not granted is not drawn: as long as    *)
(* the valve is in the clock's interval, what it holds and what was        *)
(* granted add up to the maximum.                                          *)
CapacityIsUnspent ==
  throttle = "Stable" /\ interval = IntervalOf(now)
    => capacity + spent = MaximumCapacity
=============================================================================
