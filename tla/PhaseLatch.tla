----------------------------- MODULE PhaseLatch -----------------------------
(***************************************************************************)
(* What lading_signal promises its users, with the channel, the peer       *)
(* counter and the notifier left out: a phase is announced once, and a     *)
(* caller that asked to wait is released only in a state in which no       *)
(* registered watcher is outstanding.  Signal implements this module.      *)
(***************************************************************************)
CONSTANT Watchers   \* identities a Watcher value may have

VARIABLES
  phase,        \* "open" until the phase is announced, then "signalled"
  outstanding,  \* registered watchers that neither acknowledged nor dropped
  waiter        \* the caller of signal_and_wait: "none", "waiting", "done"

vars == <<phase, outstanding, waiter>>

TypeOK ==
  /\ phase \in {"open", "signalled"}
  /\ outstanding \subseteq Watchers
  /\ waiter \in {"none", "waiting", "done"}

Init ==
  /\ phase = "open"
  /\ waiter = "none"
  /\ \E first \in Watchers : outstanding = {first}

(* A watcher asks to be waited for.                                        *)
Register(w) ==
  /\ w \notin outstanding
  /\ outstanding' = outstanding \cup {w}
  /\ UNCHANGED <<phase, waiter>>

(* A watcher has seen the phase change, or has been dropped.               *)
Acknowledge(w) ==
  /\ w \in outstanding
  /\ outstanding' = outstanding \ {w}
  /\ UNCHANGED <<phase, waiter>>

Announce ==
  /\ phase = "open"
  /\ phase' = "signalled"
  /\ UNCHANGED <<outstanding, waiter>>

AnnounceAndWait ==
  /\ phase = "open"
  /\ phase' = "signalled"
  /\ waiter' = "waiting"
  /\ UNCHANGED outstanding

Release ==
  /\ waiter = "waiting"
  /\ outstanding = {}
  /\ waiter' = "done"
  /\ UNCHANGED <<phase, outstanding>>

Next ==
  \/ \E w \in Watchers : Register(w) \/ Acknowledge(w)
  \/ Announce
  \/ AnnounceAndWait
  \/ Release

Spec == Init /\ [][Next]_vars
=============================================================================
