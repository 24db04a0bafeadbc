----------------------------- MODULE MCObserver -----------------------------
(* The limits are chosen for one question each, since all of them at once  *)
(* are out of reach.                                                       *)
EXTENDS Observer

(* One poll of a target with child and grandchild, and enough forks and    *)
(* exits for a PID to move to another place of the tree while it is walked.*)
Walk == [tree |-> <<0, 1, 2>>, busy |-> {}, time |-> 1, polls |-> 1, events |-> 4]

(* A child is sampled, exits and has its PID taken over, and the new       *)
(* process runs before it is sampled against the old one's ticks.          *)
Reuse == [tree |-> <<0, 1>>, busy |-> {2}, time |-> 3, polls |-> 2, events |-> 2]

(* A cgroup whose file is read, cannot be read, and is read again.         *)
Reread ==
  [tree |-> <<0, 0>>, busy |-> Groups, time |-> 3, polls |-> 3, events |-> 1]

(* The target itself, whose ProcessInfo is new in every poll.              *)
Alone == [tree |-> <<0>>, busy |-> {1}, time |-> 3, polls |-> 3, events |-> 0]

Questions == {Walk, Reuse, Reread, Alone}

(* Two polls of a target with child and grandchild.                        *)
Chain ==
  {[tree |-> <<0, 1, 2>>, busy |-> Pids \cup Groups, time |-> 2, polls |-> 2, events |-> 2]}

Symmetry == Permutations(Groups)
=============================================================================
