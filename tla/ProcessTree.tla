----------------------------- MODULE ProcessTree ----------------------------
(***************************************************************************)
(* The process_tree generator: generate_tree lays a tree out in a list,    *)
(* spawn_tree walks that list in every process it forks, and spin runs one *)
(* tree after the other at the throttle's pace.  A process is named by the *)
(* list positions its ancestors and it were forked at; the root is <<>>.   *)
(***************************************************************************)
EXTENDS Naturals, Sequences, FiniteSets, SequencesExt

CONSTANTS
  MaxDepth,     \* max_depth, NonZeroU32
  MaxChildren,  \* max_children, NonZeroU32
  MaxFailures,  \* bound: how often fork fails
  MaxTrees      \* bound: how many trees spin starts

(* Process::new; exec is what the process runs instead of forking.         *)
Process(depth, exec) == [depth |-> depth, exec |-> exec]

(* One round of generate_tree's loop: the stack's last process goes to the *)
(* list, followed by an executable or succeeded on the stack by children.  *)
Grow(walk) ==
  LET process == Last(walk.stack)
      rest == Front(walk.stack)
      depth == process.depth + 1
  IN  IF depth > MaxDepth
      THEN [nodes |-> walk.nodes \o <<process, Process(depth, TRUE)>>,
            stack |-> rest]
      ELSE [nodes |-> Append(walk.nodes, process),
            stack |-> rest \o [i \in 1..MaxChildren |-> Process(depth, FALSE)]]

(* generate_tree.                                                          *)
Rounds == MaxDepth * MaxChildren ^ MaxDepth
GenerateTree ==
  LET walk[k \in 0..Rounds] ==
        IF k = 0 THEN [nodes |-> <<>>, stack |-> <<Process(1, FALSE)>>]
        ELSE LET before == walk[k - 1]
             IN  IF before.stack = <<>> THEN before ELSE Grow(before)
  IN  walk[Rounds].nodes

-----------------------------------------------------------------------------
VARIABLES
  spin,      \* ProcessTree::spin: "throttled", "output", "ok", "err"
  shutdown,  \* the shutdown signal
  trees,     \* trees started so far
  nodes,     \* the list of the current tree
  procs,     \* its processes
  failures   \* failed forks so far

vars == <<spin, shutdown, trees, nodes, procs, failures>>

Positions == 1..Len(nodes)

(* The state of the loop in the root, and in a forked child.               *)
Started(next, depth) ==
  [next |-> next, depth |-> depth, wait |-> {}, state |-> "running",
   ran |-> FALSE, failed |-> FALSE]

(* ProcessTree::new; runs tells whether the generator is configured.       *)
Init(runs) ==
  /\ spin = IF runs THEN "throttled" ELSE "ok"
  /\ trees = 0
  /\ nodes = <<>>
  /\ procs = [p \in {} |-> Started(1, 0)]
  /\ failures = 0
-----------------------------------------------------------------------------
(* spin: the throttle grants a tree, and lading runs itself to lay it out  *)
(* and grow it.                                                            *)
StartTree ==
  /\ spin = "throttled"
  /\ trees < MaxTrees
  /\ trees' = trees + 1
  /\ nodes' = GenerateTree
  /\ procs' = [p \in {<<>>} |-> Started(1, 0)]
  /\ spin' = "output"
  /\ UNCHANGED <<shutdown, failures>>

(* output() returns: the root is gone, and with it everybody who holds its *)
(* pipes.                                                                  *)
TreeOutput ==
  /\ spin = "output"
  /\ \A p \in DOMAIN procs : procs[p].state = "exited"
  /\ spin' = IF procs[<<>>].failed THEN "err" ELSE "throttled"
  /\ UNCHANGED <<shutdown, trees, nodes, procs, failures>>

(* The shutdown arm is looked at between two trees.                        *)
SpinShutdown ==
  /\ spin = "throttled"
  /\ shutdown
  /\ spin' = "ok"
  /\ UNCHANGED <<shutdown, trees, nodes, procs, failures>>

-----------------------------------------------------------------------------
(* Variant: the set of pids is never taken from.                           *)
TryWaitNone(p) == {procs[p].wait}

(* try_wait_pid: one child that has exited, if there is one, is reaped.    *)
TryWaitPid(p) ==
  LET exited == {c \in procs[p].wait : procs[Append(p, c)].state = "exited"}
  IN  IF exited = {} THEN {procs[p].wait}
      ELSE {procs[p].wait \ {c} : c \in exited}

(* Variant: the search for a sibling runs off the list.                    *)
GotoEnd(depth, from) == Len(nodes) + 1

(* goto_next_sibling: the next process of the same depth.                  *)
GotoNextSibling(depth, from) ==
  LET same == {i \in Positions : i >= from /\ nodes[i].depth = depth}
  IN  IF same = {} THEN Len(nodes) + 1
      ELSE CHOOSE i \in same : \A j \in same : i <= j

Running(p) == p \in DOMAIN procs /\ procs[p].state = "running"

Here(p) == nodes[procs[p].next]

SpinVars == <<spin, shutdown, trees, nodes>>

(* spawn_tree, an iteration that forks.                                    *)
Fork(p) ==
  /\ Running(p)
  /\ procs[p].next \in Positions
  /\ ~Here(p).exec
  /\ LET at == procs[p].next
         child == Append(p, at)
     IN  \E left \in TryWaitPid(p) :
           procs' = [q \in DOMAIN procs \cup {child} |->
                       IF q = child THEN Started(at + 1, Here(p).depth)
                       ELSE IF q = p
                       THEN [procs[p] EXCEPT
                               !.wait = left \cup {at},
                               !.next = GotoNextSibling(Here(p).depth, at + 1)]
                       ELSE procs[q]]
  /\ UNCHANGED <<SpinVars, failures>>

(* fork fails: the loop goes on with the next process of the list.         *)
ForkFails(p) ==
  /\ Running(p)
  /\ procs[p].next \in Positions
  /\ ~Here(p).exec
  /\ failures < MaxFailures
  /\ failures' = failures + 1
  /\ \E left \in TryWaitPid(p) :
       procs' = [procs EXCEPT ![p].wait = left, ![p].next = @ + 1]
  /\ UNCHANGED SpinVars

(* An executable: run it, then exit with its status; spin looks at the     *)
(* root's only.                                                            *)
Exec(p) ==
  /\ Running(p)
  /\ procs[p].next \in Positions
  /\ Here(p).exec
  /\ procs' = [procs EXCEPT ![p].state = "exec", ![p].ran = TRUE, ![p].next = @ + 1]
  /\ UNCHANGED <<SpinVars, failures>>

ExecEnds(p) ==
  /\ p \in DOMAIN procs
  /\ procs[p].state = "exec"
  /\ \E failed \in (IF p = <<>> THEN BOOLEAN ELSE {FALSE}) :
       procs' = [procs EXCEPT ![p].state = "exited", ![p].failed = failed]
  /\ UNCHANGED <<SpinVars, failures>>

(* The list is used up: reap until nobody is left, then exit.              *)
WaitMore(p) ==
  /\ Running(p)
  /\ procs[p].next \notin Positions
  /\ \E left \in TryWaitPid(p) :
       procs' = [procs EXCEPT ![p].wait = left,
                              ![p].state = IF left = {} THEN "exited" ELSE @]
  /\ UNCHANGED <<SpinVars, failures>>

Next ==
  \/ StartTree \/ TreeOutput \/ SpinShutdown
  \/ \E p \in DOMAIN procs :
       Fork(p) \/ ForkFails(p) \/ Exec(p) \/ ExecEnds(p) \/ WaitMore(p)

(* What the operating system does for certain: it runs every process, and  *)
(* the configured executables come to an end.                              *)
Step ==
  \/ TreeOutput
  \/ \E p \in DOMAIN procs : Fork(p) \/ Exec(p) \/ ExecEnds(p) \/ WaitMore(p)
-----------------------------------------------------------------------------
(* The tree as one would write it down: a process, then its subtrees.      *)
Subtree ==
  LET below[height \in 1..MaxDepth] ==
        LET depth == MaxDepth - height + 1
        IN  <<Process(depth, FALSE)>> \o
              (IF height = 1 THEN <<Process(depth + 1, TRUE)>>
               ELSE LET child == below[height - 1]
                    IN  FlattenSeq([i \in 1..MaxChildren |-> child]))
  IN  below[MaxDepth]

(* Who forks whom.  A process forks each entry behind its own that is one  *)
(* level deeper: its children, and because goto_next_sibling looks at      *)
(* depths alone, also the children of the processes that follow on its own *)
(* level, which these fork too.                                            *)
Lineages ==
  {p \in UNION {[1..d -> Positions] : d \in 0..MaxDepth} :
     \A k \in DOMAIN p : /\ nodes[p[k]].depth = k
                         /\ k > 1 => p[k - 1] < p[k]}

(* generate_tree's stack lists every process right before its own subtree, *)
(* which is what spawn_tree's walk relies on.  Unless a fork failed, a     *)
(* process exits only after all it has forked, so that the generator       *)
(* leaves no orphans behind; and in a finished tree each process has       *)
(* forked exactly the part of the list that falls to it, and those of the  *)
(* last level, and no others, have run their executable.                   *)
WholeTreeIsSpawned ==
  /\ trees > 0 => nodes = Subtree
  /\ failures = 0 =>
       /\ \A p, q \in DOMAIN procs :
            IsPrefix(p, q) /\ procs[p].state = "exited" =>
              procs[q].state = "exited"
       /\ <<>> \in DOMAIN procs /\ procs[<<>>].state = "exited" =>
            /\ DOMAIN procs = Lineages
            /\ \A p \in DOMAIN procs : procs[p].ran <=> Len(p) = MaxDepth

(* After the shutdown signal the generator stops as soon as the tree that  *)
(* it is growing has come to its end.                                      *)
Returned == spin \in {"ok", "err"}
=============================================================================
