----------------------------- MODULE Generators -----------------------------
(***************************************************************************)
(* generator.rs: the Server, when it holds one of the generators that make *)
(* processes or files instead of writing blocks: process_tree, file_tree   *)
(* and proc_fs.  Its kind is the configuration's choice; the ones it does  *)
(* not hold are as good as returned.  What any generator has in common     *)
(* with the others, a throttle that it waits for in a select, is the kind  *)
(* "paced": it asks for whatever it likes and may give up.                 *)
(***************************************************************************)
EXTENDS Throttle, FileTree

CONSTANTS
  TreeDepth, MaxChildren, MaxFailures, MaxTrees,
  TotalProcesses, Pids, CmdlineSizes, CommLen, NameLen, HostFiles, MaxIoErrors

ASSUME GeneratorsAssumption ==
  /\ TreeDepth \in Nat \ {0} /\ MaxChildren \in Nat \ {0}
  /\ TotalProcesses \in Nat \ {0} /\ CommLen <= NameLen

VARIABLES
  kind,  \* the variant of Server
  spin, trees, tree_nodes, procs, failures,
  proc_stage, processes, current, file, entries, copied, copies, ioErrors

Tree == INSTANCE ProcessTree WITH MaxDepth <- TreeDepth, nodes <- tree_nodes
Proc == INSTANCE ProcFs WITH stage <- proc_stage

treeVars == <<spin, trees, tree_nodes, procs, failures>>
procVars == <<proc_stage, processes, current, file, entries, copied, copies,
              ioErrors>>
folderVars == <<stage, root, trailing, stack, total, nodes, visited, folders,
                moved, tree, renames, collisions, errors>>
vars == <<kind, shutdown, throttleVars, treeVars, procVars, folderVars>>

(* Server::new.                                                            *)
Init ==
  /\ kind \in {"paced", "process_tree", "file_tree", "proc_fs"}
  /\ shutdown = FALSE
  /\ ThrottleInit /\ (kind # "paced" => throttle = "Stable")
  /\ Tree!Init(kind = "process_tree")
  /\ Proc!Init(kind = "proc_fs")
  /\ FileTreeInit(kind = "file_tree")

(* The signal that main sends at the end of the experiment.                *)
ShutdownSignal ==
  /\ ~shutdown
  /\ shutdown' = TRUE
  /\ UNCHANGED <<kind, throttleVars, treeVars, procVars, folderVars>>

(* The generator that is held, and what the others leave alone meanwhile.  *)
OnlyThrottle ==
  kind = "paced" /\ UNCHANGED <<kind, shutdown, treeVars, procVars, folderVars>>
OnlyTree ==
  kind = "process_tree" /\ UNCHANGED <<kind, throttleVars, procVars, folderVars>>
OnlyProc ==
  kind = "proc_fs" /\ UNCHANGED <<kind, throttleVars, treeVars, folderVars>>
OnlyFileTree ==
  kind = "file_tree" /\ UNCHANGED <<kind, throttleVars, treeVars, procVars>>

(* Server::run: the generator that the server holds.                       *)
Next ==
  \/ ShutdownSignal
  \/ OnlyThrottle /\ ThrottleNext
  \/ OnlyTree /\ Tree!Next
  \/ OnlyProc /\ Proc!Next
  \/ OnlyFileTree /\ FileTreeNext

Spec == Init /\ [][Next]_vars

(* The generator's own task, the clock, and the select of its loop, which  *)
(* picks among its ready arms at random.                                   *)
Task ==
  \/ OnlyThrottle /\ ThrottleStep
  \/ OnlyTree /\ Tree!Step
  \/ OnlyProc /\ Proc!Step
  \/ OnlyFileTree /\ FileTreeStep
Clock == OnlyThrottle /\ Tick
Select ==
  \/ OnlyTree /\ Tree!SpinShutdown
  \/ OnlyProc /\ Proc!SpinShutdown
  \/ OnlyFileTree /\ FileTreeShutdown

FairSpec == Spec /\ WF_vars(Task) /\ WF_vars(Clock) /\ SF_vars(Select)
-----------------------------------------------------------------------------
(* generate_tree lists every process right before its own subtree; and     *)
(* unless a fork failed, a process exits only after all it has forked, the *)
(* processes forked by then are those the walk over the list names, each   *)
(* by the parent it names, and those at the bottom, and no others, have    *)
(* run an executable.                                                      *)
WholeTreeIsSpawned == Tree!WholeTreeIsSpawned

(* Each directory of the fake procfs is one process's, whole, and its      *)
(* files agree.                                                            *)
EntriesAreWhole == Proc!EntriesAreWhole

(* After the shutdown signal every generator comes to its end, whatever it *)
(* is in the middle of: a wait for the throttle that is not cut short is   *)
(* granted or refused, a process tree has grown and ended, a folder is     *)
(* back under its name.                                                    *)
GeneratorReturns ==
  shutdown ~> /\ pc = "idle"
              /\ Tree!Returned
              /\ proc_stage \in {"ok", "err"}
              /\ stage \in {"ok", "err"}
=============================================================================
