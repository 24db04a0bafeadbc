-------------------------- MODULE GeneratorsProofs --------------------------
(***************************************************************************)
(* What FileTreeProofs shows of the file_tree generator holds in the       *)
(* server that may hold any of the generators.                             *)
(***************************************************************************)
EXTENDS Generators, FileTreeProofs

(* TreeIsLaidOut of FileTree for every limit of the configuration: what    *)
(* generate_tree lists is max_nodes and the root at most, max_files and    *)
(* max_sub_folders at most for each time a folder is listed, no deeper     *)
(* than max_depth, one level more for a root that ends with a separator,   *)
(* and one more for files, and has every folder before what is in it.      *)
THEOREM TreeIsWithinLimits == Spec => []TreeIsLaidOut
<1>1. Init => IInv
  BY InitLaidOut, SMTT(30) DEF Init
<1>2. IInv /\ [Next]_vars => IInv'
  <2> SUFFICES ASSUME IInv, [Next]_vars PROVE IInv'
    OBVIOUS
  <2>1. CASE OnlyFileTree /\ FileTreeNext
    BY <2>1, NextLaidOut, SMTT(30)
  <2>2. CASE ShutdownSignal \/ OnlyThrottle \/ OnlyTree \/ OnlyProc \/ UNCHANGED vars
    <3>1. UNCHANGED <<root, trailing, stack, total, nodes>>
      BY <2>2, SMTT(30) DEF ShutdownSignal, OnlyThrottle, OnlyTree, OnlyProc, vars, folderVars
    <3> QED
      BY <3>1, LayoutKept, SMTT(30)
  <2> QED
    BY <2>1, <2>2, SMTT(30) DEF Next
<1>3. IInv => TreeIsLaidOut
  BY LaidOut
<1> QED
  BY <1>1, <1>2, <1>3, PTL DEF Spec
=============================================================================
