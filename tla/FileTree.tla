------------------------------ MODULE FileTree ------------------------------
(***************************************************************************)
(* The file_tree generator: generate_tree draws the paths of a tree, then  *)
(* spin opens them in turn, creating what does not exist, and now and then *)
(* renames a folder it has created to a random name and back.  A path is   *)
(* the sequence of its components, a component a name and its extension.   *)
(* Names are random and may repeat.  The configured root may be written    *)
(* with a separator at its end, which the code's depth depends on.  The    *)
(* two throttles grant at any time, which is more than Throttle allows.    *)
(***************************************************************************)
EXTENDS Naturals, Sequences, SequencesExt, FiniteSets

CONSTANTS
  MaxDepth, MaxSubFolders, MaxFiles, MaxNodes,  \* of the Config, NonZero
  Names,       \* the names of name_len characters
  Roots,       \* the configured root, as a path
  MaxOpens,    \* bound: nodes opened
  MaxRenames,  \* bound: folders renamed
  MaxErrors    \* bound: operations that fail of themselves

ASSUME FileTreeAssumption ==
  /\ MaxDepth \in Nat \ {0} /\ MaxNodes \in Nat \ {0}
  /\ MaxSubFolders \in Nat \ {0} /\ MaxFiles \in Nat \ {0}
  /\ \A root \in Roots : root \in Seq(STRING \X STRING) /\ root # <<>>

Folder(name) == <<name, "">>
TextFile(name) == <<name, "txt">>

(* is_folder: a path without an extension.                                 *)
IsFolder(node) == Last(node)[2] = ""
Parent(node) == Front(node)

VARIABLES
  stage,     \* "generate" in new; "spin", "renamed", "ok", "err" in spin
  shutdown,  \* the shutdown signal
  root,      \* config.root
  trailing,  \* config.root ends with a separator
  stack,     \* generate_tree's stack of paths
  total,     \* total_file + total_folder
  nodes,     \* the paths of the tree, in the order they are visited
  visited,   \* how often the cycle over nodes was advanced
  folders,   \* the folders spin has created
  moved,     \* rename_folder: the folder and the random name, or <<>>
  tree,      \* the paths that exist, of those at or below the root's parent
  renames, collisions, errors  \* renames, names met in use, and errors so far

fileTreeVars == <<stage, shutdown, root, trailing, stack, total, nodes, visited, folders,
                  moved, tree, renames, collisions, errors>>

(* FileTree::new up to the loop; runs tells whether the generator is       *)
(* configured at all.  The root may be there already.  A root that names   *)
(* a file has no separator at its end.                                     *)
FileTreeInit(runs) ==
  /\ stage = IF runs THEN "generate" ELSE "ok"
  /\ root \in Roots
  /\ trailing \in BOOLEAN
  /\ ~runs => ~trailing /\ root = CHOOSE r \in Roots : TRUE
  /\ trailing => IsFolder(root)
  /\ stack = <<root>>
  /\ total = 0
  /\ nodes = <<>>
  /\ visited = 0
  /\ folders = <<>>
  /\ moved = <<>>
  /\ tree \in IF runs THEN {{}, {root}} ELSE {{}}
  /\ renames = 0 /\ collisions = 0 /\ errors = 0
-----------------------------------------------------------------------------
AtMost(limit, room) == IF limit < room THEN limit ELSE room

(* How many files, then how many sub folders a node gets.                  *)
NewFiles(node) ==
  IF IsFolder(node) THEN AtMost(MaxFiles, MaxNodes - total) ELSE 0

(* The separators in a path, but for what all paths of the tree have in    *)
(* front.  Joining a name to a root that ends with one adds none.          *)
Separators(node) ==
  (Len(node) - 1) + IF node = root /\ trailing THEN 1 ELSE 0
CurrDepth(node) == Separators(node) - Separators(root)

(* Variant: every folder has its files and its sub folders.                *)
NewFoldersUnbounded(node) ==
  IF IsFolder(node) /\ CurrDepth(node) < MaxDepth THEN MaxSubFolders ELSE 0

NewFolders(node) ==
  IF IsFolder(node) /\ CurrDepth(node) < MaxDepth
  THEN AtMost(MaxSubFolders, MaxNodes - (total + NewFiles(node)))
  ELSE 0

(* One round of generate_tree's loop.                                      *)
GenerateNode ==
  /\ stage = "generate"
  /\ stack # <<>>
  /\ LET node == Last(stack)
     IN  /\ \E file \in [1..NewFiles(node) -> Names] :
            \E dir \in [1..NewFolders(node) -> Names] :
              stack' = Front(stack)
                         \o [i \in DOMAIN file |-> Append(node, TextFile(file[i]))]
                         \o [i \in DOMAIN dir |-> Append(node, Folder(dir[i]))]
         /\ total' = total + NewFiles(node) + NewFolders(node)
         /\ nodes' = Append(nodes, node)
  /\ UNCHANGED <<stage, shutdown, root, trailing, visited, folders, moved, tree, renames,
                 collisions, errors>>

(* The stack is empty, new returns, and run calls spin.                    *)
TreeGenerated ==
  /\ stage = "generate"
  /\ stack = <<>>
  /\ stage' = "spin"
  /\ UNCHANGED <<shutdown, root, trailing, stack, total, nodes, visited, folders,
                 moved, tree, renames, collisions, errors>>
-----------------------------------------------------------------------------
spinning == <<shutdown, root, trailing, stack, total, nodes>>
NextNode == nodes[(visited % Len(nodes)) + 1]
Exists(p) == p = <<>> \/ p \in tree

(* The open throttle's arm, a node that exists: it is opened.              *)
OpenNode ==
  /\ stage = "spin"
  /\ visited < MaxOpens
  /\ Exists(NextNode)
  /\ visited' = visited + 1
  /\ UNCHANGED <<spinning, stage, folders, moved, tree, renames, collisions, errors>>

(* One that does not: create_node, which needs the parent.  A new folder   *)
(* is remembered.                                                          *)
CreateNode ==
  /\ stage = "spin"
  /\ visited < MaxOpens
  /\ ~Exists(NextNode)
  /\ visited' = visited + 1
  /\ IF Exists(Parent(NextNode))
     THEN /\ tree' = tree \cup {NextNode}
          /\ folders' = IF IsFolder(NextNode) THEN Append(folders, NextNode)
                        ELSE folders
          /\ UNCHANGED stage
     ELSE stage' = "err" /\ UNCHANGED <<tree, folders>>
  /\ UNCHANGED <<spinning, moved, renames, collisions, errors>>

(* rename(2) of a folder: what is below it moves along.                    *)
Renamed(from, to) ==
  {IF IsPrefix(from, p) THEN to \o SubSeq(p, Len(from) + 1, Len(p)) ELSE p :
     p \in tree}

Below(p) == {q \in tree : IsStrictPrefix(p, q)}

(* The rename throttle's arm.  rename replaces an empty folder of the name *)
(* and fails for one that is not, or if there is nothing to rename.        *)
RenameAway ==
  /\ stage = "spin"
  /\ renames < MaxRenames
  /\ \E i \in DOMAIN folders : \E name \in Names :
       LET folder == folders[i]
           dir == Append(Parent(folder), Folder(name))
       IN  /\ collisions' = IF dir \in tree \ {folder} THEN collisions + 1
                            ELSE collisions
           /\ IF folder \in tree /\ (dir = folder \/ Below(dir) = {})
              THEN /\ tree' = Renamed(folder, dir)
                   /\ moved' = <<folder, dir>>
                   /\ stage' = "renamed"
              ELSE stage' = "err" /\ UNCHANGED <<tree, moved>>
  /\ renames' = renames + 1
  /\ UNCHANGED <<spinning, visited, folders, errors>>

(* The second rename, back to the original name.                           *)
RenameBack ==
  /\ stage = "renamed"
  /\ tree' = Renamed(moved[2], moved[1])
  /\ moved' = <<>>
  /\ stage' = "spin"
  /\ UNCHANGED <<spinning, visited, folders, renames, collisions, errors>>

(* Any of these operations may fail; spin returns the error.               *)
OperationFails ==
  /\ stage \in {"spin", "renamed"}
  /\ errors < MaxErrors
  /\ errors' = errors + 1
  /\ stage' = "err"
  /\ UNCHANGED <<spinning, visited, folders, moved, tree, renames, collisions>>

(* Variant: the shutdown is looked at between the two renames too.         *)
FileTreeShutdownAnywhere ==
  /\ stage \in {"spin", "renamed"}
  /\ shutdown
  /\ stage' = "ok"
  /\ UNCHANGED <<spinning, visited, folders, moved, tree, renames, collisions,
                 errors>>

(* The shutdown arm.                                                       *)
FileTreeShutdown ==
  /\ stage = "spin"
  /\ shutdown
  /\ stage' = "ok"
  /\ UNCHANGED <<spinning, visited, folders, moved, tree, renames, collisions,
                 errors>>

FileTreeNext ==
  \/ GenerateNode \/ TreeGenerated
  \/ OpenNode \/ CreateNode \/ RenameAway \/ RenameBack \/ OperationFails
  \/ FileTreeShutdown

(* What is done for certain: new runs to its end, and a rename returns.    *)
FileTreeStep == GenerateNode \/ TreeGenerated \/ RenameBack
-----------------------------------------------------------------------------
Planned == {nodes[i] : i \in DOMAIN nodes}

(* Where in the list one of these paths is.                                *)
Places(paths) == {i \in DOMAIN nodes : nodes[i] \in paths}
FilesOf(folder) == {Append(folder, TextFile(name)) : name \in Names}
FoldersOf(folder) == {Append(folder, Folder(name)) : name \in Names}

(* The folders that max_depth allows below the root: one more when the     *)
(* root ends with a separator, which counts for the root and for what is   *)
(* in it alike.                                                            *)
Levels == MaxDepth + IF trailing THEN 1 ELSE 0

(* The four limits of generate_tree.  What it lists and what is still on   *)
(* its stack is the root and one path for each node counted, never more    *)
(* than max_nodes of them.  Every time a folder is listed it brings at     *)
(* most max_files files and max_sub_folders folders with it.  No folder is *)
(* deeper than the limit above, and no file than one more.  And a folder   *)
(* is listed before everything in it, so that the first walk over the list *)
(* finds the parent of whatever it creates.                                *)
TreeIsLaidOut ==
  stage = "generate" \/ nodes # <<>> =>
    /\ Len(nodes) + Len(stack) = total + 1
    /\ total <= MaxNodes
    /\ \A i \in DOMAIN nodes :
         /\ Cardinality(Places(FilesOf(nodes[i])))
              <= MaxFiles * Cardinality(Places({nodes[i]}))
         /\ Cardinality(Places(FoldersOf(nodes[i])))
              <= MaxSubFolders * Cardinality(Places({nodes[i]}))
         /\ Len(nodes[i]) - Len(root)
              <= Levels + IF IsFolder(nodes[i]) THEN 0 ELSE 1
         /\ nodes[i] # root =>
              \E j \in 1..(i - 1) : nodes[j] = Parent(nodes[i])

(* "rename twice to keep the original folder name so that future file      *)
(* access in the folder will still work" (rename_folder): between two      *)
(* operations of spin, and after a shutdown, every path that exists is one *)
(* that was planned, no folder being left under its random name; and spin  *)
(* fails only if an operation does, or if a random name was in use.        *)
AccessStillWorks ==
  /\ stage \in {"spin", "ok"} => tree \subseteq Planned \cup {root}
  /\ stage = "err" => errors > 0 \/ collisions > 0
=============================================================================
