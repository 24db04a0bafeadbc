--------------------------- MODULE FileTreeProofs ---------------------------
(***************************************************************************)
(* That the file_tree generator lays its tree out within its limits and in *)
(* an order it can be created in, whatever max_depth, max_sub_folders,     *)
(* max_files, max_nodes and the names drawn.                               *)
(***************************************************************************)
EXTENDS FileTree, FiniteSetTheorems, TLAPS

Component ==
  (STRING \X STRING) \cup {TextFile(name) : name \in Names}
                     \cup {Folder(name) : name \in Names}
Path == Seq(Component)

(* A folder may be that many levels below the root, and a file one more.   *)
Fits(p) ==
  /\ Len(p) >= Len(root)
  /\ Len(p) - Len(root) <= Levels + IF IsFolder(p) THEN 0 ELSE 1

(* How often one of the paths T is in the sequence s.                      *)
At(s, T) == {i \in DOMAIN s : s[i] \in T}
Count(s, T) == Cardinality(At(s, T))

(* What a folder has brought with it, listed or still on the stack.        *)
Brought(p) ==
  /\ Count(nodes, FilesOf(p)) + Count(stack, FilesOf(p))
       <= MaxFiles * Count(nodes, {p})
  /\ Count(nodes, FoldersOf(p)) + Count(stack, FoldersOf(p))
       <= MaxSubFolders * Count(nodes, {p})

(* The parent of what is on the stack has been listed already.             *)
Listed(p) == p = root \/ \E j \in DOMAIN nodes : nodes[j] = Parent(p)
ListedBefore(i) ==
  nodes[i] # root => \E j \in 1..(i - 1) : nodes[j] = Parent(nodes[i])

TypeInv ==
  /\ root \in Path
  /\ stack \in Seq(Path) /\ nodes \in Seq(Path)
  /\ total \in Nat

IInv ==
  /\ TypeInv
  /\ total <= MaxNodes
  /\ Len(nodes) + Len(stack) = total + 1
  /\ \A i \in DOMAIN stack : Fits(stack[i]) /\ Listed(stack[i])
  /\ \A i \in DOMAIN nodes : Fits(nodes[i]) /\ ListedBefore(i)
  /\ \A p \in Path : Len(p) >= Len(root) => Brought(p)
-----------------------------------------------------------------------------
LEMMA PathAppend ==
  ASSUME NEW p \in Path, NEW e \in Component
  PROVE  /\ Append(p, e) \in Path
         /\ Len(Append(p, e)) = Len(p) + 1 /\ Len(p) \in Nat
         /\ Parent(Append(p, e)) = p
         /\ IsFolder(Append(p, e)) <=> e[2] = ""
<1>1. Append(p, e) \in Path /\ Len(Append(p, e)) = Len(p) + 1 /\ Len(p) \in Nat
  BY DEF Path
<1>2. Parent(Append(p, e)) = p
  BY <1>1 DEF Parent, Front, Path
<1>3. Last(Append(p, e)) = e
  BY <1>1 DEF Last, Path
<1> QED
  BY <1>1, <1>2, <1>3 DEF IsFolder

(* Concatenation, with what it is made of left to the lemmas.              *)
Join(a, b) == a \o b
From(x, s) == \E j \in DOMAIN s : x = s[j]
MadeOf(s, a, b) ==
  /\ s \in Seq(Path) /\ Len(s) = Len(a) + Len(b)
  /\ \A i \in DOMAIN s : From(s[i], a) \/ From(s[i], b)

LEMMA JoinMadeOf ==
  ASSUME NEW a \in Seq(Path), NEW b \in Seq(Path)
  PROVE  MadeOf(Join(a, b), a, b)
<1> DEFINE s == a \o b
<1>1. s \in Seq(Path) /\ Len(s) = Len(a) + Len(b)
  OBVIOUS
<1>2. ASSUME NEW i \in DOMAIN s PROVE From(s[i], a) \/ From(s[i], b)
  <2>1. i \in 1..(Len(a) + Len(b)) /\ Len(a) \in Nat /\ Len(b) \in Nat
    BY <1>1
  <2>2. CASE i <= Len(a)
    <3>1. i \in DOMAIN a /\ s[i] = a[i]
      BY <2>1, <2>2
    <3> QED
      BY <3>1 DEF From
  <2>3. CASE i > Len(a)
    <3>1. i - Len(a) \in DOMAIN b /\ s[i] = b[i - Len(a)]
      BY <2>1, <2>3
    <3> QED
      BY <3>1 DEF From
  <2> QED
    BY <2>1, <2>2, <2>3
<1>3. Join(a, b) = s
  BY DEF Join
<1> HIDE DEF s
<1> QED
  BY <1>1, <1>2, <1>3 DEF MadeOf

LEMMA JoinOfThree ==
  ASSUME NEW a \in Seq(Path), NEW b \in Seq(Path), NEW c \in Seq(Path)
  PROVE  /\ Join(Join(a, b), c) \in Seq(Path)
         /\ Len(Join(Join(a, b), c)) = Len(a) + Len(b) + Len(c)
         /\ \A i \in DOMAIN Join(Join(a, b), c) :
              \/ From(Join(Join(a, b), c)[i], a)
              \/ From(Join(Join(a, b), c)[i], b)
              \/ From(Join(Join(a, b), c)[i], c)
<1> DEFINE ab == Join(a, b)
           s == Join(ab, c)
<1>1. MadeOf(ab, a, b)
  BY JoinMadeOf
<1>2. ab \in Seq(Path)
  BY <1>1 DEF MadeOf
<1> HIDE DEF ab
<1>3. MadeOf(s, ab, c)
  BY <1>2, JoinMadeOf
<1> HIDE DEF s
<1>4. s \in Seq(Path) /\ Len(s) = Len(a) + Len(b) + Len(c)
  BY <1>1, <1>3 DEF MadeOf
<1>5. ASSUME NEW i \in DOMAIN s PROVE From(s[i], a) \/ From(s[i], b) \/ From(s[i], c)
  <2>1. CASE From(s[i], ab)
    <3>1. PICK j \in DOMAIN ab : s[i] = ab[j]
      BY <2>1 DEF From
    <3> QED
      BY <1>1, <3>1 DEF MadeOf
  <2> QED
    BY <1>3, <2>1 DEF MadeOf
<1> QED
  BY <1>4, <1>5 DEF s, ab

LEMMA CountType ==
  ASSUME NEW S, NEW s \in Seq(S), NEW T
  PROVE  IsFiniteSet(At(s, T)) /\ Count(s, T) \in Nat /\ Count(s, T) <= Len(s)
<1>1. Len(s) \in Nat /\ At(s, T) \in SUBSET (1..Len(s))
  BY DEF At
<1>2. IsFiniteSet(1..Len(s)) /\ Cardinality(1..Len(s)) = Len(s)
  <2> DEFINE n == Len(s)
  <2>1. 1 \in Int /\ n \in Int /\ n \in Nat
    BY <1>1
  <2> HIDE DEF n
  <2>2. /\ IsFiniteSet(1..n)
        /\ Cardinality(1..n) = IF 1 > n THEN 0 ELSE n - 1 + 1
    BY <2>1, FS_Interval, Zenon
  <2>3. (IF 1 > n THEN 0 ELSE n - 1 + 1) = n
    BY <2>1
  <2> QED
    BY <2>2, <2>3 DEF n
<1>3. IsFiniteSet(At(s, T)) /\ Cardinality(At(s, T)) <= Len(s)
  BY <1>1, <1>2, FS_Subset
<1> QED
  BY <1>3, FS_CardinalityType DEF Count

LEMMA CountNone ==
  ASSUME NEW s, NEW T, \A i \in DOMAIN s : s[i] \notin T
  PROVE  Count(s, T) = 0
<1>1. At(s, T) = {}
  BY DEF At
<1> QED
  BY <1>1, FS_EmptySet DEF Count

LEMMA CountAppend ==
  ASSUME NEW S, NEW s \in Seq(S), NEW x \in S, NEW T
  PROVE  Count(Append(s, x), T) = Count(s, T) + IF x \in T THEN 1 ELSE 0
<1> DEFINE a == Append(s, x)
           n == Len(s) + 1
<1>1. /\ Len(s) \in Nat /\ DOMAIN s = 1..Len(s) /\ DOMAIN a = 1..n
      /\ \A i \in 1..Len(s) : a[i] = s[i]
      /\ a[n] = x
  OBVIOUS
<1> HIDE DEF a
<1>2. n \notin At(s, T)
  BY <1>1 DEF At
<1>3. IsFiniteSet(At(s, T)) /\ Count(s, T) \in Nat
  BY CountType
<1>4. CASE x \in T
  <2>1. At(a, T) = At(s, T) \cup {n}
    BY <1>1, <1>4 DEF At
  <2> QED
    BY <1>2, <1>3, <1>4, <2>1, FS_AddElement DEF Count, a
<1>5. CASE x \notin T
  <2>1. At(a, T) = At(s, T)
    BY <1>1, <1>5 DEF At
  <2> QED
    BY <1>3, <1>5, <2>1 DEF Count, a
<1> QED
  BY <1>4, <1>5

LEMMA CountJoin ==
  ASSUME NEW a \in Seq(Path), NEW b \in Seq(Path), NEW T
  PROVE  Count(Join(a, b), T) <= Count(a, T) + Count(b, T)
<1> DEFINE s == a \o b
           B == At(b, T)
           f == [i \in B |-> i + Len(a)]
           C == {i + Len(a) : i \in B}
<1>1. /\ Len(a) \in Nat /\ Len(b) \in Nat
      /\ DOMAIN a = 1..Len(a) /\ DOMAIN b = 1..Len(b)
      /\ DOMAIN s = 1..(Len(a) + Len(b))
      /\ \A i \in 1..Len(a) : s[i] = a[i]
      /\ \A i \in 1..Len(b) : s[i + Len(a)] = b[i]
  OBVIOUS
<1>2. IsFiniteSet(At(a, T)) /\ IsFiniteSet(B) /\ Count(a, T) \in Nat /\ Count(b, T) \in Nat
  BY CountType
<1>3. f \in Surjection(B, C)
  BY DEF Surjection
<1>4. IsFiniteSet(C) /\ Cardinality(C) <= Cardinality(B)
  BY <1>2, <1>3, FS_Surjection
<1>5. IsFiniteSet(At(a, T) \cup C)
      /\ Cardinality(At(a, T) \cup C) <= Cardinality(At(a, T)) + Cardinality(C)
  <2> HIDE DEF C
  <2>1. IsFiniteSet(At(a, T) \cap C)
    BY <1>2, FS_Subset
  <2>2. Cardinality(At(a, T) \cap C) \in Nat /\ Cardinality(C) \in Nat
        /\ Cardinality(At(a, T)) \in Nat
    BY <1>2, <1>4, <2>1, FS_CardinalityType
  <2>3. /\ IsFiniteSet(At(a, T) \cup C)
        /\ Cardinality(At(a, T) \cup C)
             = Cardinality(At(a, T)) + Cardinality(C) - Cardinality(At(a, T) \cap C)
    BY <1>2, <1>4, FS_Union
  <2> QED
    BY <2>2, <2>3
<1>6. At(s, T) \subseteq At(a, T) \cup C
  <2> SUFFICES ASSUME NEW i \in At(s, T), i \notin At(a, T) PROVE i \in C
    OBVIOUS
  <2> HIDE DEF s
  <2>1. i \in 1..(Len(a) + Len(b)) /\ s[i] \in T
    BY <1>1 DEF At
  <2>2. i > Len(a)
    BY <1>1, <2>1 DEF At
  <2> DEFINE k == i - Len(a)
  <2>3. k \in 1..Len(b) /\ i = k + Len(a)
    BY <1>1, <2>1, <2>2
  <2>4. k \in B
    BY <1>1, <2>1, <2>3 DEF At
  <2> QED
    BY <2>3, <2>4
<1>7. Cardinality(At(s, T)) <= Cardinality(At(a, T) \cup C) /\ IsFiniteSet(At(s, T))
  <2> HIDE DEF s, C
  <2> QED
    BY <1>5, <1>6, FS_Subset
<1>8. /\ Cardinality(At(s, T)) \in Nat /\ Cardinality(C) \in Nat
      /\ Cardinality(At(a, T) \cup C) \in Nat
  <2> HIDE DEF s, C
  <2> QED
    BY <1>4, <1>5, <1>7, FS_CardinalityType
<1>9. Count(Join(a, b), T) = Cardinality(At(s, T))
  BY DEF Join, Count
<1> HIDE DEF s, C, f
<1> QED
  BY <1>2, <1>4, <1>5, <1>7, <1>8, <1>9 DEF Count

LEMMA FrontOf ==
  ASSUME NEW S, NEW s \in Seq(S), Len(s) > 0
  PROVE  /\ Front(s) \in Seq(S) /\ Len(Front(s)) = Len(s) - 1
         /\ \A i \in DOMAIN Front(s) : i \in DOMAIN s /\ Front(s)[i] = s[i]
         /\ s = Append(Front(s), Last(s))
<1>1. Len(s) \in Nat /\ DOMAIN s = 1..Len(s)
  OBVIOUS
<1>2. /\ SubSeq(s, 1, Len(s) - 1) \in Seq(S)
      /\ Len(SubSeq(s, 1, Len(s) - 1)) = Len(s) - 1
      /\ \A i \in 1..(Len(s) - 1) : SubSeq(s, 1, Len(s) - 1)[i] = s[i]
  BY <1>1
<1>3. DOMAIN SubSeq(s, 1, Len(s) - 1) = 1..(Len(s) - 1)
  BY <1>2
<1>4. s = Append(SubSeq(s, 1, Len(s) - 1), s[Len(s)])
  BY <1>1, <1>2
<1> QED
  BY <1>1, <1>2, <1>3, <1>4 DEF Front, Last

LEMMA NewComponents ==
  ASSUME NEW name \in Names
  PROVE  /\ TextFile(name) \in Component /\ TextFile(name)[2] # ""
         /\ Folder(name) \in Component /\ Folder(name)[2] = ""
<1>1. TextFile(name) \in Component /\ Folder(name) \in Component
  BY DEF Component
<1>2. TextFile(name)[2] = "txt" /\ Folder(name)[2] = ""
  BY DEF TextFile, Folder
<1> QED
  BY <1>1, <1>2, Zenon

(* The counts drawn for a node stay within what is left of max_nodes.      *)
LEMMA NewNodes ==
  ASSUME IInv, NEW node \in Path
  PROVE  /\ NewFiles(node) \in Nat /\ NewFolders(node) \in Nat
         /\ total + NewFiles(node) + NewFolders(node) <= MaxNodes
         /\ NewFiles(node) <= MaxFiles /\ NewFolders(node) <= MaxSubFolders
         /\ NewFiles(node) > 0 => IsFolder(node)
         /\ NewFolders(node) > 0 => /\ IsFolder(node)
                                    /\ Len(node) - Len(root) < Levels
<1>1. /\ total \in Nat /\ total <= MaxNodes
      /\ MaxNodes \in Nat /\ MaxFiles \in Nat /\ MaxSubFolders \in Nat
  BY FileTreeAssumption DEF IInv, TypeInv
<1>2. ASSUME NEW l \in Nat, NEW r \in Nat
      PROVE  AtMost(l, r) \in Nat /\ AtMost(l, r) <= r /\ AtMost(l, r) <= l
  BY DEF AtMost
<1>3. /\ NewFiles(node) \in Nat /\ NewFiles(node) <= MaxNodes - total
      /\ NewFiles(node) <= MaxFiles
      /\ NewFiles(node) > 0 => IsFolder(node)
  <2>1. MaxNodes - total \in Nat
    BY <1>1
  <2>2. AtMost(MaxFiles, MaxNodes - total) \in Nat
        /\ AtMost(MaxFiles, MaxNodes - total) <= MaxNodes - total
        /\ AtMost(MaxFiles, MaxNodes - total) <= MaxFiles
    BY <1>1, <1>2, <2>1
  <2> QED
    BY <1>1, <2>1, <2>2 DEF NewFiles
<1>4. /\ NewFolders(node) \in Nat
      /\ NewFolders(node) <= MaxNodes - (total + NewFiles(node))
      /\ NewFolders(node) <= MaxSubFolders
      /\ NewFolders(node) > 0 => IsFolder(node) /\ CurrDepth(node) < MaxDepth
  <2>1. MaxNodes - (total + NewFiles(node)) \in Nat
    BY <1>1, <1>3
  <2>2. AtMost(MaxSubFolders, MaxNodes - (total + NewFiles(node))) \in Nat
        /\ AtMost(MaxSubFolders, MaxNodes - (total + NewFiles(node)))
             <= MaxNodes - (total + NewFiles(node))
        /\ AtMost(MaxSubFolders, MaxNodes - (total + NewFiles(node)))
             <= MaxSubFolders
    BY <1>1, <1>2, <2>1, Zenon
  <2> QED
    BY <1>1, <2>1, <2>2 DEF NewFolders
<1>5. CurrDepth(node) < MaxDepth => Len(node) - Len(root) < Levels
  <2>1. Len(node) \in Nat /\ Len(root) \in Nat /\ MaxDepth \in Nat \ {0}
    BY FileTreeAssumption DEF IInv, TypeInv, Path
  <2> DEFINE t == IF trailing THEN 1 ELSE 0
  <2>2. t \in Nat /\ Levels = MaxDepth + t
    BY DEF Levels
  <2>3. CASE node = root
    BY <2>1, <2>2, <2>3
  <2>4. CASE node # root
    <3>1. Separators(node) = Len(node) - 1
      BY <2>1, <2>4 DEF Separators
    <3>2. Separators(root) = (Len(root) - 1) + t
      BY DEF Separators
    <3> HIDE DEF t
    <3> QED
      BY <2>1, <2>2, <3>1, <3>2 DEF CurrDepth
  <2> QED
    BY <2>3, <2>4
<1> QED
  BY <1>1, <1>3, <1>4, <1>5

(* What is a file of p, and what a folder of p.                            *)
LEMMA ChildrenOf ==
  ASSUME NEW p \in Path, NEW x
  PROVE  /\ x \in FilesOf(p) => Parent(x) = p /\ ~IsFolder(x)
         /\ x \in FoldersOf(p) => Parent(x) = p /\ IsFolder(x)
<1>1. ASSUME NEW name \in Names
      PROVE  /\ Parent(Append(p, TextFile(name))) = p
             /\ ~IsFolder(Append(p, TextFile(name)))
             /\ Parent(Append(p, Folder(name))) = p
             /\ IsFolder(Append(p, Folder(name)))
  BY NewComponents, PathAppend, Zenon
<1> QED
  BY <1>1, Zenon DEF FilesOf, FoldersOf

(* The counting of one round: node moves from the stack to the list, and   *)
(* the c of kind T that it brings are pushed.                              *)
LEMMA RoundCounts ==
  ASSUME NEW p \in Path, NEW node \in Path, NEW T, NEW limit \in Nat,
         NEW listed \in Seq(Path), NEW rest \in Seq(Path),
         NEW F \in Seq(Path), NEW G \in Seq(Path),
         Count(listed, T) + Count(Append(rest, node), T) <= limit * Count(listed, {p}),
         Count(F, T) + Count(G, T) <= IF p = node THEN limit ELSE 0
  PROVE  Count(Append(listed, node), T) + Count(Join(Join(rest, F), G), T)
           <= limit * Count(Append(listed, node), {p})
<1> DEFINE l == Count(listed, T)
           r == Count(rest, T)
           f == Count(F, T)
           g == Count(G, T)
           c == Count(listed, {p})
           d == IF node \in T THEN 1 ELSE 0
           e == IF p = node THEN 1 ELSE 0
           s == Count(Join(Join(rest, F), G), T)
<1>1. l \in Nat /\ r \in Nat /\ f \in Nat /\ g \in Nat /\ c \in Nat
  BY CountType
<1>2. Count(Append(listed, node), T) = l + d /\ Count(Append(rest, node), T) = r + d
  BY CountAppend
<1>3. Count(Append(listed, node), {p}) = c + e
  <2>1. Count(Append(listed, node), {p}) = c + IF node \in {p} THEN 1 ELSE 0
    BY CountAppend
  <2>2. node \in {p} <=> p = node
    OBVIOUS
  <2> QED
    BY <2>1, <2>2
<1>4. s <= (r + f) + g /\ s \in Nat
  <2>1. Join(rest, F) \in Seq(Path) /\ Join(Join(rest, F), G) \in Seq(Path)
    BY DEF Join
  <2>2. Count(Join(rest, F), T) <= r + f /\ Count(Join(rest, F), T) \in Nat
    BY <2>1, CountJoin, CountType
  <2>3. s <= Count(Join(rest, F), T) + g /\ s \in Nat
    BY <2>1, CountJoin, CountType
  <2> HIDE DEF s, r, f, g
  <2> QED
    BY <1>1, <2>2, <2>3
<1>5. l + (r + d) <= limit * c /\ f + g <= IF p = node THEN limit ELSE 0
  BY <1>2
<1>6. d \in Nat /\ e \in Nat
  OBVIOUS
<1>7. limit * (c + e) = limit * c + IF p = node THEN limit ELSE 0
  <2> HIDE DEF c
  <2>1. limit * (c + 1) = limit * c + limit /\ limit * (c + 0) = limit * c + 0
    BY <1>1
  <2> QED
    BY <2>1
<1>8. limit * c \in Nat
  <2> HIDE DEF c
  <2> QED
    BY <1>1
<1>9. (l + d) + s <= limit * (c + e)
  <2> DEFINE m == limit * c
             b == IF p = node THEN limit ELSE 0
  <2>1. m \in Nat /\ b \in Nat /\ limit * (c + e) = m + b
    BY <1>7, <1>8
  <2>2. l + (r + d) <= m /\ f + g <= b
    BY <1>5
  <2> HIDE DEF l, r, f, g, c, d, e, s, m, b
  <2> QED
    BY <1>1, <1>4, <1>6, <2>1, <2>2
<1> QED
  BY <1>2, <1>3, <1>9
-----------------------------------------------------------------------------
(* One round of the loop: the node at the end of the stack is listed, and  *)
(* its children take its place.                                            *)
LEMMA NodeGenerated ==
  ASSUME IInv, GenerateNode PROVE IInv'
<1> DEFINE node == Last(stack)
           top == Len(stack)
           n == Len(nodes)
<1>1. /\ stack \in Seq(Path) /\ nodes \in Seq(Path) /\ root \in Path /\ total \in Nat
      /\ top \in Nat /\ top > 0 /\ n \in Nat
      /\ Len(root) \in Nat /\ Levels \in Nat
  BY FileTreeAssumption DEF GenerateNode, IInv, TypeInv, Path, Levels
<1>2. /\ node \in Path /\ Len(node) \in Nat
      /\ Fits(node) /\ Listed(node)
  <2>1. top \in DOMAIN stack /\ node = stack[top]
    BY <1>1 DEF Last
  <2>2. node \in Path
    BY <1>1, <2>1, SMTT(30)
  <2> QED
    BY <2>1, <2>2 DEF IInv, Path
<1>3. PICK file \in [1..NewFiles(node) -> Names], dir \in [1..NewFolders(node) -> Names] :
        stack' = Front(stack)
                   \o [i \in DOMAIN file |-> Append(node, TextFile(file[i]))]
                   \o [i \in DOMAIN dir |-> Append(node, Folder(dir[i]))]
  BY Zenon DEF GenerateNode
<1>4. /\ total' = total + NewFiles(node) + NewFolders(node)
      /\ nodes' = Append(nodes, node) /\ root' = root /\ trailing' = trailing
  BY DEF GenerateNode
<1> DEFINE F == [i \in DOMAIN file |-> Append(node, TextFile(file[i]))]
           G == [i \in DOMAIN dir |-> Append(node, Folder(dir[i]))]
<1>5. /\ NewFiles(node) \in Nat /\ NewFolders(node) \in Nat
      /\ total + NewFiles(node) + NewFolders(node) <= MaxNodes
      /\ NewFiles(node) <= MaxFiles /\ NewFolders(node) <= MaxSubFolders
      /\ NewFiles(node) > 0 => IsFolder(node)
      /\ NewFolders(node) > 0 => /\ IsFolder(node)
                                 /\ Len(node) - Len(root) < Levels
  BY <1>2, NewNodes
<1> HIDE DEF node
<1>6. \A e \in Component :
        /\ Append(node, e) \in Path
        /\ Len(Append(node, e)) = Len(node) + 1
        /\ Parent(Append(node, e)) = node
        /\ IsFolder(Append(node, e)) <=> e[2] = ""
  BY <1>2, PathAppend, Zenon
<1>7. \A name \in Names :
        /\ TextFile(name) \in Component /\ TextFile(name)[2] # ""
        /\ Folder(name) \in Component /\ Folder(name)[2] = ""
  BY NewComponents, Zenon
<1>8. /\ F \in Seq(Path) /\ Len(F) = NewFiles(node)
      /\ \A i \in DOMAIN F : Parent(F[i]) = node /\ ~IsFolder(F[i]) /\ Fits(F[i])
  <2>1. DOMAIN file = 1..NewFiles(node)
    OBVIOUS
  <2>2. ASSUME NEW i \in 1..NewFiles(node)
        PROVE  /\ F[i] \in Path
               /\ Parent(F[i]) = node /\ ~IsFolder(F[i]) /\ Fits(F[i])
    <3>1. TextFile(file[i]) \in Component /\ TextFile(file[i])[2] # ""
      BY <1>7, Zenon
    <3>2. F[i] = Append(node, TextFile(file[i]))
      BY <2>1
    <3> HIDE DEF F
    <3>3. /\ F[i] \in Path /\ Len(F[i]) = Len(node) + 1
          /\ Parent(F[i]) = node /\ ~IsFolder(F[i])
      BY <1>6, <3>1, <3>2, ZenonT(40)
    <3>4. Len(node) - Len(root) <= Levels /\ Len(node) >= Len(root)
      BY <1>1, <1>2, <1>5 DEF Fits
    <3>5. Fits(F[i])
      BY <1>1, <1>2, <3>3, <3>4 DEF Fits
    <3> QED
      BY <3>3, <3>5
  <2>3. DOMAIN F = 1..NewFiles(node)
    BY <2>1
  <2>4. F = [i \in 1..NewFiles(node) |-> F[i]]
    BY <2>1
  <2> HIDE DEF F
  <2>5. F \in [1..NewFiles(node) -> Path]
    BY <2>2, <2>4
  <2> QED
    BY <1>5, <2>2, <2>3, <2>5
<1>9. /\ G \in Seq(Path) /\ Len(G) = NewFolders(node)
      /\ \A i \in DOMAIN G : Parent(G[i]) = node /\ IsFolder(G[i]) /\ Fits(G[i])
  <2>1. DOMAIN dir = 1..NewFolders(node)
    OBVIOUS
  <2>2. ASSUME NEW i \in 1..NewFolders(node)
        PROVE  /\ G[i] \in Path
               /\ Parent(G[i]) = node /\ IsFolder(G[i]) /\ Fits(G[i])
    <3>1. Folder(dir[i]) \in Component /\ Folder(dir[i])[2] = ""
      BY <1>7, Zenon
    <3>2. G[i] = Append(node, Folder(dir[i]))
      BY <2>1
    <3> HIDE DEF G
    <3>3. /\ G[i] \in Path /\ Len(G[i]) = Len(node) + 1
          /\ Parent(G[i]) = node /\ IsFolder(G[i])
      BY <1>6, <3>1, <3>2, ZenonT(40)
    <3>4. Len(node) - Len(root) < Levels /\ Len(node) >= Len(root)
      BY <1>2, <1>5 DEF Fits
    <3>5. Fits(G[i])
      BY <1>1, <1>2, <3>3, <3>4 DEF Fits
    <3> QED
      BY <3>3, <3>5
  <2>3. DOMAIN G = 1..NewFolders(node)
    BY <2>1
  <2>4. G = [i \in 1..NewFolders(node) |-> G[i]]
    BY <2>1
  <2> HIDE DEF G
  <2>5. G \in [1..NewFolders(node) -> Path]
    BY <2>2, <2>4
  <2> QED
    BY <1>5, <2>2, <2>3, <2>5
<1> HIDE DEF F, G
<1> DEFINE rest == Front(stack)
<1>10. /\ rest \in Seq(Path) /\ Len(rest) = top - 1
       /\ \A i \in DOMAIN rest : i \in DOMAIN stack /\ rest[i] = stack[i]
       /\ stack = Append(rest, node)
  BY <1>1, FrontOf DEF node
<1>11. stack' = Join(Join(rest, F), G)
  BY <1>3 DEF F, G, Join
<1> HIDE DEF rest, top, n
<1>12. /\ stack' \in Seq(Path) /\ Len(stack') = Len(rest) + Len(F) + Len(G)
       /\ \A i \in DOMAIN stack' :
            From(stack'[i], rest) \/ From(stack'[i], F) \/ From(stack'[i], G)
  <2>1. rest \in Seq(Path) /\ F \in Seq(Path) /\ G \in Seq(Path)
    BY <1>8, <1>9, <1>10
  <2> DEFINE all == Join(Join(rest, F), G)
  <2>2. /\ all \in Seq(Path) /\ Len(all) = Len(rest) + Len(F) + Len(G)
        /\ \A i \in DOMAIN all : From(all[i], rest) \/ From(all[i], F) \/ From(all[i], G)
    BY <2>1, JoinOfThree
  <2>3. stack' = all
    BY <1>11
  <2> HIDE DEF all
  <2> QED
    BY <2>2, <2>3
<1>13. Len(stack') = (top - 1) + NewFiles(node) + NewFolders(node)
  BY <1>8, <1>9, <1>10, <1>12
<1>14. /\ nodes' \in Seq(Path) /\ Len(nodes') = n + 1 /\ DOMAIN nodes' = 1..(n + 1)
       /\ DOMAIN nodes = 1..n
       /\ \A i \in 1..n : nodes'[i] = nodes[i]
       /\ nodes'[n + 1] = node
  BY <1>1, <1>2, <1>4 DEF n
<1>15. \A p : Fits(p)' <=> Fits(p)
  BY <1>4 DEF Fits, Levels
<1>16. ASSUME NEW p, Listed(p) \/ Parent(p) = node PROVE Listed(p)'
  <2>1. \A j \in DOMAIN nodes : j \in DOMAIN nodes' /\ nodes'[j] = nodes[j]
    BY <1>1, <1>14
  <2>2. n + 1 \in DOMAIN nodes' /\ nodes'[n + 1] = node /\ root' = root
    BY <1>1, <1>4, <1>14
  <2> QED
    BY <1>16, <2>1, <2>2 DEF Listed
<1>17. TypeInv' /\ total' <= MaxNodes
  BY <1>1, <1>4, <1>5, <1>12, <1>14, SMTT(30) DEF TypeInv
<1>18. Len(nodes') + Len(stack') = total' + 1
  <2>1. n + top = total + 1
    BY DEF IInv, n, top
  <2>2. Len(nodes') = n + 1 /\ n \in Nat /\ top \in Nat
    BY <1>1, <1>14
  <2>3. /\ NewFiles(node) \in Nat /\ NewFolders(node) \in Nat /\ total \in Nat
        /\ total' = total + NewFiles(node) + NewFolders(node)
    BY <1>1, <1>4, <1>5
  <2> QED
    BY <1>13, <2>1, <2>2, <2>3, SMTT(30)
<1>19. ASSUME NEW i \in DOMAIN stack' PROVE Fits(stack[i])' /\ Listed(stack[i])'
  <2> DEFINE p == stack'[i]
  <2>1. Fits(p) /\ (Listed(p) \/ Parent(p) = node)
    BY <1>8, <1>9, <1>10, <1>12, ZenonT(40) DEF IInv, From
  <2>2. \A q : q = stack'[i] => (Fits(q) => Fits(stack[i])') /\ (Listed(q)' => Listed(stack[i])')
    BY <1>15 DEF Listed
  <2> QED
    BY <1>15, <1>16, <2>1, <2>2, SMTT(30)
<1>20. ASSUME NEW i \in DOMAIN nodes' PROVE Fits(nodes[i])' /\ ListedBefore(i)'
  <2>1. CASE i \in 1..n
    <3>1. Fits(nodes[i]) /\ ListedBefore(i)
      BY <1>14, <2>1 DEF IInv
    <3>2. nodes'[i] = nodes[i] /\ \A j \in 1..(i - 1) : nodes'[j] = nodes[j]
      BY <1>1, <1>14, <2>1, SMTT(30)
    <3>3. ListedBefore(i)'
      BY <1>4, <3>1, <3>2, SMTT(30) DEF ListedBefore
    <3>4. Fits(nodes[i])'
      BY <1>4, <3>1, <3>2, SMTT(30) DEF Fits, Levels
    <3> QED
      BY <3>3, <3>4
  <2>2. CASE i = n + 1
    <3>1. nodes'[i] = node /\ \A j \in DOMAIN nodes : j \in 1..(i - 1) /\ nodes'[j] = nodes[j]
      BY <1>1, <1>14, <2>2
    <3>2. ListedBefore(i)'
      BY <1>2, <1>4, <3>1 DEF ListedBefore, Listed
    <3>3. Fits(nodes[i])'
      BY <1>2, <1>4, <3>1 DEF Fits, Levels
    <3> QED
      BY <3>2, <3>3
  <2> QED
    BY <1>1, <1>14, <2>1, <2>2
<1>21. ASSUME NEW p \in Path, Len(p) >= Len(root) PROVE Brought(p)'
  <2>1. Brought(p)
    BY <1>21 DEF IInv
  <2>2. MaxFiles \in Nat /\ MaxSubFolders \in Nat
    BY FileTreeAssumption
  <2>3. rest \in Seq(Path) /\ F \in Seq(Path) /\ G \in Seq(Path)
    BY <1>8, <1>9, <1>10
  <2>4. Count(F, FilesOf(p)) + Count(G, FilesOf(p)) <= IF p = node THEN MaxFiles ELSE 0
    <3>1. Count(G, FilesOf(p)) = 0
      BY <1>9, ChildrenOf, CountNone
    <3>2. p # node => Count(F, FilesOf(p)) = 0
      BY <1>8, ChildrenOf, CountNone
    <3>3. Count(F, FilesOf(p)) \in Nat /\ Count(F, FilesOf(p)) <= MaxFiles
      <4>1. Count(F, FilesOf(p)) \in Nat /\ Count(F, FilesOf(p)) <= Len(F)
        BY <2>3, CountType
      <4> QED
        BY <1>5, <1>8, <2>2, <4>1
    <3> QED
      BY <3>1, <3>2, <3>3
  <2>5. Count(F, FoldersOf(p)) + Count(G, FoldersOf(p))
          <= IF p = node THEN MaxSubFolders ELSE 0
    <3>1. Count(F, FoldersOf(p)) = 0
      BY <1>8, ChildrenOf, CountNone
    <3>2. p # node => Count(G, FoldersOf(p)) = 0
      BY <1>9, ChildrenOf, CountNone
    <3>3. Count(G, FoldersOf(p)) \in Nat /\ Count(G, FoldersOf(p)) <= MaxSubFolders
      <4>1. Count(G, FoldersOf(p)) \in Nat /\ Count(G, FoldersOf(p)) <= Len(G)
        BY <2>3, CountType
      <4> QED
        BY <1>5, <1>9, <2>2, <4>1
    <3> QED
      BY <3>1, <3>2, <3>3
  <2>6. /\ Count(nodes, FilesOf(p)) + Count(Append(rest, node), FilesOf(p))
             <= MaxFiles * Count(nodes, {p})
        /\ Count(nodes, FoldersOf(p)) + Count(Append(rest, node), FoldersOf(p))
             <= MaxSubFolders * Count(nodes, {p})
    <3>1. stack = Append(rest, node)
      BY <1>10
    <3> QED
      BY <2>1, <3>1 DEF Brought
  <2>7. Count(nodes', FilesOf(p)) + Count(stack', FilesOf(p))
          <= MaxFiles * Count(nodes', {p})
    <3>1. Count(Append(nodes, node), FilesOf(p)) + Count(Join(Join(rest, F), G), FilesOf(p))
            <= MaxFiles * Count(Append(nodes, node), {p})
      BY <1>1, <1>2, <2>2, <2>3, <2>4, <2>6, RoundCounts
    <3> QED
      BY <1>4, <1>11, <3>1
  <2>8. Count(nodes', FoldersOf(p)) + Count(stack', FoldersOf(p))
          <= MaxSubFolders * Count(nodes', {p})
    <3>1. Count(Append(nodes, node), FoldersOf(p)) + Count(Join(Join(rest, F), G), FoldersOf(p))
            <= MaxSubFolders * Count(Append(nodes, node), {p})
      BY <1>1, <1>2, <2>2, <2>3, <2>5, <2>6, RoundCounts
    <3> QED
      BY <1>4, <1>11, <3>1
  <2> QED
    BY <2>7, <2>8 DEF Brought, FilesOf, FoldersOf
<1>22. \A p \in Path : Len(p) >= Len(root') => Brought(p)'
  BY <1>4, <1>21
<1> QED
  BY <1>17, <1>18, <1>19, <1>20, <1>22 DEF IInv

LEMMA LayoutKept ==
  ASSUME IInv, UNCHANGED <<root, trailing, stack, total, nodes>> PROVE IInv'
<1>1. \A i : (Fits(stack[i])' <=> Fits(stack[i])) /\ (Listed(stack[i])' <=> Listed(stack[i]))
  BY DEF Fits, Listed, Levels
<1>2. \A i : (Fits(nodes[i])' <=> Fits(nodes[i])) /\ (ListedBefore(i)' <=> ListedBefore(i))
  BY DEF Fits, ListedBefore, Levels
<1>3. \A p : Brought(p)' <=> Brought(p)
  BY DEF Brought
<1> QED
  BY <1>1, <1>2, <1>3 DEF IInv, TypeInv

LEMMA InitLaidOut ==
  ASSUME NEW runs, FileTreeInit(runs) PROVE IInv
<1>1. /\ root \in Roots /\ stack = <<root>> /\ total = 0 /\ nodes = <<>>
  BY DEF FileTreeInit
<1>2. root \in Path /\ Len(root) \in Nat
  <2>1. root \in Seq(STRING \X STRING)
    BY <1>1, FileTreeAssumption
  <2>2. STRING \X STRING \subseteq Component
    BY DEF Component
  <2> QED
    BY <2>1, <2>2 DEF Path
<1>3. stack \in Seq(Path) /\ Len(stack) = 1 /\ DOMAIN stack = {1} /\ stack[1] = root
  BY <1>1, <1>2
<1>4. nodes \in Seq(Path) /\ Len(nodes) = 0 /\ DOMAIN nodes = {}
  BY <1>1
<1>5. Fits(root) /\ Listed(root)
  BY <1>2, FileTreeAssumption DEF Fits, Listed, Levels
<1>6. ASSUME NEW p \in Path, Len(p) >= Len(root) PROVE Brought(p)
  <2>1. Len(p) \in Nat /\ \A e \in Component : Append(p, e) # root
    <3>1. \A e \in Component : Len(Append(p, e)) = Len(p) + 1 /\ Len(p) \in Nat
      BY PathAppend
    <3>2. Len(p) \in Nat
      BY DEF Path
    <3> QED
      BY <1>2, <1>6, <3>1, <3>2
  <2>2. root \notin FilesOf(p) /\ root \notin FoldersOf(p)
    BY <2>1, NewComponents, Zenon DEF FilesOf, FoldersOf
  <2>3. Count(stack, FilesOf(p)) = 0 /\ Count(stack, FoldersOf(p)) = 0
    BY <1>3, <2>2, CountNone
  <2>4. \A T : Count(nodes, T) = 0
    BY <1>4, CountNone
  <2>5. MaxFiles * 0 = 0 /\ MaxSubFolders * 0 = 0
    BY FileTreeAssumption
  <2> QED
    BY <2>3, <2>4, <2>5 DEF Brought
<1> QED
  BY <1>1, <1>2, <1>3, <1>4, <1>5, <1>6, FileTreeAssumption, SMTT(30) DEF IInv, TypeInv

LEMMA NextLaidOut ==
  ASSUME IInv, FileTreeNext PROVE IInv'
<1>1. CASE GenerateNode
  BY <1>1, NodeGenerated
<1>2. CASE TreeGenerated
  BY <1>2, LayoutKept DEF TreeGenerated
<1>3. CASE UNCHANGED spinning
  BY <1>3, LayoutKept DEF spinning
<1>4. CASE OpenNode \/ CreateNode \/ RenameAway \/ RenameBack
             \/ OperationFails \/ FileTreeShutdown
  BY <1>3, <1>4 DEF OpenNode, CreateNode, RenameAway, RenameBack, OperationFails,
     FileTreeShutdown
<1> QED
  BY <1>1, <1>2, <1>4 DEF FileTreeNext

LEMMA LaidOut ==
  ASSUME IInv PROVE TreeIsLaidOut
<1>1. ASSUME NEW i \in DOMAIN nodes
      PROVE  /\ Cardinality(Places(FilesOf(nodes[i])))
                  <= MaxFiles * Cardinality(Places({nodes[i]}))
             /\ Cardinality(Places(FoldersOf(nodes[i])))
                  <= MaxSubFolders * Cardinality(Places({nodes[i]}))
  <2> DEFINE p == nodes[i]
  <2>1. p \in Path /\ root \in Path /\ Fits(p) /\ nodes \in Seq(Path) /\ stack \in Seq(Path)
    BY DEF IInv, TypeInv
  <2> HIDE DEF p
  <2>2. Brought(p)
    BY <2>1 DEF IInv, Fits
  <2>3. \A T : /\ Count(nodes, T) = Cardinality(Places(T))
               /\ Count(nodes, T) \in Nat /\ Count(stack, T) \in Nat
    <3>1. \A T : Count(nodes, T) \in Nat /\ Count(stack, T) \in Nat
      BY <2>1, CountType
    <3>2. \A T : Count(nodes, T) = Cardinality(Places(T))
      BY DEF Count, At, Places
    <3> QED
      BY <3>1, <3>2
  <2>4. MaxFiles \in Nat /\ MaxSubFolders \in Nat
    BY FileTreeAssumption
  <2>5. /\ Count(nodes, FilesOf(p)) <= MaxFiles * Count(nodes, {p})
        /\ Count(nodes, FoldersOf(p)) <= MaxSubFolders * Count(nodes, {p})
    BY <2>2, <2>3, <2>4 DEF Brought
  <2> QED
    BY <2>3, <2>5 DEF p
<1> QED
  BY <1>1 DEF IInv, TreeIsLaidOut, ListedBefore, Fits
=============================================================================
