---------------------------- MODULE LogrotateFs -----------------------------
(***************************************************************************)
(* The filesystem of the logrotate_fs generator: model.rs, and the FUSE    *)
(* handlers of logrotate_fs.rs that drive it.  Every handler takes the     *)
(* state lock, runs time forward tick by tick and then does its own work;  *)
(* so a behaviour is a sequence of Tick steps and of handler bodies at the *)
(* current tick.  Handles are held twice: in open_files of the adapter     *)
(* and in valid_file_handles of the model.                                 *)
(***************************************************************************)
EXTENDS Integers, FiniteSets, FiniteSetsExt, Sequences, SequencesExt

CONSTANTS
  ConcurrentLogs,    \* number of log groups
  MaxDepth,          \* maximum directory depth
  MaxRotations,      \* u8: highest ordinal a linked file may have
  OrdinalMax,        \* 255: ordinals are u8 and saturate here
  MaxBytesPerFile,   \* a file this long is rotated
  StartBytes, Rate,  \* LoadProfile: Constant is Linear with Rate = 0
  InitialTick,
  LastTick,          \* bound on time
  MaxOpens,          \* bound on the number of open calls
  MaxReads,          \* bound on the number of reads that return bytes
  Offsets, Sizes     \* arguments of read

ASSUME LogrotateAssumption ==
  /\ ConcurrentLogs \in Nat
  /\ MaxDepth \in Nat
  /\ OrdinalMax \in Nat /\ MaxRotations \in 0..OrdinalMax
  /\ MaxBytesPerFile \in Nat /\ StartBytes \in Nat /\ Rate \in Nat
  /\ InitialTick \in Nat /\ LastTick \in Nat
  /\ MaxOpens \in Nat /\ MaxReads \in Nat
  /\ Offsets \subseteq Nat /\ Sizes \subseteq Nat

None == 0  \* no inode, no tick
Root == 1  \* root_inode

VARIABLES
  now,
  files,       \* the File nodes by inode
  dirs,        \* the Directory nodes by inode
  nextInode,
  openFiles,   \* the handles the adapter knows
  handles,     \* valid file handle id -> inode
  nextHandle,
  reads,       \* reads that returned bytes so far
  build        \* progress of State::new

vars == <<now, files, dirs, nextInode, openFiles, handles, nextHandle, reads,
          build>>

FileRecords ==
  [parent : Nat, group : Nat, peer : Nat, ordinal : 0..OrdinalMax,
   created : Nat, access : Nat, modified : Nat, status : Nat,
   bytesPerTick : Nat, written : Nat, bytesRead : Nat, maxOffset : Nat,
   readOnly : BOOLEAN, readOnlySince : Nat,
   openHandles : Nat, unlinked : BOOLEAN]
-----------------------------------------------------------------------------
(* File::new.                                                              *)
NewFile(parent, group, bytesPerTick, tick, peer) ==
  [parent |-> parent, group |-> group, peer |-> peer, ordinal |-> 0,
   created |-> tick, access |-> tick, modified |-> tick, status |-> tick,
   bytesPerTick |-> bytesPerTick, written |-> 0, bytesRead |-> 0,
   maxOffset |-> 0, readOnly |-> FALSE, readOnlySince |-> None,
   openHandles |-> 0, unlinked |-> FALSE]

(* Variant: a read-only file is written to.                                *)
AdvancedAlways(f, t) ==
  IF t <= f.modified
  THEN f
  ELSE [f EXCEPT !.written = @ + (t - f.modified) * f.bytesPerTick,
                 !.modified = t,
                 !.status = t]

(* File::advance_time.                                                     *)
Advanced(f, t) ==
  IF t <= f.modified \/ f.readOnly
  THEN f
  ELSE [f EXCEPT !.written = @ + (t - f.modified) * f.bytesPerTick,
                 !.modified = t,
                 !.status = t]

(* What File::open and File::read share: time, then the access tick.       *)
Touched(f, t) ==
  LET g == Advanced(f, t)
  IN  IF t > g.access THEN [g EXCEPT !.access = t, !.status = t] ELSE g

(* File::incr_ordinal, a saturating u8.                                    *)
IncrOrdinal(n) == IF n < OrdinalMax THEN n + 1 ELSE n

(* The load profile as advance_time_inner evaluates it, at t - 1.          *)
BytesPerTick(t) == StartBytes + Rate * (t - InitialTick - 1)
-----------------------------------------------------------------------------
(* State::new: an empty root, then for every group a directory path of a   *)
(* random depth and the group's first file in it.                          *)
DepthUnknown == -1

Init ==
  /\ now = InitialTick
  /\ files = [i \in {} |-> NewFile(Root, 0, 0, 0, None)]
  /\ dirs = [d \in {Root} |-> [parent |-> None, children |-> {}]]
  /\ nextInode = 2
  /\ openFiles = {}
  /\ handles = [h \in {} |-> None]
  /\ nextHandle = 0
  /\ reads = 0
  /\ build = [group |-> 0, at |-> Root, left |-> DepthUnknown]

Built == build.group = ConcurrentLogs

ChooseDepth ==
  /\ ~Built
  /\ build.left = DepthUnknown
  /\ \E depth \in (IF MaxDepth = 0 THEN {0} ELSE 1..MaxDepth) :
       build' = [build EXCEPT !.left = depth]
  /\ UNCHANGED <<now, files, dirs, nextInode, openFiles, handles, nextHandle,
                 reads>>

(* The random name is that of an existing subdirectory.                    *)
ReuseDirectory ==
  /\ ~Built
  /\ build.left > 0
  /\ \E d \in dirs[build.at].children \cap DOMAIN dirs :
       build' = [build EXCEPT !.at = d, !.left = @ - 1]
  /\ UNCHANGED <<now, files, dirs, nextInode, openFiles, handles, nextHandle,
                 reads>>

MakeDirectory ==
  /\ ~Built
  /\ build.left > 0
  /\ dirs' = [d \in DOMAIN dirs \cup {nextInode} |->
                IF d = nextInode
                THEN [parent |-> build.at, children |-> {}]
                ELSE IF d = build.at
                     THEN [dirs[d] EXCEPT !.children = @ \cup {nextInode}]
                     ELSE dirs[d]]
  /\ build' = [build EXCEPT !.at = nextInode, !.left = @ - 1]
  /\ nextInode' = nextInode + 1
  /\ UNCHANGED <<now, files, openFiles, handles, nextHandle, reads>>

PlaceFile ==
  /\ ~Built
  /\ build.left = 0
  /\ files' = [i \in DOMAIN files \cup {nextInode} |->
                 IF i = nextInode
                 THEN NewFile(build.at, build.group, 0, now, None)
                 ELSE files[i]]
  /\ dirs' = [dirs EXCEPT ![build.at].children = @ \cup {nextInode}]
  /\ nextInode' = nextInode + 1
  /\ build' = [group |-> build.group + 1, at |-> Root, left |-> DepthUnknown]
  /\ UNCHANGED <<now, openFiles, handles, nextHandle, reads>>
-----------------------------------------------------------------------------
(* Variant: the ordinal is compared before it is incremented.              *)
FallsOffLate(f) == f.ordinal > MaxRotations

(* The file falls off the end of the peer chain when its ordinal is        *)
(* incremented.                                                            *)
FallsOff(f) == IncrOrdinal(f.ordinal) > MaxRotations

(* Variant: the rotation does not follow the peers.                        *)
PeerWalkFirst(fs, i) == {i}

(* The inodes the rotation of i visits: from i along the peers, up to the  *)
(* end of the chain or the first file that falls off.                      *)
PeerWalk(fs, i) ==
  LET step[k \in 0..Cardinality(DOMAIN fs)] ==
        IF k = 0 THEN i
        ELSE LET at == step[k - 1]
             IN  IF at = None THEN None
                 ELSE IF FallsOff(fs[at]) THEN None ELSE fs[at].peer
  IN  {step[k] : k \in DOMAIN step} \ {None}

(* Every way to hand out inodes to the files that are rotated: the order   *)
(* in which the hash map is traversed.                                     *)
FreshInodes(full) ==
  LET new == nextInode..(nextInode + Cardinality(full) - 1)
  IN  {m \in [full -> new] : \A i, j \in full : i # j => m[i] # m[j]}

(* Variant: gc does not look at the open handles.                          *)
CollectedEagerly(fs) ==
  [i \in {j \in DOMAIN fs : ~fs[j].unlinked} |-> fs[i]]

(* State::gc.                                                              *)
Collected(fs) ==
  [i \in {j \in DOMAIN fs : ~(fs[j].unlinked /\ fs[j].openHandles = 0)}
     |-> fs[i]]

(* advance_time_inner: set the rate, write to every file that is not       *)
(* read-only, rotate the ones that are full, collect garbage.              *)
Tick ==
  /\ Built
  /\ now < LastTick
  /\ now' = now + 1
  /\ LET t == now + 1
         rate == BytesPerTick(t)
         grown == [i \in DOMAIN files |->
                     Advanced([files[i] EXCEPT !.bytesPerTick =
                                 IF files[i].readOnly \/ files[i].unlinked
                                 THEN @ ELSE rate],
                              t)]
         full == {i \in DOMAIN grown :
                    /\ ~grown[i].readOnly
                    /\ grown[i].written >= MaxBytesPerFile}
         walked == UNION {PeerWalk(grown, i) : i \in full}
         fallen == {i \in walked : FallsOff(grown[i])}
         rotated == [i \in DOMAIN grown |->
                       [grown[i] EXCEPT
                          !.readOnly = @ \/ i \in full,
                          !.readOnlySince = IF i \in full THEN t ELSE @,
                          !.ordinal = IF i \in walked THEN IncrOrdinal(@) ELSE @,
                          !.peer = IF i \in walked /\ @ \in fallen
                                   THEN None ELSE @,
                          !.unlinked = @ \/ i \in fallen]]
     IN  \E fresh \in FreshInodes(full) :
           /\ files' =
                Collected([n \in DOMAIN files \cup {fresh[i] : i \in full} |->
                  IF n \in DOMAIN files THEN rotated[n]
                  ELSE LET old == CHOOSE i \in full : fresh[i] = n
                       IN  Advanced(
                             NewFile(files[old].parent, files[old].group, rate,
                                     now,
                                     IF old \in fallen THEN None ELSE old),
                             t)])
           /\ dirs' = [d \in DOMAIN dirs |->
                [dirs[d] EXCEPT !.children =
                   (@ \cup {fresh[i] : i \in {j \in full : files[j].parent = d}})
                   \ UNION {PeerWalk(grown, i) \cap fallen :
                              i \in {j \in full : files[j].parent = d}}]]
           /\ nextInode' = nextInode + Cardinality(full)
  /\ UNCHANGED <<openFiles, handles, nextHandle, reads, build>>
-----------------------------------------------------------------------------
(* State::open_file: a node is opened, linked or not.                      *)
OpenFile(i) ==
  /\ Built
  /\ nextHandle < MaxOpens
  /\ i \in DOMAIN files
  /\ files' = [files EXCEPT ![i] = [Touched(@, now) EXCEPT !.openHandles = @ + 1]]
  /\ handles' = [h \in DOMAIN handles \cup {nextHandle} |->
                   IF h = nextHandle THEN i ELSE handles[h]]
  /\ nextHandle' = nextHandle + 1
  /\ UNCHANGED <<now, dirs, nextInode, reads, build>>

(* State::close_file; the file stays until the next collection.            *)
CloseFile(h) ==
  /\ h \in DOMAIN handles
  /\ handles[h] \in DOMAIN files
  /\ files' = [files EXCEPT ![handles[h]] =
                 [Advanced(@, now) EXCEPT !.openHandles = @ - 1]]
  /\ handles' = [g \in DOMAIN handles \ {h} |-> handles[g]]
  /\ UNCHANGED <<now, dirs, nextInode, nextHandle, reads, build>>

(* State::read below the end of the file; past it the empty answer changes *)
(* nothing.                                                                *)
Read(h, offset, size) ==
  /\ h \in DOMAIN handles
  /\ handles[h] \in DOMAIN files
  /\ offset < files[handles[h]].written
  /\ reads < MaxReads
  /\ LET available == files[handles[h]].written - offset
         toRead == Min({available, size})
     IN  files' = [files EXCEPT ![handles[h]] =
                     [Touched(@, now) EXCEPT
                        !.maxOffset = Max({@, offset + toRead}),
                        !.bytesRead = @ + toRead]]
  /\ reads' = reads + 1
  /\ UNCHANGED <<now, dirs, nextInode, handles, nextHandle, build>>

(* The FUSE handlers open, release and read.  The kernel passes inodes it  *)
(* has looked up and handles it has been given; for others the answer is   *)
(* ENOENT and nothing changes.                                             *)
Open(i) ==
  /\ OpenFile(i)
  /\ openFiles' = openFiles \cup {nextHandle}

Release(h) ==
  /\ h \in openFiles
  /\ CloseFile(h)
  /\ openFiles' = openFiles \ {h}

ReadHandle(h, offset, size) ==
  /\ h \in openFiles
  /\ Read(h, offset, size)
  /\ UNCHANGED openFiles

Next ==
  \/ ChooseDepth
  \/ ReuseDirectory
  \/ MakeDirectory
  \/ PlaceFile
  \/ Tick
  \/ \E i \in DOMAIN files : Open(i)
  \/ \E h \in openFiles : Release(h)
  \/ \E h \in openFiles, offset \in Offsets, size \in Sizes :
       ReadHandle(h, offset, size)

Spec == Init /\ [][Next]_vars
-----------------------------------------------------------------------------
(* The answers of the handlers that only look.  A file's name is its group *)
(* and ordinal.                                                            *)
Name(i) == <<files[i].group, files[i].ordinal>>

Lookup(d, name) ==
  LET named == {i \in dirs[d].children \cap DOMAIN files : Name(i) = name}
  IN  IF named = {} THEN None ELSE Min(named)

Readdir(d) == dirs[d].children

Nlink(d) == 2 + Cardinality(dirs[d].children \cap DOMAIN dirs)

GetParentInode(i) ==
  IF i = Root THEN Root
  ELSE IF i \in DOMAIN dirs THEN dirs[i].parent ELSE files[i].parent

(* getattr_helper: what getattr and lookup answer.                         *)
Attr(i) ==
  IF i \in DOMAIN dirs
  THEN [size |-> 0, atime |-> now, mtime |-> now, ctime |-> now, nlink |-> Nlink(i)]
  ELSE [size |-> files[i].written, atime |-> files[i].access,
        mtime |-> files[i].modified, ctime |-> files[i].status, nlink |-> 1]

InOrder(inodes) ==
  [n \in 1..Cardinality(inodes) |->
     CHOOSE i \in inodes : Cardinality({j \in inodes : j < i}) = n - 1]

(* Variant: the newest file comes first.                                   *)
EntriesNewestFirst(d) ==
  <<d>> \o (IF d = Root THEN <<>> ELSE <<GetParentInode(d)>>)
        \o Reverse(InOrder(Readdir(d)))

(* The whole answer of readdir: ".", ".." but in the root, the children in *)
(* the order of their inodes.  A call has an offset, the number of entries *)
(* the client has been given before, and answers with a part of the rest.  *)
Entries(d) ==
  <<d>> \o (IF d = Root THEN <<>> ELSE <<GetParentInode(d)>>)
        \o InOrder(Readdir(d))

Linked(g) == {i \in DOMAIN files : files[i].group = g /\ ~files[i].unlinked}
-----------------------------------------------------------------------------
(* close_file's assert and its panic are unreachable, and a handle keeps   *)
(* its file readable after it was rotated away: every valid handle's inode *)
(* is a node, each file's open_handles is the number of handles on it, and *)
(* the adapter holds the same handles as the model.                        *)
HandlesAccounted ==
  /\ openFiles = DOMAIN handles
  /\ \A h \in DOMAIN handles : handles[h] \in DOMAIN files
  /\ \A i \in DOMAIN files :
       files[i].openHandles =
         Cardinality({h \in DOMAIN handles : handles[h] = i})

(* The linked files of a group carry the ordinals 0, 1, 2, ... once each,  *)
(* never more than max_rotations; each one's peer is the file with the     *)
(* next ordinal; and only the first is writable.  So the asserts of        *)
(* advance_time_inner hold.                                                *)
PeerChain ==
  \A g \in 0..(build.group - 1) :
    LET chain == Linked(g)
        at(n) == {i \in chain : files[i].ordinal = n}
    IN  /\ \A n \in 0..(Cardinality(chain) - 1) : Cardinality(at(n)) = 1
        /\ Cardinality(chain) \in 1..(MaxRotations + 1)
        /\ \A i \in chain :
             /\ at(files[i].ordinal + 1) =
                  IF files[i].peer = None THEN {} ELSE {files[i].peer}
             /\ files[i].readOnly <=> files[i].ordinal > 0

(* A directory lists exactly the linked files placed under it and its      *)
(* subdirectories, and looking a listed file's name up finds that file:    *)
(* no stale, missing or doubled name after any number of rotations, so     *)
(* that none of the expects of the readdir handler fails.                  *)
DirectoriesListLinked ==
  \A d \in DOMAIN dirs :
    /\ ToSet(Entries(d)) = {d, GetParentInode(d)}
         \cup {i \in DOMAIN files : ~files[i].unlinked /\ GetParentInode(i) = d}
         \cup {c \in DOMAIN dirs \ {Root} : GetParentInode(c) = d}
    /\ \A i \in Readdir(d) \cap DOMAIN files : Lookup(d, Name(i)) = i
    /\ Attr(d).nlink = 2 + Cardinality({c \in DOMAIN dirs : dirs[c].parent = d})

(* The size getattr reports is, byte for byte, what the load profile gives *)
(* for the ticks from the file's creation to its rotation or to now, and   *)
(* no reader has been given bytes past it.                                 *)
BytesAreTickAccurate ==
  \A i \in DOMAIN files :
    LET f == files[i]
        end == IF f.readOnly THEN f.readOnlySince ELSE now
    IN  /\ Attr(i).size = MapThenSumSet(BytesPerTick, (f.created + 1)..end)
        /\ f.maxOffset <= Attr(i).size

(* A client that fetches a listing in pages, before and after a rotation,  *)
(* is given no entry twice, and for each entry it was given that has been  *)
(* unlinked since it misses at most one that is still there.               *)
PagedListing ==
  [][dirs' # dirs =>
       \A d \in DOMAIN dirs :
         LET old == Entries(d)
             new == Entries(d)'
         IN  \A n \in 0..Len(old) :
               LET given == ToSet(SubSeq(old, 1, n))
                   rest == ToSet(SubSeq(new, n + 1, Len(new)))
                   missed == (ToSet(old) \cap ToSet(new)) \ (given \cup rest)
               IN  /\ given \cap rest = {}
                   /\ Cardinality(missed) <= Cardinality(given \ ToSet(new))]_vars

(* Inodes are never reused; a read-only file never changes size or becomes *)
(* writable; and an unlinked file goes only when its last handle is        *)
(* closed, and then at the next tick.                                      *)
InodeLifecycle ==
  [][/\ \A i \in DOMAIN files' \ DOMAIN files : i >= nextInode
     /\ \A i \in DOMAIN files \cap DOMAIN files' :
          /\ files[i].readOnly =>
               /\ files'[i].readOnly
               /\ files'[i].written = files[i].written
          /\ files[i].unlinked => files'[i].unlinked
     /\ \A i \in DOMAIN files \ DOMAIN files' :
          files[i].openHandles = 0
     /\ now' # now =>
          \A i \in DOMAIN files' :
            ~(files'[i].unlinked /\ files'[i].openHandles = 0)]_vars
=============================================================================
