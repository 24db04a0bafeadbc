---------------------------- MODULE RotatedFiles ----------------------------
(***************************************************************************)
(* The generators that write log files to disk and rotate them:            *)
(* generator/file_gen/logrotate.rs, which renames a log along a fixed list *)
(* of names, and generator/file_gen/traditional.rs, which moves on to a    *)
(* fresh index and deletes the old file or leaves it.  Each server spawns  *)
(* children that write on their own; whoever tails the logs may delete     *)
(* files under them.  Blocks reach a child in order, as SocketGenerator    *)
(* shows; here they are numbered.                                          *)
(***************************************************************************)
EXTENDS Naturals, Sequences, SequencesExt, FiniteSets

CONSTANTS
  Children,   \* the children, 1..concurrent_logs or 1..duplicates
  Rotations,  \* total_rotations
  Sizes,      \* the sizes of the cache's blocks, in order
  MaxBytes,   \* maximum_bytes_per_log, maximum_bytes_per_file
  Capacity,   \* bytes_per_second, the capacity of the BufWriter
  MaxBlocks,  \* bound: blocks the children write
  MaxDeletes, \* bound: files the tailer deletes
  MaxFaults   \* bound: operations on files that fail of themselves

(* A block is written by a child and has a number there.                   *)
Size(b) == Sizes[((b.number - 1) % Len(Sizes)) + 1]
Bytes(blocks) == FoldSeq(LAMBDA b, sum : Size(b) + sum, 0, blocks)

VARIABLES
  kind,        \* "logrotate", or traditional: "rotate" or "keep"
  shutdown,    \* the shutdown signal
  server,      \* Server::spin: "waiting", "joining", "ok", "err"
  pc,          \* where each child is
  next,        \* how many blocks each child has written
  path,        \* the path each child writes to
  fp,          \* the file each child has open, 0 for none
  buf,         \* the blocks in its BufWriter
  total,       \* total_bytes_written
  step,        \* logrotate's i: the name that is moved next
  file_index,  \* traditional's shared file_index
  disk,        \* the directory: path -> file
  files,       \* the blocks in each file, named or not
  deletes, faults  \* deletions and faults so far

child == <<pc, next, path, fp, buf, total, step>>
bounds == <<deletes, faults>>
vars == <<kind, shutdown, server, child, file_index, disk, files, bounds>>

(* A logrotate child owns the paths <<c, 0>> to <<c, Rotations>>; the      *)
(* traditional ones share the template, whose paths are <<0, index>>.      *)
Name(c, i) == <<c, i>>
Indexed(i) == <<0, i>>
NoPath == <<0, 0>>

IoStates == {"open", "select", "flush", "check", "remove", "find", "move"}

(* Server::new and the children's; runs tells whether one is configured.   *)
Init(runs) ==
  /\ server = IF runs THEN "waiting" ELSE "ok"
  /\ pc = [c \in Children |->
             IF ~runs THEN "returned"
             ELSE IF kind = "logrotate" THEN "open" ELSE "index"]
  /\ next = [c \in Children |-> 0]
  /\ path = [c \in Children |-> IF kind = "logrotate" THEN Name(c, 0) ELSE NoPath]
  /\ fp = [c \in Children |-> 0]
  /\ buf = [c \in Children |-> <<>>]
  /\ total = [c \in Children |-> 0]
  /\ step = [c \in Children |-> 0]
  /\ file_index = 1
  /\ disk = <<>> /\ files = <<>>
  /\ deletes = 0 /\ faults = 0
-----------------------------------------------------------------------------
untouched == <<kind, shutdown, server>>
Goto(c, l) == pc' = [pc EXCEPT ![c] = l]
Without(p) == [q \in DOMAIN disk \ {p} |-> disk[q]]

(* file_index.fetch_add and path_from_template.                            *)
TakeIndex(c) ==
  /\ pc[c] = "index"
  /\ path' = [path EXCEPT ![c] = Indexed(file_index)]
  /\ file_index' = file_index + 1
  /\ Goto(c, "open")
  /\ UNCHANGED <<untouched, next, fp, buf, total, step, disk, files, bounds>>

Named(p, f) == [q \in DOMAIN disk \cup {p} |-> IF q = p THEN f ELSE disk[q]]

(* The first file is created, or truncated if it exists.                   *)
OpenFirst(c) ==
  LET p == path[c]
      f == IF p \in DOMAIN disk THEN disk[p] ELSE Len(files) + 1
  IN  /\ pc[c] = "open"
      /\ fp[c] = 0
      /\ files' = IF p \in DOMAIN disk THEN [files EXCEPT ![f] = <<>>]
                  ELSE Append(files, <<>>)
      /\ disk' = Named(p, f)
      /\ fp' = [fp EXCEPT ![c] = f]
      /\ Goto(c, "select")
      /\ UNCHANGED <<untouched, next, path, buf, total, step, file_index, bounds>>

(* After a rotation the file is created; one that exists is opened as it   *)
(* is.                                                                     *)
Reopen(c) ==
  LET p == path[c]
      f == IF p \in DOMAIN disk THEN disk[p] ELSE Len(files) + 1
  IN  /\ pc[c] = "open"
      /\ fp[c] # 0
      /\ files' = IF p \in DOMAIN disk THEN files ELSE Append(files, <<>>)
      /\ disk' = Named(p, f)
      /\ fp' = [fp EXCEPT ![c] = f]
      /\ total' = [total EXCEPT ![c] = 0]
      /\ Goto(c, "select")
      /\ UNCHANGED <<untouched, next, path, buf, step, file_index, bounds>>
-----------------------------------------------------------------------------
(* BufWriter::write_all: what no longer fits is flushed first, and a block *)
(* of the buffer's size bypasses it.                                       *)
Buffered(held, b) ==
  LET kept == IF Bytes(held) + Size(b) > Capacity THEN <<>> ELSE held
  IN  IF Size(b) >= Capacity THEN <<>> ELSE Append(kept, b)

(* The throttle's arm of select, up to the decision to rotate.             *)
WriteBlock(c) ==
  LET b == [child |-> c, number |-> next[c] + 1]
      held == Buffered(buf[c], b)
      all == Append(buf[c], b)
  IN  /\ pc[c] = "select"
      /\ FoldFunction(+, 0, next) < MaxBlocks
      /\ next' = [next EXCEPT ![c] = @ + 1]
      /\ buf' = [buf EXCEPT ![c] = held]
      /\ files' = [files EXCEPT ![fp[c]] =
                     @ \o SubSeq(all, 1, Len(all) - Len(held))]
      /\ total' = [total EXCEPT ![c] = @ + Size(b)]
      /\ Goto(c, IF total'[c] > MaxBytes THEN "flush" ELSE "select")
      /\ UNCHANGED <<untouched, path, fp, step, file_index, disk, bounds>>

AfterFlush ==
  CASE kind = "logrotate" -> "check"
    [] kind = "rotate" -> "remove"
    [] OTHER -> "index"

(* Variant: the rotation does not flush.                                   *)
FlushLater(c) ==
  /\ pc[c] = "flush"
  /\ buf' = [buf EXCEPT ![c] = <<>>]
  /\ Goto(c, AfterFlush)
  /\ UNCHANGED <<untouched, next, path, fp, total, step, file_index, disk,
                 files, bounds>>

(* The flush a rotation begins with.                                       *)
Flush(c) ==
  /\ pc[c] = "flush"
  /\ files' = [files EXCEPT ![fp[c]] = @ \o buf[c]]
  /\ buf' = [buf EXCEPT ![c] = <<>>]
  /\ Goto(c, AfterFlush)
  /\ UNCHANGED <<untouched, next, path, fp, total, step, file_index, disk, bounds>>

(* Where the rotation goes once the last name is free.                     *)
Shift(c) ==
  /\ step' = [step EXCEPT ![c] = Rotations]
  /\ Goto(c, IF Rotations = 0 THEN "open" ELSE "find")

(* try_exists(last_name).                                                  *)
CheckLast(c) ==
  /\ pc[c] = "check"
  /\ IF Name(c, Rotations) \in DOMAIN disk
     THEN Goto(c, "remove") /\ UNCHANGED step
     ELSE Shift(c)
  /\ UNCHANGED <<untouched, next, path, fp, buf, total, file_index, disk, files,
                 bounds>>

(* remove_file, of the last name or of the traditional child's own file.   *)
(* It fails if the file has gone in the meantime.                          *)
RemoveFile(c) ==
  LET p == IF kind = "logrotate" THEN Name(c, Rotations) ELSE path[c]
  IN  /\ pc[c] = "remove"
      /\ IF p \in DOMAIN disk
         THEN /\ disk' = Without(p)
              /\ IF kind = "logrotate" THEN Shift(c)
                 ELSE Goto(c, "index") /\ UNCHANGED step
         ELSE Goto(c, "failed") /\ UNCHANGED <<disk, step>>
      /\ UNCHANGED <<untouched, next, path, fp, buf, total, file_index, files,
                     bounds>>
-----------------------------------------------------------------------------
(* try_exists(from), where from is the name before step.                   *)
Find(c) ==
  LET from == Name(c, step[c] - 1)
  IN  /\ pc[c] = "find"
      /\ IF from \in DOMAIN disk
         THEN Goto(c, "move") /\ UNCHANGED step
         ELSE /\ step' = [step EXCEPT ![c] = @ - 1]
              /\ Goto(c, IF step[c] = 1 THEN "open" ELSE "find")
      /\ UNCHANGED <<untouched, next, path, fp, buf, total, file_index, disk,
                     files, bounds>>

(* rename(from, to), which replaces to and fails if from has gone.         *)
Rename(c) ==
  LET from == Name(c, step[c] - 1)
      to == Name(c, step[c])
  IN  /\ pc[c] = "move"
      /\ IF from \in DOMAIN disk
         THEN /\ disk' = [q \in (DOMAIN disk \ {from}) \cup {to} |->
                            IF q = to THEN disk[from] ELSE disk[q]]
              /\ step' = [step EXCEPT ![c] = @ - 1]
              /\ Goto(c, IF step[c] = 1 THEN "open" ELSE "find")
         ELSE Goto(c, "failed") /\ UNCHANGED <<disk, step>>
      /\ UNCHANGED <<untouched, next, path, fp, buf, total, file_index, files,
                     bounds>>
-----------------------------------------------------------------------------
(* Any operation on a file may fail: the child returns the error and drops *)
(* the BufWriter, which does not flush.                                    *)
Fault(c) ==
  /\ pc[c] \in IoStates
  /\ faults < MaxFaults
  /\ faults' = faults + 1
  /\ buf' = [buf EXCEPT ![c] = <<>>]
  /\ Goto(c, "failed")
  /\ UNCHANGED <<untouched, next, path, fp, total, step, file_index, disk,
                 files, deletes>>

(* The shutdown arm of select.                                             *)
ChildShutdown(c) ==
  /\ pc[c] = "select"
  /\ shutdown
  /\ files' = [files EXCEPT ![fp[c]] = @ \o buf[c]]
  /\ buf' = [buf EXCEPT ![c] = <<>>]
  /\ Goto(c, "returned")
  /\ UNCHANGED <<untouched, next, path, fp, total, step, file_index, disk, bounds>>

(* Server::spin waits for the signal before it looks at its children.      *)
ServerShutdown ==
  /\ server = "waiting"
  /\ shutdown
  /\ server' = "joining"
  /\ UNCHANGED <<kind, shutdown, child, file_index, disk, files, bounds>>

(* join_all.                                                               *)
JoinAll ==
  /\ server = "joining"
  /\ \A c \in Children : pc[c] \in {"returned", "failed"}
  /\ server' = IF \E c \in Children : pc[c] = "failed" THEN "err" ELSE "ok"
  /\ UNCHANGED <<kind, shutdown, child, file_index, disk, files, bounds>>

(* The tailer deletes a file, which stays open where it is open.           *)
Delete(p) ==
  /\ p \in DOMAIN disk
  /\ deletes < MaxDeletes
  /\ deletes' = deletes + 1
  /\ disk' = Without(p)
  /\ UNCHANGED <<untouched, child, file_index, files, faults>>
-----------------------------------------------------------------------------
Rotate(c) == Flush(c) \/ CheckLast(c) \/ RemoveFile(c) \/ Find(c) \/ Rename(c)

Next ==
  \/ \E c \in Children :
       \/ TakeIndex(c) \/ OpenFirst(c) \/ Reopen(c) \/ WriteBlock(c) \/ Rotate(c)
       \/ Fault(c) \/ ChildShutdown(c)
  \/ ServerShutdown \/ JoinAll
  \/ \E p \in DOMAIN disk : Delete(p)

(* What a child and the server do for certain: tasks are polled and file   *)
(* operations finish.                                                      *)
ChildStep(c) == TakeIndex(c) \/ OpenFirst(c) \/ Reopen(c) \/ Rotate(c)
ServerStep == ServerShutdown \/ JoinAll
-----------------------------------------------------------------------------
(* The paths of child c from the oldest to the newest, and the blocks of   *)
(* its own that can be read back there, then what is buffered.             *)
Paths(c) ==
  IF kind = "logrotate"
  THEN [k \in 1..(Rotations + 1) |-> Name(c, Rotations + 1 - k)]
  ELSE [k \in 1..(file_index - 1) |-> Indexed(k)]

Contents(p) == IF p \in DOMAIN disk THEN files[disk[p]] ELSE <<>>

Log(c) ==
  LET paths == Paths(c)
      written == FlattenSeq([k \in DOMAIN paths |-> Contents(paths[k])])
  IN  SelectSeq(written, LAMBDA b : b.child = c) \o buf[c]

(* Whoever reads a log through its rotated files, from the oldest name to  *)
(* the newest, finds the blocks in the order they were written, wherever   *)
(* the rotation stands; unless somebody deletes files none is missing up   *)
(* to the last one written, except what the error of a failed child cost.  *)
LogsAreContiguous ==
  \A c \in Children :
    LET log == Log(c)
    IN  /\ \A i, j \in DOMAIN log : i < j => log[i].number < log[j].number
        /\ deletes = 0 /\ log # <<>> =>
             /\ log[Len(log)].number - log[1].number = Len(log) - 1
             /\ pc[c] # "failed" => log[Len(log)].number = next[c]

(* After the shutdown signal every child gets out of a rotation, flushes   *)
(* and returns, and the server with them.                                  *)
Returned == server \in {"ok", "err"}
=============================================================================
