------------------------------- MODULE ProcFs -------------------------------
(***************************************************************************)
(* The proc_fs generator: ProcFs::new draws its processes                  *)
(* (lading_payload/src/procfs.rs), writes a directory for each under the   *)
(* root, one file after the other, and copies files from the host; spin    *)
(* waits for the shutdown signal.  Process ids are random and may repeat.  *)
(* A command line is the process it was drawn for and its length.          *)
(***************************************************************************)
EXTENDS Naturals, Sequences

CONSTANTS
  TotalProcesses,  \* total_processes
  Pids,            \* 1..(PID_MAX_LIMIT - 1)
  CmdlineSizes,    \* 1..NAME_MAX
  CommLen,         \* TASK_COMM_LEN
  NameLen,         \* TASK_NAME_LEN
  HostFiles,       \* copy_from_host: sequences of [prefix, base]
  MaxIoErrors      \* bound: operations that fail

VARIABLES
  stage,      \* "draw", "mkdir", "write", "copy" in new; "spin", "ok", "err"
  shutdown,   \* the shutdown signal
  processes,  \* the processes procfs::fixed has drawn
  current,    \* the process that is being written, or the file copied
  file,       \* which of its files is written next
  entries,    \* the directories under root: pid -> file -> contents
  copied,     \* the files copied from the host
  copies,     \* config.copy_from_host
  ioErrors    \* errors so far

vars == <<stage, shutdown, processes, current, file, entries, copied, copies,
          ioErrors>>

Init(runs) ==
  /\ stage = IF runs THEN "draw" ELSE "ok"
  /\ processes = <<>>
  /\ current = 1 /\ file = 1
  /\ entries = <<>>
  /\ copied = {}
  /\ copies \in HostFiles
  /\ ~runs => copies = CHOOSE c \in HostFiles : TRUE
  /\ ioErrors = 0
-----------------------------------------------------------------------------
(* The first bytes of a command line.                                      *)
Cut(cmdline, size) ==
  [cmdline EXCEPT !.size = IF @ < size THEN @ ELSE size]

(* StatGenerator and StatusGenerator, with the fields that are not drawn   *)
(* on their own.                                                           *)
Stat(pid, comm) == [pid |-> pid, comm |-> comm, pgrp |-> pid, session |-> pid]
Status(pid, name) ==
  [name |-> name, tgid |-> pid, ngid |-> pid, pid |-> pid, tracer_pid |-> 0,
   ns_pid |-> <<pid>>]

(* Variant: stat has the long task name.                                   *)
GeneratedLong(id, pid, size) ==
  LET cmdline == [of |-> id, size |-> size]
      name == Cut(cmdline, NameLen)
  IN  [pid |-> pid, cmdline |-> cmdline, comm |-> Cut(cmdline, CommLen),
       io |-> id, stat |-> Stat(pid, name), statm |-> id,
       status |-> Status(pid, name)]

(* ProcessGenerator::generate; io and statm have nothing to do with the    *)
(* rest.                                                                   *)
Generated(id, pid, size) ==
  LET cmdline == [of |-> id, size |-> size]
      comm == Cut(cmdline, CommLen)
  IN  [pid |-> pid, cmdline |-> cmdline, comm |-> comm,
       io |-> id, stat |-> Stat(pid, comm), statm |-> id,
       status |-> Status(pid, Cut(cmdline, NameLen))]

(* procfs::fixed.                                                          *)
Fixed ==
  /\ stage = "draw"
  /\ \E pid \in [1..TotalProcesses -> Pids] :
     \E size \in [1..TotalProcesses -> CmdlineSizes] :
       processes' = [i \in 1..TotalProcesses |-> Generated(i, pid[i], size[i])]
  /\ stage' = "mkdir"
  /\ UNCHANGED <<shutdown, current, file, entries, copied, copies, ioErrors>>

(* The files of a process, in the order they are written.                  *)
Files == <<"cmdline", "comm", "io", "stat", "statm", "status">>
Pid == processes[current].pid

(* create_dir_all, which takes a directory that exists as it is.           *)
CreateDirAll ==
  /\ stage = "mkdir"
  /\ entries' = IF Pid \in DOMAIN entries THEN entries
                ELSE [p \in DOMAIN entries \cup {Pid} |->
                        IF p = Pid THEN <<>> ELSE entries[p]]
  /\ file' = 1
  /\ stage' = "write"
  /\ UNCHANGED <<shutdown, processes, current, copied, copies, ioErrors>>

(* File::create truncates, write_all fills.                                *)
Written(dir, name, contents) ==
  [f \in DOMAIN dir \cup {name} |-> IF f = name THEN contents ELSE dir[f]]

(* One of the six blocks of the loop, then the next process or the copies. *)
WriteFile ==
  /\ stage = "write"
  /\ entries' = [entries EXCEPT ![Pid] =
                   Written(@, Files[file], processes[current][Files[file]])]
  /\ IF file < Len(Files)
     THEN file' = file + 1 /\ UNCHANGED <<stage, current>>
     ELSE /\ file' = 1
          /\ IF current < TotalProcesses
             THEN current' = current + 1 /\ stage' = "mkdir"
             ELSE current' = 1 /\ stage' = "copy"
  /\ UNCHANGED <<shutdown, processes, copied, copies, ioErrors>>

(* The loop over copy_from_host: a path that is not under /proc ends it.   *)
CopyFromHost ==
  /\ stage = "copy"
  /\ IF current > Len(copies) THEN stage' = "spin" /\ UNCHANGED <<current, copied>>
     ELSE IF copies[current].prefix # "/proc"
     THEN stage' = "err" /\ UNCHANGED <<current, copied>>
     ELSE /\ copied' = copied \cup {copies[current].base}
          /\ current' = current + 1
          /\ UNCHANGED stage
  /\ UNCHANGED <<shutdown, processes, file, entries, copies, ioErrors>>

(* Any operation on a file may fail; new returns the error.                *)
IoFails ==
  /\ stage \in {"mkdir", "write", "copy"}
  /\ ioErrors < MaxIoErrors
  /\ ioErrors' = ioErrors + 1
  /\ stage' = "err"
  /\ UNCHANGED <<shutdown, processes, current, file, entries, copied, copies>>

(* spin.                                                                   *)
SpinShutdown ==
  /\ stage = "spin"
  /\ shutdown
  /\ stage' = "ok"
  /\ UNCHANGED <<shutdown, processes, current, file, entries, copied, copies,
                 ioErrors>>

Next ==
  Fixed \/ CreateDirAll \/ WriteFile \/ CopyFromHost \/ IoFails \/ SpinShutdown

(* What is done for certain: new runs to its end.                          *)
Step == Fixed \/ CreateDirAll \/ WriteFile \/ CopyFromHost
-----------------------------------------------------------------------------
(* Once new has succeeded each directory is that of one process, the last  *)
(* that was given its pid, whole, whatever was there before; its files     *)
(* name the same pid, and the command name in stat and comm is the         *)
(* beginning of the task name in status, which is that of the command      *)
(* line.                                                                   *)
EntriesAreWhole ==
  stage = "spin" =>
    /\ DOMAIN entries = {processes[i].pid : i \in DOMAIN processes}
    /\ copied = {copies[i].base : i \in DOMAIN copies}
    /\ \A pid \in DOMAIN entries :
         LET dir == entries[pid]
             owner == dir["cmdline"].of
         IN  /\ \A i \in DOMAIN processes : processes[i].pid = pid => i <= owner
             /\ \A f \in {Files[k] : k \in DOMAIN Files} :
                  dir[f] = processes[owner][f]
             /\ pid = dir["stat"].pid /\ pid = dir["status"].pid
             /\ dir["comm"] = dir["stat"].comm
             /\ dir["comm"] = Cut(dir["status"].name, CommLen)
             /\ dir["status"].name = Cut(dir["cmdline"], NameLen)
=============================================================================
