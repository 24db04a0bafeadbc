------------------------------ MODULE Observer ------------------------------
(***************************************************************************)
(* The observer: once a second it walks the target's processes in /proc    *)
(* and reports their CPU and memory (observer/linux/procfs.rs and          *)
(* procfs/stat.rs), then does the same for their cgroups                   *)
(* (observer/linux/cgroup.rs and cgroup/v2/cpu.rs).  Processes fork, run   *)
(* and exit at any point of the walk, and PIDs are used again.             *)
(***************************************************************************)
EXTENDS Integers, Sequences, FiniteSets, SequencesExt

CONSTANTS
  Pids,      \* the PIDs
  Target,    \* the target's
  Groups,    \* the cgroups
  Cores,     \* the processors: as many threads of a process run at once
  TicksPerSecond,  \* sysconf(_SC_CLK_TCK)
  Limits     \* bounds: the PIDs handed out with their first parents, the
             \* processes and cgroups that use the CPU at all, the hundredths
             \* of a second, the polls, and the forks, exits and failed reads

ASSUME ObserverAssumption ==
  /\ IsFiniteSet(Pids) /\ Target \in Pids /\ 0 \notin Pids
  /\ \A l \in Limits :
       /\ Target \in DOMAIN l.tree /\ DOMAIN l.tree \subseteq Pids
       /\ l.tree \in [DOMAIN l.tree -> Pids \cup {0}] /\ l.tree[Target] = 0
       /\ l.busy \subseteq Pids \cup Groups
       /\ {l.time, l.polls, l.events} \subseteq Nat
  /\ Groups # {} /\ "none" \notin Groups
  /\ Cores \in Nat /\ TicksPerSecond \in Nat

VARIABLES
  alive, parent,    \* the processes and their parents
  born,             \* tells processes with the same PID apart
  cpu,              \* utime and stime of each process, at the time they were read
  group, usage,     \* the cgroup of each process, and the usage of each cgroup
  uptime,           \* the clock, in hundredths of a second as /proc/uptime is
  shutdown,         \* the shutdown signal
  pc,               \* where Server::run is
  processes, pids,  \* poll's stack of handles and its set of known PIDs
  process,          \* the handle that is dealt with
  process_info,     \* Sampler::process_info
  read_uptime,      \* handle_process's uptime
  cgroups, cgroup,  \* the cgroups left to sample, and the one in hand
  cgroup_info,      \* Sampler::cgroup_info
  sampled,          \* the PIDs that went into the totals of this poll
  lasting,          \* history: those that should, see LastingAreSampled
  report,           \* history: the CPU report of the process in hand
  reported,         \* history: usage reported for each cgroup
  known,            \* history: the living processes that had a ProcessInfo
  limit, polls, events

system == <<alive, parent, born, cpu, group, usage, uptime>>
history == <<report, reported, known>>
bounds == <<polls, events>>
walk == <<processes, pids, process, read_uptime, sampled>>
vars == <<system, shutdown, pc, walk, process_info, cgroups, cgroup, cgroup_info,
          history, lasting, limit, bounds>>

Monus(a, b) == IF a > b THEN a - b ELSE 0
Handle(p) == [pid |-> p, born |-> born[p]]
Exists(h) == h.pid \in alive /\ born[h.pid] = h.born
Children(p) == {q \in alive : parent[q] = p}
NoHandle == [pid |-> 0, born |-> 0]
NoGroup == "none"
NoReport == [user |-> 0, system |-> 0, window |-> 0, late |-> 0]

(* (uptime_secs * ticks_per_second).round().                               *)
UptimeTicks(t) == (2 * t * TicksPerSecond + 100) \div 200

(* What the threads of a process, or the processes of a cgroup, can have   *)
(* run since a time.                                                       *)
Possible(x, since) ==
  0..(IF x \in limit.busy THEN Cores * UptimeTicks(uptime - since) ELSE 0)

Unused(t) == [user |-> 0, system |-> 0, at |-> t]

(* The living processes below p, and p.                                    *)
Below(p) ==
  LET grow[n \in 0..Cardinality(Pids)] ==
        IF n = 0 THEN {p} \cap alive
        ELSE LET at == grow[n - 1]
             IN  at \cup UNION {Children(q) : q \in at}
  IN  grow[Cardinality(Pids)]

Init ==
  /\ limit \in Limits
  /\ parent = [p \in Pids |-> IF p \in DOMAIN limit.tree THEN limit.tree[p] ELSE 0]
  /\ alive = {Target} \cup {p \in Pids : parent[p] # 0}
  /\ born = [p \in Pids |-> IF p \in alive THEN 1 ELSE 0]
  /\ cpu = [p \in Pids |-> Unused(1)]
  /\ \E g \in Groups : group = [p \in Pids |-> g]
  /\ usage = [g \in Groups |-> [total |-> 0, at |-> 1]]
  /\ uptime = 1 /\ shutdown = FALSE /\ pc = "new"
  /\ processes = <<>> /\ pids = {} /\ process = NoHandle
  /\ process_info = <<>> /\ read_uptime = 0
  /\ cgroups = {} /\ cgroup = NoGroup /\ cgroup_info = <<>>
  /\ sampled = <<>>
  /\ report = NoReport
  /\ reported = [g \in Groups |-> 0]
  /\ known = {} /\ lasting = {}
  /\ polls = 0 /\ events = 0
-----------------------------------------------------------------------------
sampler ==
  <<shutdown, pc, walk, process_info, cgroups, cgroup, cgroup_info, history>>

(* The system is of interest while the observer runs.                      *)
Running == pc \notin {"returned", "failed"}

Event == Running /\ events < limit.events /\ events' = events + 1

(* p starts q, in its own cgroup or another.                               *)
Fork(p, q, g) ==
  /\ p \in alive /\ q \in DOMAIN limit.tree \ alive
  /\ Event
  /\ alive' = alive \cup {q}
  /\ parent' = [parent EXCEPT ![q] = p]
  /\ born' = [born EXCEPT ![q] = 1 + events']
  /\ cpu' = [cpu EXCEPT ![q] = Unused(uptime)]
  /\ group' = [group EXCEPT ![q] = g]
  /\ UNCHANGED <<usage, uptime, sampler, lasting, polls>>

(* p exits, and its children are orphans.                                  *)
Exit(p) ==
  /\ p \in alive
  /\ Event
  /\ alive' = alive \ {p}
  /\ parent' = [q \in Pids |-> IF p \in {q, parent[q]} THEN 0 ELSE parent[q]]
  /\ born' = [born EXCEPT ![p] = 0]
  /\ known' = known \ {Handle(p)}
  /\ lasting' = lasting \ Below(p)
  /\ cpu' = [cpu EXCEPT ![p] = Unused(1)]
  /\ UNCHANGED <<group, usage, uptime, shutdown, pc, walk, process_info, cgroups,
                 cgroup, cgroup_info, report, reported, polls>>

(* Time passes.  How much a process has run is chosen when somebody looks. *)
Tick ==
  /\ Running
  /\ uptime < limit.time
  /\ uptime' = uptime + 1
  /\ UNCHANGED <<alive, parent, born, cpu, group, usage, sampler, lasting, bounds>>
-----------------------------------------------------------------------------
elsewhere == <<system, shutdown, cgroups, cgroup, cgroup_info>>

(* Sampler::new.                                                           *)
New ==
  /\ pc = "new"
  /\ pc' = IF Target \in alive THEN "idle" ELSE "failed"
  /\ UNCHANGED <<elsewhere, walk, process_info, history, lasting, bounds>>

(* Sampler::poll begins with the target; when that is gone the error ends  *)
(* Server::run.                                                            *)
StartPoll ==
  /\ pc = "idle"
  /\ polls < limit.polls
  /\ polls' = polls + 1
  /\ IF Target \in alive
     THEN processes' = <<Handle(Target)>> /\ pc' = "scan"
     ELSE processes' = <<>> /\ pc' = "failed"
  /\ pids' = {} /\ sampled' = <<>> /\ lasting' = Below(Target)
  /\ UNCHANGED <<elsewhere, process, read_uptime, process_info, history, events>>

(* The children of the handle on top of the stack.                         *)
Listed ==
  LET h == Last(processes)
  IN  IF Exists(h) THEN Children(h.pid) ELSE {}

(* The handle is popped, those found are pushed and known from now on, and *)
(* process_info is cut down to the PIDs kept.                              *)
ScanStep(found, kept) ==
  /\ pc = "scan"
  /\ processes # <<>>
  /\ processes' = Front(processes) \o SetToSeq({Handle(q) : q \in found})
  /\ pids' = pids \cup found
  /\ process_info' = [p \in DOMAIN process_info \cap kept |-> process_info[p]]
  /\ process' = Last(processes)
  /\ report' = NoReport
  /\ pc' = "status"
  /\ UNCHANGED <<elsewhere, read_uptime, sampled, reported, known, lasting, bounds>>

(* Variant: only the target's own children are looked for.                 *)
ScanTargetOnly ==
  LET found == IF processes # <<>> /\ Last(processes).pid = Target
               THEN Listed \ pids ELSE {}
  IN  ScanStep(found, pids \cup found)

(* The next handle.                                                        *)
Scan == ScanStep(Listed \ pids, pids \cup Listed)

ScanOver ==
  /\ pc = "scan"
  /\ processes = <<>>
  /\ pc' = "cgroup_scan"
  /\ UNCHANGED <<elsewhere, walk, process_info, history, lasting, bounds>>
-----------------------------------------------------------------------------
(* handle_process: the status is read through the handle.                  *)
ReadStatus ==
  /\ pc = "status"
  /\ pc' = CASE ~Exists(process) -> "scan"
             [] Exists(process) /\ process.pid \in DOMAIN process_info -> "uptime"
             [] OTHER -> "init"
  /\ UNCHANGED <<elsewhere, walk, process_info, history, lasting, bounds>>

(* A new ProcessInfo.  exe, comm and cmdline are read by PID, of whichever *)
(* process has it by now.                                                  *)
InitInfo ==
  LET p == process.pid
  IN  /\ pc = "init"
      /\ IF p \in alive
         THEN /\ process_info' = [q \in DOMAIN process_info \cup {p} |->
                                    IF q = p
                                    THEN [user |-> 0, system |-> 0, uptime |-> 0]
                                    ELSE process_info[q]]
              /\ known' = known \cup {Handle(p)}
              /\ pc' = "uptime"
         ELSE pc' = "scan" /\ UNCHANGED <<process_info, known>>
      /\ UNCHANGED <<elsewhere, walk, report, reported, lasting, bounds>>

(* uptime::poll.                                                           *)
ReadUptime ==
  /\ pc = "uptime"
  /\ read_uptime' = uptime
  /\ pc' = "stat"
  /\ UNCHANGED <<elsewhere, processes, pids, process, sampled, process_info,
                 history, lasting, bounds>>

(* compute_cpu_usage: nothing if no time has passed.  User and system      *)
(* ticks each saturate.                                                    *)
CpuUsage(prev, cur) ==
  LET window == Monus(cur.uptime, prev.uptime)
  IN  IF window = 0 THEN NoReport
      ELSE [user |-> Monus(cur.user, prev.user),
            system |-> Monus(cur.system, prev.system),
            window |-> window, late |-> UptimeTicks(uptime - read_uptime)]

(* stat::Sampler::poll, by PID again.                                      *)
ReadStat ==
  LET p == process.pid
  IN  /\ pc = "stat"
      /\ IF p \in alive
         THEN \E u, s \in Possible(p, cpu[p].at) :
                LET cur == [user |-> cpu[p].user + u, system |-> cpu[p].system + s,
                            uptime |-> UptimeTicks(read_uptime)]
                IN  /\ u + s \in Possible(p, cpu[p].at)
                    /\ cpu' = [cpu EXCEPT ![p] = [user |-> cur.user,
                                                  system |-> cur.system, at |-> uptime]]
                    /\ report' = CpuUsage(process_info[p], cur)
                    /\ process_info' = [process_info EXCEPT ![p] = cur]
                    /\ pc' = "smaps"
         ELSE pc' = "scan" /\ UNCHANGED <<cpu, report, process_info>>
      /\ UNCHANGED <<alive, parent, born, group, usage, uptime, shutdown, walk, cgroups,
                     cgroup, cgroup_info, reported, known, lasting, bounds>>

(* smaps and smaps_rollup: the process's memory goes into the totals.      *)
ReadMemory ==
  /\ pc = "smaps"
  /\ sampled' = IF process.pid \in alive THEN Append(sampled, process.pid)
                ELSE sampled
  /\ pc' = "scan"
  /\ UNCHANGED <<elsewhere, processes, pids, process, read_uptime, process_info,
                 history, lasting, bounds>>

(* A file cannot be read: the process is left out of this poll.            *)
ReadFails ==
  /\ pc \in {"status", "init", "uptime", "stat", "smaps"}
  /\ Event
  /\ pc' = "scan"
  /\ lasting' = lasting \ {process.pid}
  /\ UNCHANGED <<elsewhere, walk, process_info, history, polls>>
-----------------------------------------------------------------------------
procfs == <<system, shutdown, processes, process, read_uptime, sampled,
            process_info, report, known, lasting, bounds>>

(* cgroup::Sampler::poll walks the processes once more, in one go; without *)
(* the target it finds none.                                               *)
CgroupScan ==
  /\ pc = "cgroup_scan"
  /\ pids' = Below(Target)
  /\ pc' = "cgroup_paths"
  /\ UNCHANGED <<procfs, cgroups, cgroup, cgroup_info, reported>>

(* v2::get_path of the PIDs that still exist.                              *)
CgroupPaths ==
  /\ pc = "cgroup_paths"
  /\ cgroups' = {group[p] : p \in pids \cap alive}
  /\ pc' = "cgroups"
  /\ UNCHANGED <<procfs, pids, cgroup, cgroup_info, reported>>

(* A cgroup's CgroupInfo, new at its first sight.                          *)
CgroupEntry(g) ==
  /\ pc = "cgroups"
  /\ g \in cgroups
  /\ cgroup_info' = [h \in DOMAIN cgroup_info \cup {g} |->
                       IF h \in DOMAIN cgroup_info THEN cgroup_info[h]
                       ELSE [usage |-> 0, instant |-> uptime]]
  /\ cgroups' = cgroups \ {g}
  /\ cgroup' = g
  /\ pc' = "cgroup_cpu"
  /\ UNCHANGED <<procfs, pids, reported>>

(* Variant: the usage of the sample before is kept.                        *)
StaleUsage(old, new) == old

(* The usage that the next sample is compared with.                        *)
PrevUsage(old, new) == new

(* v2::cpu::Sampler::poll: cpu.max and cpu.stat of the cgroup in hand are  *)
(* read.  There is a report if time has passed, which the clock here is    *)
(* too coarse to tell; with or without one, the sample is the previous one *)
(* from now on.                                                            *)
CgroupCpu ==
  LET g == cgroup
      prev == cgroup_info[g]
  IN  /\ pc = "cgroup_cpu"
      /\ \E n \in Possible(g, usage[g].at) :
           LET total == usage[g].total + n
           IN  /\ usage' = [usage EXCEPT ![g] = [total |-> total, at |-> uptime]]
               /\ \/ uptime = prev.instant /\ UNCHANGED reported
                  \/ reported' = [reported EXCEPT ![g] = @ + Monus(total, prev.usage)]
               /\ cgroup_info' = [cgroup_info EXCEPT ![g] =
                                    [usage |-> PrevUsage(prev.usage, total),
                                     instant |-> uptime]]
      /\ cgroup' = NoGroup
      /\ pc' = "cgroups"
      /\ UNCHANGED <<alive, parent, born, cpu, group, uptime, shutdown, walk, process_info,
                     cgroups, report, known, lasting, bounds>>

(* cpu.max or cpu.stat cannot be read: the previous sample stays.          *)
CgroupCpuFails ==
  /\ pc = "cgroup_cpu"
  /\ Event
  /\ cgroup' = NoGroup
  /\ pc' = "cgroups"
  /\ UNCHANGED <<system, shutdown, walk, process_info, cgroups, cgroup_info, history,
                 lasting, polls>>

CgroupsOver ==
  /\ pc = "cgroups"
  /\ cgroups = {}
  /\ pc' = "idle"
  /\ processes' = <<>> /\ pids' = {} /\ process' = NoHandle
  /\ read_uptime' = 0 /\ sampled' = <<>> /\ lasting' = {} /\ report' = NoReport
  /\ UNCHANGED <<elsewhere, process_info, reported, known, bounds>>

(* The shutdown arm of Server::run.                                        *)
RunShutdown ==
  /\ pc = "idle"
  /\ shutdown
  /\ pc' = "returned"
  /\ UNCHANGED <<procfs, pids, cgroups, cgroup, cgroup_info, reported>>

ShutdownSignal ==
  /\ ~shutdown
  /\ shutdown' = TRUE
  /\ UNCHANGED <<system, pc, walk, process_info, cgroups, cgroup, cgroup_info, history,
                 lasting, bounds>>
-----------------------------------------------------------------------------
Handling == ReadStatus \/ InitInfo \/ ReadUptime \/ ReadStat \/ ReadMemory

Cgroups ==
  \/ CgroupScan \/ CgroupPaths \/ CgroupCpu \/ CgroupsOver
  \/ \E g \in Groups : CgroupEntry(g)

Next ==
  /\ UNCHANGED limit
  /\ \/ \E p, q \in Pids : \E g \in Groups : Fork(p, q, g)
     \/ \E p \in Pids : Exit(p)
     \/ Tick
     \/ New \/ StartPoll \/ Scan \/ ScanOver \/ Handling \/ ReadFails \/ Cgroups
     \/ CgroupCpuFails
     \/ RunShutdown \/ ShutdownSignal

Spec == Init /\ [][Next]_vars

(* The runtime polls the task; the select of run picks a ready arm at      *)
(* random.                                                                 *)
FairSpec ==
  /\ Spec
  /\ WF_vars(New) /\ WF_vars(Scan) /\ WF_vars(ScanOver)
  /\ WF_vars(Handling) /\ WF_vars(Cgroups)
  /\ SF_vars(RunShutdown)
-----------------------------------------------------------------------------
(* Whatever forks and exits while poll walks the tree, every process that  *)
(* was below the target when it began, and stays there, with all those in  *)
(* between, to the end, goes into the totals, unless one of its own files  *)
(* could not be read.  No PID goes in twice, but for the target's, which   *)
(* poll does not put into pids and another process may have taken.         *)
LastingAreSampled ==
  pc = "cgroup_scan" =>
    /\ lasting \subseteq ToSet(sampled)
    /\ \A i, j \in DOMAIN sampled :
         i # j /\ sampled[i] = sampled[j] => sampled[i] = Target

(* No process is reported to have run for longer than its threads could on *)
(* all processors in the time reported, up to the time that passed between *)
(* the reads of uptime and of stat, not even when the PID has passed to    *)
(* another process and user and system ticks are counted from those of the *)
(* one before; and over all polls no usage of a cgroup is reported twice,  *)
(* whichever of its files failed in between.                               *)
CpuIsPossible ==
  /\ report.user + report.system <= Cores * (report.window + report.late)
  /\ \A g \in Groups : reported[g] <= usage[g].total

(* The comment in handle_process: "If we haven't seen this process before, *)
(* initialize its ProcessInfo", and with it the sample that CPU usage is   *)
(* counted from.                                                           *)
InitializedOnce ==
  [][\A p \in DOMAIN process_info' \ DOMAIN process_info :
       Handle(p) \notin known]_vars
=============================================================================
