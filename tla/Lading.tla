------------------------------- MODULE Lading -------------------------------
(***************************************************************************)
(* One run of the lading binary: inner_main and main of bin/lading.rs with *)
(* the tasks they spawn.  The experiment sequence, the target server, the  *)
(* generator servers, the inspector, the observer and the capture manager  *)
(* each run concurrently and meet only in the PID channel and in the phase *)
(* signals.                                                                *)
(* The shutdown signal is an instance of PhaseLatch, which Signal          *)
(* implements; the other signals have no registered watchers that anyone   *)
(* waits for, and are flags here.                                          *)
(***************************************************************************)
EXTENDS Naturals, FiniteSets

CONSTANTS
  Generators,  \* generators that may be configured
  Configs      \* the configurations to consider

ASSUME LadingAssumption ==
  Configs \subseteq [target : {"none", "pid", "docker", "binary"},
                     telemetry : {"log", "prometheus"},
                     infinite : BOOLEAN, inspector : BOOLEAN,
                     generators : SUBSET Generators]

VARIABLES
  config,       \* what the configuration file chose
  main,         \* where inner_main, and then main, stand
  result,       \* what inner_main will return
  phase, outstanding, waiter,  \* the shutdown signal
  wait,         \* where signal_and_wait stands: "none", "load", "listen", "await"
  sequence,     \* the experiment_sequence task
  running, started, timer,     \* target_running, experiment_started, timer
  pid,          \* the PID channel: "pending", "sent", "closed"
  target,       \* the target server's task
  process,      \* the target process
  terminated,   \* SIGTERM has been sent to the target process
  generator,    \* each generator server's task
  inspector,    \* the inspector's task
  inspection,   \* the process that it runs
  observer,     \* the observer's task
  capture       \* the capture manager's thread

signals == <<running, started, timer>>
latch == <<phase, outstanding, waiter, wait>>
targetVars == <<pid, target, process, terminated>>
inspect == <<inspector, inspection>>
tasks == <<generator, inspect, observer, capture>>
vars == <<config, main, result, latch, sequence, signals, targetVars, tasks>>

Shutdown == INSTANCE PhaseLatch WITH Watchers <- {"main", "capture"}

Finished == {"ok", "err", "panicked", "joined", "dropped"}
ShutdownSignalled == phase = "signalled"

(* inner_main with its three signals and the PID channel made.  A target   *)
(* that is not ours to start may be running already, or be gone.           *)
Init ==
  /\ config \in Configs
  /\ main = "setup"
  /\ result = "none"
  /\ phase = "open"
  /\ waiter = "none"
  /\ wait = "none"
  /\ outstanding = {"main"}
  /\ sequence = "none"
  /\ running = FALSE
  /\ started = FALSE
  /\ timer = FALSE
  /\ pid = "pending"
  /\ target = "none"
  /\ process \in IF config.target = "pid" THEN {"alive", "exited"} ELSE {"absent"}
  /\ terminated = FALSE
  /\ generator = [g \in Generators |-> "none"]
  /\ inspector = "none"
  /\ inspection = "absent"
  /\ observer = "none"
  /\ capture = "none"
-----------------------------------------------------------------------------
(* Variant: the capture manager gets a clone.                              *)
StartTelemetryCloned ==
  /\ main = "setup"
  /\ main' = "servers"
  /\ capture' = IF config.telemetry = "log" THEN "await_target" ELSE capture
  /\ UNCHANGED <<config, result, latch, sequence, signals, targetVars,
                 generator, observer, inspect>>

(* The telemetry: only the capture manager's watcher is registered.        *)
StartTelemetry ==
  /\ main = "setup"
  /\ main' = "servers"
  /\ IF config.telemetry = "log"
     THEN Shutdown!Register("capture") /\ capture' = "await_target" /\ UNCHANGED wait
     ELSE UNCHANGED <<latch, capture>>
  /\ UNCHANGED <<config, result, sequence, signals, targetVars, generator,
                 observer, inspect>>

SpawnGenerator(g) ==
  /\ main = "servers"
  /\ g \in config.generators /\ generator[g] = "none"
  /\ generator' = [generator EXCEPT ![g] = "await_pid"]
  /\ UNCHANGED <<config, main, result, latch, sequence, signals, targetVars,
                 observer, capture, inspect>>

SpawnInspector ==
  /\ main = "servers"
  /\ config.inspector /\ inspector = "none"
  /\ \A g \in config.generators : generator[g] # "none"
  /\ inspector' = "await_pid"
  /\ UNCHANGED <<config, main, result, latch, sequence, signals, targetVars,
                 generator, inspection, observer, capture>>

(* Observer, target and experiment sequence.  Without a target the PID     *)
(* channel and target_running are served at once.                          *)
SpawnTarget ==
  /\ main = "servers"
  /\ \A g \in config.generators : generator[g] # "none"
  /\ config.inspector => inspector # "none"
  /\ main' = "spawned"
  /\ sequence' = "await_target"
  /\ IF config.target = "none"
     THEN pid' = "sent" /\ running' = TRUE /\ UNCHANGED <<target, observer>>
     ELSE /\ target' = "starting"
          /\ observer' = "await_pid"
          /\ UNCHANGED <<pid, running>>
  /\ UNCHANGED <<config, result, latch, started, timer, process, terminated,
                 generator, capture, inspect>>

Dropped(s) == IF s \in Finished \cup {"none"} THEN s ELSE "dropped"

(* A server that cannot be made ends inner_main at once: the generators    *)
(* are aborted with their join set, then every sender and broadcaster that *)
(* inner_main holds is dropped, and nobody is waited for.                  *)
SetupFails ==
  /\ main \in {"setup", "servers"}
  /\ main' = "returned"
  /\ result' = "err"
  /\ phase' = "signalled"
  /\ outstanding' = outstanding \ {"main"}
  /\ pid' = "closed"
  /\ running' = TRUE
  /\ started' = TRUE
  /\ generator' = [g \in Generators |-> Dropped(generator[g])]
  /\ UNCHANGED <<config, waiter, wait, sequence, timer, target, process,
                 terminated, observer, capture, inspect>>

(* inner_main drops its own watchers and enters the select loop.           *)
EnterLoop ==
  /\ main = "spawned"
  /\ main' = "select"
  /\ Shutdown!Acknowledge("main")
  /\ UNCHANGED <<config, result, wait, sequence, signals, targetVars, tasks>>

(* Leaving the loop: shutdown_broadcast.signal_and_wait().                 *)
Break(res) ==
  /\ main' = "waiting"
  /\ result' = res
  /\ Shutdown!AnnounceAndWait
  /\ wait' = "load"
  /\ UNCHANGED <<config, sequence, signals>>

CtrlC ==
  /\ main = "select"
  /\ Break("ok")
  /\ UNCHANGED <<targetVars, tasks>>

TimerFires ==
  /\ main = "select"
  /\ timer
  /\ Break("ok")
  /\ UNCHANGED <<targetVars, tasks>>

(* Variant: the target's result is logged like a blackhole's.              *)
JoinTargetLogged ==
  /\ main = "select"
  /\ target \in {"ok", "err"}
  /\ target' = "joined"
  /\ UNCHANGED <<config, main, result, latch, sequence, signals, pid, process,
                 terminated, tasks>>

(* A finished target ends the run, well or badly.                          *)
JoinTarget ==
  /\ main = "select"
  /\ target \in {"ok", "err"}
  /\ Break(target)
  /\ target' = "joined"
  /\ UNCHANGED <<pid, process, terminated, tasks>>

(* A generator that failed ends the run; one that finished, or panicked,   *)
(* does not.                                                               *)
JoinFailedGenerator(g) ==
  /\ main = "select"
  /\ generator[g] = "err"
  /\ Break("err")
  /\ generator' = [generator EXCEPT ![g] = "joined"]
  /\ UNCHANGED <<targetVars, observer, capture, inspect>>

JoinGenerator(g) ==
  /\ main = "select"
  /\ generator[g] \in {"ok", "panicked"}
  /\ generator' = [generator EXCEPT ![g] = "joined"]
  /\ UNCHANGED <<config, main, result, latch, sequence, signals, targetVars,
                 observer, capture, inspect>>

JoinFailedObserver ==
  /\ main = "select"
  /\ observer = "err"
  /\ Break("err")
  /\ observer' = "joined"
  /\ UNCHANGED <<targetVars, generator, capture, inspect>>

JoinObserver ==
  /\ main = "select"
  /\ observer \in {"ok", "panicked"}
  /\ observer' = "joined"
  /\ UNCHANGED <<config, main, result, latch, sequence, signals, targetVars,
                 generator, capture, inspect>>

(* signal_and_wait loads the number of peers and returns if there is none. *)
WaitOver ==
  /\ main = "waiting"
  /\ wait = "load"
  /\ main' = "returned"
  /\ wait' = "none"
  /\ Shutdown!Release
  /\ UNCHANGED <<config, result, sequence, signals, targetVars, tasks>>

(* It has seen a peer, and makes the future it is woken through only then. *)
WaitForPeers ==
  /\ wait = "load" /\ outstanding # {}
  /\ wait' = "listen"
  /\ UNCHANGED <<config, main, result, phase, outstanding, waiter, sequence,
                 signals, targetVars, tasks>>

WaitListens ==
  /\ wait = "listen"
  /\ wait' = "await"
  /\ UNCHANGED <<config, main, result, phase, outstanding, waiter, sequence,
                 signals, targetVars, tasks>>

(* notify_waiters, called by a watcher that goes: who awaits loads again.  *)
NotifyWaiters == wait' = IF wait = "await" THEN "load" ELSE wait

(* The join sets go with inner_main and runtime.shutdown_timeout takes the *)
(* rest: every task is dropped where it next yields, and kill_on_drop      *)
(* kills the target or the inspector's process if it is still running.     *)
RuntimeShutdown ==
  /\ main = "returned"
  /\ main' = "down"
  /\ target' = Dropped(target)
  /\ process' = IF /\ config.target = "binary" /\ process = "alive"
                   /\ target' = "dropped"
                THEN "killed" ELSE process
  /\ pid' = IF target' = "dropped" /\ pid = "pending" THEN "closed" ELSE pid
  /\ running' = (running \/ target' = "dropped")
  /\ generator' = [g \in Generators |-> Dropped(generator[g])]
  /\ inspector' = Dropped(inspector)
  /\ inspection' = IF inspection = "alive" /\ inspector' = "dropped"
                   THEN "killed" ELSE inspection
  /\ observer' = Dropped(observer)
  /\ sequence' = IF sequence \in {"none", "done"} THEN sequence ELSE "dropped"
  /\ started' = TRUE
  /\ timer' = TRUE
  /\ UNCHANGED <<config, result, latch, terminated, capture>>
-----------------------------------------------------------------------------
(* experiment_sequence.                                                    *)
TargetIsUp ==
  /\ sequence = "await_target"
  /\ running
  /\ sequence' = "warmup"
  /\ UNCHANGED <<config, main, result, latch, signals, targetVars, tasks>>

WarmupOver ==
  /\ sequence = "warmup"
  /\ started' = TRUE
  /\ sequence' = "experiment"
  /\ UNCHANGED <<config, main, result, latch, running, timer, targetVars, tasks>>

ExperimentOver ==
  /\ sequence = "experiment"
  /\ ~config.infinite
  /\ timer' = TRUE
  /\ sequence' = "done"
  /\ UNCHANGED <<config, main, result, latch, running, started, targetVars, tasks>>
-----------------------------------------------------------------------------
untouchedByTarget == <<config, main, result, latch, sequence, started, timer,
                       tasks>>

announced == <<untouchedByTarget, running, terminated>>

(* watch: the process is probed.                                           *)
ProbePid ==
  /\ config.target = "pid"
  /\ process = "alive"
  /\ UNCHANGED process

(* watch_container: the container is polled for until it shows up.         *)
FindContainer ==
  /\ config.target = "docker"
  /\ process = "alive"
  /\ UNCHANGED process

(* execute_binary: the process is spawned.                                 *)
SpawnBinary ==
  /\ config.target = "binary"
  /\ process' = "alive"

(* target::Server::run up to where the PID is sent.                        *)
TargetStarts ==
  /\ target = "starting"
  /\ ProbePid \/ FindContainer \/ SpawnBinary
  /\ pid' = "sent"
  /\ target' = "announcing"
  /\ UNCHANGED announced

(* Variant: the Broadcaster outlives the error.                            *)
TargetFailsSilently ==
  /\ target = "starting"
  /\ config.target = "pid" => process # "alive"
  /\ target' = "err"
  /\ pid' = "closed"
  /\ UNCHANGED <<untouchedByTarget, running, process, terminated>>

(* The binary cannot be spawned, the PID does not exist or docker cannot   *)
(* be reached: the error drops the PID sender and the target_running       *)
(* Broadcaster.                                                            *)
TargetFailsToStart ==
  /\ target = "starting"
  /\ config.target = "pid" => process # "alive"
  /\ target' = "err"
  /\ pid' = "closed"
  /\ running' = TRUE
  /\ UNCHANGED <<untouchedByTarget, process, terminated>>

(* target_running.signal(), after the PID.                                 *)
TargetAnnounces ==
  /\ target = "announcing"
  /\ running' = TRUE
  /\ target' = "watching"
  /\ UNCHANGED <<untouchedByTarget, pid, process, terminated>>

TargetExitNoticed ==
  /\ target = "watching"
  /\ process # "alive"
  /\ target' = "err"
  /\ UNCHANGED <<untouchedByTarget, pid, running, process, terminated>>

(* The shutdown arm of watch and watch_container leaves the process alone. *)
WatchShutdown ==
  /\ target = "watching"
  /\ config.target # "binary"
  /\ ShutdownSignalled
  /\ target' = "ok"
  /\ UNCHANGED <<untouchedByTarget, pid, running, process, terminated>>

(* execute_binary tells the process to terminate, and waits for it.        *)
TargetShutdown ==
  /\ target = "watching"
  /\ config.target = "binary"
  /\ ShutdownSignalled
  /\ target' = "terminating"
  /\ terminated' = TRUE
  /\ UNCHANGED <<untouchedByTarget, pid, running, process>>

TargetReaped ==
  /\ target = "terminating"
  /\ process # "alive"
  /\ target' = "ok"
  /\ UNCHANGED <<untouchedByTarget, pid, running, process, terminated>>

(* Somebody else starts the container.                                     *)
ContainerStarts ==
  /\ config.target = "docker"
  /\ process = "absent"
  /\ process' = "alive"
  /\ UNCHANGED <<untouchedByTarget, pid, running, target, terminated>>

(* The process may exit whenever it likes.                                 *)
ProcessExits ==
  /\ process = "alive"
  /\ process' = "exited"
  /\ UNCHANGED <<untouchedByTarget, pid, running, target, terminated>>
-----------------------------------------------------------------------------
others == <<config, main, result, latch, sequence, signals, targetVars>>

(* generator::Server::run: the PID, or the closed channel, then the        *)
(* sub-server until it fails or sees the shutdown.                         *)
GeneratorBegins(g) ==
  /\ generator[g] = "await_pid"
  /\ pid # "pending"
  /\ generator' = [generator EXCEPT ![g] = "spinning"]
  /\ UNCHANGED <<others, observer, capture, inspect>>

GeneratorEnds(g) ==
  /\ generator[g] = "spinning"
  /\ \E end \in {"err", "panicked"} \cup (IF ShutdownSignalled THEN {"ok"} ELSE {}) :
       generator' = [generator EXCEPT ![g] = end]
  /\ UNCHANGED <<others, observer, capture, inspect>>

(* inspector::Server::run.  It looks at the shutdown signal only once its  *)
(* process runs.                                                           *)
InspectorBegins ==
  /\ inspector = "await_pid"
  /\ pid # "pending"
  /\ \/ pid = "sent" /\ inspector' = "inspecting" /\ inspection' = "alive"
     \/ inspector' = "err" /\ UNCHANGED inspection
  /\ UNCHANGED <<others, generator, observer, capture>>

(* The process is told to terminate and waited for.                        *)
InspectorShutdown ==
  /\ inspector = "inspecting"
  /\ ShutdownSignalled
  /\ inspector' = "terminating"
  /\ UNCHANGED <<others, generator, inspection, observer, capture>>

InspectorReaps ==
  /\ inspector \in {"inspecting", "terminating"}
  /\ inspection = "exited"
  /\ inspector' = "ok"
  /\ UNCHANGED <<others, generator, inspection, observer, capture>>

InspectionExits ==
  /\ inspection = "alive"
  /\ inspection' = "exited"
  /\ UNCHANGED <<others, generator, inspector, observer, capture>>

(* observer::Server::run: a closed PID channel is a panic.                 *)
ObserverBegins ==
  /\ observer = "await_pid"
  /\ pid # "pending"
  /\ observer' = IF pid = "sent" THEN "sampling" ELSE "panicked"
  /\ UNCHANGED <<others, generator, capture, inspect>>

ObserverEnds ==
  /\ observer = "sampling"
  /\ \/ observer' = "err"
     \/ ShutdownSignalled /\ observer' = "ok"
  /\ UNCHANGED <<others, generator, capture, inspect>>

(* The capture manager's thread: it polls target_running first and the     *)
(* shutdown signal only afterwards.                                        *)
CaptureBegins ==
  /\ capture = "await_target"
  /\ running
  /\ capture' = "polling"
  /\ UNCHANGED <<others, generator, observer, inspect>>

CaptureEnds ==
  /\ capture = "polling"
  /\ ShutdownSignalled
  /\ capture' = "done"
  /\ Shutdown!Acknowledge("capture")
  /\ NotifyWaiters
  /\ UNCHANGED <<config, main, result, sequence, signals, targetVars,
                 generator, observer, inspect>>
-----------------------------------------------------------------------------
MainJoins ==
  \/ JoinTarget
  \/ JoinObserver
  \/ JoinFailedObserver
  \/ \E g \in Generators : JoinGenerator(g) \/ JoinFailedGenerator(g)

TargetNext ==
  \/ TargetAnnounces
  \/ TargetExitNoticed
  \/ WatchShutdown
  \/ TargetShutdown
  \/ TargetReaped

Next ==
  \/ StartTelemetry \/ SpawnTarget \/ SetupFails
  \/ \E g \in Generators : SpawnGenerator(g)
  \/ SpawnInspector
  \/ EnterLoop \/ CtrlC \/ TimerFires \/ MainJoins
  \/ WaitOver \/ WaitForPeers \/ WaitListens \/ RuntimeShutdown
  \/ TargetIsUp \/ WarmupOver \/ ExperimentOver
  \/ TargetStarts \/ TargetFailsToStart \/ TargetNext
  \/ ContainerStarts \/ ProcessExits
  \/ \E g \in Generators : GeneratorBegins(g) \/ GeneratorEnds(g)
  \/ InspectorBegins \/ InspectorShutdown \/ InspectorReaps \/ InspectionExits
  \/ ObserverBegins \/ ObserverEnds
  \/ CaptureBegins \/ CaptureEnds

Spec == Init /\ [][Next]_vars

(* What main does next: ctrl-c and a failing setup are not up to it.       *)
MainStep ==
  \/ StartTelemetry \/ SpawnInspector \/ SpawnTarget
  \/ \E g \in Generators : SpawnGenerator(g)
  \/ EnterLoop \/ TimerFires \/ MainJoins
  \/ WaitOver \/ WaitForPeers \/ WaitListens
  \/ RuntimeShutdown

(* Tasks are polled, sleeps end and the capture thread keeps polling.      *)
(* Nothing is assumed of ctrl-c, of failures or of the target process.     *)
TaskFairness ==
  /\ WF_vars(MainStep)
  /\ WF_vars(TargetIsUp \/ WarmupOver \/ ExperimentOver)
  /\ WF_vars(TargetNext)
  /\ WF_vars(ObserverBegins)
  /\ WF_vars(CaptureBegins \/ CaptureEnds)
  /\ \A g \in Generators : WF_vars(GeneratorBegins(g))

(* A binary or a PID is found or is not; only a container may be polled    *)
(* for without end.                                                        *)
StartFairness ==
  WF_vars(config.target # "docker" /\ (TargetStarts \/ TargetFailsToStart))

FairSpec == Spec /\ TaskFairness /\ StartFairness
-----------------------------------------------------------------------------
(* A run leaves nothing half done.  When it got past its setup it ends     *)
(* only after the capture manager has seen the shutdown between two        *)
(* recordings: signal_and_wait never lets main tear the process down in    *)
(* the middle of a capture line.  And once the runtime is down no process  *)
(* that lading started is left, target or inspector's, whoever was in the  *)
(* middle of starting or of waiting for it.                                *)
NothingLeftBehind ==
  /\ waiter = "done" => capture \in {"none", "done"}
  /\ main = "down" =>
       /\ inspection # "alive"
       /\ config.target = "binary" => process # "alive"

(* signal_and_wait missed its wake-up: the capture manager went after it   *)
(* was counted and before the future was made.  Nobody is left to wait for *)
(* and nobody to wake the caller.                                          *)
WakeUpLost == wait = "await" /\ outstanding = {}

(* A target that goes away while lading watches it ends the run, even an   *)
(* infinite one: no experiment goes on against a dead target.  Lading then *)
(* exits, but for the one case in which signal_and_wait misses its wake-up *)
(* and, with the capture file complete, hangs.                             *)
DeadTargetEndsRun ==
  (main = "select" /\ target = "watching" /\ process = "exited")
    ~> main = "down" \/ (WakeUpLost /\ capture = "done")

(* With a target that starts or fails to start and a finite experiment,    *)
(* every run comes to an end by itself, whichever tasks fail, panic or     *)
(* never finish; and the missed wake-up is the only thing that can keep it *)
(* from that, in a run that captures to a file.                            *)
RunEnds ==
  config.target # "docker" /\ ~config.infinite =>
    <>(main = "down" \/ (WakeUpLost /\ config.telemetry = "log"))
=============================================================================
