---------------------------- MODULE LadingProofs ----------------------------
(***************************************************************************)
(* That a run of lading leaves nothing behind, for any set of generators   *)
(* and any configurations.                                                 *)
(***************************************************************************)
EXTENDS Lading, TLAPS

Ended == Finished \cup {"none"}

(* The capture manager is waited for as long as its thread runs: it is     *)
(* registered before anyone can wait, and nobody registers after that.     *)
CaptureIsWaitedFor ==
  /\ capture \in {"none", "await_target", "polling", "done"}
  /\ capture \in {"await_target", "polling"} => "capture" \in outstanding
  /\ waiter = "done" => outstanding = {}
  /\ main = "setup" => waiter = "none"

(* A process that lading started is held by the task that would kill it,   *)
(* until the process is gone.                                              *)
ProcessesAreHeld ==
  /\ inspection = "alive" => inspector \in {"inspecting", "terminating"}
  /\ config.target = "binary" /\ process = "alive" =>
       target \in {"announcing", "watching", "terminating"}
  /\ main \in {"setup", "servers"} => target = "none"
  /\ main = "down" => inspector \in Ended /\ target \in Ended

IInv == CaptureIsWaitedFor /\ ProcessesAreHeld

(* What Dropped answers is a task that has ended.                          *)
LEMMA DroppedHasEnded == \A s : /\ Dropped(s) \in Ended
                                /\ s \in Ended => Dropped(s) = s
                                /\ s \notin Ended => Dropped(s) = "dropped"
BY DEF Dropped, Ended, Finished

LEMMA InitIInv == Init => IInv
BY LadingAssumption
   DEF Init, IInv, CaptureIsWaitedFor, ProcessesAreHeld, Ended

LEMMA IInvIsEnough == IInv => NothingLeftBehind
BY DEF IInv, CaptureIsWaitedFor, ProcessesAreHeld, NothingLeftBehind, Ended, Finished

(* The capture thread and the latch: one step for each action that changes *)
(* one of them, and one for all the others.                                *)
LEMMA NextCapture == IInv /\ [Next]_vars => CaptureIsWaitedFor'
<1> SUFFICES ASSUME IInv, [Next]_vars PROVE CaptureIsWaitedFor'
  OBVIOUS
<1> USE DEF IInv, CaptureIsWaitedFor
<1>1. CASE StartTelemetry
  BY <1>1 DEF StartTelemetry, Shutdown!Register, latch
<1>2. CASE SetupFails
  BY <1>2 DEF SetupFails
<1>3. CASE EnterLoop
  BY <1>3 DEF EnterLoop, Shutdown!Acknowledge, tasks
<1>4. ASSUME NEW res, Break(res), UNCHANGED capture
      PROVE  CaptureIsWaitedFor'
  BY <1>4 DEF Break, Shutdown!AnnounceAndWait
<1>5. CASE CtrlC \/ TimerFires \/ JoinTarget \/ JoinFailedObserver
           \/ \E g \in Generators : JoinFailedGenerator(g)
  BY <1>4, <1>5 DEF CtrlC, TimerFires, JoinTarget, JoinFailedObserver,
                    JoinFailedGenerator, tasks
<1>6. CASE WaitOver \/ WaitForPeers \/ WaitListens
  BY <1>6 DEF WaitOver, WaitForPeers, WaitListens, Shutdown!Release, tasks
<1>7. CASE CaptureBegins
  BY <1>7 DEF CaptureBegins, others, latch
<1>8. CASE CaptureEnds
  BY <1>8 DEF CaptureEnds, Shutdown!Acknowledge
<1>9. ASSUME UNCHANGED <<latch, capture>>, main' = "setup" => main = "setup"
      PROVE  CaptureIsWaitedFor'
  BY <1>9 DEF latch
<1>10. CASE \/ SpawnTarget \/ SpawnInspector \/ JoinObserver \/ RuntimeShutdown
            \/ \E g \in Generators : SpawnGenerator(g) \/ JoinGenerator(g)
  BY <1>9, <1>10 DEF SpawnTarget, SpawnInspector, JoinObserver, RuntimeShutdown,
                     SpawnGenerator, JoinGenerator
<1>11. CASE \/ TargetIsUp \/ WarmupOver \/ ExperimentOver
            \/ TargetStarts \/ TargetFailsToStart \/ TargetNext
            \/ ContainerStarts \/ ProcessExits
  BY <1>9, <1>11 DEF TargetIsUp, WarmupOver, ExperimentOver, TargetStarts,
     TargetFailsToStart, TargetNext, TargetAnnounces, TargetExitNoticed,
     WatchShutdown, TargetShutdown, TargetReaped, ContainerStarts, ProcessExits,
     announced, untouchedByTarget, tasks
<1>12. CASE \/ InspectorBegins \/ InspectorShutdown \/ InspectorReaps
            \/ InspectionExits \/ ObserverBegins \/ ObserverEnds
            \/ \E g \in Generators : GeneratorBegins(g) \/ GeneratorEnds(g)
  BY <1>9, <1>12 DEF InspectorBegins, InspectorShutdown, InspectorReaps,
     InspectionExits, ObserverBegins, ObserverEnds, GeneratorBegins,
     GeneratorEnds, others
<1>13. CASE UNCHANGED vars
  BY <1>9, <1>13 DEF vars, tasks
<1> QED
  BY <1>1, <1>2, <1>3, <1>5, <1>6, <1>7, <1>8, <1>10, <1>11, <1>12, <1>13
  DEF Next, MainJoins

(* The processes and the tasks that hold them.                             *)
LEMMA NextProcesses == IInv /\ [Next]_vars => ProcessesAreHeld'
<1> SUFFICES ASSUME IInv, [Next]_vars PROVE ProcessesAreHeld'
  OBVIOUS
<1> USE DEF IInv, ProcessesAreHeld
<1>1. CASE StartTelemetry
  BY <1>1 DEF StartTelemetry, targetVars, inspect
<1>2. CASE SpawnInspector
  BY <1>2 DEF SpawnInspector, targetVars
<1>3. CASE SpawnTarget
  BY <1>3 DEF SpawnTarget, inspect
<1>4. CASE SetupFails
  BY <1>4 DEF SetupFails, inspect
<1>5. CASE EnterLoop \/ WaitOver \/ WaitForPeers \/ WaitListens
  BY <1>5 DEF EnterLoop, WaitOver, WaitForPeers, WaitListens, targetVars, tasks, inspect
<1>6. CASE CtrlC \/ TimerFires \/ JoinFailedObserver
           \/ \E g \in Generators : JoinFailedGenerator(g)
  BY <1>6 DEF CtrlC, TimerFires, JoinFailedObserver, JoinFailedGenerator, Break,
              targetVars, tasks, inspect
<1>7. CASE JoinTarget
  BY <1>7 DEF JoinTarget, Break, tasks, inspect
<1>8. CASE RuntimeShutdown
  <2>1. inspector' \in Ended /\ target' \in Ended
    BY <1>8, DroppedHasEnded DEF RuntimeShutdown
  <2>2. inspection' # "alive"
    <3>1. CASE inspection = "alive"
      BY <1>8, <3>1, DroppedHasEnded DEF RuntimeShutdown, Ended, Finished
    <3>2. CASE inspection # "alive"
      BY <1>8, <3>2 DEF RuntimeShutdown
    <3> QED
      BY <3>1, <3>2
  <2>3. config'.target = "binary" => process' # "alive"
    <3>1. CASE config.target = "binary" /\ process = "alive"
      BY <1>8, <3>1, DroppedHasEnded DEF RuntimeShutdown, Ended, Finished
    <3>2. CASE ~(config.target = "binary" /\ process = "alive")
      BY <1>8, <3>2 DEF RuntimeShutdown
    <3> QED
      BY <3>1, <3>2
  <2>4. main' = "down"
    BY <1>8 DEF RuntimeShutdown
  <2> QED
    BY <2>1, <2>2, <2>3, <2>4
<1>9. CASE TargetStarts \/ TargetFailsToStart \/ TargetNext
  BY <1>9 DEF TargetStarts, ProbePid, FindContainer, SpawnBinary,
     TargetFailsToStart, TargetNext, TargetAnnounces, TargetExitNoticed,
     WatchShutdown, TargetShutdown, TargetReaped, announced, untouchedByTarget,
     tasks, inspect, Ended, Finished
<1>10. CASE ContainerStarts \/ ProcessExits
  BY <1>10 DEF ContainerStarts, ProcessExits, untouchedByTarget, tasks, inspect
<1>11. CASE InspectorBegins \/ InspectorShutdown \/ InspectorReaps \/ InspectionExits
  BY <1>11 DEF InspectorBegins, InspectorShutdown, InspectorReaps,
     InspectionExits, others, targetVars, Ended, Finished
<1>12. ASSUME UNCHANGED <<config, main, targetVars, inspect>>
       PROVE  ProcessesAreHeld'
  BY <1>12 DEF targetVars, inspect
<1>13. CASE \/ JoinObserver \/ TargetIsUp \/ WarmupOver \/ ExperimentOver
            \/ ObserverBegins \/ ObserverEnds \/ CaptureBegins \/ CaptureEnds
            \/ \E g \in Generators : \/ SpawnGenerator(g) \/ JoinGenerator(g)
                                     \/ GeneratorBegins(g) \/ GeneratorEnds(g)
  BY <1>12, <1>13 DEF JoinObserver, TargetIsUp, WarmupOver, ExperimentOver,
     ObserverBegins, ObserverEnds, CaptureBegins, CaptureEnds, SpawnGenerator,
     JoinGenerator, GeneratorBegins, GeneratorEnds, others, tasks
<1>14. CASE UNCHANGED vars
  BY <1>12, <1>14 DEF vars, tasks
<1> QED
  BY <1>1, <1>2, <1>3, <1>4, <1>5, <1>6, <1>7, <1>8, <1>9, <1>10, <1>11, <1>13,
     <1>14
  DEF Next, MainJoins

(* A run of lading ends only after the capture manager has ended, and once *)
(* its runtime is down neither the target that it started nor the          *)
(* inspector's process is alive, whatever was configured and however many  *)
(* generators there are.                                                   *)
THEOREM LeavesNothingBehind == Spec => []NothingLeftBehind
<1>1. IInv /\ [Next]_vars => IInv'
  BY NextCapture, NextProcesses DEF IInv
<1> QED
  BY InitIInv, <1>1, IInvIsEnough, PTL DEF Spec
=============================================================================
