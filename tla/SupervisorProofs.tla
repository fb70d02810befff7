--------------------------- MODULE SupervisorProofs ---------------------------
(***************************************************************************)
(* Proofs about Supervisor, for any set of launches and process ids, with  *)
(* overlapping launches, job control, crashes and pid reuse.               *)
(*                                                                         *)
(* OneWorkerPerLaunch, KillTargetsOwnWorker and ExitNotMissed speak of the *)
(* supervisor in sigwaitinfo.  They are inductive only together with what  *)
(* holds at the other points of the loop: no process of this launch is left*)
(* when fork() is reached, and `pid` still names it when wait() is called. *)
(*                                                                         *)
(* Of the liveness properties what needs no fairness is proved at the end: *)
(* a stop signal and the end of a worker are not forgotten, and each call  *)
(* of the loop is one less to their answer.                                *)
(***************************************************************************)
EXTENDS Supervisor, Naturals, TLAPS

\* Nothing forked by s exists when its loop reaches fork().
NoneBeforeFork ==
  \A s \in Launches : sup[s] \in {"off", "create", "fork"} => ForkedBy(s) = {}

\* `pid` is the launch's own process from fork() to wait().
ChildIsOwn ==
  \A s \in Launches : sup[s] \in {"await", "reap"} => child[s] \in ForkedBy(s)

\* Stop signals are only ever pending after somebody sent one.
PendingWasAsked ==
  \A s \in Launches : sigs[s] \cap StopSignals # {} => asked[s]

IInv ==
  /\ TypeOK
  /\ NoneBeforeFork
  /\ ChildIsOwn
  /\ OneWorkerPerLaunch
  /\ ExitNotMissed
  /\ PendingWasAsked
  /\ RunsUntilAsked

-----------------------------------------------------------------------------
\* No way a worker can end has NeedToTerminate as its exit status.
LEMMA NeverNeedToTerminate == \A e : WExitStatus(e) # NeedToTerminate
  BY DEF WExitStatus, DestructorAborts, NeedToTerminate, NeedToWork

\* The initial state satisfies the inductive invariant: nothing was launched.
LEMMA InitIInv == Init => IInv
<1> SUFFICES ASSUME Init PROVE IInv
  OBVIOUS
<1>1. TypeOK
  BY SupervisorAssumption DEF Init, TypeOK, SupState, Phase
<1>2. NoneBeforeFork
  BY DEF Init, NoneBeforeFork, ForkedBy
<1>3. ChildIsOwn /\ ExitNotMissed /\ RunsUntilAsked
  BY DEF Init, ChildIsOwn, ExitNotMissed, RunsUntilAsked
<1>4. OneWorkerPerLaunch
  BY DEF Init, OneWorkerPerLaunch, ForkedBy
<1>5. PendingWasAsked
  BY DEF Init, PendingWasAsked
<1> QED
  BY <1>1, <1>2, <1>3, <1>4, <1>5 DEF IInv

-----------------------------------------------------------------------------
\* The pid file is written before there is a worker.
LEMMA CreatePidFileIInv ==
  ASSUME NEW s \in Launches, IInv, CreatePidFile(s)
  PROVE  IInv'
<1>1. TypeOK'
  BY DEF IInv, CreatePidFile, TypeOK, SupState, workerVars
<1>2. NoneBeforeFork'
  BY DEF IInv, CreatePidFile, NoneBeforeFork, ForkedBy, workerVars
<1>3. (ChildIsOwn /\ OneWorkerPerLaunch /\ ExitNotMissed /\ PendingWasAsked /\ RunsUntilAsked)'
  BY DEF IInv, CreatePidFile, ChildIsOwn, OneWorkerPerLaunch, ExitNotMissed,
      PendingWasAsked, RunsUntilAsked, ForkedBy, Zombie, workerVars
<1> QED
  BY <1>1, <1>2, <1>3 DEF IInv

\* fork() is reached with no worker left, so the new process is the only one.
LEMMA ForkWorkerIInv ==
  ASSUME NEW s \in Launches, IInv, ForkWorker(s)
  PROVE  IInv'
<1>1. TypeOK'
  BY DEF IInv, ForkWorker, TypeOK, SupState, Phase
<1>2. NoneBeforeFork'
  BY DEF IInv, ForkWorker, NoneBeforeFork, TypeOK, ForkedBy
<1>3. ChildIsOwn'
  BY DEF IInv, ForkWorker, ChildIsOwn, TypeOK, ForkedBy
<1>4. OneWorkerPerLaunch'
  BY DEF IInv, ForkWorker, OneWorkerPerLaunch, TypeOK, ForkedBy, NoneBeforeFork
<1>5. ExitNotMissed'
  BY DEF IInv, ForkWorker, ExitNotMissed, TypeOK, Zombie, Ending
<1>6. (PendingWasAsked /\ RunsUntilAsked)'
  BY DEF IInv, ForkWorker, PendingWasAsked, RunsUntilAsked
<1> QED
  BY <1>1, <1>2, <1>3, <1>4, <1>5, <1>6 DEF IInv

\* A failed fork() goes back to fork(), never to sigwaitinfo.
LEMMA ForkFailsIInv ==
  ASSUME NEW s \in Launches, IInv, ForkFails(s)
  PROVE  IInv'
<1>1. TypeOK'
  BY DEF IInv, ForkFails, TypeOK, workerVars
<1>2. (NoneBeforeFork /\ ChildIsOwn /\ OneWorkerPerLaunch /\ ExitNotMissed
        /\ PendingWasAsked /\ RunsUntilAsked)'
  BY DEF IInv, ForkFails, NoneBeforeFork, ChildIsOwn, OneWorkerPerLaunch,
      ExitNotMissed, PendingWasAsked, RunsUntilAsked, ForkedBy, Zombie,
      workerVars
<1> QED
  BY <1>1, <1>2 DEF IInv

\* From sigwaitinfo to wait() the worker stays the same process.
LEMMA TakeChildIInv ==
  ASSUME NEW s \in Launches, IInv, TakeChild(s)
  PROVE  IInv'
<1>1. TypeOK'
  BY DEF IInv, TakeChild, TypeOK, SupState, workerVars
<1>2. ChildIsOwn'
  BY DEF IInv, TakeChild, ChildIsOwn, ForkedBy, workerVars
<1>3. ExitNotMissed'
  BY DEF IInv, TakeChild, ExitNotMissed, TypeOK, Zombie, workerVars
<1>4. PendingWasAsked'
  BY DEF IInv, TakeChild, PendingWasAsked
<1>5. (NoneBeforeFork /\ OneWorkerPerLaunch /\ RunsUntilAsked)'
  BY DEF IInv, TakeChild, NoneBeforeFork, OneWorkerPerLaunch, RunsUntilAsked,
      ForkedBy, workerVars
<1> QED
  BY <1>1, <1>2, <1>3, <1>4, <1>5 DEF IInv

\* The loop is left here only, with a stop signal that somebody sent.
LEMMA TakeStopIInv ==
  ASSUME NEW s \in Launches, IInv, TakeStop(s)
  PROVE  IInv'
<1>1. TypeOK'
  BY DEF IInv, TakeStop, TypeOK, SupState, Live
<1>2. ExitNotMissed'
  BY DEF IInv, TakeStop, ExitNotMissed, TypeOK, Zombie
<1>3. PendingWasAsked'
  BY DEF IInv, TakeStop, PendingWasAsked
<1>4. RunsUntilAsked'
  BY DEF IInv, TakeStop, RunsUntilAsked, PendingWasAsked
<1>5. (NoneBeforeFork /\ ChildIsOwn /\ OneWorkerPerLaunch)'
  BY DEF IInv, TakeStop, NoneBeforeFork, ChildIsOwn, OneWorkerPerLaunch, ForkedBy
<1> QED
  BY <1>1, <1>2, <1>3, <1>4, <1>5 DEF IInv

\* The process reaped was the only one, and its status is never NeedToTerminate.
LEMMA ReapIInv ==
  ASSUME NEW s \in Launches, IInv, Reap(s)
  PROVE  IInv'
<1>1. TypeOK'
  BY DEF IInv, Reap, TypeOK, SupState, Phase
<1>2. NoneBeforeFork'
  BY DEF IInv, Reap, NoneBeforeFork, TypeOK, ForkedBy, Ending, Zombie,
      OneWorkerPerLaunch
<1>3. ChildIsOwn'
  BY DEF IInv, Reap, ChildIsOwn, TypeOK, ForkedBy
<1>4. OneWorkerPerLaunch'
  BY DEF IInv, Reap, OneWorkerPerLaunch, ForkedBy
<1>5. RunsUntilAsked'
  BY NeverNeedToTerminate DEF IInv, Reap, RunsUntilAsked
<1>6. (ExitNotMissed /\ PendingWasAsked)'
  BY DEF IInv, Reap, ExitNotMissed, PendingWasAsked, Zombie
<1> QED
  BY <1>1, <1>2, <1>3, <1>4, <1>5, <1>6 DEF IInv

\* A supervisor leaves: only its own zombie goes.
LEMMA UnlinkPidFileIInv ==
  ASSUME NEW s \in Launches, IInv, UnlinkPidFile(s)
  PROVE  IInv'
<1>1. TypeOK'
  BY DEF IInv, UnlinkPidFile, TypeOK, SupState, Phase, ReapedByInit
<1>2. NoneBeforeFork'
  BY DEF IInv, UnlinkPidFile, NoneBeforeFork, ForkedBy, ReapedByInit
<1>3. ChildIsOwn'
  BY DEF IInv, UnlinkPidFile, ChildIsOwn, ForkedBy, ReapedByInit
<1>4. OneWorkerPerLaunch'
  BY DEF IInv, UnlinkPidFile, OneWorkerPerLaunch, ForkedBy, ReapedByInit
<1>5. ExitNotMissed'
  BY DEF IInv, UnlinkPidFile, ExitNotMissed, ChildIsOwn, ForkedBy, Zombie,
      ReapedByInit
<1>6. RunsUntilAsked'
  BY DEF IInv, UnlinkPidFile, RunsUntilAsked
<1>7. PendingWasAsked'
  BY DEF IInv, UnlinkPidFile, PendingWasAsked
<1> QED
  BY <1>1, <1>2, <1>3, <1>4, <1>5, <1>6, <1>7 DEF IInv

\* A launch starts without a process of its own.
LEMMA LaunchIInv ==
  ASSUME NEW s \in Launches, IInv, Launch(s)
  PROVE  IInv'
<1>1. TypeOK'
  BY DEF IInv, Launch, TypeOK, SupState, workerVars
<1>2. NoneBeforeFork'
  BY DEF IInv, Launch, NoneBeforeFork, ForkedBy, workerVars
<1>3. (ChildIsOwn /\ OneWorkerPerLaunch /\ ExitNotMissed /\ PendingWasAsked /\ RunsUntilAsked)'
  BY DEF IInv, Launch, ChildIsOwn, OneWorkerPerLaunch, ExitNotMissed,
      PendingWasAsked, RunsUntilAsked, ForkedBy, Zombie, workerVars
<1> QED
  BY <1>1, <1>2, <1>3 DEF IInv

\* A stop signal is recorded as asked for when it becomes pending.
LEMMA SendStopIInv ==
  ASSUME NEW s \in Launches, NEW g \in StopSignals, IInv, SendStop(s, g)
  PROVE  IInv'
<1>1. TypeOK'
  BY DEF IInv, SendStop, TypeOK, workerVars
<1>2. ExitNotMissed'
  BY DEF IInv, SendStop, ExitNotMissed, Zombie, workerVars
<1>3. PendingWasAsked'
  BY DEF IInv, SendStop, PendingWasAsked, TypeOK
<1>4. (NoneBeforeFork /\ ChildIsOwn /\ OneWorkerPerLaunch /\ RunsUntilAsked)'
  BY DEF IInv, SendStop, NoneBeforeFork, ChildIsOwn, OneWorkerPerLaunch,
      RunsUntilAsked, ForkedBy, workerVars
<1> QED
  BY <1>1, <1>2, <1>3, <1>4 DEF IInv

\* A supervisor is killed: only its own zombie goes.
LEMMA KillSupervisorIInv ==
  ASSUME NEW s \in Launches, IInv, KillSupervisor(s)
  PROVE  IInv'
<1>1. TypeOK'
  BY DEF IInv, KillSupervisor, TypeOK, SupState, Phase, ReapedByInit
<1>2. NoneBeforeFork'
  BY DEF IInv, KillSupervisor, NoneBeforeFork, ForkedBy, ReapedByInit
<1>3. ChildIsOwn'
  BY DEF IInv, KillSupervisor, ChildIsOwn, TypeOK, ForkedBy, ReapedByInit
<1>4. OneWorkerPerLaunch'
  BY DEF IInv, KillSupervisor, OneWorkerPerLaunch, ForkedBy, ReapedByInit
<1>5. ExitNotMissed'
  BY DEF IInv, KillSupervisor, ExitNotMissed, ChildIsOwn, ForkedBy, Zombie,
      ReapedByInit
<1>6. (PendingWasAsked /\ RunsUntilAsked)'
  BY DEF IInv, KillSupervisor, PendingWasAsked, RunsUntilAsked
<1> QED
  BY <1>1, <1>2, <1>3, <1>4, <1>5, <1>6 DEF IInv

\* A worker moves on and is still the only one.
LEMMA WorkerConstructedIInv ==
  ASSUME NEW p \in Pids, IInv, WorkerConstructed(p)
  PROVE  IInv'
<1>1. TypeOK'
  BY DEF IInv, WorkerConstructed, TypeOK, Phase, supVars
<1>2. OneWorkerPerLaunch'
  BY DEF IInv, WorkerConstructed, OneWorkerPerLaunch, ForkedBy
<1>3. ExitNotMissed'
  BY DEF IInv, WorkerConstructed, ExitNotMissed, Zombie, Ending, supVars
<1>4. (NoneBeforeFork /\ ChildIsOwn /\ PendingWasAsked /\ RunsUntilAsked)'
  BY DEF IInv, WorkerConstructed, NoneBeforeFork, ChildIsOwn, PendingWasAsked,
      RunsUntilAsked, ForkedBy, supVars
<1> QED
  BY <1>1, <1>2, <1>3, <1>4 DEF IInv

\* A worker moves on and is still the only one.
LEMMA WorkerStartedIInv ==
  ASSUME NEW p \in Pids, IInv, WorkerStarted(p)
  PROVE  IInv'
<1>1. TypeOK'
  BY DEF IInv, WorkerStarted, TypeOK, Phase, supVars
<1>2. OneWorkerPerLaunch'
  BY DEF IInv, WorkerStarted, OneWorkerPerLaunch, ForkedBy
<1>3. ExitNotMissed'
  BY DEF IInv, WorkerStarted, ExitNotMissed, Zombie, Ending, supVars
<1>4. (NoneBeforeFork /\ ChildIsOwn /\ PendingWasAsked /\ RunsUntilAsked)'
  BY DEF IInv, WorkerStarted, NoneBeforeFork, ChildIsOwn, PendingWasAsked,
      RunsUntilAsked, ForkedBy, supVars
<1> QED
  BY <1>1, <1>2, <1>3, <1>4 DEF IInv

\* A worker ends and stays a zombie with SIGCHLD pending, or an orphan vanishes.
LEMMA EndAsIInv ==
  ASSUME NEW p \in Pids, NEW e \in Ending, IInv, EndAs(p, e)
  PROVE  IInv'
<1>1. TypeOK'
  BY DEF IInv, EndAs, TypeOK, Phase, Live, supVars
<1>2. NoneBeforeFork'
  BY DEF IInv, EndAs, NoneBeforeFork, ForkedBy, Live, supVars
<1>3. ChildIsOwn'
  BY DEF IInv, EndAs, ChildIsOwn, ForkedBy, Ending, Alive, supVars
<1>4. OneWorkerPerLaunch'
  BY DEF IInv, EndAs, OneWorkerPerLaunch, ForkedBy, Live
<1>5. ExitNotMissed'
  BY DEF IInv, EndAs, ExitNotMissed, TypeOK, ChildIsOwn, ForkedBy, Zombie, Alive,
      supVars
<1>6. PendingWasAsked'
  BY SupervisorAssumption DEF IInv, EndAs, PendingWasAsked, supVars
<1>7. RunsUntilAsked'
  BY DEF IInv, EndAs, RunsUntilAsked, supVars
<1> QED
  BY <1>1, <1>2, <1>3, <1>4, <1>5, <1>6, <1>7 DEF IInv

\* A further SIGCHLD becomes pending.
LEMMA WorkerStopsOrContinuesIInv ==
  ASSUME NEW p \in Pids, IInv, WorkerStopsOrContinues(p)
  PROVE  IInv'
<1>1. TypeOK'
  BY DEF IInv, WorkerStopsOrContinues, TypeOK, supVars, workerVars
<1>2. ExitNotMissed'
  BY DEF IInv, WorkerStopsOrContinues, ExitNotMissed, Zombie, supVars, workerVars
<1>3. PendingWasAsked'
  BY SupervisorAssumption DEF IInv, WorkerStopsOrContinues, PendingWasAsked, supVars
<1>4. (NoneBeforeFork /\ ChildIsOwn /\ OneWorkerPerLaunch /\ RunsUntilAsked)'
  BY DEF IInv, WorkerStopsOrContinues, NoneBeforeFork, ChildIsOwn,
      OneWorkerPerLaunch, RunsUntilAsked, ForkedBy, supVars, workerVars
<1> QED
  BY <1>1, <1>2, <1>3, <1>4 DEF IInv

-----------------------------------------------------------------------------
\* Every step of the system keeps the inductive invariant.
LEMMA StepIInv == IInv /\ [Next]_vars => IInv'
<1> SUFFICES ASSUME IInv, [Next]_vars PROVE IInv'
  OBVIOUS
<1>1. ASSUME NEW s \in Launches, SupervisorStep(s) PROVE IInv'
  BY <1>1, CreatePidFileIInv, ForkWorkerIInv, ForkFailsIInv, TakeChildIInv,
     TakeStopIInv, ReapIInv, UnlinkPidFileIInv
  DEF SupervisorStep
<1>2. ASSUME NEW s \in Launches, Environment(s) PROVE IInv'
  BY <1>2, LaunchIInv, SendStopIInv, KillSupervisorIInv DEF Environment
<1>3. ASSUME NEW p \in Pids, WorkerStep(p) PROVE IInv'
  BY <1>3, WorkerConstructedIInv, WorkerStartedIInv, EndAsIInv,
     WorkerStopsOrContinuesIInv
  DEF WorkerStep, WorkerEnds
<1>4. CASE UNCHANGED vars
  BY <1>4 DEF vars, IInv, TypeOK, NoneBeforeFork, ChildIsOwn, OneWorkerPerLaunch,
     ExitNotMissed, PendingWasAsked, RunsUntilAsked, ForkedBy, Zombie
<1> QED
  BY <1>1, <1>2, <1>3, <1>4 DEF Next

\* The inductive invariant holds in every behaviour.
THEOREM Invariance == Spec => []IInv
  BY InitIInv, StepIInv, PTL DEF Spec

\* Every variable keeps its type, and `pid` is a process id while it is used.
THEOREM TypeCorrect == Spec => []TypeOK
<1>1. IInv => TypeOK
  BY DEF IInv
<1> QED
  BY <1>1, Invariance, PTL

\* One launch never has two workers, however workers and supervisors end.
THEOREM OneWorker == Spec => []OneWorkerPerLaunch
<1>1. IInv => OneWorkerPerLaunch
  BY DEF IInv
<1> QED
  BY <1>1, Invariance, PTL

\* kill(pid, SIGTERM) is only reached with the id of the supervisor's own worker.
THEOREM KillIsSafe == Spec => []KillTargetsOwnWorker
<1>1. IInv => KillTargetsOwnWorker
  BY DEF IInv, ChildIsOwn, KillTargetsOwnWorker
<1> QED
  BY <1>1, Invariance, PTL

\* The supervisor never sleeps in sigwaitinfo with a dead worker and no SIGCHLD.
THEOREM NoLostExit == Spec => []ExitNotMissed
<1>1. IInv => ExitNotMissed
  BY DEF IInv
<1> QED
  BY <1>1, Invariance, PTL

\* The supervisor leaves its loop only after somebody sent a stop signal.
THEOREM NeverGivesUp == Spec => []RunsUntilAsked
<1>1. IInv => RunsUntilAsked
  BY DEF IInv
<1> QED
  BY <1>1, Invariance, PTL

-----------------------------------------------------------------------------
\* Only a supervisor before its first fork() writes the file, and it is alive.
LEMMA PidFileStep ==
  ASSUME TypeOK, CleanStopLeavesNoPidFile, [Next]_vars
  PROVE  CleanStopLeavesNoPidFile'
<1>1. ASSUME NEW s \in Launches, SupervisorStep(s) PROVE CleanStopLeavesNoPidFile'
  <2>1. CASE CreatePidFile(s)
    BY <2>1 DEF CreatePidFile, TypeOK, CleanStopLeavesNoPidFile
  <2>2. CASE UnlinkPidFile(s)
    BY <2>2 DEF UnlinkPidFile, CleanStopLeavesNoPidFile
  <2>3. CASE Reap(s)
    BY <2>3 DEF Reap, TypeOK, CleanStopLeavesNoPidFile
  <2>4. CASE ForkWorker(s) \/ ForkFails(s) \/ TakeChild(s) \/ TakeStop(s)
    BY <2>4 DEF ForkWorker, ForkFails, TakeChild, TakeStop, TypeOK,
        CleanStopLeavesNoPidFile
  <2> QED
    BY <1>1, <2>1, <2>2, <2>3, <2>4 DEF SupervisorStep
<1>2. ASSUME NEW s \in Launches, Environment(s) PROVE CleanStopLeavesNoPidFile'
  BY <1>2 DEF Environment, Launch, SendStop, KillSupervisor, TypeOK,
      CleanStopLeavesNoPidFile
<1>3. ASSUME NEW p \in Pids, WorkerStep(p) PROVE CleanStopLeavesNoPidFile'
  BY <1>3 DEF WorkerStep, WorkerConstructed, WorkerStarted, WorkerEnds, EndAs,
      WorkerStopsOrContinues, supVars, CleanStopLeavesNoPidFile
<1>4. CASE UNCHANGED vars
  BY <1>4 DEF vars, CleanStopLeavesNoPidFile
<1> QED
  BY <1>1, <1>2, <1>3, <1>4 DEF Next

\* A supervisor that stopped cleanly is not named by the pid file, although any
\* launch may write or remove it.
THEOREM NoStalePidFile == Spec => []CleanStopLeavesNoPidFile
<1>1. Init => CleanStopLeavesNoPidFile
  BY DEF Init, CleanStopLeavesNoPidFile
<1> QED
  BY <1>1, PidFileStep, TypeCorrect, PTL DEF Spec

-----------------------------------------------------------------------------
\* The life of process p takes a step of WorkerLife, or p stays as it is.
LifeStep(p) == Life(p)!LifeNext \/ phase'[p] = phase[p]

\* A worker ends by a fault or by a signal, and not as NeedToTerminate: sigwait
\* waits for no signal at all, and the destructor turns `return` into abort().
LEMMA EndIsLifeStep ==
  ASSUME TypeOK, NEW p \in Pids, NEW e \in Ending, EndAs(p, e)
  PROVE  LifeStep(p)
<1>1. phase'[p] \in {e, "free"}
  BY DEF EndAs, TypeOK
<1>2. ~SigwaitReturns(p)
  BY DEF SigwaitReturns, SigwaitSet
<1>3. CASE phase[p] = "wait"
  <2>1. e \in {"signal", "fault"}
    BY <1>2, <1>3 DEF EndAs, EndingsOf
  <2> QED
    BY <1>1, <1>3, <2>1
    DEF LifeStep, Life!LifeNext, Life!End, Life!Endings, DestructorAborts
<1>4. CASE phase[p] \in {"construct", "start"}
  <2>1. e \in {"signal", "return"}
    BY <1>2, <1>4 DEF EndAs, EndingsOf
  <2> QED
    BY <1>1, <1>4, <2>1 DEF LifeStep, Life!LifeNext, Life!End, DestructorAborts
<1> QED
  BY <1>3, <1>4 DEF EndAs, Live

\* Whatever any process of the system does, it is a step of the life of p.
LEMMA NextIsLifeStep ==
  ASSUME TypeOK, [Next]_vars, NEW p \in Pids
  PROVE  LifeStep(p)
<1>1. ASSUME NEW s \in Launches, SupervisorStep(s) PROVE LifeStep(p)
  <2>1. CASE ForkWorker(s)
    BY <2>1 DEF ForkWorker, TypeOK, LifeStep, Life!LifeNext, Life!Fork
  <2>2. CASE Reap(s)
    BY <2>2 DEF Reap, Zombie, Ending, TypeOK, LifeStep, Life!LifeNext,
        Life!Reaped, Life!Endings, DestructorAborts
  <2>3. CASE UnlinkPidFile(s)
    BY <2>3 DEF UnlinkPidFile, ReapedByInit, Zombie, Ending, LifeStep,
        Life!LifeNext, Life!Reaped, Life!Endings, DestructorAborts
  <2>4. CASE CreatePidFile(s) \/ ForkFails(s) \/ TakeChild(s) \/ TakeStop(s)
    BY <2>4 DEF CreatePidFile, ForkFails, TakeChild, TakeStop, workerVars, LifeStep
  <2> QED
    BY <1>1, <2>1, <2>2, <2>3, <2>4 DEF SupervisorStep
<1>2. ASSUME NEW s \in Launches, Environment(s) PROVE LifeStep(p)
  <2>1. CASE KillSupervisor(s)
    BY <2>1 DEF KillSupervisor, ReapedByInit, Zombie, Ending, LifeStep,
        Life!LifeNext, Life!Reaped, Life!Endings, DestructorAborts
  <2>2. CASE ~KillSupervisor(s)
    BY <1>2, <2>2 DEF Environment, Launch, SendStop, workerVars, LifeStep
  <2> QED
    BY <2>1, <2>2
<1>3. ASSUME NEW q \in Pids, WorkerStep(q) PROVE LifeStep(p)
  <2>1. CASE WorkerConstructed(q) \/ WorkerStarted(q)
    BY <2>1 DEF WorkerConstructed, WorkerStarted, TypeOK, LifeStep,
        Life!LifeNext, Life!Proceed
  <2>2. ASSUME NEW e \in Ending, EndAs(q, e) PROVE LifeStep(p)
    <3>1. CASE q = p
      BY <2>2, <3>1, EndIsLifeStep
    <3>2. CASE q # p
      BY <2>2, <3>2 DEF EndAs, TypeOK, LifeStep
    <3> QED
      BY <3>1, <3>2
  <2>3. CASE WorkerStopsOrContinues(q)
    BY <2>3 DEF WorkerStopsOrContinues, workerVars, LifeStep
  <2> QED
    BY <1>3, <2>1, <2>2, <2>3 DEF WorkerStep, WorkerEnds
<1>4. CASE UNCHANGED vars
  BY <1>4 DEF vars, LifeStep
<1> QED
  BY <1>1, <1>2, <1>3, <1>4 DEF Next

\* Each process id lives the life that module Worker implements: the supervisor
\* never sees a worker end in another way, and never reuses an unreaped id.
THEOREM WorkersAsExpected == Spec => WorkersLiveAsExpected
<1>1. Init => \A p \in Pids : Life(p)!LifeInit
  BY DEF Init, Life!LifeInit, DestructorAborts
<1>2. TypeOK /\ [Next]_vars
        => [\A p \in Pids : Life(p)!LifeNext \/ phase'[p] = phase[p]]_phase
  BY NextIsLifeStep DEF LifeStep
<1> QED
  BY <1>1, <1>2, TypeCorrect, PTL DEF Spec, WorkersLiveAsExpected

-----------------------------------------------------------------------------
(* Why a stop is handled: the part of StopIsHandled that needs no fairness. *)

\* Without job control SIGCHLD is pending only for a worker that has ended.
ChildEnded ==
  \A s \in Launches :
    /\ sup[s] \in {"off", "create", "fork", "reap"} => "CHLD" \notin sigs[s]
    /\ sup[s] = "await" /\ "CHLD" \in sigs[s] => Zombie(child[s])
    /\ sup[s] = "reap" => Zombie(child[s])

LEMMA ChildEndedStep ==
  ASSUME JobControl = FALSE, IInv, ChildEnded, [Next]_vars
  PROVE  ChildEnded'
<1> USE SupervisorAssumption DEF IInv, TypeOK, ChildEnded
<1>1. ASSUME NEW s \in Launches, CreatePidFile(s) \/ ForkFails(s) PROVE ChildEnded'
  BY <1>1 DEF CreatePidFile, ForkFails, workerVars, Zombie
<1>2. ASSUME NEW s \in Launches, ForkWorker(s) PROVE ChildEnded'
  <2>1. PICK p \in Pids : /\ phase[p] = "free" /\ child' = [child EXCEPT ![s] = p]
                          /\ phase' = [phase EXCEPT ![p] = "construct"]
    BY <1>2 DEF ForkWorker
  <2>2. sup[s] = "fork" /\ sup' = [sup EXCEPT ![s] = "await"] /\ sigs' = sigs
    BY <1>2 DEF ForkWorker
  <2>3. "CHLD" \notin sigs'[s]
    BY <2>2
  <2>4. \A t \in Launches : sup[t] \in {"await", "reap"} /\ Zombie(child[t]) => child[t] # p
    BY <2>1 DEF Zombie, Ending
  <2> QED
    BY <2>1, <2>2, <2>3, <2>4 DEF Zombie
<1>3. ASSUME NEW s \in Launches, TakeChild(s) \/ TakeStop(s) PROVE ChildEnded'
  BY <1>3 DEF TakeChild, TakeStop, workerVars, Zombie
<1>4. ASSUME NEW s \in Launches, Reap(s) PROVE ChildEnded'
  <2>1. PICK p \in Pids : parent[p] = s /\ phase' = [phase EXCEPT ![p] = "free"]
    BY <1>4 DEF Reap
  <2>2. \A t \in Launches \ {s} : sup[t] \in {"await", "reap"} => child[t] # p
    BY <2>1 DEF ChildIsOwn, ForkedBy
  <2>3. /\ sup[s] = "reap" /\ sigs' = sigs /\ child' = child
        /\ \E l \in {"unlink", "fork"} : sup' = [sup EXCEPT ![s] = l]
    BY <1>4 DEF Reap
  <2> QED
    BY <2>1, <2>2, <2>3 DEF Zombie
<1>5. ASSUME NEW s \in Launches, UnlinkPidFile(s) \/ KillSupervisor(s) PROVE ChildEnded'
  <2>1. /\ phase' = ReapedByInit(s) /\ sigs' = sigs /\ child' = child
        /\ \E l \in {"stopped", "killed"} : sup' = [sup EXCEPT ![s] = l]
    BY <1>5 DEF UnlinkPidFile, KillSupervisor
  <2>2. \A t \in Launches \ {s} : sup[t] \in {"await", "reap"} => phase'[child[t]] = phase[child[t]]
    BY <2>1 DEF ChildIsOwn, ForkedBy, ReapedByInit
  <2> QED
    BY <2>1, <2>2 DEF Zombie
<1>6. ASSUME NEW s \in Launches, Launch(s) \/ \E g \in StopSignals : SendStop(s, g)
      PROVE ChildEnded'
  BY <1>6 DEF Launch, SendStop, workerVars, Zombie
<1>7. ASSUME NEW p \in Pids, WorkerConstructed(p) \/ WorkerStarted(p) PROVE ChildEnded'
  BY <1>7 DEF WorkerConstructed, WorkerStarted, supVars, Zombie, Ending
<1>8. ASSUME NEW p \in Pids, NEW e \in Ending, EndAs(p, e) PROVE ChildEnded'
  <2>1. /\ Live(p) /\ parent[p] \in Launches /\ sup' = sup /\ child' = child
        /\ p \in ForkedBy(parent[p])
    BY <1>8 DEF EndAs, supVars, Live, ForkedBy
  <2>2. /\ phase' = [phase EXCEPT ![p] = IF Alive(parent[p]) THEN e ELSE "free"]
        /\ sigs' = [sigs EXCEPT ![parent[p]] = IF Alive(parent[p]) THEN @ \cup {"CHLD"} ELSE @]
    BY <1>8 DEF EndAs
  <2>3. \A t \in Launches \ {parent[p]} : sup[t] \in {"await", "reap"} => child[t] # p
    BY <2>1 DEF ChildIsOwn, ForkedBy
  <2>4. sup[parent[p]] \notin {"off", "create", "fork"}
    BY <2>1 DEF NoneBeforeFork
  <2>5. sup[parent[p]] \in {"await", "reap"} => child[parent[p]] = p /\ Alive(parent[p])
    BY <2>1 DEF ChildIsOwn, OneWorkerPerLaunch, Alive
  <2>6. sup[parent[p]] # "reap"
    BY <2>1, <2>5 DEF Live, Zombie, Ending
  <2> QED
    BY <2>1, <2>2, <2>3, <2>4, <2>5, <2>6 DEF Zombie
<1>9. ASSUME NEW p \in Pids, WorkerStopsOrContinues(p) PROVE ChildEnded'
  BY <1>9 DEF WorkerStopsOrContinues
<1>10. CASE UNCHANGED vars
  BY <1>10 DEF vars, Zombie
<1> QED
  BY <1>1, <1>2, <1>3, <1>4, <1>5, <1>6, <1>7, <1>8, <1>9, <1>10
  DEF Next, SupervisorStep, Environment, WorkerStep, WorkerEnds

\* wait() finds a worker that has ended, and it is the one that `pid` names.
WaitReturns ==
  \A s \in Launches :
    sup[s] = "reap" => Zombie(child[s]) /\ \A p \in ForkedBy(s) : p = child[s]

\* wait() never blocks: as long as nobody stops or continues a worker, a supervisor is
\* ready for the next signal as soon as it has replaced the worker.
THEOREM NeverBlocksInWait ==
  ASSUME JobControl = FALSE
  PROVE  Spec => []WaitReturns
<1>1. Init => ChildEnded
  BY DEF Init, ChildEnded
<1>2. IInv /\ ChildEnded => WaitReturns
  BY DEF IInv, ChildEnded, WaitReturns, ChildIsOwn, OneWorkerPerLaunch
<1>3. IInv /\ ChildEnded /\ [Next]_vars => ChildEnded'
  BY ChildEndedStep
<1> QED
  BY <1>1, <1>2, <1>3, InitIInv, StepIInv, PTL DEF Spec

\* The steps of the loop to its end, when a stop signal is pending.
StopLeft(s) ==
  CASE sup[s] \in {"create", "reap"} -> 4
    [] sup[s] = "fork"   -> 3
    [] sup[s] = "await"  -> 2
    [] sup[s] = "unlink" -> 1
    [] OTHER             -> 0

Stopping(s) == Alive(s) /\ (sup[s] = "unlink" \/ sigs[s] \cap StopSignals # {})

StopGoesOn ==
  \A s \in Launches : Stopping(s) =>
    /\ Stopping(s)' \/ ~Alive(s)'
    /\ StopLeft(s)' <= StopLeft(s)
    /\ SupervisorStep(s) /\ ~ForkFails(s) => StopLeft(s)' < StopLeft(s)

\* A stop signal is never lost, wherever in its loop the supervisor is when it comes, and
\* the supervisor is gone after four more calls that succeed: it starts one more worker at
\* most, however fast its workers end.
THEOREM StopProgress == Spec => [][StopGoesOn]_vars
<1>1. ASSUME TypeOK, Next PROVE StopGoesOn
  <2> SUFFICES ASSUME NEW s \in Launches, Stopping(s)
               PROVE  /\ Stopping(s)' \/ ~Alive(s)'
                      /\ StopLeft(s)' <= StopLeft(s)
                      /\ SupervisorStep(s) /\ ~ForkFails(s) => StopLeft(s)' < StopLeft(s)
    BY DEF StopGoesOn
  <2> USE <1>1 DEF TypeOK, Stopping, Alive
  <2>1. CASE SupervisorStep(s) /\ ~ForkFails(s)
    <3>1. CASE CreatePidFile(s)
      BY <3>1 DEF CreatePidFile, StopLeft
    <3>2. CASE ForkWorker(s)
      BY <3>2 DEF ForkWorker, StopLeft
    <3>3. CASE TakeChild(s)
      BY <3>3 DEF TakeChild
    <3>4. CASE TakeStop(s)
      BY <3>4 DEF TakeStop, StopLeft
    <3>5. CASE Reap(s)
      BY <3>5 DEF Reap, StopLeft
    <3>6. CASE UnlinkPidFile(s)
      BY <3>6 DEF UnlinkPidFile, StopLeft
    <3> QED
      BY <2>1, <3>1, <3>2, <3>3, <3>4, <3>5, <3>6 DEF SupervisorStep
  <2>2. CASE KillSupervisor(s)
    BY <2>2 DEF KillSupervisor, StopLeft, SupervisorStep, CreatePidFile, ForkWorker, TakeChild,
                TakeStop, Reap, UnlinkPidFile
  <2>3. ASSUME ~(SupervisorStep(s) /\ ~ForkFails(s)), ~KillSupervisor(s)
        PROVE  sup'[s] = sup[s] /\ sigs[s] \cap StopSignals \subseteq sigs'[s]
    <3>1. ASSUME NEW t \in Launches \ {s}, SupervisorStep(t)
          PROVE  sup'[s] = sup[s] /\ sigs'[s] = sigs[s]
      BY <3>1 DEF SupervisorStep, CreatePidFile, ForkWorker, ForkFails, TakeChild, TakeStop, Reap,
                  UnlinkPidFile
    <3>2. CASE ForkFails(s)
      BY <3>2 DEF ForkFails
    <3>3. ASSUME NEW t \in Launches, Environment(t)
          PROVE  sup'[s] = sup[s] /\ sigs[s] \subseteq sigs'[s]
      BY <2>3, <3>3 DEF Environment, Launch, SendStop, KillSupervisor
    <3>4. ASSUME NEW p \in Pids, WorkerStep(p)
          PROVE  sup'[s] = sup[s] /\ sigs[s] \subseteq sigs'[s]
      BY <3>4 DEF WorkerStep, WorkerConstructed, WorkerStarted, WorkerEnds, EndAs,
                  WorkerStopsOrContinues, supVars
    <3> QED
      BY <2>3, <3>1, <3>2, <3>3, <3>4 DEF Next
  <2>4. CASE sup'[s] = sup[s] /\ sigs[s] \cap StopSignals \subseteq sigs'[s]
    <3>1. StopLeft(s)' = StopLeft(s) /\ StopLeft(s) \in Nat /\ Stopping(s)'
      BY <2>4 DEF StopLeft
    <3> QED
      BY <2>1, <3>1
  <2> QED
    BY <2>1, <2>2, <2>3, <2>4
<1> QED
  BY <1>1, TypeCorrect, PTL DEF Spec

\* From the end of a worker to the fork of the next, and the calls in between.
Replacing(s) == sup[s] = "fork" \/ (sup[s] \in {"await", "reap"} /\ Zombie(child[s]))
ReplaceLeft(s) == CASE sup[s] = "await" -> 3 [] sup[s] = "reap" -> 2 [] OTHER -> 1

Replaced(s) == sup[s] = "await" /\ phase[child[s]] = "construct"

ReplaceGoesOn ==
  \A s \in Launches : Replacing(s) =>
    /\ \/ Replaced(s)' \/ sup'[s] \in {"unlink", "killed"}
       \/ Replacing(s)' /\ ReplaceLeft(s)' <= ReplaceLeft(s)
    /\ SupervisorStep(s) /\ ~ForkFails(s) /\ Replacing(s)' => ReplaceLeft(s)' < ReplaceLeft(s)

\* Between the end of a worker and the start of the next one there are three calls that
\* succeed, sigwaitinfo, wait and fork, whatever other supervisors and operators do: the
\* pending SIGCHLD and the zombie stay until this supervisor takes them.
THEOREM ReplaceProgress == Spec => [][ReplaceGoesOn]_vars
<1>1. ASSUME IInv, Next PROVE ReplaceGoesOn
  <2> SUFFICES ASSUME NEW s \in Launches, Replacing(s)
               PROVE  /\ \/ Replaced(s)' \/ sup'[s] \in {"unlink", "killed"}
                         \/ Replacing(s)' /\ ReplaceLeft(s)' <= ReplaceLeft(s)
                      /\ SupervisorStep(s) /\ ~ForkFails(s) /\ Replacing(s)' =>
                           ReplaceLeft(s)' < ReplaceLeft(s)
    BY DEF ReplaceGoesOn
  <2> USE <1>1 DEF IInv, TypeOK, Replacing
  <2>1. ReplaceLeft(s) \in Nat /\ sup[s] \in {"fork", "await", "reap"}
    BY DEF ReplaceLeft
  <2>2. CASE SupervisorStep(s) /\ ~ForkFails(s)
    <3>1. CASE ForkWorker(s)
      BY <3>1 DEF ForkWorker, Replaced, Zombie, Ending
    <3>2. CASE TakeChild(s)
      BY <3>2 DEF TakeChild, workerVars, Zombie, ReplaceLeft
    <3>3. CASE TakeStop(s)
      BY <3>3 DEF TakeStop
    <3>4. CASE Reap(s)
      BY <3>4 DEF Reap, ReplaceLeft
    <3> QED
      BY <2>1, <2>2, <3>1, <3>2, <3>3, <3>4 DEF SupervisorStep, CreatePidFile, UnlinkPidFile
  <2>3. CASE KillSupervisor(s)
    BY <2>1, <2>3 DEF KillSupervisor
  <2>4. ASSUME ~(SupervisorStep(s) /\ ~ForkFails(s)), ~KillSupervisor(s)
        PROVE  sup'[s] = sup[s] /\ Replacing(s)'
    <3>1. ASSUME NEW t \in Launches \ {s}, SupervisorStep(t)
          PROVE  sup'[s] = sup[s] /\ Replacing(s)'
      <4>1. CASE ForkWorker(t)
        BY <3>1, <4>1 DEF ForkWorker, Zombie, Ending
      <4>2. CASE Reap(t)
        BY <3>1, <4>2 DEF Reap, ChildIsOwn, ForkedBy, Zombie
      <4>3. CASE UnlinkPidFile(t)
        BY <3>1, <4>3 DEF UnlinkPidFile, ReapedByInit, ChildIsOwn, ForkedBy, Zombie
      <4>4. CASE CreatePidFile(t) \/ ForkFails(t) \/ TakeChild(t) \/ TakeStop(t)
        BY <3>1, <4>4 DEF CreatePidFile, ForkFails, TakeChild, TakeStop, workerVars, Zombie
      <4> QED
        BY <3>1, <4>1, <4>2, <4>3, <4>4 DEF SupervisorStep
    <3>2. CASE ForkFails(s)
      BY <3>2 DEF ForkFails
    <3>3. ASSUME NEW t \in Launches, Environment(t)
          PROVE  sup'[s] = sup[s] /\ Replacing(s)'
      <4>1. CASE KillSupervisor(t)
        <5>1. t # s /\ sup'[s] = sup[s] /\ child'[s] = child[s] /\ phase' = ReapedByInit(t)
          BY <2>4, <4>1 DEF KillSupervisor
        <5>2. ASSUME sup[s] \in {"await", "reap"}
              PROVE  phase'[child[s]] = phase[child[s]]
          BY <5>1, <5>2 DEF ReapedByInit, ChildIsOwn, ForkedBy
        <5> QED
          BY <2>1, <5>1, <5>2 DEF Zombie
      <4>2. CASE Launch(t)
        BY <2>1, <4>2 DEF Launch, workerVars, Zombie
      <4>3. ASSUME NEW g \in StopSignals, SendStop(t, g)
            PROVE  sup'[s] = sup[s] /\ Replacing(s)'
        BY <4>3 DEF SendStop, workerVars, Zombie
      <4> QED
        BY <3>3, <4>1, <4>2, <4>3 DEF Environment
    <3>4. ASSUME NEW p \in Pids, WorkerStep(p)
          PROVE  sup'[s] = sup[s] /\ Replacing(s)'
      BY <3>4 DEF WorkerStep, WorkerConstructed, WorkerStarted, WorkerEnds, EndAs,
                  WorkerStopsOrContinues, supVars, workerVars, Live, Zombie, Ending
    <3> QED
      BY <2>4, <3>1, <3>2, <3>3, <3>4 DEF Next
  <2>5. CASE sup'[s] = sup[s] /\ Replacing(s)'
    <3>1. ReplaceLeft(s)' = ReplaceLeft(s)
      BY <2>5 DEF ReplaceLeft
    <3> QED
      BY <2>1, <2>2, <2>5, <3>1
  <2> QED
    BY <2>2, <2>3, <2>4, <2>5
<1> QED
  BY <1>1, Invariance, PTL DEF Spec

=============================================================================
