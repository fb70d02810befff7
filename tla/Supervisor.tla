------------------------------ MODULE Supervisor ------------------------------
(***************************************************************************)
(* The process tree of the release build of PeakworkDaemon (NDEBUG):       *)
(* main() forks the supervisor, PeakworkDaemonProc() forks one worker at a *)
(* time, waits for signals with sigwaitinfo, restarts a worker that ended  *)
(* and stops on SIGTERM, SIGINT, SIGQUIT or SIGABRT.  A worker is seen     *)
(* from outside, as the phases of WorkProc() and the way it ends; its      *)
(* threads are modelled in module Worker.                                  *)
(*                                                                         *)
(* Code: src/Daemon/src/main.cpp                                           *)
(***************************************************************************)
EXTENDS FiniteSets

CONSTANTS
  Launches,     \* launches of the executable, each of which is one supervisor
  Pids,         \* process ids the kernel may give to a worker
  NoLaunch,     \* the parent of a process id that was never used
  NoChild,      \* `pid` before the first fork() and after one that failed (-1)
  StopSignals,  \* the signals of the supervisor's sigset other than SIGCHLD
  Overlap,      \* TRUE: a launch may happen while another supervisor is alive
  JobControl    \* TRUE: a worker may be stopped and continued (SIGCHLD, no exit)

ASSUME SupervisorAssumption ==
  /\ NoLaunch \notin Launches
  /\ NoChild \notin Pids
  /\ "CHLD" \notin StopSignals
  /\ Overlap \in BOOLEAN
  /\ JobControl \in BOOLEAN

VARIABLES
  sup,      \* where each supervisor is in PeakworkDaemonProc()
  child,    \* the local variable `pid` of each supervisor
  sigs,     \* the blocked signals pending at each supervisor
  asked,    \* history: whether a stop signal was ever sent to the supervisor
  pidFile,  \* the launch whose getpid() /var/run/peakwork_daemon.pid holds
  phase,    \* where each worker process is in WorkProc(), or how it ended
  parent,   \* the launch that forked the process
  term      \* whether SIGTERM is pending at the worker

vars == <<sup, child, sigs, asked, pidFile, phase, parent, term>>
supVars == <<sup, child, asked, pidFile>>
workerVars == <<phase, parent, term>>

-----------------------------------------------------------------------------
(* eDaemonStatus, and what waitpid and WEXITSTATUS make of a worker's end. *)

NeedToWork == 0
NeedToTerminate == 1

(* "fault"  : SignalError() called exit(NeedToWork)                         *)
(* "return" : WorkProc() returned NeedToTerminate, handed to exit()         *)
(* "signal" : killed, by SIGKILL, a second fault or abort()                 *)
Ending == {"fault", "return", "signal"}

\* exit() destroys the global `dmn`; ~Controller calls Stop() and with it
\* updatePricesThr.join().  On both ways out of WorkProc the thread is not
\* joinable (Start() threw before it existed, or Stop() joined it already), so
\* join() throws out of a noexcept destructor and the process aborts.
DestructorAborts == TRUE

\* WEXITSTATUS of a death by signal is 0, which is NeedToWork.
WExitStatus_Plain(e) == IF e = "return" THEN NeedToTerminate ELSE NeedToWork
WExitStatus(e) ==
  IF e = "return" /\ ~DestructorAborts THEN NeedToTerminate ELSE NeedToWork

-----------------------------------------------------------------------------
SupState == {"off", "create", "fork", "await", "reap", "unlink", "stopped", "killed"}
Phase == {"free", "construct", "start", "wait"} \cup Ending

Alive(s) == sup[s] \notin {"off", "stopped", "killed"}
Live(p) == phase[p] \in {"construct", "start", "wait"}
Zombie(p) == phase[p] \in Ending
\* The processes forked by s whose id is still taken.
ForkedBy(s) == {p \in Pids : phase[p] # "free" /\ parent[p] = s}

Init ==
  /\ sup = [s \in Launches |-> "off"]
  /\ child = [s \in Launches |-> NoChild]
  /\ sigs = [s \in Launches |-> {}]
  /\ asked = [s \in Launches |-> FALSE]
  /\ pidFile = NoLaunch
  /\ phase = [p \in Pids |-> "free"]
  /\ parent = [p \in Pids |-> NoLaunch]
  /\ term = [p \in Pids |-> FALSE]

\* A parent that goes away leaves its zombie to init, which reaps it.
ReapedByInit(s) ==
  [p \in Pids |-> IF parent[p] = s /\ Zombie(p) THEN "free" ELSE phase[p]]

-----------------------------------------------------------------------------
(* The supervisor. *)

\* main() forks the daemon, which blocks the signals of sigset.
Launch(s) ==
  /\ sup[s] = "off"
  /\ Overlap \/ \A t \in Launches : ~Alive(t)
  /\ sup' = [sup EXCEPT ![s] = "create"]
  /\ UNCHANGED <<child, sigs, asked, pidFile, workerVars>>

\* The file may fail to open, which is only logged.
CreatePidFile(s) ==
  /\ sup[s] = "create"
  /\ sup' = [sup EXCEPT ![s] = "fork"]
  /\ pidFile' \in {s, pidFile}
  /\ UNCHANGED <<child, sigs, asked, workerVars>>

\* The worker inherits the blocked signals, not the pending ones.
ForkWorker(s) ==
  /\ sup[s] = "fork"
  /\ \E p \in Pids :
       /\ phase[p] = "free"
       /\ child' = [child EXCEPT ![s] = p]
       /\ phase' = [phase EXCEPT ![p] = "construct"]
       /\ parent' = [parent EXCEPT ![p] = s]
       /\ term' = [term EXCEPT ![p] = FALSE]
  /\ sup' = [sup EXCEPT ![s] = "await"]
  /\ UNCHANGED <<sigs, asked, pidFile>>

\* fork() returned -1: logged, and tried again without waiting for a signal.
ForkFails_Awaits(s) ==
  /\ sup[s] = "fork"
  /\ child' = [child EXCEPT ![s] = NoChild]
  /\ sup' = [sup EXCEPT ![s] = "await"]
  /\ UNCHANGED <<sigs, asked, pidFile, workerVars>>

ForkFails(s) ==
  /\ sup[s] = "fork"
  /\ child' = [child EXCEPT ![s] = NoChild]
  /\ UNCHANGED <<sup, sigs, asked, pidFile, workerVars>>

\* sigwaitinfo returned SIGCHLD.  Linux dequeues the lowest pending signal
\* number first, and SIGCHLD is the highest of the set.
TakeChild_AnyOrder(s) ==
  /\ sup[s] = "await"
  /\ "CHLD" \in sigs[s]
  /\ sigs' = [sigs EXCEPT ![s] = @ \ {"CHLD"}]
  /\ sup' = [sup EXCEPT ![s] = "reap"]
  /\ UNCHANGED <<child, asked, pidFile, workerVars>>

\* A non-blocking wait() that takes SIGCHLD alone for the worker's end.
TakeChild_NoWait(s) ==
  /\ sup[s] = "await"
  /\ "CHLD" \in sigs[s]
  /\ sigs' = [sigs EXCEPT ![s] = @ \ {"CHLD"}]
  /\ sup' = [sup EXCEPT ![s] = "fork"]
  /\ UNCHANGED <<child, asked, pidFile, workerVars>>

TakeChild(s) ==
  /\ sup[s] = "await"
  /\ "CHLD" \in sigs[s]
  /\ sigs[s] \cap StopSignals = {}
  /\ sigs' = [sigs EXCEPT ![s] = @ \ {"CHLD"}]
  /\ sup' = [sup EXCEPT ![s] = "reap"]
  /\ UNCHANGED <<child, asked, pidFile, workerVars>>

\* sigwaitinfo returned another signal: kill(pid, SIGTERM) and leave the loop.
TakeStop(s) ==
  /\ sup[s] = "await"
  /\ \E g \in sigs[s] \cap StopSignals : sigs' = [sigs EXCEPT ![s] = @ \ {g}]
  /\ term' = [term EXCEPT ![child[s]] = Live(child[s])]
  /\ sup' = [sup EXCEPT ![s] = "unlink"]
  /\ UNCHANGED <<child, asked, pidFile, phase, parent>>

\* wait(&status) blocks until a child has ended, then the status decides.
Reap(s) ==
  /\ sup[s] = "reap"
  /\ \E p \in Pids :
       /\ Zombie(p) /\ parent[p] = s
       /\ phase' = [phase EXCEPT ![p] = "free"]
       /\ sup' = [sup EXCEPT ![s] =
                    IF WExitStatus(phase[p]) = NeedToTerminate THEN "unlink" ELSE "fork"]
  /\ UNCHANGED <<child, sigs, asked, pidFile, parent, term>>

\* unlink(kPidFile), whoever wrote it, and the end of the supervisor.
UnlinkPidFile_Skipped(s) ==
  /\ sup[s] = "unlink"
  /\ sup' = [sup EXCEPT ![s] = "stopped"]
  /\ phase' = ReapedByInit(s)
  /\ UNCHANGED <<child, sigs, asked, pidFile, parent, term>>

UnlinkPidFile(s) ==
  /\ sup[s] = "unlink"
  /\ sup' = [sup EXCEPT ![s] = "stopped"]
  /\ pidFile' = NoLaunch
  /\ phase' = ReapedByInit(s)
  /\ UNCHANGED <<child, sigs, asked, parent, term>>

-----------------------------------------------------------------------------
(* The worker, seen from outside. *)

\* new Controller() succeeded, then dmn->Start().
WorkerConstructed(p) ==
  /\ phase[p] = "construct"
  /\ phase' = [phase EXCEPT ![p] = "start"]
  /\ UNCHANGED <<supVars, sigs, parent, term>>

WorkerStarted(p) ==
  /\ phase[p] = "start"
  /\ phase' = [phase EXCEPT ![p] = "wait"]
  /\ UNCHANGED <<supVars, sigs, parent, term>>

\* sigwait(&sigset) in WorkProc, after sigemptyset(&sigset).
SigwaitSet == {}
SigwaitReturns(p) == phase[p] = "wait" /\ term[p] /\ "TERM" \in SigwaitSet

\* SignalError() taken to call exit() in every phase.
EndingsOf_Anywhere(p) == {"signal", "fault"}

\* The ways out of each phase: an exception in the constructor is not caught,
\* one in Start() is; a fault in the constructor or in Start() ends in abort().
EndingsOf(p) ==
  {"signal"}
    \cup (IF phase[p] = "start" \/ SigwaitReturns(p) THEN {"return"} ELSE {})
    \cup (IF phase[p] = "wait" THEN {"fault"} ELSE {})

\* SIGCHLD left unblocked until the first sigwaitinfo: ignored when it comes early.
EndAs_Unblocked(p, e) ==
  /\ Live(p) /\ e \in EndingsOf(p)
  /\ phase' = [phase EXCEPT ![p] = IF Alive(parent[p]) THEN e ELSE "free"]
  /\ term' = [term EXCEPT ![p] = FALSE]
  /\ sigs' = [sigs EXCEPT ![parent[p]] =
                IF phase[p] = "wait" /\ Alive(parent[p]) THEN @ \cup {"CHLD"} ELSE @]
  /\ UNCHANGED <<supVars, parent>>

\* A living parent gets a zombie and SIGCHLD, an orphan is reaped by init.
EndAs(p, e) ==
  /\ Live(p) /\ e \in EndingsOf(p)
  /\ phase' = [phase EXCEPT ![p] = IF Alive(parent[p]) THEN e ELSE "free"]
  /\ term' = [term EXCEPT ![p] = FALSE]
  /\ sigs' = [sigs EXCEPT ![parent[p]] = IF Alive(parent[p]) THEN @ \cup {"CHLD"} ELSE @]
  /\ UNCHANGED <<supVars, parent>>

WorkerEnds(p) == \E e \in Ending : EndAs(p, e)

\* SIGSTOP and SIGCONT raise SIGCHLD too: no SA_NOCLDSTOP is set.
WorkerStopsOrContinues(p) ==
  /\ JobControl /\ Live(p) /\ Alive(parent[p])
  /\ sigs' = [sigs EXCEPT ![parent[p]] = @ \cup {"CHLD"}]
  /\ UNCHANGED <<supVars, workerVars>>

-----------------------------------------------------------------------------
(* The operator of the machine. *)

SendStop(s, g) ==
  /\ Alive(s)
  /\ sigs' = [sigs EXCEPT ![s] = @ \cup {g}]
  /\ asked' = [asked EXCEPT ![s] = TRUE]
  /\ UNCHANGED <<sup, child, pidFile, workerVars>>

\* SIGKILL, or any signal outside sigset: the pid file stays behind.
KillSupervisor(s) ==
  /\ Alive(s)
  /\ sup' = [sup EXCEPT ![s] = "killed"]
  /\ phase' = ReapedByInit(s)
  /\ UNCHANGED <<child, sigs, asked, pidFile, parent, term>>

-----------------------------------------------------------------------------
SupervisorStep(s) ==
  \/ CreatePidFile(s)
  \/ ForkWorker(s)
  \/ ForkFails(s)
  \/ TakeChild(s)
  \/ TakeStop(s)
  \/ Reap(s)
  \/ UnlinkPidFile(s)

WorkerStep(p) ==
  \/ WorkerConstructed(p)
  \/ WorkerStarted(p)
  \/ WorkerEnds(p)
  \/ WorkerStopsOrContinues(p)

Environment(s) ==
  \/ Launch(s)
  \/ \E g \in StopSignals : SendStop(s, g)
  \/ KillSupervisor(s)

Next ==
  \/ \E s \in Launches : SupervisorStep(s) \/ Environment(s)
  \/ \E p \in Pids : WorkerStep(p)

Spec == Init /\ [][Next]_vars

\* The kernel schedules the processes, and fork() does not fail for ever.  A
\* worker whose sigwait can return does return.  Nothing is promised of faults,
\* of the operator, nor of the end of a worker that is left alone.
Fairness ==
  /\ \A s \in Launches :
       /\ WF_vars(CreatePidFile(s)) /\ WF_vars(ForkWorker(s))
       /\ WF_vars(TakeChild(s)) /\ WF_vars(TakeStop(s))
       /\ WF_vars(Reap(s)) /\ WF_vars(UnlinkPidFile(s))
  /\ \A p \in Pids :
       /\ WF_vars(WorkerConstructed(p)) /\ WF_vars(WorkerStarted(p))
       /\ WF_vars(SigwaitReturns(p) /\ EndAs(p, "return"))

FairSpec == Spec /\ Fairness

-----------------------------------------------------------------------------
(* Properties. *)

\* The type of the state: `pid` is a process id whenever the supervisor waits for
\* a signal or a child, and a process that exists has been forked by a launch.
TypeOK ==
  /\ sup \in [Launches -> SupState]
  /\ child \in [Launches -> Pids \cup {NoChild}]
  /\ \A s \in Launches : sup[s] \in {"await", "reap"} => child[s] \in Pids
  /\ sigs \in [Launches -> SUBSET (StopSignals \cup {"CHLD"})]
  /\ asked \in [Launches -> BOOLEAN]
  /\ pidFile \in Launches \cup {NoLaunch}
  /\ phase \in [Pids -> Phase]
  /\ parent \in [Pids -> Launches \cup {NoLaunch}]
  /\ \A p \in Pids : phase[p] # "free" => parent[p] \in Launches
  /\ term \in [Pids -> BOOLEAN]

\* However often workers end and are restarted, one launch never has two worker
\* processes, not even after its supervisor is gone: two would write the same
\* database (the loop of PeakworkDaemonProc forks again only after wait()).
OneWorkerPerLaunch ==
  \A s \in Launches : \A p, q \in ForkedBy(s) : p = q

\* Whenever sigwaitinfo can return, `pid` is the supervisor's own unreaped
\* worker: kill(pid, SIGTERM) never goes to a recycled id, nor, with pid = -1
\* left by a failed fork(), to every process of the machine.
KillTargetsOwnWorker ==
  \A s \in Launches : sup[s] = "await" => child[s] \in ForkedBy(s)

\* The end of a worker is never slept through: a supervisor in sigwaitinfo with
\* a dead worker has SIGCHLD pending, because it was blocked before fork().
ExitNotMissed ==
  \A s \in Launches :
    sup[s] = "await" /\ Zombie(child[s]) => "CHLD" \in sigs[s]

\* The supervisor never gives up by itself: it leaves its loop only after a stop
\* signal.  The NeedToTerminate branch of the loop is dead code, because the
\* status of every way a worker can end is NeedToWork.
RunsUntilAsked ==
  \A s \in Launches : sup[s] \in {"unlink", "stopped"} => asked[s]

\* A supervisor that stopped cleanly left no pid file naming it, even when
\* launches overlap and remove each other's files.
CleanStopLeavesNoPidFile ==
  pidFile # NoLaunch => sup[pidFile] # "stopped"

\* A stop signal is acted on, however fast the workers crash and are restarted.
StopIsHandled ==
  \A s \in Launches :
    (Alive(s) /\ sigs[s] \cap StopSignals # {}) ~> ~Alive(s)

\* A worker that ended is replaced, unless the supervisor is stopped or killed.
WorkerIsReplaced ==
  \A s \in Launches :
    (sup[s] = "await" /\ Zombie(child[s]))
      ~> (~Alive(s) \/ \E p \in ForkedBy(s) : Live(p))

\* What the code of the loop says of eDaemonStatus: a worker whose WorkProc
\* returned NeedToTerminate is reported as stopped and not started again.
TerminateIsHonoured ==
  [][\A s \in Launches, p \in Pids :
       (parent[p] = s /\ phase[p] = "return" /\ phase'[p] = "free"
          /\ sup[s] = "reap") => sup'[s] # "fork"]_vars

\* What kill(pid, SIGTERM) is for: the worker it is sent to ends.
StopReachesWorker ==
  \A p \in Pids : (Live(p) /\ term[p]) ~> ~Live(p)

\* The workers a supervisor sees are those of module Worker: each id goes through
\* the life that Worker implements, and is reaped before it is used again.
Life(p) == INSTANCE WorkerLife WITH
  life <- IF phase[p] = "return" /\ DestructorAborts THEN "signal" ELSE phase[p]

WorkersLiveAsExpected ==
  /\ \A p \in Pids : Life(p)!LifeInit
  /\ [][\A p \in Pids : Life(p)!LifeNext \/ phase'[p] = phase[p]]_phase

=============================================================================
