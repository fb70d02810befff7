-------------------------------- MODULE Worker --------------------------------
(***************************************************************************)
(* The inside of one worker process: the main thread in WorkProc(), the    *)
(* thread of Controller::UpdatePrices and the threads in which gRPC calls  *)
(* PeakworkServiceImpl::GetCompanyInfo; a fault in any of them runs        *)
(* SignalError() there, which stops the Controller and calls exit(), and   *)
(* exit() destroys the singletons while the other threads still run.       *)
(*                                                                         *)
(* Code: src/Daemon/src/main.cpp, controller.cpp, src/Daemon/rpc/rpc.cpp   *)
(***************************************************************************)
EXTENDS Naturals, FiniteSets

CONSTANTS
  Main,       \* the main thread
  Updater,    \* the thread updatePricesThr
  Handlers,   \* threads of the gRPC server
  Nobody,     \* the owner of a free mutex
  NSymbols    \* companies in the update list, at least one

ASSUME WorkerAssumption ==
  /\ Main # Updater /\ {Main, Updater} \cap Handlers = {}
  /\ Nobody \notin {Main, Updater} \cup Handlers
  /\ NSymbols \in Nat \ {0}

VARIABLES
  pc,        \* where each thread is
  mtx,       \* the owner of Controller::mtx
  stopFlag,  \* Controller::stopFlag
  joinable,  \* updatePricesThr.joinable()
  server,    \* RPCService: whether its gRPC server accepts requests
  alive,     \* the singletons exit() has not destroyed yet
  dmn,       \* the global pointer to the Controller: "null", "set" or "released"
  left,      \* companies left in the for loop of UpdatePrices
  late,      \* history: fetches begun since stopFlag was set
  unwound,   \* history: an exception has left a signal handler
  ended      \* "no", or what wait() will report: exit(NeedToWork) as "fault",
             \* exit(NeedToTerminate) as "return", a death by signal as "signal"

vars == <<pc, mtx, stopFlag, joinable, server, alive, dmn, left, late, unwound, ended>>
controller == <<mtx, stopFlag, joinable>>

-----------------------------------------------------------------------------
Threads == {Main, Updater} \cup Handlers

\* SignalError(): Stop(), release() and exit(), in the thread that faulted.
FaultLabel == {"s_flag", "s_lock", "s_notify", "s_join", "s_joining",
               "s_rpc", "s_release"}
ExitLabel == {"x_rpc", "x_db", "x_dmn"}
MainLabel == {"construct", "flag", "rpc", "thread", "sigwait"}
UpdaterLabel == {"none", "top", "fetch", "store", "wait", "over"}
HandlerLabel == {"free", "busy"}

Singletons == {"rpc", "db"}

Running == ended = "no"
\* A thread runs the program, not SignalError() or exit().
Normal(t) == pc[t] \in (MainLabel \cup UpdaterLabel \cup HandlerLabel) \ {"none", "over", "free"}
Goto(t, l) == pc' = [pc EXCEPT ![t] = l]

Init ==
  /\ pc = [t \in Threads |->
             IF t = Main THEN "construct" ELSE IF t = Updater THEN "none" ELSE "free"]
  /\ mtx = Nobody /\ stopFlag = FALSE /\ joinable = FALSE
  /\ server = FALSE /\ alive = {} /\ dmn = "null"
  /\ left = 0 /\ late = 0 /\ unwound = FALSE
  /\ ended = "no"

\* abort(), std::terminate or a signal whose handler is running already.
Abort ==
  /\ ended' = "signal"
  /\ UNCHANGED <<pc, controller, server, alive, dmn, left, late, unwound>>

-----------------------------------------------------------------------------
(* The main thread: WorkProc and Controller::Start. *)

\* The singletons are created by the constructor of the Controller, which may
\* throw outside the try block.
Construct ==
  /\ pc[Main] = "construct"
  /\ \/ /\ Goto(Main, "flag") /\ alive' = Singletons /\ dmn' = "set"
        /\ UNCHANGED <<controller, server, left, late, unwound, ended>>
     \/ Abort

StartFlag ==
  /\ pc[Main] = "flag"
  /\ stopFlag' = FALSE
  /\ Goto(Main, "rpc")
  /\ UNCHANGED <<mtx, joinable, server, alive, dmn, left, late, unwound, ended>>

\* From here on requests are served.  BuildAndStart() gives no server when the
\* port cannot be bound, which nothing tests.
StartRpc ==
  /\ pc[Main] = "rpc"
  /\ server' \in BOOLEAN
  /\ Goto(Main, "thread")
  /\ UNCHANGED <<controller, alive, dmn, left, late, unwound, ended>>

\* std::thread may throw, and WorkProc catches, returns NeedToTerminate and has
\* the worker call exit() with it.
StartThread ==
  /\ pc[Main] = "thread"
  /\ \/ pc' = [pc EXCEPT ![Main] = "sigwait", ![Updater] = "top"] /\ joinable' = TRUE
     \/ Goto(Main, "x_rpc") /\ UNCHANGED joinable
  /\ UNCHANGED <<mtx, stopFlag, server, alive, dmn, left, late, unwound, ended>>

-----------------------------------------------------------------------------
(* The thread of Controller::UpdatePrices. *)

\* A for loop that looks at the flag no more than once.
LoopTop_Unchecked ==
  /\ pc[Updater] = "top"
  /\ Goto(Updater, "fetch") /\ left' = NSymbols
  /\ UNCHANGED <<controller, server, alive, dmn, late, unwound, ended>>

LoopTop ==
  /\ pc[Updater] = "top"
  /\ IF stopFlag
     THEN Goto(Updater, "over") /\ UNCHANGED left
     ELSE Goto(Updater, "fetch") /\ left' = NSymbols
  /\ UNCHANGED <<controller, server, alive, dmn, late, unwound, ended>>

\* GetHTTPCompanyInfo: an exception that is no HTTPException ends the process.
Fetch ==
  /\ pc[Updater] = "fetch"
  /\ \/ /\ Goto(Updater, "store")
        /\ late' = IF stopFlag THEN late + 1 ELSE late
        /\ UNCHANGED <<controller, server, alive, dmn, left, unwound, ended>>
     \/ Abort

\* The transactions of module DBManager, one of which may throw; then the next
\* company, or the lock for the wait.
StoreInfo ==
  /\ pc[Updater] = "store"
  /\ \/ /\ left' = left - 1
        /\ \/ left > 1 /\ Goto(Updater, "fetch") /\ UNCHANGED mtx
           \/ left = 1 /\ mtx = Nobody /\ Goto(Updater, "wait") /\ mtx' = Updater
        /\ UNCHANGED <<stopFlag, joinable, server, alive, dmn, late, unwound, ended>>
     \/ Abort

\* wait_for() with no duration: the lock is given up at once.
WaitFor ==
  /\ pc[Updater] = "wait"
  /\ Goto(Updater, "top")
  /\ mtx' = Nobody
  /\ UNCHANGED <<stopFlag, joinable, server, alive, dmn, left, late, unwound, ended>>

-----------------------------------------------------------------------------
(* The gRPC threads.  An exception is answered with CANCELLED. *)

\* The server is never shut down: release() only forgets it.
Request(h) ==
  /\ server /\ pc[h] = "free"
  /\ Goto(h, "busy")
  /\ UNCHANGED <<controller, server, alive, dmn, left, late, unwound, ended>>

Respond(h) ==
  /\ pc[h] = "busy"
  /\ Goto(h, "free")
  /\ UNCHANGED <<controller, server, alive, dmn, left, late, unwound, ended>>

-----------------------------------------------------------------------------
(* SignalError() in the thread t. *)

\* SIGSEGV, SIGBUS or SIGFPE, raised by an instruction or sent to the process.
\* Without a Controller dmn->Stop() faults again and the kernel kills.
Fault(t) ==
  /\ Normal(t)
  /\ IF dmn = "set"
     THEN Goto(t, "s_flag") /\ UNCHANGED <<controller, server, alive, dmn, left, late, unwound, ended>>
     ELSE Abort

StopFlag(t) ==
  /\ pc[t] = "s_flag"
  /\ stopFlag' = TRUE
  /\ Goto(t, "s_lock")
  /\ UNCHANGED <<mtx, joinable, server, alive, dmn, left, late, unwound, ended>>

\* A thread that faulted while it owned mtx waits for itself.
StopLock_Forced(t) ==
  /\ pc[t] = "s_lock"
  /\ mtx' = t
  /\ Goto(t, "s_notify")
  /\ UNCHANGED <<stopFlag, joinable, server, alive, dmn, left, late, unwound, ended>>

StopLock(t) ==
  /\ pc[t] = "s_lock"
  /\ mtx = Nobody /\ mtx' = t
  /\ Goto(t, "s_notify")
  /\ UNCHANGED <<stopFlag, joinable, server, alive, dmn, left, late, unwound, ended>>

StopNotify(t) ==
  /\ pc[t] = "s_notify"
  /\ mtx' = Nobody
  /\ Goto(t, "s_join")
  /\ UNCHANGED <<stopFlag, joinable, server, alive, dmn, left, late, unwound, ended>>

\* join() throws when there is no thread to join, when the thread would join
\* itself and when another thread is joining already.
JoinThrows_NotSelf(t) == ~joinable \/ \E u \in Threads : pc[u] = "s_joining"
JoinThrows(t) ==
  ~joinable \/ t = Updater \/ \E u \in Threads : pc[u] = "s_joining"

\* An exception out of a signal handler has no defined meaning: the runtime may
\* find no way to unwind and terminate, or reach the catch clause of WorkProc or
\* that of GetCompanyInfo.  The update thread has none.
ThrowFromHandler(t) ==
  \/ Abort
  \/ /\ t # Updater
     /\ Goto(t, IF t = Main THEN "x_rpc" ELSE "free")
     /\ unwound' = TRUE
     /\ UNCHANGED <<controller, server, alive, dmn, left, late, ended>>

StopJoin_Skipped(t) ==
  /\ pc[t] = "s_join"
  /\ Goto(t, "s_rpc")
  /\ UNCHANGED <<controller, server, alive, dmn, left, late, unwound, ended>>

StopJoin(t) ==
  /\ pc[t] = "s_join"
  /\ IF JoinThrows(t)
     THEN ThrowFromHandler(t)
     ELSE /\ Goto(t, "s_joining")
          /\ UNCHANGED <<controller, server, alive, dmn, left, late, unwound, ended>>

StopJoined(t) ==
  /\ pc[t] = "s_joining" /\ pc[Updater] = "over"
  /\ joinable' = FALSE
  /\ Goto(t, "s_rpc")
  /\ UNCHANGED <<mtx, stopFlag, server, alive, dmn, left, late, unwound, ended>>

\* RPCService::Stop(): release() leaks the server, which goes on serving.
StopRpc(t) ==
  /\ pc[t] = "s_rpc"
  /\ Goto(t, "s_release")
  /\ UNCHANGED <<controller, server, alive, dmn, left, late, unwound, ended>>

\* dmn.release(), so that exit() has no Controller to destroy.
Release(t) ==
  /\ pc[t] = "s_release"
  /\ dmn' = "released"
  /\ Goto(t, "x_rpc")
  /\ UNCHANGED <<controller, server, alive, left, late, unwound, ended>>

-----------------------------------------------------------------------------
(* exit(): the singletons in the reverse order of their creation, and `dmn`,  *)
(* which was created before main(), last.                                     *)

Destroy(t, here, singleton, there) ==
  /\ pc[t] = here
  /\ alive' = alive \ {singleton}
  /\ Goto(t, there)
  /\ UNCHANGED <<controller, server, dmn, left, late, unwound, ended>>

DestroyRpc(t) == Destroy(t, "x_rpc", "rpc", "x_db")
DestroyDb(t) == Destroy(t, "x_db", "db", "x_dmn")

\* ~Controller calls Stop(), and an exception of its join() ends the process.
DestroyDmn_NoStop(t) ==
  /\ pc[t] = "x_dmn"
  /\ ended' = IF dmn = "set" THEN "return" ELSE "fault"
  /\ UNCHANGED <<pc, controller, server, alive, dmn, left, late, unwound>>

DestroyDmn(t) ==
  /\ pc[t] = "x_dmn"
  /\ ended' = IF dmn # "set" THEN "fault" ELSE IF JoinThrows(t) THEN "signal" ELSE "return"
  /\ UNCHANGED <<pc, controller, server, alive, dmn, left, late, unwound>>

-----------------------------------------------------------------------------
MainStep == Construct \/ StartFlag \/ StartRpc \/ StartThread
UpdaterStep == LoopTop \/ Fetch \/ StoreInfo \/ WaitFor
StopStep(t) ==
  \/ StopFlag(t) \/ StopLock(t) \/ StopNotify(t) \/ StopJoin(t) \/ StopJoined(t)
  \/ StopRpc(t) \/ Release(t) \/ DestroyRpc(t) \/ DestroyDb(t) \/ DestroyDmn(t)

Next ==
  /\ Running
  /\ \/ MainStep
     \/ UpdaterStep
     \/ \E h \in Handlers : Request(h) \/ Respond(h)
     \/ \E t \in Threads : StopStep(t) \/ Fault(t)

Spec == Init /\ [][Next]_vars

\* Threads are scheduled, mutexes are granted to a thread that keeps asking, and
\* HTTP requests end (CURLOPT_TIMEOUT).  No request has to come, nothing faults.
FairSpec ==
  /\ Spec
  /\ WF_vars(Running /\ MainStep) /\ WF_vars(Running /\ LoopTop)
  /\ WF_vars(Running /\ Fetch) /\ WF_vars(Running /\ WaitFor)
  /\ SF_vars(Running /\ StoreInfo)
  /\ \A t \in Threads :
       /\ SF_vars(Running /\ StopLock(t))
       /\ WF_vars(Running /\ StopStep(t))

-----------------------------------------------------------------------------
(* Properties. *)

Owns(t) == pc[t] \in {"wait", "s_notify"}

\* The type of the state: mtx is owned by the one thread that is in a region it
\* protects, or that faulted there.
TypeOK ==
  /\ pc \in [Threads -> MainLabel \cup UpdaterLabel \cup HandlerLabel
                          \cup FaultLabel \cup ExitLabel]
  /\ mtx \in Threads \cup {Nobody}
  /\ stopFlag \in BOOLEAN /\ joinable \in BOOLEAN /\ server \in BOOLEAN
  /\ alive \subseteq Singletons
  /\ dmn \in {"null", "set", "released"}
  /\ left \in 0..NSymbols /\ late \in Nat /\ unwound \in BOOLEAN
  /\ ended \in {"no", "fault", "return", "signal"}
  /\ \A t \in Threads : Owns(t) => mtx = t

\* The database outlives the thread that writes to it: exit() destroys the
\* singletons only after Stop() has joined the thread, from whichever thread
\* exit() is called and however many of them fault at once.  (Not so once an
\* exception has unwound out of a signal handler.)
UpdaterUsesLiveSingletons ==
  Running /\ ~unwound /\ pc[Updater] \in {"top", "fetch", "store", "wait"} => alive = Singletons

\* No worker ever ends with exit status NeedToTerminate: whoever calls exit() with
\* a Controller left in `dmn` aborts in its destructor, for there is nothing to
\* join or it is being joined (DestructorAborts of Supervisor).
NeverEndsAsTerminated == ended # "return"

\* Once it was asked to stop, the update thread begins no more fetches than one
\* round of the companies: a shutdown waits for NSymbols timeouts at most.
LateFetchesBounded == late <= NSymbols

\* A fault brings the process to its end, so that the supervisor can start
\* another, unless the update thread faulted with mtx in its hands: then it
\* locks a mutex it owns, and the worker is there but dead.  Once an exception has
\* left a signal handler a gRPC thread may have swallowed the fault; the process
\* then ends or never updates a price again.
Faulting == \E t \in Threads : pc[t] \in FaultLabel
StuckOnOwnMutex == mtx = Updater /\ pc[Updater] = "s_lock"
NoUpdates == pc[Updater] \in {"none", "over"}
FaultEndsProcess ==
  Faulting ~> (~Running \/ StuckOnOwnMutex \/ (unwound /\ [](NoUpdates \/ ~Running)))

\* From outside the worker lives as the supervisor expects: before the update
\* thread runs it can only die by a signal, after that it can also exit with
\* NeedToWork, and it never exits with NeedToTerminate.
Life == INSTANCE WorkerLife WITH
  life <- IF ended # "no" THEN ended
          ELSE IF pc[Main] = "construct" THEN "construct"
          ELSE IF pc[Updater] = "none" THEN "start" ELSE "wait"

LivesAsExpected == Life!LifeSpec

=============================================================================
