----------------------------- MODULE WorkerProofs -----------------------------
(***************************************************************************)
(* Proofs about Worker, for any number of gRPC threads and companies, any  *)
(* number of which may fault at any time.                                  *)
(*                                                                         *)
(* How a worker ends comes down to the join() of Controller::Stop(): a     *)
(* thread that reaches exit() with a Controller in `dmn` failed to join or *)
(* had nothing to join, and the destructor fails again; one that reaches   *)
(* exit() without a Controller has joined the update thread.               *)
(*                                                                         *)
(* The mutex is another matter: every thread that owns it is about to      *)
(* unlock it but an update thread that faulted with it, which then waits   *)
(* for itself for good.  Of FaultEndsProcess the part that needs no        *)
(* fairness is proved: a stop stays one, and the loop that join() waits    *)
(* for comes nearer to its end with each step of its thread.               *)
(***************************************************************************)
EXTENDS Worker, TLAPS

AnyLabel == MainLabel \cup UpdaterLabel \cup HandlerLabel \cup FaultLabel \cup ExitLabel

Shape ==
  /\ pc \in [Threads -> AnyLabel]
  /\ joinable \in BOOLEAN

\* exit() with a Controller in `dmn`: join() will throw once more.
WillThrowAgain ==
  \A t \in Threads : pc[t] \in ExitLabel /\ dmn = "set" =>
    t = Main /\ (~joinable \/ \E u \in Threads : pc[u] = "s_joining")

\* The main thread is past Start() when updatePricesThr exists, and it creates no
\* other.
StartedOnce ==
  /\ joinable => pc[Main] \notin {"construct", "flag", "rpc", "thread"}
  /\ pc[Updater] # "none" => pc[Main] \notin {"construct", "flag", "rpc", "thread"}

\* Before there is a Controller nobody stops it.
NothingYet ==
  pc[Main] = "construct" =>
    dmn = "null" /\ \A t \in Threads : pc[t] \notin FaultLabel \cup ExitLabel

EndInv == Shape /\ NothingYet /\ StartedOnce /\ WillThrowAgain /\ NeverEndsAsTerminated

USE WorkerAssumption

-----------------------------------------------------------------------------
\* Nothing runs but the main thread.
LEMMA InitEndInv == Init => EndInv
  BY DEF Init, EndInv, Shape, NothingYet, StartedOnce, WillThrowAgain, NeverEndsAsTerminated, Threads,
         AnyLabel, MainLabel, UpdaterLabel, HandlerLabel, FaultLabel, ExitLabel

\* The main thread gets to exit() only with no update thread to join.
LEMMA MainEndInv == ASSUME EndInv, MainStep PROVE EndInv'
<1> USE DEF Abort, Goto, controller, EndInv, Shape, NothingYet, StartedOnce, WillThrowAgain,
                 NeverEndsAsTerminated, Threads, AnyLabel, MainLabel, UpdaterLabel,
                 HandlerLabel, FaultLabel, ExitLabel
<1>1. CASE Construct
  BY <1>1 DEF Construct
<1>2. CASE StartFlag
  BY <1>2 DEF StartFlag
<1>3. CASE StartRpc
  BY <1>3 DEF StartRpc
<1>4. CASE StartThread
  <2>1. Shape' /\ StartedOnce' /\ NothingYet' /\ NeverEndsAsTerminated'
    BY <1>4 DEF StartThread
  <2>2. CASE pc' = [pc EXCEPT ![Main] = "sigwait", ![Updater] = "top"]
    <3>1. \A t \in Threads : pc'[t] \in ExitLabel => t # Main /\ pc[t] \in ExitLabel
      BY <2>2
    <3> QED
      BY <1>4, <2>1, <3>1 DEF StartThread
  <2>3. CASE Goto(Main, "x_rpc") /\ UNCHANGED joinable
    BY <1>4, <2>1, <2>3 DEF StartThread
  <2> QED
    BY <1>4, <2>2, <2>3 DEF StartThread
<1> QED
  BY <1>1, <1>2, <1>3, <1>4 DEF MainStep

\* The update thread and the gRPC threads leave all that alone.
LEMMA UpdaterEndInv == ASSUME EndInv, UpdaterStep PROVE EndInv'
  BY DEF UpdaterStep, LoopTop, Fetch, StoreInfo, WaitFor, Abort, Goto, controller,
         EndInv, Shape, NothingYet, StartedOnce, WillThrowAgain, NeverEndsAsTerminated, Threads,
         AnyLabel, MainLabel, UpdaterLabel, HandlerLabel, FaultLabel, ExitLabel

LEMMA HandlerEndInv ==
  ASSUME EndInv, NEW h \in Handlers, Request(h) \/ Respond(h) PROVE EndInv'
  BY DEF Request, Respond, Goto, controller,
         EndInv, Shape, NothingYet, StartedOnce, WillThrowAgain, NeverEndsAsTerminated, Threads,
         AnyLabel, MainLabel, UpdaterLabel, HandlerLabel, FaultLabel, ExitLabel

\* A fault begins Stop(), or ends the process by a signal.
LEMMA FaultEndInv == ASSUME EndInv, NEW t \in Threads, Fault(t) PROVE EndInv'
  BY DEF Fault, Normal, Abort, Goto, controller,
         EndInv, Shape, NothingYet, StartedOnce, WillThrowAgain, NeverEndsAsTerminated, Threads,
         AnyLabel, MainLabel, UpdaterLabel, HandlerLabel, FaultLabel, ExitLabel

\* Stop() and exit(): join() throws, or the Controller is released before exit(); a
\* join that ends leaves nothing to join.
LEMMA StopEndInv == ASSUME EndInv, NEW t \in Threads, StopStep(t) PROVE EndInv'
<1> USE DEF Abort, Goto, controller, EndInv, Shape, NothingYet, StartedOnce, WillThrowAgain,
                 NeverEndsAsTerminated, Threads, AnyLabel, MainLabel, UpdaterLabel,
                 HandlerLabel, FaultLabel, ExitLabel
<1>1. CASE StopFlag(t) \/ StopLock(t) \/ StopNotify(t) \/ StopRpc(t) \/ Release(t)
  BY <1>1 DEF StopFlag, StopLock, StopNotify, StopRpc, Release
<1>2. CASE StopJoin(t)
  BY <1>2 DEF StopJoin, JoinThrows, ThrowFromHandler
<1>3. CASE StopJoined(t)
  BY <1>3 DEF StopJoined
<1>4. CASE DestroyRpc(t) \/ DestroyDb(t)
  BY <1>4 DEF DestroyRpc, DestroyDb, Destroy
<1>5. CASE DestroyDmn(t)
  <2>1. dmn = "set" => JoinThrows(t)
    BY <1>5 DEF DestroyDmn, JoinThrows
  <2> QED
    BY <1>5, <2>1 DEF DestroyDmn
<1> QED
  BY <1>1, <1>2, <1>3, <1>4, <1>5 DEF StopStep

\* Every step preserves the inductive invariant.
LEMMA NextEndInv == EndInv /\ [Next]_vars => EndInv'
<1>1. CASE UNCHANGED vars
  BY <1>1 DEF vars, controller, EndInv, Shape, NothingYet, StartedOnce, WillThrowAgain, NeverEndsAsTerminated
<1>2. CASE Next
  BY <1>2, MainEndInv, UpdaterEndInv, HandlerEndInv, StopEndInv, FaultEndInv DEF Next
<1> QED
  BY <1>1, <1>2

\* No worker exits with NeedToTerminate, whatever leaves a signal handler.
THEOREM NeverTerminated == Spec => []NeverEndsAsTerminated
<1>1. EndInv => NeverEndsAsTerminated
  BY DEF EndInv
<1> QED
  BY <1>1, InitEndInv, NextEndInv, PTL DEF Spec

-----------------------------------------------------------------------------
(* The life of the worker. *)

\* The Controller is released by a thread that has joined the update thread, which
\* waits for itself in no case.
LeaveInv ==
  /\ \A t \in Threads : pc[t] \in {"s_joining", "s_rpc", "s_release"} => t # Updater
  /\ \A t \in Threads : pc[t] \in {"s_rpc", "s_release"} => pc[Updater] = "over"
  /\ dmn = "released" => pc[Updater] = "over"
  /\ pc[Main] # "construct" => dmn \in {"set", "released"}

LEMMA InitLeaveInv == Init => LeaveInv
  BY DEF Init, LeaveInv, Threads

\* Every step preserves it.
LEMMA NextLeaveInv ==
  ASSUME EndInv, LeaveInv, [Next]_vars
  PROVE  LeaveInv'
<1> USE DEF Abort, Goto, controller, EndInv, Shape, NothingYet, StartedOnce, Threads,
                 AnyLabel, MainLabel, UpdaterLabel, HandlerLabel, FaultLabel, ExitLabel, LeaveInv
<1>1. CASE MainStep
  BY <1>1 DEF MainStep, Construct, StartFlag, StartRpc, StartThread
<1>2. CASE UpdaterStep
  BY <1>2 DEF UpdaterStep, LoopTop, Fetch, StoreInfo, WaitFor
<1>3. ASSUME NEW h \in Handlers, Request(h) \/ Respond(h) PROVE LeaveInv'
  BY <1>3 DEF Request, Respond
<1>4. ASSUME NEW t \in Threads, Fault(t) PROVE LeaveInv'
  BY <1>4 DEF Fault, Normal
<1>5. ASSUME NEW t \in Threads, StopStep(t) PROVE LeaveInv'
  <2>1. CASE StopFlag(t) \/ StopLock(t) \/ StopNotify(t) \/ StopRpc(t)
    BY <2>1 DEF StopFlag, StopLock, StopNotify, StopRpc
  <2>2. CASE StopJoin(t)
    BY <2>2 DEF StopJoin, JoinThrows, ThrowFromHandler
  <2>3. CASE StopJoined(t)
    BY <2>3 DEF StopJoined
  <2>4. CASE Release(t)
    BY <2>4 DEF Release
  <2>5. CASE DestroyRpc(t) \/ DestroyDb(t)
    BY <2>5 DEF DestroyRpc, DestroyDb, Destroy
  <2>6. CASE DestroyDmn(t)
    BY <2>6 DEF DestroyDmn
  <2> QED
    BY <1>5, <2>1, <2>2, <2>3, <2>4, <2>5, <2>6 DEF StopStep
<1>6. CASE UNCHANGED vars
  BY <1>6 DEF vars
<1> QED
  BY <1>1, <1>2, <1>3, <1>4, <1>5, <1>6 DEF Next

\* From outside, the worker lives as the supervisor expects.
THEOREM Lives == Spec => LivesAsExpected
<1> DEFINE life == IF ended # "no" THEN ended
                   ELSE IF pc[Main] = "construct" THEN "construct"
                   ELSE IF pc[Updater] = "none" THEN "start" ELSE "wait"
<1>1. Init => Life!LifeInit
  BY DEF Init, Life!LifeInit, Threads
<1>2. ASSUME EndInv, LeaveInv, [Next]_vars
      PROVE  Life!LifeNext \/ UNCHANGED life
  <2> USE <1>2 DEF Life!LifeNext, Life!Proceed, Life!End, Life!Endings, Abort, Goto, controller,
                   EndInv, Shape, NothingYet, StartedOnce, Threads, AnyLabel, MainLabel,
                   UpdaterLabel, HandlerLabel, FaultLabel, ExitLabel, LeaveInv
  <2>1. CASE ended' = "signal" /\ Running
    BY <2>1 DEF Running
  <2>2. CASE MainStep /\ Running /\ ended' = ended
    BY <2>2 DEF MainStep, Construct, StartFlag, StartRpc, StartThread, Running
  <2>3. CASE UpdaterStep /\ Running /\ ended' = ended
    BY <2>3 DEF UpdaterStep, LoopTop, Fetch, StoreInfo, WaitFor, Running
  <2>4. ASSUME NEW h \in Handlers, Request(h) \/ Respond(h), Running
        PROVE  UNCHANGED life
    BY <2>4 DEF Request, Respond
  <2>5. ASSUME NEW t \in Threads, Fault(t), Running, ended' = ended
        PROVE  UNCHANGED life
    BY <2>5 DEF Fault, Normal
  <2>6. ASSUME NEW t \in Threads, StopStep(t), ~DestroyDmn(t), Running, ended' = ended
        PROVE  UNCHANGED life
    BY <2>6 DEF StopStep, StopFlag, StopLock, StopNotify, StopJoin, ThrowFromHandler, StopJoined,
                StopRpc, Release, DestroyRpc, DestroyDb, Destroy
  <2>7. ASSUME NEW t \in Threads, DestroyDmn(t), Running, ended' # "signal"
        PROVE  Life!LifeNext
    <3>1. pc[Main] # "construct" /\ (dmn # "set" => pc[Updater] = "over")
      BY <2>7 DEF DestroyDmn
    <3>2. dmn = "set" => JoinThrows(t)
      BY <2>7 DEF DestroyDmn, JoinThrows, WillThrowAgain
    <3>3. ended' = "fault" /\ dmn # "set"
      BY <2>7, <3>2 DEF DestroyDmn
    <3> QED
      BY <2>7, <3>1, <3>3 DEF Running
  <2>8. CASE UNCHANGED vars
    BY <2>8 DEF vars
  <2>9. Next => Running /\ (ended' \in {ended, "signal"} \/ \E t \in Threads : DestroyDmn(t))
    BY DEF Next, MainStep, Construct, StartFlag, StartRpc, StartThread, UpdaterStep, LoopTop, Fetch,
           StoreInfo, WaitFor, Request, Respond, Fault, StopStep, StopFlag, StopLock, StopNotify,
           StopJoin, ThrowFromHandler, StopJoined, StopRpc, Release, DestroyRpc, DestroyDb, Destroy
  <2> QED
    BY <2>1, <2>2, <2>3, <2>4, <2>5, <2>6, <2>7, <2>8, <2>9 DEF Next
<1>3. EndInv /\ LeaveInv /\ [Next]_vars => EndInv' /\ LeaveInv' /\ [Life!LifeNext]_life
  BY <1>2, NextEndInv, NextLeaveInv
<1> QED
  BY <1>1, <1>3, InitEndInv, InitLeaveInv, PTL DEF Spec, LivesAsExpected, Life!LifeSpec

-----------------------------------------------------------------------------
(* The singletons, as long as nothing has unwound out of a signal handler. *)

\* exit() is reached after the join, or by the main thread when there is no update
\* thread and never will be; until then the singletons are there.
ExitInv == ~unwound =>
  /\ \A t \in Threads : pc[t] \in ExitLabel =>
       \/ pc[Updater] = "over"
       \/ pc[Updater] = "none" /\ pc[Main] \in ExitLabel
  /\ \/ alive = Singletons
     \/ pc[Main] = "construct"
     \/ \E t \in Threads : pc[t] \in ExitLabel

LEMMA InitExitInv == Init => ExitInv
  BY DEF Init, ExitInv, Threads, ExitLabel

LEMMA NextExitInv ==
  ASSUME EndInv, LeaveInv, ExitInv, [Next]_vars
  PROVE  ExitInv'
<1> USE DEF Abort, Goto, controller, EndInv, Shape, NothingYet, StartedOnce, Threads,
                 AnyLabel, MainLabel, UpdaterLabel, HandlerLabel, FaultLabel, ExitLabel, LeaveInv, ExitInv
<1>1. CASE MainStep
  BY <1>1 DEF MainStep, Construct, StartFlag, StartRpc, StartThread
<1>2. CASE UpdaterStep
  BY <1>2 DEF UpdaterStep, LoopTop, Fetch, StoreInfo, WaitFor
<1>3. ASSUME NEW h \in Handlers, Request(h) \/ Respond(h) PROVE ExitInv'
  BY <1>3 DEF Request, Respond
<1>4. ASSUME NEW t \in Threads, Fault(t) PROVE ExitInv'
  BY <1>4 DEF Fault, Normal
<1>5. ASSUME NEW t \in Threads, StopStep(t) PROVE ExitInv'
  <2>1. CASE StopFlag(t) \/ StopLock(t) \/ StopNotify(t) \/ StopRpc(t)
    BY <2>1 DEF StopFlag, StopLock, StopNotify, StopRpc
  <2>2. CASE StopJoin(t)
    BY <2>2 DEF StopJoin, JoinThrows, ThrowFromHandler
  <2>3. CASE StopJoined(t)
    BY <2>3 DEF StopJoined
  <2>4. CASE Release(t)
    BY <2>4 DEF Release
  <2>5. CASE DestroyRpc(t) \/ DestroyDb(t)
    BY <2>5 DEF DestroyRpc, DestroyDb, Destroy
  <2>6. CASE DestroyDmn(t)
    BY <2>6 DEF DestroyDmn
  <2> QED
    BY <1>5, <2>1, <2>2, <2>3, <2>4, <2>5, <2>6 DEF StopStep
<1>6. CASE UNCHANGED vars
  BY <1>6 DEF vars
<1> QED
  BY <1>1, <1>2, <1>3, <1>4, <1>5, <1>6 DEF Next

\* The update thread never uses the database or the client after exit() has begun to
\* destroy them.
THEOREM LiveSingletons == Spec => []UpdaterUsesLiveSingletons
<1>1. EndInv /\ LeaveInv /\ ExitInv /\ [Next]_vars => EndInv' /\ LeaveInv' /\ ExitInv'
  BY NextEndInv, NextLeaveInv, NextExitInv
<1>2. EndInv /\ ExitInv => UpdaterUsesLiveSingletons
  BY DEF EndInv, StartedOnce, ExitInv, UpdaterUsesLiveSingletons
<1> QED
  BY <1>1, <1>2, InitEndInv, InitLeaveInv, InitExitInv, PTL DEF Spec

-----------------------------------------------------------------------------
(* Fetches after the stop. *)

\* What the round in progress may still fetch, together with what was fetched since
\* the stop, is a round at most; nothing is late before there is a stop.
Remaining == IF pc[Updater] = "fetch" THEN left
             ELSE IF pc[Updater] = "store" THEN left - 1 ELSE 0
LateInv ==
  /\ left \in 0..NSymbols /\ late \in Nat
  /\ pc[Updater] \in {"fetch", "store"} => left # 0
  /\ late + Remaining <= NSymbols
  /\ ~stopFlag => late = 0
  /\ pc[Updater] = "none" => late = 0

LEMMA InitLateInv == Init => LateInv
  BY DEF Init, LateInv, Remaining, Threads

LEMMA NextLateInv ==
  ASSUME EndInv, LateInv, [Next]_vars
  PROVE  LateInv'
<1> USE DEF Abort, Goto, controller, EndInv, Shape, NothingYet, StartedOnce, Threads,
                 AnyLabel, MainLabel, UpdaterLabel, HandlerLabel, FaultLabel, ExitLabel, LateInv, Remaining
<1>1. CASE MainStep
  BY <1>1 DEF MainStep, Construct, StartFlag, StartRpc, StartThread
<1>2. CASE UpdaterStep
  BY <1>2 DEF UpdaterStep, LoopTop, Fetch, StoreInfo, WaitFor
<1>3. ASSUME NEW h \in Handlers, Request(h) \/ Respond(h) PROVE LateInv'
  BY <1>3 DEF Request, Respond
<1>4. ASSUME NEW t \in Threads, Fault(t) PROVE LateInv'
  BY <1>4 DEF Fault, Normal
<1>5. ASSUME NEW t \in Threads, StopStep(t) PROVE LateInv'
  <2>1. CASE StopFlag(t)
    BY <2>1 DEF StopFlag
  <2>2. CASE StopLock(t) \/ StopNotify(t) \/ StopRpc(t) \/ Release(t)
    BY <2>2 DEF StopLock, StopNotify, StopRpc, Release
  <2>3. CASE StopJoin(t)
    BY <2>3 DEF StopJoin, JoinThrows, ThrowFromHandler
  <2>4. CASE StopJoined(t)
    BY <2>4 DEF StopJoined
  <2>5. CASE DestroyRpc(t) \/ DestroyDb(t) \/ DestroyDmn(t)
    BY <2>5 DEF DestroyRpc, DestroyDb, Destroy, DestroyDmn
  <2> QED
    BY <1>5, <2>1, <2>2, <2>3, <2>4, <2>5 DEF StopStep
<1>6. CASE UNCHANGED vars
  BY <1>6 DEF vars
<1> QED
  BY <1>1, <1>2, <1>3, <1>4, <1>5, <1>6 DEF Next

\* After the stop the update thread begins one round of fetches at most, however long
\* the list of companies is.
THEOREM LateFetches == Spec => []LateFetchesBounded
<1>1. EndInv /\ LateInv /\ [Next]_vars => EndInv' /\ LateInv'
  BY NextEndInv, NextLateInv
<1>2. LateInv => LateFetchesBounded
  BY DEF LateInv, Remaining, LateFetchesBounded
<1> QED
  BY <1>1, <1>2, InitEndInv, InitLateInv, PTL DEF Spec

-----------------------------------------------------------------------------
(* The types, and Controller::mtx. *)

\* The mutex is free, or its owner will unlock it, or its owner is the update thread
\* that faulted with it in its hands and is about to lock it again.
NotLost ==
  mtx # Nobody =>
    \/ Owns(mtx)
    \/ mtx = Updater /\ pc[Updater] \in {"s_flag", "s_lock"}

TypeInv ==
  /\ mtx \in Threads \cup {Nobody}
  /\ stopFlag \in BOOLEAN /\ server \in BOOLEAN /\ unwound \in BOOLEAN
  /\ alive \subseteq Singletons
  /\ dmn \in {"null", "set", "released"}
  /\ ended \in {"no", "fault", "return", "signal"}
  /\ \A t \in Threads : Owns(t) => mtx = t
  \* Only the update thread is ever at its labels.
  /\ \A t \in Threads : pc[t] \in UpdaterLabel => t = Updater
  /\ NotLost

LEMMA InitTypeInv == Init => TypeInv
  BY DEF Init, TypeInv, NotLost, Owns, Threads, UpdaterLabel

LEMMA NextTypeInv ==
  ASSUME EndInv, TypeInv, [Next]_vars
  PROVE  TypeInv'
<1> USE DEF Abort, Goto, controller, EndInv, Shape, Threads, AnyLabel, MainLabel, UpdaterLabel,
            HandlerLabel, FaultLabel, ExitLabel, TypeInv, NotLost, Owns
<1>1. CASE MainStep
  <2>1. CASE Construct
    BY <2>1 DEF Construct
  <2>2. CASE StartFlag
    BY <2>2 DEF StartFlag
  <2>3. CASE StartRpc
    BY <2>3 DEF StartRpc
  <2>4. CASE StartThread
    <3>1. pc[Updater] = "none"
      BY <2>4 DEF StartThread, StartedOnce
    <3> QED
      BY <2>4, <3>1 DEF StartThread
  <2> QED
    BY <1>1, <2>1, <2>2, <2>3, <2>4 DEF MainStep
<1>2. CASE UpdaterStep
  <2>1. CASE LoopTop
    BY <2>1 DEF LoopTop
  <2>2. CASE Fetch
    BY <2>2 DEF Fetch
  <2>3. CASE StoreInfo
    BY <2>3 DEF StoreInfo
  <2>4. CASE WaitFor
    BY <2>4 DEF WaitFor
  <2> QED
    BY <1>2, <2>1, <2>2, <2>3, <2>4 DEF UpdaterStep
<1>3. ASSUME NEW h \in Handlers, Request(h) \/ Respond(h) PROVE TypeInv'
  BY <1>3 DEF Request, Respond
<1>4. ASSUME NEW t \in Threads, Fault(t) PROVE TypeInv'
  BY <1>4 DEF Fault, Normal
<1>5. ASSUME NEW t \in Threads, StopStep(t) PROVE TypeInv'
  <2>1. CASE StopFlag(t)
    BY <2>1 DEF StopFlag
  <2>2. CASE StopLock(t)
    BY <2>2 DEF StopLock
  <2>3. CASE StopNotify(t)
    BY <2>3 DEF StopNotify
  <2>4. CASE StopJoin(t)
    <3>1. CASE Abort
      BY <3>1
    <3>2. CASE ~Abort
      <4>1. /\ pc[t] = "s_join" /\ UNCHANGED <<controller, server, alive, dmn, ended>>
            /\ unwound' \in BOOLEAN
            /\ \E l \in {"x_rpc", "free", "s_joining"} : pc' = [pc EXCEPT ![t] = l]
        BY <2>4, <3>2 DEF StopJoin, ThrowFromHandler
      <4> QED
        BY <4>1
    <3> QED
      BY <3>1, <3>2
  <2>5. CASE StopJoined(t) \/ StopRpc(t) \/ Release(t)
    BY <2>5 DEF StopJoined, StopRpc, Release
  <2>6. CASE DestroyRpc(t) \/ DestroyDb(t) \/ DestroyDmn(t)
    BY <2>6 DEF DestroyRpc, DestroyDb, Destroy, DestroyDmn
  <2> QED
    BY <1>5, <2>1, <2>2, <2>3, <2>4, <2>5, <2>6 DEF StopStep
<1>6. CASE UNCHANGED vars
  BY <1>6 DEF vars
<1> QED
  BY <1>1, <1>2, <1>3, <1>4, <1>5, <1>6 DEF Next

\* Every variable keeps its type, and Controller::mtx is owned by whoever is in a
\* region it protects.
THEOREM TypeCorrect == Spec => []TypeOK
<1>1. EndInv /\ LateInv /\ TypeInv /\ [Next]_vars => EndInv' /\ LateInv' /\ TypeInv'
  BY NextEndInv, NextLateInv, NextTypeInv
<1>2. EndInv /\ LateInv /\ TypeInv => TypeOK
  BY DEF EndInv, Shape, AnyLabel, LateInv, TypeInv, TypeOK
<1> QED
  BY <1>1, <1>2, InitEndInv, InitLateInv, InitTypeInv, PTL DEF Spec

\* Whoever owns Controller::mtx will unlock it, however many threads fault at once: the
\* one exception is the update thread that faults between the lock and wait_for().
THEOREM MutexNotLost == Spec => []NotLost
<1>1. EndInv /\ TypeInv /\ [Next]_vars => EndInv' /\ TypeInv'
  BY NextEndInv, NextTypeInv
<1>2. TypeInv => NotLost
  BY DEF TypeInv
<1> QED
  BY <1>1, <1>2, InitEndInv, InitTypeInv, PTL DEF Spec

\* An update thread that waits for its own mutex waits for ever: no other thread can
\* unlock it, so that only the end of the process gets rid of it.
THEOREM StuckForGood == Spec => [][StuckOnOwnMutex => StuckOnOwnMutex']_vars
<1>1. EndInv /\ TypeInv /\ [Next]_vars => EndInv' /\ TypeInv'
  BY NextEndInv, NextTypeInv
<1>2. ASSUME EndInv, TypeInv, [Next]_vars, StuckOnOwnMutex
      PROVE  StuckOnOwnMutex'
  <2> USE <1>2 DEF Abort, Goto, controller, EndInv, Shape, Threads, AnyLabel, MainLabel, UpdaterLabel,
            HandlerLabel, FaultLabel, ExitLabel, StuckOnOwnMutex
  <2>1. \A t \in Threads : ~Owns(t)
    BY DEF TypeInv, Owns
  <2>2. CASE MainStep
    BY <2>2 DEF MainStep, Construct, StartFlag, StartRpc, StartThread, StartedOnce
  <2>3. CASE UpdaterStep
    BY <2>3 DEF UpdaterStep, LoopTop, Fetch, StoreInfo, WaitFor
  <2>4. ASSUME NEW h \in Handlers, Request(h) \/ Respond(h) PROVE StuckOnOwnMutex'
    BY <2>4 DEF Request, Respond
  <2>5. ASSUME NEW t \in Threads, Fault(t) PROVE StuckOnOwnMutex'
    BY <2>5 DEF Fault, Normal
  <2>6. ASSUME NEW t \in Threads, StopStep(t) PROVE StuckOnOwnMutex'
    <3>1. ~StopNotify(t) /\ ~StopLock(t)
      BY <2>1 DEF StopNotify, StopLock, Owns
    <3>2. CASE StopFlag(t) \/ StopRpc(t) \/ Release(t) \/ StopJoined(t)
      BY <3>2 DEF StopFlag, StopRpc, Release, StopJoined
    <3>3. CASE StopJoin(t)
      BY <3>3 DEF StopJoin, JoinThrows, ThrowFromHandler
    <3>4. CASE DestroyRpc(t) \/ DestroyDb(t) \/ DestroyDmn(t)
      BY <3>4 DEF DestroyRpc, DestroyDb, Destroy, DestroyDmn
    <3> QED
      BY <2>6, <3>1, <3>2, <3>3, <3>4 DEF StopStep
  <2>7. CASE UNCHANGED vars
    BY <2>7 DEF vars
  <2> QED
    BY <2>2, <2>3, <2>4, <2>5, <2>6, <2>7 DEF Next
<1> QED
  BY <1>1, <1>2, InitEndInv, InitTypeInv, PTL DEF Spec

-----------------------------------------------------------------------------
(* One thread at a time past the join. *)

Joined == {"s_rpc", "s_release"} \cup ExitLabel

\* As long as nothing unwound out of a signal handler, Stop() and exit() are run to
\* their end by one thread: exit() is never called while another thread is in it.
ExitOnce ==
  ~unwound => \A t, u \in Threads :
                pc[t] \in Joined \cup {"s_joining"} /\ pc[u] \in Joined \cup {"s_joining"}
                  => t = u

\* Who is joining has something to join, and who has joined left nothing.
JoinInv ==
  ~unwound => \A t \in Threads :
    /\ pc[t] = "s_joining" => joinable
    /\ pc[t] \in Joined => ~joinable /\ pc[Main] \notin {"construct", "flag", "rpc", "thread"}

LEMMA InitJoinInv == Init => JoinInv /\ ExitOnce
  BY DEF Init, JoinInv, ExitOnce, Joined, ExitLabel, Threads

LEMMA NextJoinInv ==
  ASSUME EndInv, JoinInv, ExitOnce, [Next]_vars
  PROVE  JoinInv' /\ ExitOnce'
<1> USE DEF Abort, Goto, controller, EndInv, Shape, StartedOnce, Threads, AnyLabel, MainLabel,
            UpdaterLabel, HandlerLabel, FaultLabel, ExitLabel, Joined, JoinInv, ExitOnce
<1>1. CASE MainStep
  <2>1. CASE Construct \/ StartFlag \/ StartRpc
    BY <2>1 DEF Construct, StartFlag, StartRpc
  <2>2. CASE StartThread
    <3>1. /\ ~joinable
          /\ ~unwound => \A t \in Threads : pc[t] \notin Joined \cup {"s_joining"}
      BY <2>2 DEF StartThread
    <3> QED
      BY <2>2, <3>1 DEF StartThread
  <2> QED
    BY <1>1, <2>1, <2>2 DEF MainStep
<1>2. CASE UpdaterStep
  BY <1>2 DEF UpdaterStep, LoopTop, Fetch, StoreInfo, WaitFor
<1>3. ASSUME NEW h \in Handlers, Request(h) \/ Respond(h) PROVE JoinInv' /\ ExitOnce'
  BY <1>3 DEF Request, Respond
<1>4. ASSUME NEW t \in Threads, Fault(t) PROVE JoinInv' /\ ExitOnce'
  BY <1>4 DEF Fault, Normal
<1>5. ASSUME NEW t \in Threads, StopStep(t) PROVE JoinInv' /\ ExitOnce'
  <2>1. CASE StopFlag(t) \/ StopLock(t) \/ StopNotify(t)
    BY <2>1 DEF StopFlag, StopLock, StopNotify
  <2>2. CASE StopJoin(t)
    <3>1. CASE JoinThrows(t)
      BY <2>2, <3>1 DEF StopJoin, ThrowFromHandler
    <3>2. CASE ~JoinThrows(t)
      <4>1. joinable /\ \A u \in Threads : pc[u] # "s_joining"
        BY <3>2 DEF JoinThrows
      <4>2. ~unwound => \A u \in Threads : pc[u] \notin Joined
        BY <4>1
      <4> QED
        BY <2>2, <3>2, <4>1, <4>2 DEF StopJoin
    <3> QED
      BY <3>1, <3>2
  <2>3. CASE StopJoined(t)
    BY <2>3 DEF StopJoined
  <2>4. CASE StopRpc(t) \/ Release(t)
    BY <2>4 DEF StopRpc, Release
  <2>5. CASE DestroyRpc(t) \/ DestroyDb(t)
    BY <2>5 DEF DestroyRpc, DestroyDb, Destroy
  <2>6. CASE DestroyDmn(t)
    BY <2>6 DEF DestroyDmn
  <2> QED
    BY <1>5, <2>1, <2>2, <2>3, <2>4, <2>5, <2>6 DEF StopStep
<1>6. CASE UNCHANGED vars
  BY <1>6 DEF vars
<1> QED
  BY <1>1, <1>2, <1>3, <1>4, <1>5, <1>6 DEF Next

\* exit(), which must not be called while it runs, is reached by one thread only, however
\* many of them fault at once.
THEOREM ExitsOnce == Spec => []ExitOnce
<1>1. EndInv /\ JoinInv /\ ExitOnce /\ [Next]_vars => EndInv' /\ JoinInv' /\ ExitOnce'
  BY NextEndInv, NextJoinInv
<1> QED
  BY <1>1, InitEndInv, InitJoinInv, PTL DEF Spec

-----------------------------------------------------------------------------
(* After the stop. *)

\* Until Start() has cleared the flag, only the main thread runs.
StartInv ==
  pc[Main] \in {"construct", "flag", "rpc"} =>
    ~server /\ ~stopFlag /\ \A t \in Threads \ {Main} : pc[t] \in {"none", "free"}

LEMMA InitStartInv == Init => StartInv
  BY DEF Init, StartInv, Threads

LEMMA NextStartInv ==
  ASSUME EndInv, StartInv, [Next]_vars
  PROVE  StartInv' /\ (stopFlag => stopFlag')
<1> USE DEF Abort, Goto, controller, EndInv, Shape, StartedOnce, Threads, AnyLabel, MainLabel,
            UpdaterLabel, HandlerLabel, FaultLabel, ExitLabel, StartInv
<1>1. CASE MainStep
  BY <1>1 DEF MainStep, Construct, StartFlag, StartRpc, StartThread
<1>2. CASE UpdaterStep
  BY <1>2 DEF UpdaterStep, LoopTop, Fetch, StoreInfo, WaitFor
<1>3. ASSUME NEW h \in Handlers, Request(h) \/ Respond(h)
      PROVE  StartInv' /\ (stopFlag => stopFlag')
  BY <1>3 DEF Request, Respond
<1>4. ASSUME NEW t \in Threads, Fault(t) PROVE StartInv' /\ (stopFlag => stopFlag')
  BY <1>4 DEF Fault, Normal
<1>5. ASSUME NEW t \in Threads, StopStep(t) PROVE StartInv' /\ (stopFlag => stopFlag')
  <2>1. CASE StopFlag(t) \/ StopLock(t) \/ StopNotify(t)
    BY <2>1 DEF StopFlag, StopLock, StopNotify
  <2>2. CASE StopJoin(t)
    BY <2>2 DEF StopJoin, JoinThrows, ThrowFromHandler
  <2>3. CASE StopJoined(t) \/ StopRpc(t) \/ Release(t)
    BY <2>3 DEF StopJoined, StopRpc, Release
  <2>4. CASE DestroyRpc(t) \/ DestroyDb(t) \/ DestroyDmn(t)
    BY <2>4 DEF DestroyRpc, DestroyDb, Destroy, DestroyDmn
  <2> QED
    BY <1>5, <2>1, <2>2, <2>3, <2>4 DEF StopStep
<1>6. CASE UNCHANGED vars
  BY <1>6 DEF vars
<1> QED
  BY <1>1, <1>2, <1>3, <1>4, <1>5, <1>6 DEF Next

\* Start() clears the flag, but never after some thread has set it: a request to stop is
\* not lost.
THEOREM StopIsFinal == Spec => [][stopFlag => stopFlag']_vars
<1>1. EndInv /\ StartInv /\ [Next]_vars => EndInv' /\ StartInv' /\ (stopFlag => stopFlag')
  BY NextEndInv, NextStartInv
<1> QED
  BY <1>1, InitEndInv, InitStartInv, PTL DEF Spec

\* The steps to the end of the round in progress and out of the loop.
StepsLeft ==
  CASE pc[Updater] = "fetch" -> 2 * left + 2
    [] pc[Updater] = "store" -> 2 * left + 1
    [] pc[Updater] = "wait"  -> 2
    [] pc[Updater] = "top"   -> 1
    [] OTHER                 -> 0

LoopEnds ==
  stopFlag /\ pc[Updater] \in {"top", "fetch", "store", "wait"} =>
    /\ StepsLeft' <= StepsLeft
    /\ UpdaterStep => StepsLeft' < StepsLeft \/ ended' # "no"

\* Once the stop was asked for, every step of the update thread brings it nearer to the end
\* of its loop, and no other thread sends it back: the thread that joins it waits for
\* 2 * NSymbols + 2 steps at most.
THEOREM LoopProgress == Spec => [][LoopEnds]_vars
<1>1. EndInv /\ LateInv /\ [Next]_vars => EndInv' /\ LateInv'
  BY NextEndInv, NextLateInv
<1>2. ASSUME EndInv, LateInv, [Next]_vars, stopFlag,
             pc[Updater] \in {"top", "fetch", "store", "wait"}
      PROVE  /\ StepsLeft' <= StepsLeft
             /\ UpdaterStep => StepsLeft' < StepsLeft \/ ended' # "no"
  <2>1. left \in Nat /\ (pc[Updater] \in {"fetch", "store"} => left # 0) /\ left' \in Nat
    BY <1>1, <1>2 DEF LateInv
  <2>2. StepsLeft \in Nat
    BY <2>1 DEF StepsLeft
  <2>3. CASE UpdaterStep
    <3> USE <1>2, <2>1 DEF EndInv, Shape, Threads
    <3>1. CASE Abort
      <4>1. StepsLeft' = StepsLeft /\ ended' = "signal"
        BY <3>1 DEF Abort, StepsLeft
      <4> QED
        BY <4>1, <2>2
    <3>2. CASE LoopTop
      <4>1. StepsLeft' = 0 /\ StepsLeft = 1
        BY <3>2 DEF LoopTop, Goto, StepsLeft
      <4> QED
        BY <4>1
    <3>3. CASE Fetch /\ ~Abort
      <4>1. pc[Updater] = "fetch" /\ pc'[Updater] = "store" /\ left' = left
        BY <3>3 DEF Fetch, Goto
      <4>2. StepsLeft = 2 * left + 2 /\ StepsLeft' = 2 * left + 1
        BY <4>1 DEF StepsLeft
      <4> QED
        BY <4>2, <2>1
    <3>4. CASE StoreInfo /\ ~Abort
      <4>1. /\ pc[Updater] = "store" /\ left' = left - 1
            /\ pc'[Updater] = "fetch" \/ (pc'[Updater] = "wait" /\ left = 1)
        BY <3>4 DEF StoreInfo, Goto
      <4>2. StepsLeft = 2 * left + 1
        BY <4>1 DEF StepsLeft
      <4>3. CASE pc'[Updater] = "fetch"
        <5>1. StepsLeft' = 2 * left' + 2
          BY <4>3 DEF StepsLeft
        <5> QED
          BY <4>1, <4>2, <5>1, <2>1
      <4>4. CASE pc'[Updater] = "wait" /\ left = 1
        <5>1. StepsLeft' = 2
          BY <4>4 DEF StepsLeft
        <5> QED
          BY <4>2, <4>4, <5>1
      <4> QED
        BY <4>1, <4>3, <4>4
    <3>5. CASE WaitFor
      <4>1. StepsLeft' = 1 /\ StepsLeft = 2
        BY <3>5 DEF WaitFor, Goto, StepsLeft
      <4> QED
        BY <4>1
    <3> QED
      BY <2>3, <3>1, <3>2, <3>3, <3>4, <3>5 DEF UpdaterStep
  <2>4. CASE ~UpdaterStep
    <3>1. \/ pc'[Updater] = pc[Updater] /\ left' = left
          \/ pc'[Updater] \notin {"top", "fetch", "store", "wait"}
      <4> USE <1>2 DEF Abort, Goto, controller, EndInv, Shape, StartedOnce, Threads
      <4>1. CASE MainStep
        BY <4>1 DEF MainStep, Construct, StartFlag, StartRpc, StartThread
      <4>2. ASSUME NEW h \in Handlers, Request(h) \/ Respond(h)
            PROVE  pc'[Updater] = pc[Updater] /\ left' = left
        BY <4>2 DEF Request, Respond
      <4>3. ASSUME NEW t \in Threads, Fault(t)
            PROVE  left' = left /\ pc'[Updater] \in {pc[Updater], "s_flag"}
        BY <4>3 DEF Fault
      <4>4. ASSUME NEW t \in Threads, StopStep(t)
            PROVE  pc'[Updater] = pc[Updater] /\ left' = left
        <5>1. pc[t] \in FaultLabel \cup ExitLabel /\ t # Updater
          BY <4>4 DEF StopStep, StopFlag, StopLock, StopNotify, StopJoin, StopJoined, StopRpc,
                      Release, DestroyRpc, DestroyDb, Destroy, DestroyDmn, FaultLabel, ExitLabel
        <5> QED
          BY <4>4, <5>1 DEF StopStep, StopFlag, StopLock, StopNotify, StopJoin, ThrowFromHandler,
                      StopJoined, StopRpc, Release, DestroyRpc, DestroyDb, Destroy, DestroyDmn
      <4>5. CASE UNCHANGED vars
        BY <4>5 DEF vars
      <4> QED
        BY <2>4, <4>1, <4>2, <4>3, <4>4, <4>5 DEF Next
    <3>2. CASE pc'[Updater] = pc[Updater] /\ left' = left
      BY <2>2, <2>4, <3>2 DEF StepsLeft
    <3>3. CASE pc'[Updater] \notin {"top", "fetch", "store", "wait"}
      <4>1. StepsLeft' = 0
        BY <3>3 DEF StepsLeft
      <4> QED
        BY <2>2, <2>4, <4>1
    <3> QED
      BY <3>1, <3>2, <3>3
  <2> QED
    BY <2>3, <2>4
<1> QED
  BY <1>1, <1>2, InitEndInv, InitLateInv, PTL DEF Spec, LoopEnds

=============================================================================
