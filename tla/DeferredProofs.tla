--------------------------- MODULE DeferredProofs ---------------------------
(***************************************************************************)
(* Proofs about the end of a client, on an application thread or, through  *)
(* the deferred destroyer, from inside the sample callback.                *)
(***************************************************************************)
EXTENDS Deferred, ReportProofs

USE DeferredAssumption

\* The thread the destruction is up to: the callback's until it has handed the client over,
\* then an application thread or the destroyer's.
StageInv ==
  /\ stage \in {"alive", "deferring", "queued", "closing", "destructing", "freed"}
  /\ stage \in {"alive", "queued", "freed"} => destroyer = Nobody
  /\ stage = "deferring" => destroyer \in Workers
  /\ stage \in {"closing", "destructing"} => destroyer \in Callers

\* A thread that joins, or has joined, the worker in its stop().
AfterJoin == {"stopJoin", "stopJoinSettle", "stopNotify"}

\* The destroyer's thread does nothing until a client is handed to it, and after the
\* destruction has begun every other application thread is at most ending a join.
CallersInv ==
  /\ destroyer # Reaper => pc[Reaper] = "idle"
  /\ stage # "alive" =>
       \A c \in Callers :
         pc[c] \in {"idle"} \cup (IF c = destroyer THEN StopPcs ELSE AfterJoin)

\* The first stop() of the thread that frees the client has returned, or as good as.
Stopped ==
  \/ stage \in {"destructing", "freed"}
  \/ stage = "closing" /\ pc[destroyer] \in {"idle", "stopSettle", "stopNotify"}

\* From then on there is neither a worker nor a handle to one.
GoneInv == Stopped => worker = Nobody /\ ~joining

EndInv == StageInv /\ CallersInv /\ GoneInv
-----------------------------------------------------------------------------
(* What the steps of the client do to the threads *)

\* A step of a call moves no application thread but the one that makes it, which is in a call.
LEMMA CallsAreLocal ==
  ASSUME SafetyInv, NEW t \in Threads, Call(t) \/ ApiStep(t) \/ WaitTimeout(t)
  PROVE  /\ \A c \in Callers : c # t => pc'[c] = pc[c]
         /\ ApiStep(t) \/ WaitTimeout(t) => pc[t] # "idle"
<1>1. /\ pc \in [Threads -> Pcs] /\ Callers \subseteq Threads
      /\ \A c \in Callers : c # attempts
  <2>1. pc \in [Threads -> Pcs] /\ attempts \in 0 .. MaxStarts
    BY DEF SafetyInv, TypeInv, TypeOK, Pcs
  <2>2. Callers \subseteq Threads
    BY DEF Threads
  <2>3. \A c \in Callers : c \notin 0 .. MaxStarts
    BY ConstantsAssumption
  <2> QED
    BY <2>1, <2>2, <2>3, Zenon
<1>2. OrdinaryStep(t) \/ OwnershipStep(t)
  BY DEF ApiStep, StartStep, StopStep, OrdinaryStep, OwnershipStep, JoinedStep
<1>3. \A c \in Callers : c # t => pc'[c] = pc[c]
  <2>1. CASE OrdinaryStep(t)
    BY <1>1, <2>1, ApiFrames DEF ApiFrame
  <2>2. CASE OwnershipStep(t)
    BY <1>1, <2>2 DEF OwnershipStep, StartReap, StopReap, JoinedStep, StartJoined, StopJoined,
                      StopJoinSettle, StartReset, StartFlags, StartSpawnFails, StartRestore, StartRepublish, StartSpawn,
                      Move, GoTo, Return
  <2> QED
    BY <1>2, <2>1, <2>2
<1>4. ASSUME ApiStep(t) \/ WaitTimeout(t), pc[t] = "idle" PROVE FALSE
  <2>1. ~StartStep(t)
    BY <1>4 DEF StartStep, StartRejected, StartAwaitJoiner, StartAwaitExit, StartBlock, StartWake,
                StartReap, StartJoined, StartNotify, StartReset, StartFlags, StartSpawn,
                StartSpawnFails, StartRestore, StartRepublish, Move
  <2>2. ~StopStep(t)
    BY <1>4 DEF StopStep, StopEnter, StopCommand, StopOnWorker, StopAwaitJoiner, StopWake,
                StopIdle, StopSettle, StopReap, StopJoined, StopJoinSettle, StopNotify, Move
  <2>3. ~(WaitStep(t) \/ Bias(t) \/ WaitTimeout(t))
    BY <1>4 DEF WaitStep, WaitRefused, WaitEnter, WaitCheck, WaitBlock, WaitWake,
                WaitAnswerTrue, WaitAnswerFalse, WaitReturn, Bias, WaitTimeout, Move
  <2> QED
    BY <1>4, <2>1, <2>2, <2>3 DEF ApiStep
<1> QED
  BY <1>3, <1>4

\* A callback's calls leave the handle alone: they are recognised, and join nothing.
LEMMA CallbacksLeaveTheHandle ==
  ASSUME SafetyInv, NEW w \in Workers, Call(w) \/ ApiStep(w) \/ WaitTimeout(w)
  PROVE  UNCHANGED <<worker, joining>>
<1>1. w \in Threads
  BY DEF Threads
<1>2. ASSUME OwnershipStep(w) PROVE FALSE
  <2>1. pc[w] \in ApiPcs /\ pc[w] \notin ExitPcs
    BY <1>2 DEF OwnershipStep, StartReap, StopReap, JoinedStep, StartJoined, StopJoined,
                StopJoinSettle, ExitPcs, StartReset, StartFlags, StartSpawnFails, StartRestore, StartRepublish, StartSpawn, Move,
                ApiPcs, StartPcs, PendingPcs, ResettingPcs, StopPcs
  <2>2. Live(w)
    BY <2>1, CallerIsLive
  <2>3. active_worker_id = w /\ ~worker_exited
    BY <2>1, <2>2 DEF SafetyInv, ActiveInv
  <2>4. pc[w] \notin JoinPcs /\ pc[w] \notin ResettingPcs
    BY <1>1, <2>2, ResettingAlone DEF SafetyInv, JoinInv
  <2>5. ~(JoinedStep(w) \/ StartFlags(w) \/ StartSpawnFails(w)
            \/ StartRestore(w) \/ StartRepublish(w) \/ StartSpawn(w))
    BY <2>4 DEF JoinedStep, StartJoined, StopJoined, StopJoinSettle, StartFlags, StartSpawnFails, StartRestore,
                StartRepublish, StartSpawn, Move, JoinPcs, ResettingPcs
  <2>6. ~(StartReap(w) \/ StopReap(w) \/ StartReset(w))
    BY <2>3 DEF StartReap, StopReap, StartReset, OnWorkerThread
  <2> QED
    BY <1>2, <2>5, <2>6 DEF OwnershipStep
<1>3. OrdinaryStep(w) \/ OwnershipStep(w)
  BY DEF ApiStep, StartStep, StopStep, OrdinaryStep, OwnershipStep, JoinedStep
<1> QED
  BY <1>1, <1>2, <1>3, ApiFrames DEF ApiFrame

\* After the destruction has begun, application threads are only in stop().
LEMMA OnlyStopsAreLeft ==
  ASSUME CallersInv, NEW c \in Callers, stage # "alive", ApiStep(c) \/ WaitTimeout(c)
  PROVE  StopStep(c)
<1>1. pc[c] \in {"idle"} \cup StopPcs
  BY DEF CallersInv, AfterJoin, StopPcs
<1>2. ~StartStep(c)
  BY <1>1 DEF StartStep, StartRejected, StartAwaitJoiner, StartAwaitExit, StartBlock, StartWake,
              StartReap, StartJoined, StartNotify, StartReset, StartFlags, StartSpawn,
              StartSpawnFails, StartRestore, StartRepublish, Move, StopPcs
<1>3. ~(WaitStep(c) \/ Bias(c) \/ WaitTimeout(c))
  BY <1>1 DEF WaitStep, WaitRefused, WaitEnter, WaitCheck, WaitBlock, WaitWake,
              WaitAnswerTrue, WaitAnswerFalse, WaitReturn, Bias, WaitTimeout, Move, StopPcs
<1> QED
  BY <1>2, <1>3 DEF ApiStep

-----------------------------------------------------------------------------
(* The client's own invariant outlasts the beginning of its end. *)

\* ~Client, the destroyer and ~Impl call stop() like anyone else.
LEMMA StopBegins ==
  ASSUME SafetyInv, NEW t \in Threads, pc[t] = Home(t), BeginStop(t)
  PROVE  SafetyInv'
<1>1. TypeInv /\ pc \in [Threads -> Pcs] /\ born \in [Threads -> 0 .. MaxStarts]
  BY DEF SafetyInv, TypeInv, TypeOK, Pcs
<1>2. TypeStep
  BY <1>1 DEF BeginStop, TypeInv, TypeOK, GenerationInv, GoTo, Pending, PendingPcs, ResettingPcs,
              StartPcs, StopPcs, WaitPcs, ApiPcs, TypeStep, lockVars, cvVars, ownerVars, flagVars,
              reportVars, linkVars, sessionVars, startVars, clientVars
<1>3. ApiFrame(t)
  BY <1>1, NobodyIsNoThread
     DEF BeginStop, ApiFrame, GoTo, Home, JoinPcs, LockedPcs, SettlePcs, PendingPcs, ResettingPcs, StartPcs,
         StopPcs, WaitPcs, ApiPcs, Threads, lockVars, ownerVars, flagVars, startVars, clientVars
<1>4. StreamInv'
  <2>1. UNCHANGED <<session_started, stop_owed>>
    BY DEF BeginStop, linkVars, sessionVars, clientVars
  <2>2. \A w \in Workers : pc[w] \in SessionPcs => pc'[w] \in SessionPcs
    BY <1>1 DEF BeginStop, GoTo, SessionPcs, ApiPcs, StopPcs, Threads
  <2> QED
    BY <2>1, <2>2 DEF SafetyInv, StreamInv
<1> QED
  BY <1>1, <1>2, <1>3, <1>4, BudgetKept, OwnershipApi DEF SafetyInv, OwnershipInv

\* Every step of the client and of its end preserves the client's invariant.
LEMMA DeferredSafety ==
  ASSUME SafetyInv, EndInv, [DeferredNext]_deferredVars
  PROVE  SafetyInv'
<1>1. CASE [Next]_vars
  BY <1>1, SafetyNext
<1>2. ASSUME NEW t \in Threads, Destroy(t) PROVE SafetyInv'
  BY <1>2, StopBegins DEF Destroy
<1>3. CASE TakeOver
  <2>1. Reaper \in Threads /\ pc[Reaper] = Home(Reaper)
    <3>1. Reaper \in Threads /\ Reaper # Nobody
      BY NobodyIsNoThread DEF Threads
    <3>2. destroyer = Nobody
      BY <1>3 DEF TakeOver, EndInv, StageInv
    <3> QED
      BY <3>1, <3>2 DEF EndInv, CallersInv, Home
  <2> QED
    BY <1>3, <2>1, StopBegins DEF TakeOver
<1>4. CASE Destruct
  <2>1. destroyer \in Threads /\ pc[destroyer] = Home(destroyer)
    BY <1>4 DEF Destruct, StopReturned, EndInv, StageInv, Threads
  <2> QED
    BY <1>4, <2>1, StopBegins DEF Destruct
<1>5. ClientStep \/ Enqueue \/ Free \/ UNCHANGED deferredVars => [Next]_vars
  BY DEF ClientStep, Enqueue, Free, deferredVars, Next
<1>6. \A t \in Threads : ApplicationCall(t) \/ Spurious(t) => Next
  BY DEF ApplicationCall, Spurious, Next
<1> QED
  BY <1>1, <1>2, <1>3, <1>4, <1>5, <1>6 DEF DeferredNext, Event, DestroyStep
-----------------------------------------------------------------------------
(* The end of the client *)

\* A step that moves no application thread, and neither worker_ nor joining_.
LEMMA EndFrame ==
  ASSUME EndInv, UNCHANGED <<stage, destroyer, worker, joining>>,
         \A c \in Callers : pc'[c] = pc[c]
  PROVE  EndInv'
<1>1. StageInv'
  BY DEF EndInv, StageInv
<1>2. CallersInv'
  BY DEF EndInv, CallersInv
<1>3. GoneInv'
  BY DEF EndInv, GoneInv, Stopped, StageInv
<1> QED
  BY <1>1, <1>2, <1>3 DEF EndInv

\* Before the destruction only the destroyer's thread matters.
LEMMA EndAlive ==
  ASSUME EndInv, stage = "alive", UNCHANGED <<stage, destroyer>>, pc'[Reaper] = pc[Reaper]
  PROVE  EndInv'
BY DEF EndInv, StageInv, CallersInv, GoneInv, Stopped

\* The steps of stop() after the destruction has begun: the thread that frees the client is
\* through its first stop() only when no worker is left, and nothing brings one back.
LEMMA EndStop ==
  ASSUME SafetyInv, EndInv, NEW c \in Callers, stage # "alive", StopStep(c),
         UNCHANGED <<stage, destroyer>>
  PROVE  EndInv'
<1>1. /\ pc \in [Threads -> Pcs] /\ c \in Threads /\ Callers \subseteq Threads
      /\ active_worker_id \in 0 .. MaxStarts
  BY DEF SafetyInv, TypeInv, TypeOK, Pcs, Threads
<1>2. ~OnWorkerThread(c)
  BY <1>1, ConstantsAssumption DEF OnWorkerThread
<1>3. /\ pc[c] \in StopPcs
      /\ \E q \in StopPcs \cup {"idle"} : pc' = [pc EXCEPT ![c] = q]
      /\ pc[c] \in AfterJoin => pc'[c] \in AfterJoin \cup {"idle"}
  BY <1>1 DEF StopStep, StopEnter, StopCommand, StopOnWorker, StopAwaitJoiner, StopWake, StopIdle,
              StopSettle, StopReap, StopJoined, StopJoinSettle, StopNotify, AfterJoin, Move, GoTo, Return, Home, StopPcs
<1>4. StageInv'
  BY DEF EndInv, StageInv
<1>5. CallersInv'
  <2>1. \A d \in Callers : d # c => pc'[d] = pc[d]
    BY <1>1, <1>3
  <2>2. c = Reaper => destroyer = Reaper
    BY <1>3 DEF EndInv, CallersInv, StopPcs
  <2>3. pc'[c] \in {"idle"} \cup (IF c = destroyer THEN StopPcs ELSE AfterJoin)
    BY <1>1, <1>3 DEF EndInv, CallersInv, AfterJoin, StopPcs
  <2> QED
    BY <2>1, <2>2, <2>3 DEF EndInv, CallersInv
<1>6. CASE StopReap(c)
  <2>1. worker # Nobody
    BY <1>6 DEF StopReap, TakeWorker
  <2>2. ~Stopped
    BY <2>1 DEF EndInv, GoneInv
  <2>3. pc'[c] = "stopJoin" /\ \A d \in Callers : d # c => pc'[d] = pc[d]
    BY <1>1, <1>6 DEF StopReap, Move, GoTo
  <2>4. ~Stopped'
    BY <2>2, <2>3 DEF Stopped, EndInv, StageInv
  <2> QED
    BY <1>4, <1>5, <2>4 DEF EndInv, GoneInv
<1>7. CASE StopJoinSettle(c) \/ (StopJoined(c) /\ Faulted)
  <2>1. pc[c] \in JoinPcs /\ ~joining' /\ worker' = worker
    BY <1>7 DEF StopJoined, StopJoinSettle, Move, EndJoining, JoinPcs
  <2>2. worker = Nobody
    BY <1>1, <2>1 DEF SafetyInv, JoinInv
  <2> QED
    BY <1>4, <1>5, <2>1, <2>2 DEF EndInv, GoneInv
<1>8. CASE StopIdle(c)
  <2>1. ~joining /\ worker = Nobody /\ UNCHANGED <<joining, worker>>
    BY <1>8 DEF StopIdle, clientVars, ownerVars
  <2> QED
    BY <1>4, <1>5, <2>1 DEF EndInv, GoneInv
<1>9. CASE StopNotify(c) \/ StopSettle(c)
  <2>1. UNCHANGED <<joining, worker>> /\ pc[c] \in {"stopNotify", "stopSettle"}
    BY <1>9 DEF StopNotify, StopSettle, Move, clientVars, ownerVars
  <2>2. Stopped' => Stopped
    BY <1>1, <1>3, <2>1 DEF Stopped, EndInv, StageInv
  <2> QED
    BY <1>4, <1>5, <2>1, <2>2 DEF EndInv, GoneInv
<1>10. CASE \/ StopEnter(c) \/ StopCommand(c) \/ StopAwaitJoiner(c) \/ StopWake(c)
             \/ (StopJoined(c) /\ ~Faulted)
  <2>1. UNCHANGED <<joining, worker>>
    BY <1>10 DEF StopEnter, StopCommand, StopAwaitJoiner, StopWake, StopJoined, clientVars, ownerVars
  <2>2. pc'[c] \in {"stop", "stopCommand", "stopDecide", "stopAwait", "stopJoinSettle"}
    BY <1>1, <1>10 DEF StopJoined, StopEnter, StopCommand, StopAwaitJoiner, StopWake, Move, GoTo
  <2>3. Stopped' => Stopped
    BY <1>1, <1>3, <2>2 DEF Stopped, EndInv, StageInv
  <2> QED
    BY <1>4, <1>5, <2>1, <2>3 DEF EndInv, GoneInv
<1>11. CASE StopJoined(c)
  <2>1. CASE Faulted
    BY <1>7, <1>11, <2>1
  <2>2. CASE ~Faulted
    BY <1>10, <1>11, <2>2
  <2> QED
    BY <2>1, <2>2
<1>12. ~StopOnWorker(c)
  BY <1>2 DEF StopOnWorker
<1> QED
  BY <1>6, <1>7, <1>8, <1>9, <1>10, <1>11, <1>12 DEF StopStep

\* ~Client begins: on the worker's thread it hands the client over, elsewhere it does not.
LEMMA EndDestroy ==
  ASSUME SafetyInv, EndInv, NEW t \in Threads, Destroy(t)
  PROVE  EndInv'
<1>1. pc \in [Threads -> Pcs] /\ Callers \subseteq Threads /\ Callers \cap Workers = {}
  BY NobodyIsNoThread DEF SafetyInv, TypeInv, TypeOK, Pcs, Threads
<1>2. /\ stage = "alive" /\ t # Reaper /\ destroyer' = t /\ pc' = [pc EXCEPT ![t] = "stop"]
      /\ pc[t] = Home(t)
      /\ stage' = IF OnWorkerThread(t) THEN "deferring" ELSE "closing"
  BY DEF Destroy, BeginStop, GoTo, CalledFromWorkerThread
<1>3. \A c \in Callers : c # t => pc[c] \in {"idle", "stopJoin"}
  BY DEF Destroy
<1>4. pc[Reaper] = "idle"
  BY <1>2, NobodyIsNoThread DEF EndInv, StageInv, CallersInv, Threads
<1>5. CASE t \in Workers
  <2>1. Live(t) /\ pc[t] = "callback"
    BY <1>1, <1>2, <1>5 DEF Live, Home
  <2>2. OnWorkerThread(t)
    BY <1>5, <2>1 DEF SafetyInv, ActiveInv, ExitPcs, OnWorkerThread
  <2>3. stage' = "deferring" /\ \A c \in Callers : pc'[c] = pc[c] /\ c # t
    BY <1>1, <1>2, <1>5, <2>2
  <2> QED
    BY <1>2, <1>3, <1>4, <1>5, <2>3 DEF EndInv, StageInv, CallersInv, GoneInv, Stopped, AfterJoin
<1>6. CASE t \in Callers
  <2>1. active_worker_id \in 0 .. MaxStarts
    BY DEF SafetyInv, TypeInv, TypeOK
  <2>2. ~OnWorkerThread(t)
    BY <1>6, <2>1, ConstantsAssumption DEF OnWorkerThread
  <2>3. stage' = "closing" /\ pc'[t] = "stop" /\ \A c \in Callers : c # t => pc'[c] = pc[c]
    BY <1>1, <1>2, <2>2
  <2> QED
    BY <1>2, <1>3, <1>4, <1>6, <2>3 DEF EndInv, StageInv, CallersInv, GoneInv, Stopped, AfterJoin, StopPcs
<1> QED
  BY <1>5, <1>6 DEF Threads

\* The steps of the destruction itself.
LEMMA EndDestroyStep ==
  ASSUME SafetyInv, EndInv, DestroyStep
  PROVE  EndInv'
<1>1. pc \in [Threads -> Pcs] /\ Callers \subseteq Threads /\ Nobody \notin Callers
  BY NobodyIsNoThread DEF SafetyInv, TypeInv, TypeOK, Pcs, Threads
<1>2. CASE Enqueue
  <2>1. /\ stage = "deferring" /\ stage' = "queued" /\ destroyer' = Nobody
        /\ pc' = pc
    BY <1>2 DEF Enqueue, vars
  <2>2. destroyer \in Workers /\ destroyer \notin Callers
    BY <2>1, NobodyIsNoThread DEF EndInv, StageInv
  <2> QED
    BY <1>1, <2>1, <2>2 DEF EndInv, StageInv, CallersInv, GoneInv, Stopped
<1>3. CASE TakeOver
  <2>1. /\ stage = "queued" /\ stage' = "closing" /\ destroyer' = Reaper
        /\ pc' = [pc EXCEPT ![Reaper] = "stop"]
    BY <1>3 DEF TakeOver, BeginStop, GoTo
  <2>2. pc'[Reaper] = "stop" /\ \A c \in Callers : c # Reaper => pc'[c] = pc[c]
    BY <1>1, <2>1
  <2>3. destroyer = Nobody
    BY <2>1 DEF EndInv, StageInv
  <2> QED
    BY <1>1, <2>1, <2>2, <2>3 DEF EndInv, StageInv, CallersInv, GoneInv, Stopped, AfterJoin, StopPcs
<1>4. CASE Destruct
  <2>1. /\ stage = "closing" /\ stage' = "destructing" /\ destroyer' = destroyer
        /\ pc' = [pc EXCEPT ![destroyer] = "stop"] /\ pc[destroyer] = Home(destroyer)
        /\ UNCHANGED <<worker, joining>>
    BY <1>4 DEF Destruct, StopReturned, BeginStop, GoTo, clientVars, ownerVars
  <2>2. destroyer \in Callers
    BY <2>1 DEF EndInv, StageInv
  <2>3. pc'[destroyer] = "stop" /\ \A c \in Callers : c # destroyer => pc'[c] = pc[c]
    BY <1>1, <2>1, <2>2
  <2>4. worker = Nobody /\ ~joining
    BY <2>1, <2>2 DEF EndInv, GoneInv, Stopped, Home
  <2> QED
    BY <2>1, <2>2, <2>3, <2>4 DEF EndInv, StageInv, CallersInv, GoneInv, StopPcs
<1>5. CASE Free
  <2>1. /\ stage = "destructing" /\ stage' = "freed" /\ destroyer' = Nobody
        /\ pc' = pc /\ UNCHANGED <<worker, joining>> /\ pc[destroyer] = Home(destroyer)
    BY <1>5 DEF Free, StopReturned, vars, clientVars, ownerVars
  <2>2. destroyer \in Callers /\ pc[destroyer] = "idle"
    BY <2>1 DEF EndInv, StageInv, Home
  <2>3. worker = Nobody /\ ~joining
    BY <2>1 DEF EndInv, GoneInv, Stopped
  <2> QED
    BY <1>1, <2>1, <2>2, <2>3 DEF EndInv, StageInv, CallersInv, GoneInv
<1> QED
  BY <1>2, <1>3, <1>4, <1>5 DEF DestroyStep

\* Every step of the client and of its end preserves the invariant.
LEMMA EndNext ==
  ASSUME SafetyInv, EndInv, [DeferredNext]_deferredVars
  PROVE  EndInv'
<1>1. pc \in [Threads -> Pcs] /\ Callers \subseteq Threads /\ Callers \cap Workers = {}
  BY NobodyIsNoThread DEF SafetyInv, TypeInv, TypeOK, Pcs, Threads
<1>2. CASE UNCHANGED deferredVars
  BY <1>2, EndFrame DEF deferredVars, vars, clientVars, ownerVars
<1>3. ASSUME NEW t \in Threads, Spurious(t) PROVE EndInv'
  BY <1>3, EndFrame DEF Spurious, SpuriousWake, clientVars, ownerVars
<1>4. ASSUME NEW w \in Workers, WorkerStep(w), UNCHANGED <<stage, destroyer>> PROVE EndInv'
  <2>1. WorkerFrame(w)
    BY <1>4, WorkerFrames DEF SafetyInv, TypeInv
  <2>2. UNCHANGED <<worker, joining>> /\ \A c \in Callers : pc'[c] = pc[c]
    BY <1>1, <2>1 DEF WorkerFrame
  <2> QED
    BY <1>4, <2>2, EndFrame
<1>5. ASSUME NEW t \in Threads, ApiStep(t) \/ WaitTimeout(t) \/ ApplicationCall(t),
             UNCHANGED <<stage, destroyer>>
      PROVE  EndInv'
  <2>1. /\ \A c \in Callers : c # t => pc'[c] = pc[c]
        /\ ApiStep(t) \/ WaitTimeout(t) => pc[t] # "idle"
    BY <1>5, CallsAreLocal DEF ApplicationCall
  <2>2. CASE t \in Workers
    <3>1. UNCHANGED <<worker, joining>>
      BY <1>5, <2>2, CallbacksLeaveTheHandle DEF ApplicationCall
    <3> QED
      BY <1>1, <1>5, <2>1, <2>2, <3>1, EndFrame
  <2>3. CASE t \in Callers /\ stage = "alive"
    <3>1. pc[Reaper] = "idle"
      BY <2>3, NobodyIsNoThread DEF EndInv, StageInv, CallersInv, Threads
    <3>2. t # Reaper
      <4>1. CASE ApplicationCall(t)
        BY <4>1 DEF ApplicationCall, MayCall
      <4>2. CASE ApiStep(t) \/ WaitTimeout(t)
        BY <2>1, <3>1, <4>2
      <4> QED
        BY <1>5, <4>1, <4>2
    <3> QED
      BY <1>5, <2>1, <2>3, <3>2, EndAlive
  <2>4. CASE t \in Callers /\ stage # "alive"
    <3>1. ~ApplicationCall(t)
      BY <1>1, <2>4 DEF ApplicationCall, MayCall
    <3>2. StopStep(t)
      BY <1>5, <2>4, <3>1, OnlyStopsAreLeft DEF EndInv
    <3> QED
      BY <1>5, <2>4, <3>2, EndStop
  <2> QED
    BY <2>2, <2>3, <2>4 DEF Threads
<1>6. ASSUME NEW t \in Threads, ApplicationCall(t) PROVE UNCHANGED <<stage, destroyer>>
  BY <1>6 DEF ApplicationCall
<1>7. CASE ClientStep
  BY <1>4, <1>5, <1>7 DEF ClientStep
<1>8. CASE \E t \in Threads : Event(t)
  BY <1>3, <1>5, <1>6, <1>8, EndDestroy DEF Event
<1>9. CASE DestroyStep
  BY <1>9, EndDestroyStep
<1> QED
  BY <1>2, <1>7, <1>8, <1>9 DEF DeferredNext

\* Both invariants hold in every reachable state.
LEMMA EndInvariant == DeferredSpec => [](SafetyInv /\ EndInv)
<1>1. DeferredInit => SafetyInv /\ EndInv
  <2> SUFFICES ASSUME DeferredInit PROVE SafetyInv /\ EndInv
    OBVIOUS
  <2>1. pc[Reaper] = "idle"
    BY NobodyIsNoThread DEF DeferredInit, Init, Threads
  <2> QED
    BY <2>1, SafetyInit DEF DeferredInit, EndInv, StageInv, CallersInv, GoneInv, Stopped
<1>2. SafetyInv /\ EndInv /\ [DeferredNext]_deferredVars => (SafetyInv /\ EndInv)'
  BY DeferredSafety, EndNext
<1> QED
  BY <1>1, <1>2, PTL DEF DeferredSpec

\* Whoever destroys a client, an application thread or its own callback by way of the
\* deferred destroyer, its storage is released only when its worker is gone, and the only
\* thread that may still be inside is a stop() that has joined and is about to notify.
THEOREM FreedAfterTheWorker == DeferredSpec => []OutlastsTheWorker
<1>1. SafetyInv /\ EndInv => OutlastsTheWorker
  <2> SUFFICES ASSUME SafetyInv, EndInv, stage = "freed"
               PROVE  /\ \A w \in Workers : ~Live(w)
                      /\ \A c \in Callers : pc[c] \in {"idle", "stopNotify"}
    BY DEF OutlastsTheWorker
  <2>1. worker = Nobody /\ ~joining /\ destroyer = Nobody
    BY DEF EndInv, StageInv, GoneInv, Stopped
  <2>2. \A w \in Workers : ~Live(w)
    BY <2>1, NoHandleNoWorker
  <2>3. \A c \in Callers : pc[c] \notin {"stopJoin", "stopJoinSettle"}
    BY <2>1 DEF SafetyInv, JoinInv, JoinPcs, Threads
  <2>4. \A c \in Callers : c # destroyer
    BY <2>1, NobodyIsNoThread DEF Threads
  <2> QED
    BY <2>2, <2>3, <2>4 DEF EndInv, CallersInv, AfterJoin
<1> QED
  BY <1>1, EndInvariant, PTL

-----------------------------------------------------------------------------
(* A client that is destroyed is a client to its end.                      *)

\* The stop() of ~Client, of the destroyer and of ~Impl is one that an application thread, or
\* the callback, might have called: a client and its end behave like a client alone.
THEOREM EndIsStops ==
  ASSUME "stop" \in CallerOps, "stop" \in CallbackOps
  PROVE  DeferredSpec => Spec
<1>1. ASSUME SafetyInv, EndInv, [DeferredNext]_deferredVars PROVE [Next]_vars
  <2>1. ASSUME NEW t \in Threads, pc[t] = Home(t), BeginStop(t) PROVE Call(t)
    <3>1. "stop" \in Ops /\ "stop" # "start" /\ t \in Callers \cup Workers
      BY DEF Ops, Threads
    <3> QED
      BY <2>1, <3>1 DEF BeginStop, Call, Move, Home
  <2>2. ASSUME NEW t \in Threads, Destroy(t) PROVE Call(t)
    BY <2>1, <2>2 DEF Destroy
  <2>3. TakeOver => \E t \in Threads : Call(t)
    <3> SUFFICES ASSUME TakeOver PROVE Call(Reaper) /\ Reaper \in Threads
      OBVIOUS
    <3>1. Reaper \in Threads /\ Reaper # Nobody
      BY NobodyIsNoThread DEF Threads
    <3>2. pc[Reaper] = Home(Reaper)
      BY <1>1, <3>1 DEF TakeOver, EndInv, StageInv, CallersInv, Home
    <3> QED
      BY <2>1, <3>1, <3>2 DEF TakeOver
  <2>4. Destruct => \E t \in Threads : Call(t)
    <3>1. Destruct => destroyer \in Threads
      BY <1>1 DEF Destruct, EndInv, StageInv, Threads
    <3> QED
      BY <2>1, <3>1 DEF Destruct, StopReturned
  <2>5. ClientStep \/ Enqueue \/ Free \/ UNCHANGED deferredVars => [Next]_vars
    BY DEF ClientStep, Enqueue, Free, deferredVars, Next
  <2>6. \A t \in Threads : ApplicationCall(t) \/ Spurious(t) => Next
    BY DEF ApplicationCall, Spurious, Next
  <2> QED
    BY <1>1, <2>2, <2>3, <2>4, <2>5, <2>6 DEF DeferredNext, Event, DestroyStep, Next
<1>2. DeferredInit => Init
  BY DEF DeferredInit
<1> QED
  BY <1>1, <1>2, EndInvariant, PTL DEF DeferredSpec, Spec

\* So what a client promises holds to its end: a destroyed client, too, reports its last state
\* and tells the sensor to stop before it is gone.
THEOREM EndKeepsTheContract ==
  ASSUME "stop" \in CallerOps, "stop" \in CallbackOps
  PROVE  DeferredSpec => ImplementsContract
BY EndIsStops, ContractImplemented, PTL

=============================================================================
