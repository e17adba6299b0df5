---------------------------- MODULE WakeUpProofs -----------------------------
(***************************************************************************)
(* Proofs that no thread of Lifecycle is left blocked: a receive is shut   *)
(* down by the stop() that wants it to end, and an application thread that *)
(* sleeps although its wait is over has a notification to come.            *)
(***************************************************************************)
EXTENDS ReportProofs

USE ConstantsAssumption

\* Where a worker's socket is open and its session started.
OpenPcs == {"recvCheck", "receiving", "record", "callback", "deliver"} \cup ApiPcs

\* Where data_mutex_ is held between two steps.
DataPcs == {"waitCheck", "waitBlock", "waitAnswer", "backoffBlock"}

\* Where a captured generation is in use.
TicketPcs == {"waitCheck", "waitBlock", "waitWoken", "waitLast", "waitAnswer"}

StopComing == \E t \in Threads : pc[t] = "stopCommand"
Resetting  == \E t \in Threads : pc[t] \in ResettingPcs
SomeLive   == \E w \in Workers : Live(w)

\* Why worker w is where it is: it ends on its own account only for a stop or a fault, and
\* while its socket is open a stop has shut that down or is about to, and nothing else has.
Cause(w) ==
  /\ result[w] = "Stopped" => Live(w) /\ stopping
  /\ pc[w] \in EndingPcs \cup {"exitSettle"} => stopping \/ Faulted
  /\ pc[w] \in OpenPcs /\ stopping => shutdown_requested \/ StopComing
  /\ pc[w] \in OpenPcs \cup {"startRealtime"} /\ shutdown_requested => stopping

CauseInv ==
  /\ \A w \in Workers : Cause(w)
  /\ StopComing => stopping

DataLockInv == \A t \in Threads : pc[t] \in DataPcs <=> data_mutex = t

\* A generation that is neither stopped nor faulted has a worker, or is getting one; a
\* failed start() puts back one that has none.
IdleInv ==
  /\ data.generation # 0 /\ ~stopping /\ ~Faulted => SomeLive \/ Resetting
  /\ Resetting /\ saved.data.generation # 0 /\ saved.fault = "None" => saved.stopping
  /\ \A t \in Threads : pc[t] \in {"startRestore", "startRepublish"} => stopping = saved.stopping

\* A waiter found its wait not over and holds data_mutex_ until it sleeps: only stopping_
\* can have changed since, and then there is a worker that cannot have settled.
BlockInv ==
  \A t \in Threads :
    /\ pc[t] \in TicketPcs => captured[t].generation # 0
    /\ pc[t] = "waitBlock" =>
         /\ data.generation = captured[t].generation
         /\ data.delivered_generation # captured[t].generation
         /\ ~Faulted
         /\ \A w \in Workers : pc[w] # "exitNotify"
         /\ stopping => SomeLive \/ Resetting

WakeInv == DataLockInv /\ IdleInv /\ BlockInv /\ WakeUpToCome

-----------------------------------------------------------------------------
(* Why a worker is where it is *)

\* A worker's step keeps the cause of its being where it is.
LEMMA CauseWorker ==
  ASSUME TypeOK, NEW w \in Workers, Live(w), WorkerReport(w), Cause(w), WorkerStep(w),
         StopComing' = StopComing
  PROVE  /\ Cause(w)' /\ stopping' = stopping
         /\ \A v \in Workers : v # w => result'[v] = result[v]
<1>a. /\ pc \in [Threads -> Pcs] /\ w \in Threads
      /\ result \in [Workers -> SessionFailures \cup {"None", "Stopped"}]
      /\ stopping \in BOOLEAN /\ shutdown_requested \in BOOLEAN
  BY DEF TypeOK, Pcs, Threads
<1> USE <1>a DEF WorkerReport, Cause, Faulted, Live, EndingPcs, OpenPcs, Move, GoTo, ApiPcs,
            StartPcs, PendingPcs, ResettingPcs, StopPcs, WaitPcs, SessionFailures, flagVars,
            reportVars, linkVars, sessionVars
<1>1. CASE WLoop(w)
  BY <1>1 DEF WLoop
<1>2. CASE WConnecting(w)
  BY <1>2 DEF WConnecting
<1>3. CASE WDiscover(w)
  BY <1>3 DEF WDiscover, EndSession
<1>4. CASE WConnect(w)
  BY <1>4 DEF WConnect, EndSession
<1>5. CASE WStartRealtime(w)
  BY <1>5 DEF WStartRealtime, EndSession
<1>6. CASE WRecvCheck(w)
  BY <1>6 DEF WRecvCheck, EndSession
<1>7. CASE WReceiveFails(w)
  BY <1>7 DEF WReceiveFails, EndSession
<1>8. CASE WReceive(w)
  BY <1>8 DEF WReceive, EndSession
<1>9. CASE WMalformed(w)
  BY <1>9 DEF WMalformed, EndRecord
<1>10. CASE WRecord(w)
  BY <1>10 DEF WRecord, EndRecord, DropOutcomes
<1>11. CASE WCallbackReturns(w)
  BY <1>11 DEF WCallbackReturns
<1>12. CASE WCallbackThrows(w)
  BY <1>12 DEF WCallbackThrows, EndRecord, CallbackFailure
<1>13. CASE WDeliver(w)
  BY <1>13 DEF WDeliver, EndRecord
<1>14. CASE WClose(w)
  BY <1>14 DEF WClose, CloseSession, SendStopStreaming
<1>15. CASE WFailStop(w)
  BY <1>15 DEF WFailStop, Publish, FaultFor
<1>16. CASE WLeave(w)
  BY <1>16 DEF WLeave
<1>17. CASE WBackoff(w)
  BY <1>17 DEF WBackoff
<1>18. CASE WBackoffCheck(w)
  BY <1>18 DEF WBackoffCheck
<1>19. CASE WBackoffBlock(w)
  BY <1>19 DEF WBackoffBlock
<1>20. CASE WBackoffElapsed(w)
  BY <1>20 DEF WBackoffElapsed
<1>21. CASE WCatch(w)
  BY <1>21 DEF WCatch, Publish
<1>22. CASE WFinish(w)
  BY <1>22 DEF WFinish, CloseSession, SendStopStreaming
<1>23. CASE WExit(w)
  BY <1>23 DEF WExit
<1>24. CASE WSettle(w)
  BY <1>24 DEF WSettle, SettleStopped
<1>25. CASE WExitNotify(w)
  BY <1>25 DEF WExitNotify
<1>26. CASE WExited(w)
  BY <1>26 DEF WExited
<1> QED
  BY <1>1, <1>2, <1>3, <1>4, <1>5, <1>6, <1>7, <1>8, <1>9, <1>10, <1>11, <1>12, <1>13, <1>14,
     <1>15, <1>16, <1>17, <1>18, <1>19, <1>20, <1>21, <1>22, <1>23, <1>24, <1>25, <1>26
     DEF WorkerStep, SessionStep

\* Workers preserve the causes.
LEMMA CauseWorkerStep ==
  ASSUME SafetyInv, ReportInv, CauseInv, NEW w \in Workers, WorkerStep(w)
  PROVE  CauseInv' /\ stopping' = stopping
<1>1. pc \in [Threads -> Pcs] /\ \A v \in Workers : v \in Threads
  BY DEF SafetyInv, TypeInv, TypeOK, Pcs, Threads
<1>2. /\ pc[w] \in WorkerPcs /\ \E q \in WorkerPcs : pc' = [pc EXCEPT ![w] = q]
  BY WorkerFrames DEF SafetyInv, TypeInv, WorkerFrame
<1>3. \A t \in Threads : pc'[t] = "stopCommand" <=> pc[t] = "stopCommand"
  BY <1>1, <1>2 DEF WorkerPcs
<1>4. StopComing' = StopComing
  BY <1>3 DEF StopComing
<1>5. /\ Live(w) /\ WorkerReport(w)
      /\ \A v \in Workers : v # w => ~Live(v) /\ ~Live(v)'
  BY ReportWorkerStep
<1>6. Cause(w)' /\ stopping' = stopping /\ \A v \in Workers : v # w => result'[v] = result[v]
  BY <1>4, <1>5, CauseWorker DEF SafetyInv, TypeInv, CauseInv
<1>7. ASSUME NEW v \in Workers, v # w PROVE Cause(v)'
  BY <1>5, <1>6, <1>7 DEF CauseInv, Cause, Live, EndingPcs, OpenPcs, ApiPcs, StartPcs,
                          PendingPcs, ResettingPcs, StopPcs, WaitPcs
<1> QED
  BY <1>4, <1>6, <1>7 DEF CauseInv

\* stop() raises stopping_, then shuts the socket down; other ordinary steps do neither.
LEMMA OrdinaryFlags ==
  ASSUME TypeOK, NEW t \in Threads, OrdinaryStep(t)
  PROVE  \/ /\ stopping' = TRUE /\ shutdown_requested' = shutdown_requested
            /\ first_sample_cv' = {} /\ lifecycle_mutex = Nobody
            /\ pc[t] = "stop" /\ pc' = [pc EXCEPT ![t] = "stopCommand"]
         \/ /\ stopping' = stopping /\ shutdown_requested' = TRUE
            /\ pc[t] = "stopCommand" /\ pc' = [pc EXCEPT ![t] = "stopDecide"]
         \/ /\ UNCHANGED <<stopping, shutdown_requested>>
            /\ pc[t] # "stopCommand"
            /\ \E q \in Pcs \ {"stopCommand"} : pc' = [pc EXCEPT ![t] = q]
<1>a. pc \in [Threads -> Pcs]
  BY DEF TypeOK, Pcs
<1> USE <1>a DEF flagVars, linkVars, sessionVars, clientVars, Move, GoTo, Return, Home, Pcs, ApiPcs,
            StartPcs, PendingPcs, ResettingPcs, StopPcs, WaitPcs, WorkerPcs
<1>1. CASE WaitStep(t)
  BY <1>1 DEF WaitStep, WaitRefused, WaitEnter, WaitCheck, WaitBlock, WaitWake,
              WaitAnswerTrue, WaitAnswerFalse, WaitReturn
<1>2. CASE \/ StartRejected(t) \/ StartAwaitJoiner(t) \/ StartAwaitExit(t) \/ StartBlock(t)
           \/ StartWake(t) \/ StartNotify(t)
  BY <1>2 DEF StartRejected, StartAwaitJoiner, StartAwaitExit, StartBlock, StartWake, StartNotify
<1>3. CASE StopEnter(t) \/ StopCommand(t) \/ StopOnWorker(t) \/ StopAwaitJoiner(t)
  BY <1>3 DEF StopEnter, StopCommand, StopOnWorker, StopAwaitJoiner, NotifyAll
<1>4. CASE StopWake(t) \/ StopIdle(t) \/ StopSettle(t) \/ StopNotify(t)
  BY <1>4 DEF StopWake, StopIdle, StopSettle, StopNotify
<1>5. CASE Bias(t) \/ WaitTimeout(t) \/ Call(t)
  BY <1>5 DEF Bias, WaitTimeout, Call, Ops
<1> QED
  BY <1>1, <1>2, <1>3, <1>4, <1>5 DEF OrdinaryStep

\* The ends of joins and the steps of a reset find no worker and no stop() under way.
LEMMA OwnershipQuiet ==
  ASSUME SafetyInv, NEW t \in Threads, OwnershipStep(t), ~StartReap(t), ~StopReap(t)
  PROVE  /\ \A w \in Workers : ~Live(w)
         /\ ~StopComing /\ ~StopComing'
         /\ \A w \in Workers : \/ ~Live(w)'
                               \/ StartSpawn(t) /\ w = attempts /\ pc'[w] = "loop"
<1> USE NobodyIsNoThread
<1>1. /\ pc \in [Threads -> Pcs] /\ \A w \in Workers : w \in Threads
      /\ attempts \in 0 .. MaxStarts /\ lifecycle_mutex \in Threads \cup {Nobody}
  BY DEF SafetyInv, TypeInv, TypeOK, Pcs, Threads
<1>2. CASE JoinedStep(t) \/ StartReset(t)
  <2>1. \A w \in Workers : ~Live(w)
    BY <1>2, OwnershipJoined, OwnershipReset
  <2>2. /\ lifecycle_mutex = Nobody \/ pc[t] = "stopJoinSettle"
        /\ pc[t] \in {"startJoin", "stopJoin", "stopJoinSettle", "start"}
        /\ \E q \in {"startNotify", "stopNotify", "stopJoinSettle", "startFlags"} :
             pc' = [pc EXCEPT ![t] = q]
    BY <1>2 DEF JoinedStep, StartJoined, StopJoined, StopJoinSettle, StartReset, Joined,
                EnterStart, Move, GoTo
  <2>3. t \notin Workers
    BY <2>1, <2>2, CallerIsLive DEF ApiPcs, StartPcs, PendingPcs, StopPcs
  <2>4. ~StopComing /\ ~StopComing'
    BY <1>1, <2>2 DEF StopComing, SafetyInv, LockInv, LockedPcs
  <2>5. \A w \in Workers : ~Live(w)'
    BY <1>1, <2>1, <2>2, <2>3 DEF Live
  <2> QED
    BY <2>1, <2>4, <2>5
<1>3. CASE \/ StartFlags(t) \/ StartSpawnFails(t) \/ StartRestore(t) \/ StartRepublish(t)
           \/ StartSpawn(t)
  <2>1. pc[t] \in ResettingPcs
    BY <1>3 DEF StartFlags, StartSpawnFails, StartRestore, StartRepublish, StartSpawn, Move,
                ResettingPcs
  <2>2. /\ \A w \in Workers : ~Live(w)
        /\ t \notin Workers /\ \A u \in Threads : pc[u] \in LockedPcs => u = t
    BY <2>1, ResettingAlone
  <2>3. \/ \E q \in {"startSpawn", "startRestore", "startRepublish", "idle"} :
             pc' = [pc EXCEPT ![t] = q]
        \/ StartSpawn(t) /\ pc' = [pc EXCEPT ![t] = "idle", ![attempts] = "loop"]
    BY <1>3, <2>2 DEF StartFlags, StartSpawnFails, StartRestore, StartRepublish, StartSpawn,
                      Move, GoTo, Return, Home, Threads
  <2>4. ~StopComing /\ ~StopComing'
    BY <1>1, <2>1, <2>2, <2>3 DEF StopComing, LockedPcs, ResettingPcs
  <2>5. \A w \in Workers : ~Live(w)' \/ (StartSpawn(t) /\ w = attempts /\ pc'[w] = "loop")
    BY <1>1, <2>2, <2>3 DEF Live
  <2> QED
    BY <2>2, <2>4, <2>5
<1> QED
  BY <1>2, <1>3 DEF OwnershipStep

\* Calls preserve the causes.
LEMMA CauseApi ==
  ASSUME SafetyInv, ReportInv, CauseInv, NEW t \in Threads, OrdinaryStep(t) \/ OwnershipStep(t)
  PROVE  CauseInv'
<1>1. /\ pc \in [Threads -> Pcs] /\ \A w \in Workers : w \in Threads
      /\ result \in [Workers -> SessionFailures \cup {"None", "Stopped"}]
  BY DEF SafetyInv, TypeInv, TypeOK, Pcs, Threads
<1>2. ASSUME NEW q, pc' = [pc EXCEPT ![t] = q], UNCHANGED <<fault_code, result>>,
             t \in Workers => {pc[t], q} \subseteq ApiPcs \cup {"callback"},
             \/ stopping' = TRUE /\ shutdown_requested' = shutdown_requested /\ q = "stopCommand"
             \/ /\ stopping' = stopping /\ shutdown_requested' = TRUE
                /\ pc[t] = "stopCommand" /\ q # "stopCommand"
             \/ /\ UNCHANGED <<stopping, shutdown_requested>>
                /\ pc[t] # "stopCommand" /\ q # "stopCommand"
      PROVE  CauseInv'
  <2>1. \A u \in Threads : pc'[u] = IF u = t THEN q ELSE pc[u]
    BY <1>1, <1>2
  <2>2. (StopComing' => stopping') /\ (stopping' => stopping \/ StopComing')
    BY <1>2, <2>1 DEF CauseInv, StopComing
  <2>3. StopComing => StopComing' \/ shutdown_requested'
    BY <1>2, <2>1 DEF StopComing
  <2>4. /\ shutdown_requested' => shutdown_requested \/ stopping'
        /\ shutdown_requested => shutdown_requested' /\ (stopping => stopping')
    BY <1>2 DEF CauseInv, StopComing
  <2>5. ASSUME NEW w \in Workers PROVE Cause(w)'
    <3>1. /\ pc'[w] \in EndingPcs \cup {"exitSettle"} => pc[w] \in EndingPcs \cup {"exitSettle"}
          /\ pc'[w] \in OpenPcs => pc[w] \in OpenPcs
          /\ pc'[w] = "startRealtime" => pc[w] = "startRealtime"
          /\ Live(w) => Live(w)'
      BY <1>1, <1>2, <2>1 DEF EndingPcs, OpenPcs, Live, ApiPcs, StartPcs, PendingPcs,
                              ResettingPcs, StopPcs, WaitPcs
    <3> QED
      BY <1>2, <2>2, <2>3, <2>4, <3>1 DEF CauseInv, Cause, Faulted
  <2> QED
    BY <2>2, <2>5 DEF CauseInv
<1>3. CASE OrdinaryStep(t)
  <2>1. UNCHANGED <<fault_code, result>>
    BY <1>3, OrdinaryReports
  <2>2. t \in Workers => {pc[t], pc'[t]} \subseteq ApiPcs \cup {"callback"}
    BY <1>3, ApiFrames DEF ApiFrame
  <2>3. /\ pc' = [pc EXCEPT ![t] = pc'[t]]
        /\ \/ stopping' = TRUE /\ shutdown_requested' = shutdown_requested
              /\ pc'[t] = "stopCommand"
           \/ /\ stopping' = stopping /\ shutdown_requested' = TRUE
              /\ pc[t] = "stopCommand" /\ pc'[t] # "stopCommand"
           \/ /\ UNCHANGED <<stopping, shutdown_requested>>
              /\ pc[t] # "stopCommand" /\ pc'[t] # "stopCommand"
    BY <1>1, <1>3, OrdinaryFlags DEF SafetyInv, TypeInv
  <2> QED
    BY <1>2, <2>1, <2>2, <2>3
<1>4. CASE StartReap(t) \/ StopReap(t)
  <2>1. /\ UNCHANGED <<fault_code, result, stopping, shutdown_requested>>
        /\ pc[t] \in {"start", "stopDecide"}
        /\ \E q \in {"startJoin", "stopJoin"} : pc' = [pc EXCEPT ![t] = q]
    BY <1>4 DEF StartReap, StopReap, Move, GoTo, flagVars, reportVars, sessionVars, linkVars
  <2> QED
    BY <1>2, <2>1 DEF ApiPcs, StartPcs, PendingPcs, StopPcs
<1>5. CASE OwnershipStep(t) /\ ~StartReap(t) /\ ~StopReap(t)
  <2>1. /\ \A w \in Workers : ~Live(w)
        /\ ~StopComing'
        /\ \A w \in Workers : ~Live(w)' \/ pc'[w] = "loop"
    BY <1>5, OwnershipQuiet
  <2>2. result' = result
    BY <1>5 DEF OwnershipStep, JoinedStep, StartJoined, StopJoined, StopJoinSettle, StartReset,
                StartFlags, StartSpawnFails, StartRestore, StartRepublish, StartSpawn, sessionVars
  <2>3. ASSUME NEW w \in Workers PROVE Cause(w)'
    BY <2>1, <2>2 DEF CauseInv, Cause, Live, EndingPcs, OpenPcs, ApiPcs, StartPcs, PendingPcs,
                      ResettingPcs, StopPcs, WaitPcs
  <2> QED
    BY <2>1, <2>3 DEF CauseInv
<1> QED
  BY <1>3, <1>4, <1>5

\* A constructed client has no worker to account for.
LEMMA CauseInit == Init => CauseInv
<1> SUFFICES ASSUME Init PROVE CauseInv
  OBVIOUS
<1>1. \A t \in Threads : pc[t] \in {"unborn", "idle"}
  BY DEF Init
<1>2. \A w \in Workers : w \in Threads /\ result[w] = "None"
  BY DEF Init, Threads
<1> QED
  BY <1>1, <1>2 DEF CauseInv, Cause, StopComing, EndingPcs, OpenPcs, ApiPcs, StartPcs,
                    PendingPcs, ResettingPcs, StopPcs, WaitPcs

\* Every step of the client preserves the causes.
LEMMA CauseNext ==
  ASSUME SafetyInv, ReportInv, CauseInv, [Next]_vars
  PROVE  CauseInv'
<1>1. ASSUME UNCHANGED <<pc, clientVars>> PROVE CauseInv'
  <2>1. StopComing' = StopComing /\ \A w \in Workers : Live(w)' = Live(w)
    BY <1>1 DEF StopComing, Live
  <2> QED
    BY <1>1, <2>1 DEF CauseInv, Cause, Faulted, clientVars, flagVars, reportVars, sessionVars,
                      linkVars
<1>2. ASSUME UNCHANGED vars \/ \E t \in Threads : SpuriousWake(t) PROVE CauseInv'
  BY <1>1, <1>2 DEF SpuriousWake, vars
<1> QED
  BY <1>2, CauseWorkerStep, CauseApi, NextCases

\* The causes hold in every reachable state.
LEMMA CauseInvariant == Spec => []CauseInv
BY SafetyInvariant, ReportInvariant, CauseInit, CauseNext, PTL DEF Spec

\* A worker blocked in receive() while stopping_ is up has been shut down or the stopper is
\* on its way to do it, and a shut down receive() means a stop, never a timeout.
THEOREM ReceiveIsWoken == Spec => []BlockedReceiveIsWoken
<1>1. CauseInv => BlockedReceiveIsWoken
  BY DEF CauseInv, Cause, OpenPcs, StopComing, BlockedReceiveIsWoken
<1> QED
  BY <1>1, CauseInvariant, PTL

-----------------------------------------------------------------------------
(* What steps do to data_mutex_ and to the threads asleep on               *)
(* first_sample_cv_.                                                       *)

\* Thread t keeps data_mutex_ as it is, takes it when it is free, or releases it.
LockStep(t) ==
  \/ data_mutex' = data_mutex /\ (pc'[t] \in DataPcs <=> pc[t] \in DataPcs)
  \/ data_mutex = Nobody /\ data_mutex' = t /\ pc'[t] \in DataPcs
  \/ pc[t] \in DataPcs /\ data_mutex' = Nobody /\ pc'[t] \notin DataPcs

SameVerdict ==
  /\ data'.generation = data.generation
  /\ data'.delivered_generation = data.delivered_generation
  /\ fault_code' = fault_code

\* A worker changes what waiters look at only with data_mutex_ free, and notifies them then
\* and when it dies.
WorkerWake(w) ==
  /\ LockStep(w)
  /\ \/ data_mutex = Nobody
     \/ UNCHANGED <<data, fault_code>> /\ (pc'[w] = "exitNotify" => Faulted)
  /\ UNCHANGED <<captured, saved, stopping>>
  /\ first_sample_cv' = {} \/ (SameVerdict /\ pc'[w] # "dead")
  /\ first_sample_cv' \subseteq first_sample_cv \cup {w}
  /\ data'.generation = data.generation
  /\ Faulted => fault_code' # "None"
  /\ pc'[w] = "dead" => pc[w] = "exitNotify"

\* Every step of the worker is such a step.
LEMMA WorkerWakes ==
  ASSUME TypeOK, NEW w \in Workers, WorkerStep(w)
  PROVE  WorkerWake(w)
<1>a. /\ pc \in [Threads -> Pcs] /\ w \in Threads /\ data \in DataRecord
  BY DEF TypeOK, Pcs, Threads
<1> USE <1>a DEF WorkerWake, LockStep, SameVerdict, DataRecord, DataPcs, Faulted, Move, GoTo,
            NotifyAll, callVars, lockVars, cvVars, flagVars, reportVars, startVars, apiVars
<1>1. CASE WLoop(w)
  BY <1>1 DEF WLoop
<1>2. CASE WConnecting(w)
  BY <1>2 DEF WConnecting
<1>3. CASE WDiscover(w)
  BY <1>3 DEF WDiscover, EndSession
<1>4. CASE WConnect(w)
  BY <1>4 DEF WConnect, EndSession
<1>5. CASE WStartRealtime(w)
  BY <1>5 DEF WStartRealtime, EndSession
<1>6. CASE WRecvCheck(w)
  BY <1>6 DEF WRecvCheck, EndSession
<1>7. CASE WReceiveFails(w)
  BY <1>7 DEF WReceiveFails, EndSession
<1>8. CASE WReceive(w)
  BY <1>8 DEF WReceive, EndSession
<1>9. CASE WMalformed(w)
  BY <1>9 DEF WMalformed, EndRecord
<1>10. CASE WRecord(w)
  BY <1>10 DEF WRecord, EndRecord, DropOutcomes
<1>11. CASE WCallbackReturns(w)
  BY <1>11 DEF WCallbackReturns
<1>12. CASE WCallbackThrows(w)
  BY <1>12 DEF WCallbackThrows, EndRecord, CallbackFailure
<1>13. CASE WDeliver(w)
  BY <1>13 DEF WDeliver, EndRecord
<1>14. CASE WClose(w)
  BY <1>14 DEF WClose, CloseSession, SendStopStreaming
<1>15. CASE WFailStop(w)
  BY <1>15 DEF WFailStop, Publish, FaultFor
<1>16. CASE WLeave(w)
  BY <1>16 DEF WLeave
<1>17. CASE WBackoff(w)
  BY <1>17 DEF WBackoff
<1>18. CASE WBackoffCheck(w)
  BY <1>18 DEF WBackoffCheck
<1>19. CASE WBackoffBlock(w)
  BY <1>19 DEF WBackoffBlock
<1>20. CASE WBackoffElapsed(w)
  BY <1>20 DEF WBackoffElapsed
<1>21. CASE WCatch(w)
  BY <1>21 DEF WCatch, Publish
<1>22. CASE WFinish(w)
  BY <1>22 DEF WFinish, CloseSession, SendStopStreaming
<1>23. CASE WExit(w)
  BY <1>23 DEF WExit
<1>24. CASE WSettle(w)
  BY <1>24 DEF WSettle, SettleStopped
<1>25. CASE WExitNotify(w)
  BY <1>25 DEF WExitNotify
<1>26. CASE WExited(w)
  BY <1>26 DEF WExited
<1> QED
  BY <1>1, <1>2, <1>3, <1>4, <1>5, <1>6, <1>7, <1>8, <1>9, <1>10, <1>11, <1>12, <1>13, <1>14,
     <1>15, <1>16, <1>17, <1>18, <1>19, <1>20, <1>21, <1>22, <1>23, <1>24, <1>25, <1>26
     DEF WorkerStep, SessionStep

\* An ordinary step of a call leaves what waiters look at alone, but that stop() raises
\* stopping_ and notifies; only waiters fall asleep on first_sample_cv_.
OrdinaryWake(t) ==
  /\ LockStep(t)
  /\ data' = data \/ data_mutex = Nobody
  /\ data'.generation = data.generation /\ data'.attempt = data.attempt
  /\ data'.delivered_generation = data.delivered_generation
  /\ captured' = [captured EXCEPT ![t] = captured'[t]]
  /\ first_sample_cv' \subseteq first_sample_cv \cup {t}
  /\ pc'[t] = "waitWoken" => WaitBlock(t)
  /\ pc'[t] = "waitBlock" => /\ pc[t] = "waitCheck" /\ ~WaitOver(captured[t])
                             /\ captured'[t] = captured[t]
  /\ pc'[t] = "waitedTrue" => WaitAnswerTrue(t)
  /\ pc'[t] \in TicketPcs =>
       \/ pc[t] \in TicketPcs /\ captured'[t] = captured[t]
       \/ /\ captured'[t] = [generation |-> data.generation, attempt |-> data.attempt]
          /\ data.generation # 0

\* Every ordinary step of a call is such a step.
LEMMA OrdinaryWakes ==
  ASSUME TypeOK, NEW t \in Threads, OrdinaryStep(t)
  PROVE  OrdinaryWake(t)
<1>a. /\ pc \in [Threads -> Pcs] /\ data \in DataRecord
      /\ captured \in [Threads -> [generation : 0 .. MaxStarts, attempt : 0 .. MaxStarts]]
  BY DEF TypeOK, Pcs
<1> USE <1>a DEF OrdinaryWake, LockStep, DataRecord, DataPcs, TicketPcs, Move, GoTo, Return, Home,
            NotifyAll, callVars, lockVars, cvVars, reportVars, clientVars
<1>1. CASE StartRejected(t)
  BY <1>1 DEF StartRejected
<1>2. CASE StartAwaitJoiner(t)
  BY <1>2 DEF StartAwaitJoiner
<1>3. CASE StartAwaitExit(t)
  BY <1>3 DEF StartAwaitExit
<1>4. CASE StartBlock(t)
  BY <1>4 DEF StartBlock
<1>5. CASE StartWake(t)
  BY <1>5 DEF StartWake
<1>6. CASE StartNotify(t)
  BY <1>6 DEF StartNotify
<1>7. CASE StopEnter(t)
  BY <1>7 DEF StopEnter
<1>8. CASE StopCommand(t)
  BY <1>8 DEF StopCommand
<1>9. CASE StopOnWorker(t)
  BY <1>9 DEF StopOnWorker
<1>10. CASE StopAwaitJoiner(t)
  BY <1>10 DEF StopAwaitJoiner
<1>11. CASE StopWake(t)
  BY <1>11 DEF StopWake
<1>12. CASE StopIdle(t)
  <2>1. pc[t] = "stopDecide" /\ UNCHANGED <<data_mutex, cvVars, clientVars>>
    BY <1>12 DEF StopIdle
  <2>2. CASE Return(t)
    BY <2>1, <2>2
  <2>3. CASE GoTo(t, "stopSettle") /\ UNCHANGED callVars
    BY <2>1, <2>3
  <2> QED
    BY <1>12, <2>2, <2>3 DEF StopIdle
<1>13. CASE StopNotify(t)
  BY <1>13 DEF StopNotify
<1>14. CASE WaitRefused(t)
  BY <1>14 DEF WaitRefused
<1>15. CASE WaitEnter(t)
  BY <1>15 DEF WaitEnter
<1>16. CASE WaitCheck(t)
  BY <1>16 DEF WaitCheck
<1>17. CASE WaitBlock(t)
  BY <1>17 DEF WaitBlock
<1>18. CASE WaitWake(t)
  BY <1>18 DEF WaitWake
<1>19. CASE WaitAnswerTrue(t)
  BY <1>19 DEF WaitAnswerTrue
<1>20. CASE WaitAnswerFalse(t)
  BY <1>20 DEF WaitAnswerFalse
<1>21. CASE WaitReturn(t)
  BY <1>21 DEF WaitReturn
<1>22. CASE Bias(t)
  BY <1>22 DEF Bias
<1>23. CASE WaitTimeout(t)
  BY <1>23 DEF WaitTimeout
<1>24. CASE Call(t)
  BY <1>24 DEF Call, Ops
<1>25. CASE StopSettle(t)
  BY <1>25 DEF StopSettle, SettleStopped
<1> QED
  BY <1>1, <1>2, <1>3, <1>4, <1>5, <1>6, <1>7, <1>8, <1>9, <1>10, <1>11, <1>12, <1>13, <1>14,
     <1>15, <1>16, <1>17, <1>18, <1>19, <1>20, <1>21, <1>22, <1>23, <1>24, <1>25
     DEF OrdinaryStep, WaitStep

-----------------------------------------------------------------------------
(* Waiters are woken *)

\* The worker's steps.
LEMMA WakeWorker ==
  ASSUME SafetyInv, ReportInv, CauseInv, WakeInv, NEW w \in Workers, WorkerStep(w)
  PROVE  WakeInv'
<1> USE NobodyIsNoThread
<1>1. /\ pc \in [Threads -> Pcs] /\ \A v \in Workers : v \in Threads
      /\ data_mutex \in Threads \cup {Nobody}
  BY DEF SafetyInv, TypeInv, TypeOK, Pcs, Threads
<1>2. WorkerWake(w)
  BY WorkerWakes DEF SafetyInv, TypeInv
<1>3. PICK q \in WorkerPcs \ {"unborn"} : pc' = [pc EXCEPT ![w] = q]
  BY WorkerFrames DEF SafetyInv, TypeInv, WorkerFrame
<1>4. \A u \in Threads : pc'[u] = IF u = w THEN q ELSE pc[u]
  BY <1>1, <1>3
<1>5. /\ Live(w)
      /\ \A v \in Workers : v # w => ~Live(v)'
      /\ ~Resetting /\ ~Resetting'
  BY ReportWorkerStep DEF Resetting
<1>6. SomeLive' <=> Live(w)'
  BY <1>5 DEF SomeLive
<1>7. ~Live(w)' => pc[w] = "exitNotify"
  BY <1>1, <1>2, <1>4, WorkerFrames DEF SafetyInv, TypeInv, WorkerFrame, WorkerWake, Live
<1>8. DataLockInv'
  BY <1>1, <1>2, <1>4 DEF WakeInv, DataLockInv, WorkerWake, LockStep
<1>9. IdleInv'
  <2>1. CASE Live(w)'
    BY <1>4, <1>5, <1>6, <2>1 DEF IdleInv, Resetting, ResettingPcs
  <2>2. CASE ~Live(w)'
    <3>1. stopping' \/ Faulted'
      BY <1>2, <1>7, <2>2 DEF CauseInv, Cause, EndingPcs, WorkerWake, Faulted
    <3> QED
      BY <1>4, <1>5, <3>1 DEF IdleInv, Resetting, ResettingPcs
  <2> QED
    BY <2>1, <2>2
<1>10. BlockInv'
  <2> SUFFICES ASSUME NEW u \in Threads
               PROVE  /\ pc'[u] \in TicketPcs => captured'[u].generation # 0
                      /\ pc'[u] = "waitBlock" =>
                           /\ data'.generation = captured'[u].generation
                           /\ data'.delivered_generation # captured'[u].generation
                           /\ fault_code' = "None"
                           /\ \A v \in Workers : pc'[v] # "exitNotify"
                           /\ stopping' => SomeLive' \/ Resetting'
    BY DEF BlockInv, Faulted
  <2>1. pc'[u] \in TicketPcs => u # w /\ pc'[u] = pc[u]
    BY <1>4 DEF TicketPcs, WorkerPcs
  <2>2. ASSUME pc[u] = "waitBlock"
        PROVE  /\ UNCHANGED <<data, fault_code>> /\ Live(w)' /\ fault_code = "None"
               /\ \A v \in Workers : pc'[v] # "exitNotify"
    <3>1. data_mutex # Nobody /\ ~Faulted /\ \A v \in Workers : pc[v] # "exitNotify"
      BY <1>1, <2>2 DEF WakeInv, DataLockInv, DataPcs, BlockInv
    <3> QED
      BY <1>1, <1>2, <1>4, <1>7, <3>1 DEF WorkerWake, Faulted
  <2> QED
    BY <1>2, <1>6, <2>1, <2>2 DEF WakeInv, BlockInv, WorkerWake, TicketPcs
<1>11. WakeUpToCome'
  <2> SUFFICES ASSUME NEW u \in Callers, u \in Threads, pc'[u] = "waitWoken",
                      u \in first_sample_cv', WaitOver(captured[u])'
               PROVE  (stopping /\ SomeLive)'
    BY DEF WakeUpToCome, SomeLive, Threads
  <2>1. u # w /\ pc[u] = "waitWoken" /\ u \in first_sample_cv
    BY <1>2, <1>4 DEF WorkerPcs, WorkerWake
  <2>2. SameVerdict /\ pc'[w] # "dead" /\ UNCHANGED <<captured, stopping>>
    BY <1>2 DEF WorkerWake
  <2>3. WaitOver(captured[u])
    BY <2>2 DEF WaitOver, SameVerdict, Faulted
  <2>4. stopping
    BY <1>5, <2>1, <2>3 DEF WakeInv, WakeUpToCome, Resetting
  <2>5. Live(w)'
    BY <1>1, <1>4, <2>2 DEF Live
  <2> QED
    BY <1>6, <2>2, <2>4, <2>5
<1> QED
  BY <1>8, <1>9, <1>10, <1>11 DEF WakeInv

\* The ordinary steps of calls: stop() raises stopping_ without data_mutex_, possibly just
\* before a waiter blocks, but then the worker is still to come to its end.
LEMMA WakeApi ==
  ASSUME SafetyInv, ReportInv, CauseInv, WakeInv, NEW t \in Threads, OrdinaryStep(t)
  PROVE  WakeInv'
<1> USE NobodyIsNoThread
<1>1. /\ pc \in [Threads -> Pcs] /\ \A v \in Workers : v \in Threads
      /\ captured \in [Threads -> [generation : 0 .. MaxStarts, attempt : 0 .. MaxStarts]]
      /\ data_mutex \in Threads \cup {Nobody}
  BY DEF SafetyInv, TypeInv, TypeOK, Pcs, Threads
<1>2. OrdinaryWake(t) /\ ApiFrame(t)
  BY OrdinaryWakes, ApiFrames DEF SafetyInv, TypeInv
<1>3. \A u \in Threads : u # t => pc'[u] = pc[u] /\ captured'[u] = captured[u]
  BY <1>1, <1>2 DEF OrdinaryWake, ApiFrame
<1>4. UNCHANGED <<fault_code, saved>>
  BY OrdinaryReports
<1>5. \/ stopping' = stopping
      \/ stopping' = TRUE /\ first_sample_cv' = {} /\ lifecycle_mutex = Nobody
  BY OrdinaryFlags DEF SafetyInv, TypeInv
<1>6. /\ \A w \in Workers : Live(w)' <=> Live(w)
      /\ \A w \in Workers : pc'[w] = "exitNotify" => pc[w] = "exitNotify"
  BY <1>1, <1>2, <1>3 DEF ApiFrame, Live, ApiPcs, StartPcs, PendingPcs, ResettingPcs, StopPcs,
                          WaitPcs
<1>7. \A u \in Threads : /\ pc'[u] \in ResettingPcs <=> pc[u] \in ResettingPcs
                         /\ pc'[u] \in ResettingPcs => pc'[u] = pc[u]
  BY <1>2, <1>3 DEF ApiFrame
<1>8. (SomeLive' <=> SomeLive) /\ (Resetting' <=> Resetting)
  BY <1>6, <1>7 DEF SomeLive, Resetting
<1>9. Resetting => stopping' = stopping
  BY <1>5, ResettingAlone DEF Resetting
<1>10. DataLockInv'
  BY <1>1, <1>2, <1>3 DEF WakeInv, DataLockInv, OrdinaryWake, LockStep
<1>11. IdleInv'
  <2>1. (data.generation # 0 /\ ~stopping /\ ~Faulted => SomeLive \/ Resetting)'
    BY <1>2, <1>4, <1>5, <1>8 DEF WakeInv, IdleInv, OrdinaryWake, Faulted
  <2>2. (Resetting /\ saved.data.generation # 0 /\ saved.fault = "None" => saved.stopping)'
    BY <1>4, <1>8 DEF WakeInv, IdleInv
  <2>3. ASSUME NEW u \in Threads, pc'[u] \in {"startRestore", "startRepublish"}
        PROVE  stopping' = saved'.stopping
    BY <1>4, <1>7, <1>9, <2>3 DEF WakeInv, IdleInv, Resetting, ResettingPcs
  <2> QED
    BY <2>1, <2>2, <2>3 DEF IdleInv
<1>12. ASSUME NEW u \in Threads, pc'[u] = "waitBlock"
       PROVE  /\ data'.generation = captured'[u].generation
              /\ data'.delivered_generation # captured'[u].generation
              /\ ~Faulted'
              /\ \A w \in Workers : pc'[w] # "exitNotify"
              /\ stopping' => SomeLive' \/ Resetting'
  <2>1. CASE u = t
    <3>1. pc[t] = "waitCheck" /\ ~WaitOver(captured[t]) /\ captured'[t] = captured[t]
      BY <1>2, <1>12, <2>1 DEF OrdinaryWake
    <3>2. ~stopping /\ ~Faulted /\ data.generation = captured[t].generation
          /\ data.delivered_generation # captured[t].generation /\ captured[t].generation # 0
      BY <3>1 DEF WaitOver, WakeInv, BlockInv, TicketPcs
    <3>3. \A w \in Workers : pc[w] # "exitNotify"
      BY <3>2 DEF CauseInv, Cause, EndingPcs
    <3>4. SomeLive \/ Resetting
      BY <3>2 DEF WakeInv, IdleInv
    <3> QED
      BY <1>2, <1>4, <1>6, <1>8, <2>1, <3>1, <3>2, <3>3, <3>4 DEF OrdinaryWake, Faulted
  <2>2. CASE u # t
    <3>1. pc[u] = "waitBlock" /\ captured'[u] = captured[u]
      BY <1>3, <1>12, <2>2
    <3>2. /\ data.generation = captured[u].generation /\ captured[u].generation # 0
          /\ data.delivered_generation # captured[u].generation
          /\ ~Faulted /\ (\A w \in Workers : pc[w] # "exitNotify")
          /\ stopping => SomeLive \/ Resetting
      BY <3>1 DEF WakeInv, BlockInv, TicketPcs
    <3>3. SomeLive \/ Resetting
      BY <3>2 DEF WakeInv, IdleInv
    <3> QED
      BY <1>2, <1>4, <1>6, <1>8, <3>1, <3>2, <3>3 DEF OrdinaryWake, Faulted
  <2> QED
    BY <2>1, <2>2
<1>13. BlockInv'
  <2>1. ASSUME NEW u \in Threads, pc'[u] \in TicketPcs PROVE captured'[u].generation # 0
    BY <1>2, <1>3, <2>1 DEF OrdinaryWake, WakeInv, BlockInv
  <2> QED
    BY <1>12, <2>1 DEF BlockInv
<1>14. WakeUpToCome'
  <2> SUFFICES ASSUME NEW u \in Callers, u \in Threads, pc'[u] = "waitWoken",
                      u \in first_sample_cv', WaitOver(captured[u])'
               PROVE  (stopping /\ SomeLive)' \/ Resetting'
    BY DEF WakeUpToCome, SomeLive, Resetting, Threads
  <2>1. stopping' = stopping
    BY <1>5
  <2>2. CASE u = t
    <3>1. WaitBlock(t)
      BY <1>2, <2>2 DEF OrdinaryWake
    <3>2. pc[t] = "waitBlock" /\ captured' = captured
      BY <3>1 DEF WaitBlock, Move, callVars
    <3>3. stopping' /\ (SomeLive \/ Resetting)
      BY <1>2, <1>4, <2>1, <2>2, <3>2 DEF WakeInv, BlockInv, WaitOver, OrdinaryWake, Faulted
    <3> QED
      BY <1>8, <3>3
  <2>3. CASE u # t
    <3>1. pc[u] = "waitWoken" /\ u \in first_sample_cv
      BY <1>2, <1>3, <2>3 DEF OrdinaryWake
    <3>2. WaitOver(captured[u])
      BY <1>2, <1>3, <1>4, <2>1, <2>3 DEF WaitOver, OrdinaryWake, Faulted
    <3> QED
      BY <1>8, <2>1, <3>1, <3>2 DEF WakeInv, WakeUpToCome, SomeLive, Resetting
  <2> QED
    BY <2>2, <2>3
<1> QED
  BY <1>10, <1>11, <1>13, <1>14 DEF WakeInv

\* Taking the handle, and the ends of joins, touch nothing that waiters look at.
LEMMA WakeHandle ==
  ASSUME SafetyInv, WakeInv, NEW t \in Threads, HandleStep(t) \/ StopJoinSettle(t)
  PROVE  WakeInv'
<1>1. /\ pc \in [Threads -> Pcs] /\ (\A v \in Workers : v \in Threads) /\ data \in DataRecord
  BY DEF SafetyInv, TypeInv, TypeOK, Pcs, Threads
<1>2. PICK q \in {"startJoin", "stopJoin", "startNotify", "stopNotify", "stopJoinSettle"} :
        /\ pc' = [pc EXCEPT ![t] = q]
        /\ pc[t] \in {"start", "stopDecide", "startJoin", "stopJoin", "stopJoinSettle"}
  BY DEF HandleStep, StartReap, StopReap, StartJoined, StopJoined, StopJoinSettle, Move, GoTo
<1>3. UNCHANGED <<captured, data_mutex, first_sample_cv, stopping, fault_code, saved>>
  BY DEF HandleStep, StartReap, StopReap, StartJoined, StopJoined, StopJoinSettle, callVars,
         lockVars, cvVars, flagVars, reportVars, startVars
<1>4. /\ data' = data \/ data_mutex = Nobody
      /\ data'.generation = data.generation
      /\ data'.delivered_generation = data.delivered_generation
  BY <1>1 DEF HandleStep, StartReap, StopReap, StartJoined, StopJoined, StopJoinSettle,
              SettleStopped, reportVars, DataRecord
<1>5. \A u \in Threads : pc'[u] = IF u = t THEN q ELSE pc[u]
  BY <1>1, <1>2
<1>6. /\ \A w \in Workers : Live(w)' <=> Live(w)
      /\ \A u \in Threads : pc'[u] \in ResettingPcs <=> pc[u] \in ResettingPcs
      /\ \A u \in Threads : pc'[u] \in DataPcs \cup TicketPcs \cup {"exitNotify", "startRestore",
                                                                   "startRepublish"}
                              => pc'[u] = pc[u]
  BY <1>1, <1>2, <1>5 DEF Live, ResettingPcs, DataPcs, TicketPcs
<1>7. (SomeLive' <=> SomeLive) /\ (Resetting' <=> Resetting)
  BY <1>6 DEF SomeLive, Resetting
<1>8. DataLockInv'
  BY <1>1, <1>2, <1>3, <1>5 DEF WakeInv, DataLockInv, DataPcs
<1>9. IdleInv'
  BY <1>3, <1>4, <1>6, <1>7 DEF WakeInv, IdleInv, Faulted
<1>10. BlockInv'
  BY <1>1, <1>3, <1>4, <1>6, <1>7 DEF WakeInv, BlockInv, Faulted, TicketPcs
<1>11. WakeUpToCome'
  <2> SUFFICES ASSUME NEW u \in Callers, u \in Threads, pc'[u] = "waitWoken",
                      u \in first_sample_cv', WaitOver(captured[u])'
               PROVE  (stopping /\ SomeLive)' \/ Resetting'
    BY DEF WakeUpToCome, SomeLive, Resetting, Threads
  <2>1. pc[u] = "waitWoken" /\ u \in first_sample_cv /\ WaitOver(captured[u])
    BY <1>3, <1>4, <1>6 DEF TicketPcs, WaitOver, Faulted
  <2> QED
    BY <1>3, <1>7, <2>1 DEF WakeInv, WakeUpToCome, SomeLive, Resetting
<1> QED
  BY <1>8, <1>9, <1>10, <1>11 DEF WakeInv

\* While start() resets the client, waiters have its notification to come.
LEMMA WakeReset ==
  ASSUME SafetyInv, ReportInv, WakeInv, NEW t \in Threads,
         StartReset(t) \/ StartFlags(t) \/ StartSpawnFails(t) \/ StartRestore(t)
  PROVE  WakeInv'
<1> USE NobodyIsNoThread
<1>1. /\ pc \in [Threads -> Pcs] /\ (\A v \in Workers : v \in Threads) /\ data \in DataRecord
      /\ data_mutex \in Threads \cup {Nobody}
  BY DEF SafetyInv, TypeInv, TypeOK, Pcs, Threads
<1>2. /\ pc[t] \in {"start", "startFlags", "startSpawn", "startRestore"}
      /\ \E q \in ResettingPcs : pc' = [pc EXCEPT ![t] = q]
      /\ UNCHANGED <<captured, data_mutex, first_sample_cv>>
  BY DEF StartReset, StartFlags, StartSpawnFails, StartRestore, Move, GoTo, callVars, lockVars,
         cvVars, ResettingPcs
<1>3. \A u \in Threads : pc'[u] = IF u = t THEN pc'[t] ELSE pc[u]
  BY <1>1, <1>2
<1>4. Resetting' /\ pc'[t] \in ResettingPcs
  BY <1>1, <1>2 DEF Resetting
<1>5. DataLockInv'
  BY <1>2, <1>3, <1>4 DEF WakeInv, DataLockInv, DataPcs, ResettingPcs
<1>6. \A u \in Threads : u # t => pc[u] \notin {"startRestore", "startRepublish"}
  <2>1. CASE StartReset(t)
    BY <2>1, ResettingAlone DEF StartReset, EnterStart, ResettingPcs
  <2>2. CASE pc[t] \in ResettingPcs
    BY <2>2, ResettingAlone DEF LockedPcs
  <2> QED
    BY <2>1, <2>2 DEF StartFlags, StartSpawnFails, StartRestore, Move, ResettingPcs
<1>7. IdleInv'
  <2>1. (saved.data.generation # 0 /\ saved.fault = "None" => saved.stopping)'
    <3>1. CASE StartReset(t)
      <4>1. /\ lifecycle_mutex = Nobody
            /\ saved'.data = data /\ saved'.fault = fault_code /\ saved'.stopping = stopping
        BY <3>1 DEF StartReset, EnterStart, ResetState
      <4>2. ~SomeLive /\ ~Resetting
        BY <3>1, <4>1, OwnershipReset, ResettingAlone DEF SomeLive, Resetting
      <4> QED
        BY <4>1, <4>2 DEF WakeInv, IdleInv, Faulted
    <3>2. CASE pc[t] \in ResettingPcs /\ saved' = saved
      BY <3>2 DEF WakeInv, IdleInv, Resetting
    <3> QED
      BY <3>1, <3>2 DEF StartFlags, StartSpawnFails, StartRestore, Move, ResettingPcs, startVars
  <2>2. pc'[t] \in {"startRestore", "startRepublish"} => stopping' = saved'.stopping
    <3>1. CASE StartReset(t) \/ StartFlags(t)
      BY <1>1, <3>1 DEF StartReset, StartFlags, Move, GoTo
    <3>2. CASE StartSpawnFails(t)
      BY <3>2 DEF StartSpawnFails, startVars
    <3>3. CASE StartRestore(t)
      BY <3>3 DEF StartRestore, Move, startVars, flagVars, WakeInv, IdleInv
    <3> QED
      BY <3>1, <3>2, <3>3
  <2> QED
    BY <1>3, <1>4, <1>6, <2>1, <2>2 DEF IdleInv
<1>8. BlockInv'
  <2>1. ASSUME NEW u \in Threads, pc'[u] \in TicketPcs
        PROVE  pc[u] = pc'[u] /\ captured'[u] = captured[u]
    BY <1>2, <1>3, <1>4, <2>1 DEF TicketPcs, ResettingPcs
  <2>2. ASSUME NEW u \in Threads, pc[u] = "waitBlock"
        PROVE  UNCHANGED <<data, fault_code>> /\ \A w \in Workers : pc'[w] = pc[w] \/ w = t
    <3>1. data_mutex # Nobody
      BY <2>2 DEF WakeInv, DataLockInv, DataPcs
    <3> QED
      BY <1>1, <1>3, <3>1 DEF StartReset, ResetState, StartFlags, StartSpawnFails, StartRestore,
                              reportVars
  <2> QED
    BY <1>4, <2>1, <2>2 DEF WakeInv, BlockInv, TicketPcs, ResettingPcs, Faulted
<1>9. WakeUpToCome'
  BY <1>4 DEF WakeUpToCome, Resetting
<1> QED
  BY <1>5, <1>7, <1>8, <1>9 DEF WakeInv

\* start() ends its reset with a notification, and leaves a worker or what it found.
LEMMA WakeEnd ==
  ASSUME SafetyInv, ReportInv, WakeInv, NEW t \in Threads, StartSpawn(t) \/ StartRepublish(t)
  PROVE  WakeInv'
<1> USE NobodyIsNoThread
<1>1. /\ pc \in [Threads -> Pcs] /\ (\A v \in Workers : v \in Threads) /\ data \in DataRecord
      /\ data_mutex \in Threads \cup {Nobody}
      /\ captured \in [Threads -> [generation : 0 .. MaxStarts, attempt : 0 .. MaxStarts]]
  BY DEF SafetyInv, TypeInv, TypeOK, Pcs, Threads
<1>2. pc[t] \in ResettingPcs
  BY DEF StartSpawn, StartRepublish, ResettingPcs
<1>3. /\ \A w \in Workers : ~Live(w)
      /\ t \notin Workers /\ \A u \in Threads : pc[u] \in LockedPcs => u = t
  BY <1>2, ResettingAlone
<1>4. first_sample_cv' = {} /\ UNCHANGED <<data_mutex, stopping>>
  BY DEF StartSpawn, StartRepublish, NotifyAll, flagVars
<1>5. \A u \in Threads : /\ u # t => captured'[u] = captured[u]
                         /\ pc'[u] = pc[u] \/ pc'[u] \in {"idle", "loop"}
                         /\ pc'[u] # pc[u] => u = t \/ u \in {w \in Workers : ~Live(w)}
                         /\ pc'[t] \notin ResettingPcs
  <2>1. CASE StartRepublish(t)
    BY <1>1, <1>3, <2>1 DEF StartRepublish, Return, GoTo, Home, Threads, ResettingPcs
  <2>2. CASE StartSpawn(t)
    <3>1. pc' = [pc EXCEPT ![t] = "idle", ![attempts] = "loop"] /\ captured' = captured
      BY <1>3, <2>2 DEF StartSpawn, Home, Threads
    <3>2. attempts \in Workers
      BY <2>2, ReportSpawn
    <3> QED
      BY <1>1, <1>3, <3>1, <3>2 DEF ResettingPcs
  <2> QED
    BY <2>1, <2>2
<1>6. ~Resetting'
  BY <1>3, <1>5 DEF Resetting, LockedPcs, ResettingPcs
<1>7. DataLockInv'
  <2>1. \A u \in Threads : pc'[u] \in DataPcs <=> pc[u] \in DataPcs
    BY <1>2, <1>5 DEF DataPcs, ResettingPcs, Live
  <2> QED
    BY <1>4, <2>1 DEF WakeInv, DataLockInv
<1>8. IdleInv'
  <2>1. CASE StartSpawn(t)
    BY <1>6, <2>1, ReportSpawn DEF IdleInv, SomeLive, Resetting, ResettingPcs
  <2>2. CASE StartRepublish(t)
    <3>1. data' = saved.data /\ fault_code' = saved.fault /\ stopping = saved.stopping
      BY <2>2, ReportRepublish DEF StartRepublish, WakeInv, IdleInv
    <3> QED
      BY <1>2, <1>4, <1>6, <3>1 DEF WakeInv, IdleInv, Faulted, Resetting, ResettingPcs
  <2> QED
    BY <2>1, <2>2
<1>9. BlockInv'
  <2>1. ASSUME NEW u \in Threads, pc'[u] \in TicketPcs
        PROVE  pc[u] = pc'[u] /\ captured'[u] = captured[u]
    BY <1>2, <1>5, <2>1 DEF TicketPcs, ResettingPcs
  <2>2. ASSUME NEW u \in Threads, pc[u] = "waitBlock"
        PROVE  UNCHANGED <<data, fault_code>> /\ SomeLive'
    <3>1. data_mutex # Nobody
      BY <2>2 DEF WakeInv, DataLockInv, DataPcs
    <3>2. StartSpawn(t)
      BY <3>1 DEF StartRepublish
    <3> QED
      BY <3>2, ReportSpawn DEF StartSpawn, reportVars, SomeLive
  <2>3. \A w \in Workers : pc'[w] # "exitNotify"
    BY <1>1, <1>3, <1>5 DEF Live
  <2> QED
    BY <2>1, <2>2, <2>3 DEF WakeInv, BlockInv, TicketPcs, Faulted
<1>10. WakeUpToCome'
  BY <1>4 DEF WakeUpToCome
<1> QED
  BY <1>7, <1>8, <1>9, <1>10 DEF WakeInv

\* A constructed client has nobody waiting.
LEMMA WakeInit == Init => WakeInv
<1> SUFFICES ASSUME Init PROVE WakeInv
  OBVIOUS
<1>1. \A t \in Threads : pc[t] \in {"unborn", "idle"}
  BY DEF Init
<1>2. DataLockInv
  BY <1>1, NobodyIsNoThread DEF Init, DataLockInv, DataPcs
<1>3. IdleInv
  BY <1>1 DEF Init, IdleInv, InitialData, Resetting, ResettingPcs
<1> QED
  BY <1>1, <1>2, <1>3 DEF WakeInv, BlockInv, WakeUpToCome, TicketPcs, Threads

\* Every step of the client preserves the invariant; a spurious wake-up only has fewer
\* threads asleep.
LEMMA WakeNext ==
  ASSUME SafetyInv, ReportInv, CauseInv, WakeInv, [Next]_vars
  PROVE  WakeInv'
<1>1. ASSUME UNCHANGED <<pc, callVars, lockVars, clientVars>>,
             first_sample_cv' \subseteq first_sample_cv
      PROVE  WakeInv'
  <2>1. UNCHANGED <<captured, data_mutex, data, fault_code, stopping, saved>>
    BY <1>1 DEF callVars, lockVars, clientVars, flagVars, reportVars, startVars
  <2>2. (SomeLive' <=> SomeLive) /\ (Resetting' <=> Resetting)
    BY <1>1 DEF SomeLive, Resetting, Live
  <2>3. DataLockInv' /\ IdleInv' /\ BlockInv'
    BY <1>1, <2>1, <2>2 DEF WakeInv, DataLockInv, IdleInv, BlockInv, Faulted
  <2>4. WakeUpToCome'
    BY <1>1, <2>1 DEF WakeInv, WakeUpToCome, WaitOver, Faulted, Live
  <2> QED
    BY <2>3, <2>4 DEF WakeInv
<1>2. ASSUME NEW t \in Threads, OwnershipStep(t) PROVE WakeInv'
  BY <1>2, WakeHandle, WakeReset, WakeEnd DEF OwnershipStep, JoinedStep, HandleStep
<1>3. ASSUME UNCHANGED vars \/ \E t \in Threads : SpuriousWake(t) PROVE WakeInv'
  BY <1>1, <1>3 DEF SpuriousWake, vars, cvVars
<1> QED
  BY <1>2, <1>3, WakeWorker, WakeApi, NextCases

\* The invariant holds in every reachable state.
LEMMA WakeInvariant == Spec => []WakeInv
BY SafetyInvariant, ReportInvariant, CauseInvariant, WakeInit, WakeNext, PTL DEF Spec

\* An application thread asleep although its wait is over has a notification to come before its
\* deadline: from the worker that a stop() is ending, another thread, although that stop()'s own
\* notification came too early, or from the start() that is resetting the client.  Nothing is
\* claimed of a wait made in the callback: the worker it would take is the one that sleeps.
THEOREM WaiterIsWoken == Spec => []WakeUpToCome
<1>1. WakeInv => WakeUpToCome
  BY DEF WakeInv
<1> QED
  BY <1>1, WakeInvariant, PTL

-----------------------------------------------------------------------------
(* A waiter's answer is about its own start.  generation is rolled back by *)
(* a failed start() and used again by the next one, so this holds only     *)
(* where thread creation does not fail; GenerationReuse.cfg has the        *)
(* counterexample otherwise.                                               *)

\* Without rollbacks the generations count the starts, also the ones waiters remember.
TicketInv ==
  /\ data.generation = attempts /\ data.attempt = attempts
  /\ \A t \in Threads :
       /\ pc[t] \notin {"startRestore", "startRepublish"}
       /\ pc[t] \in TicketPcs => captured[t].generation = captured[t].attempt

\* What every step but those of a reset does to the numbers and to the tickets.
LEMMA TicketFrame ==
  ASSUME TicketInv, UNCHANGED attempts,
         data'.generation = data.generation, data'.attempt = data.attempt,
         \A u \in Threads : /\ pc'[u] \notin {"startRestore", "startRepublish"}
                            /\ pc'[u] \in TicketPcs =>
                                 \/ pc[u] \in TicketPcs /\ captured'[u] = captured[u]
                                 \/ captured'[u] = [generation |-> data.generation,
                                                    attempt |-> data.attempt]
  PROVE  TicketInv'
BY DEF TicketInv

\* Every step preserves the numbers, and only WaitAnswerTrue answers true.
LEMMA TicketNext ==
  ASSUME SpawnCanFail = FALSE, SafetyInv, ReportInv, WakeInv, TicketInv, [Next]_vars
  PROVE  /\ TicketInv'
         /\ \A t \in Threads :
              pc[t] # "waitedTrue" /\ pc'[t] = "waitedTrue" => WaitAnswerTrue(t)
<1>1. /\ pc \in [Threads -> Pcs] /\ (\A v \in Workers : v \in Threads) /\ data \in DataRecord
      /\ captured \in [Threads -> [generation : 0 .. MaxStarts, attempt : 0 .. MaxStarts]]
      /\ attempts \in 0 .. MaxStarts
  BY DEF SafetyInv, TypeInv, TypeOK, Pcs, Threads
<1> DEFINE Goal == /\ TicketInv'
                   /\ \A t \in Threads :
                        pc[t] # "waitedTrue" /\ pc'[t] = "waitedTrue" => WaitAnswerTrue(t)
<1>2. ASSUME UNCHANGED vars \/ \E t \in Threads : SpuriousWake(t) PROVE Goal
  <2>1. UNCHANGED <<pc, captured, data, attempts>>
    BY <1>2 DEF SpuriousWake, vars, callVars, clientVars, reportVars, startVars
  <2> QED
    BY <2>1 DEF TicketInv
<1>3. ASSUME NEW w \in Workers, WorkerStep(w) PROVE Goal
  <2>1. WorkerFrame(w) /\ WorkerWake(w)
    BY <1>3, WorkerFrames, WorkerWakes DEF SafetyInv, TypeInv
  <2>2. data'.attempt = data.attempt
    BY <1>3, ReportWorkerStep DEF WorkerReport
  <2>3. PICK q \in WorkerPcs : pc' = [pc EXCEPT ![w] = q]
    BY <2>1 DEF WorkerFrame
  <2>4. \A u \in Threads : pc'[u] = IF u = w THEN q ELSE pc[u]
    BY <1>1, <2>3
  <2>5. TicketInv'
    <3>1. /\ UNCHANGED <<attempts, captured>> /\ data'.generation = data.generation
      BY <2>1 DEF WorkerFrame, WorkerWake
    <3>2. \A u \in Threads : /\ pc'[u] \notin {"startRestore", "startRepublish"}
                             /\ pc'[u] \in TicketPcs => pc[u] \in TicketPcs
      BY <2>4 DEF TicketInv, WorkerPcs, TicketPcs
    <3> QED
      BY <2>2, <3>1, <3>2, TicketFrame
  <2> QED
    BY <2>4, <2>5 DEF WorkerPcs
<1>4. ASSUME NEW t \in Threads, OrdinaryStep(t) PROVE Goal
  <2>1. OrdinaryWake(t) /\ ApiFrame(t) /\ UNCHANGED attempts
    BY <1>4, OrdinaryWakes, ApiFrames, OrdinaryReports DEF SafetyInv, TypeInv
  <2>2. \A u \in Threads : u # t => pc'[u] = pc[u] /\ captured'[u] = captured[u]
    BY <1>1, <2>1 DEF OrdinaryWake, ApiFrame
  <2>3. pc'[t] \notin {"startRestore", "startRepublish"}
    BY <2>1 DEF ApiFrame, TicketInv, ResettingPcs
  <2>4. TicketInv'
    <3>1. data'.generation = data.generation /\ data'.attempt = data.attempt
      BY <2>1 DEF OrdinaryWake
    <3>2. \A u \in Threads : /\ pc'[u] \notin {"startRestore", "startRepublish"}
                             /\ pc'[u] \in TicketPcs =>
                                  \/ pc[u] \in TicketPcs /\ captured'[u] = captured[u]
                                  \/ captured'[u] = [generation |-> data.generation,
                                                     attempt |-> data.attempt]
      BY <2>1, <2>2, <2>3 DEF OrdinaryWake, TicketInv
    <3> QED
      BY <2>1, <3>1, <3>2, TicketFrame
  <2> QED
    BY <2>1, <2>2, <2>4 DEF OrdinaryWake
<1>5. ASSUME NEW t \in Threads, StartReset(t) PROVE Goal
  <2>1. /\ data'.generation = attempts' /\ data'.attempt = attempts'
        /\ UNCHANGED captured /\ pc' = [pc EXCEPT ![t] = "startFlags"]
    BY <1>1, <1>5 DEF StartReset, ResetState, Move, GoTo, callVars, TicketInv
  <2> QED
    BY <1>1, <2>1 DEF TicketInv, TicketPcs
<1>6. ASSUME NEW t \in Threads,
             HandleStep(t) \/ StopJoinSettle(t) \/ StartFlags(t)
      PROVE  Goal
  <2>1. /\ UNCHANGED <<attempts, captured>>
        /\ data'.generation = data.generation /\ data'.attempt = data.attempt
        /\ \E q \in {"startJoin", "stopJoin", "startNotify", "stopNotify", "stopJoinSettle",
                      "startSpawn"} : pc' = [pc EXCEPT ![t] = q]
    BY <1>1, <1>6 DEF HandleStep, StartReap, StopReap, StartJoined, StopJoined, StopJoinSettle,
                      StartFlags, SettleStopped, Move, GoTo, callVars, reportVars, startVars,
                      DataRecord
  <2> QED
    BY <1>1, <2>1, TicketFrame DEF TicketInv, TicketPcs
<1>7. ASSUME NEW t \in Threads, StartSpawn(t) PROVE Goal
  <2>1. /\ UNCHANGED <<attempts, captured, data>>
        /\ pc' = [pc EXCEPT ![t] = Home(t), ![attempts] = "loop"]
    BY <1>7 DEF StartSpawn, reportVars
  <2>2. \A u \in Threads : pc'[u] \in {pc[u], "idle", "callback", "loop"}
    BY <1>1, <2>1 DEF Home
  <2> QED
    BY <2>1, <2>2, TicketFrame DEF TicketInv, TicketPcs
<1>8. ASSUME NEW t \in Threads, OwnershipStep(t) PROVE Goal
  BY <1>5, <1>6, <1>7, <1>8 DEF OwnershipStep, JoinedStep, HandleStep, StartSpawnFails,
                                StartRestore, StartRepublish, Move, TicketInv
<1> QED
  BY <1>2, <1>3, <1>4, <1>8, NextCases

\* If thread creation does not fail, wait_for_first_sample() says true only when the sample
\* belongs to the start that was current at the call, and never for the sample of an earlier
\* or of a later one.
THEOREM WaiterAnswers == SpawnCanFail = FALSE => (Spec => WaiterAnswersForItsStart)
<1> SUFFICES ASSUME SpawnCanFail = FALSE PROVE Spec => WaiterAnswersForItsStart
  OBVIOUS
<1>1. Init => TicketInv
  BY DEF Init, InitialData, TicketInv, TicketPcs
<1>2. SafetyInv /\ ReportInv /\ WakeInv /\ TicketInv /\ [Next]_vars => TicketInv'
  BY TicketNext
<1>3. SafetyInv /\ ReportInv /\ WakeInv /\ TicketInv /\ [Next]_vars
        => [\A t \in Threads :
              pc[t] # "waitedTrue" /\ pc'[t] = "waitedTrue"
                => captured[t].attempt = data.attempt /\ data.latest = data.attempt]_vars
  <2> SUFFICES ASSUME SafetyInv, ReportInv, WakeInv, TicketInv, [Next]_vars,
                      NEW t \in Threads, pc[t] # "waitedTrue", pc'[t] = "waitedTrue"
               PROVE  captured[t].attempt = data.attempt /\ data.latest = data.attempt
    OBVIOUS
  <2>1. pc[t] = "waitAnswer" /\ WaitAnswer(captured[t])
    BY TicketNext DEF WaitAnswerTrue, Move
  <2>2. captured[t].generation # 0 /\ captured[t].generation = captured[t].attempt
    BY <2>1 DEF WakeInv, BlockInv, TicketInv, TicketPcs
  <2> QED
    BY <2>1, <2>2 DEF WaitAnswer, TicketInv, ReportInv, LatestInv, Coherent
<1> QED
  BY <1>1, <1>2, <1>3, SafetyInvariant, ReportInvariant, WakeInvariant, PTL
     DEF Spec, WaiterAnswersForItsStart

=============================================================================
