--------------------------- MODULE LifecycleProofs ---------------------------
(***************************************************************************)
(* Proofs about Lifecycle, for any number of application threads and of    *)
(* starts, either policy and any failures.                                 *)
(***************************************************************************)
EXTENDS Lifecycle, FiniteSetTheorems, TLAPS

-----------------------------------------------------------------------------
(* Type correctness.  It rests on two facts about counters: generation_    *)
(* never exceeds the number of start attempts, and the attempts, with the  *)
(* start() calls that may still become one, stay within the bound.         *)

GenerationInv == data.generation <= attempts /\ saved.data.generation <= attempts

BudgetInv == attempts + Cardinality(Pending) <= MaxStarts

TypeInv == TypeOK /\ GenerationInv /\ BudgetInv

Pcs == ApiPcs \cup WorkerPcs \cup {"idle"}

\* What a step that consumes no budget has to establish.
TypeStep == TypeOK' /\ GenerationInv' /\ attempts' = attempts /\ Pending' \subseteq Pending

USE ConstantsAssumption

\* There are finitely many threads.
LEMMA ThreadsFinite == IsFiniteSet(Threads)
<1>1. IsFiniteSet(Workers)
  BY FS_Interval DEF Workers
<1> QED
  BY <1>1, FS_Union DEF Threads

\* A constructed client satisfies the type invariant.
LEMMA TypeInit == Init => TypeInv
<1> SUFFICES ASSUME Init PROVE TypeInv
  OBVIOUS
<1>1. pc \in [Threads -> ApiPcs \cup WorkerPcs \cup {"idle"}]
  BY DEF Init, ApiPcs, WorkerPcs
<1>2. data \in DataRecord /\ saved \in SavedRecord
  BY DEF Init, InitialData, NothingSaved, Nobody, DataRecord, SavedRecord, FaultCodes
<1>3. TypeOK
  <2>1. /\ handle \in [Threads -> 0 .. MaxStarts]
        /\ captured \in [Threads -> [generation : 0 .. MaxStarts, attempt : 0 .. MaxStarts]]
        /\ born \in [Threads -> 0 .. MaxStarts]
    BY DEF Init, NoCapture, Nobody
  <2>2. result \in [Workers -> SessionFailures \cup {"None", "Stopped"}]
    BY DEF Init
  <2>3. /\ joining \in BOOLEAN /\ stopping \in BOOLEAN /\ worker_exited \in BOOLEAN
        /\ session_started \in BOOLEAN /\ shutdown_requested \in BOOLEAN /\ stop_owed \in BOOLEAN
    BY DEF Init
  <2>4. /\ lifecycle_mutex \in Threads \cup {Nobody} /\ data_mutex \in Threads \cup {Nobody}
        /\ lifecycle_cv \subseteq Threads /\ first_sample_cv \subseteq Threads
        /\ worker \in 0 .. MaxStarts /\ active_worker_id \in 0 .. MaxStarts
        /\ fault_code \in FaultCodes /\ attempts \in 0 .. MaxStarts
    BY DEF Init, Nobody, FaultCodes
  <2> QED
    BY <1>1, <1>2, <2>1, <2>2, <2>3, <2>4 DEF TypeOK
<1>4. GenerationInv
  BY DEF Init, GenerationInv, InitialData, NothingSaved
<1>5. Pending = {}
  BY DEF Init, Pending, PendingPcs
<1>6. BudgetInv
  BY <1>5, FS_EmptySet DEF BudgetInv, Init
<1> QED
  BY <1>3, <1>4, <1>6 DEF TypeInv

\* The end of a join keeps the types of the handles and of worker_'s owner fields.
LEMMA JoiningTypes ==
  ASSUME TypeOK, NEW t \in Threads, EndJoining(t)
  PROVE  /\ handle' \in [Threads -> 0 .. MaxStarts] /\ active_worker_id' \in 0 .. MaxStarts
         /\ joining' \in BOOLEAN /\ worker' = worker
<1>1. /\ handle' = [handle EXCEPT ![t] = Nobody] /\ active_worker_id' = Nobody
      /\ joining' = FALSE /\ worker' = worker
  BY Zenon DEF EndJoining
<1>2. handle \in [Threads -> 0 .. MaxStarts]
  BY DEF TypeOK
<1>3. Nobody \in 0 .. MaxStarts
  BY DEF Nobody
<1>4. handle' \in [Threads -> 0 .. MaxStarts]
  BY <1>1, <1>2, <1>3
<1> QED
  BY <1>1, <1>3, <1>4

\* Every step of start() but the reset keeps the types and takes no budget.
LEMMA TypeStart ==
  ASSUME TypeInv, NEW t \in Threads, StartStep(t), ~StartReset(t)
  PROVE  TypeStep
<1> USE DEF TypeInv, TypeOK, GenerationInv, Nobody, Move, GoTo, Return, Home, Pending, PendingPcs,
            ResettingPcs, StartPcs, StopPcs, WaitPcs, ApiPcs, WorkerPcs, TypeStep, NotifyAll,
            NoCapture, callVars, lockVars, cvVars, ownerVars, flagVars, reportVars, linkVars,
            sessionVars, startVars, apiVars, clientVars
<1>1. CASE StartRejected(t)
  BY <1>1 DEF StartRejected
<1>2. CASE StartAwaitJoiner(t)
  BY <1>2 DEF StartAwaitJoiner
<1>3. CASE StartAwaitExit(t)
  BY <1>3 DEF StartAwaitExit
<1>4. CASE StartBlock(t)
  BY <1>4 DEF StartBlock
<1>5. CASE StartWake(t)
  <2>1. pc' \in [Threads -> Pcs] /\ Pending' \subseteq Pending
    BY <1>5 DEF StartWake, Pcs
  <2>2. lifecycle_mutex' \in Threads \cup {Nobody}
    BY <1>5 DEF StartWake
  <2> QED
    BY <1>5, <2>1, <2>2 DEF StartWake, Pcs
<1>6. CASE StartReap(t)
  BY <1>6 DEF StartReap, TakeWorker
<1>7. CASE StartJoined(t)
  BY <1>7, JoiningTypes DEF StartJoined
<1>8. CASE StartNotify(t)
  BY <1>8 DEF StartNotify
<1>9. CASE StartFlags(t)
  BY <1>9 DEF StartFlags
<1>10. CASE StartSpawn(t)
  <2>1. pc' \in [Threads -> Pcs]
    BY <1>10 DEF StartSpawn, Pcs
  <2>2. Pending' \subseteq Pending
    BY <1>10 DEF StartSpawn
  <2>3. saved' \in SavedRecord /\ saved'.data.generation = 0
    BY <1>10 DEF StartSpawn, NothingSaved, InitialData, SavedRecord, DataRecord, FaultCodes
  <2> QED
    BY <1>10, <2>1, <2>2, <2>3 DEF StartSpawn, Pcs
<1>11. CASE StartSpawnFails(t)
  BY <1>11 DEF StartSpawnFails, SavedRecord
<1>12. CASE StartRestore(t)
  BY <1>12 DEF StartRestore, SavedRecord
<1>13. CASE StartRepublish(t)
  <2>1. saved' \in SavedRecord /\ saved'.data.generation = 0
    BY <1>13 DEF StartRepublish, NothingSaved, InitialData, SavedRecord, DataRecord, FaultCodes
  <2>2. fault_code' \in FaultCodes
    BY <1>13 DEF StartRepublish, SavedRecord
  <2>3. data' \in DataRecord /\ data'.generation = data.generation
    BY <1>13 DEF StartRepublish, DataRecord
  <2>4. pc' \in [Threads -> Pcs] /\ Pending' \subseteq Pending
    BY <1>13 DEF StartRepublish, Pcs
  <2> QED
    BY <1>13, <2>1, <2>2, <2>3, <2>4 DEF StartRepublish, Pcs
<1> QED
  BY <1>1, <1>2, <1>3, <1>4, <1>5, <1>6, <1>7, <1>8, <1>9, <1>10, <1>11, <1>12, <1>13 DEF StartStep

\* Every step of stop() keeps the types and takes no budget.
LEMMA TypeStop ==
  ASSUME TypeInv, NEW t \in Threads, StopStep(t)
  PROVE  TypeStep
<1> USE DEF TypeInv, TypeOK, GenerationInv, Nobody, Move, GoTo, Return, Home, Pending, PendingPcs,
            ResettingPcs, StartPcs, StopPcs, WaitPcs, ApiPcs, WorkerPcs, TypeStep, NotifyAll,
            NoCapture, callVars, lockVars, cvVars, ownerVars, flagVars, reportVars, linkVars,
            sessionVars, startVars, apiVars, clientVars
<1>1. CASE StopEnter(t)
  BY <1>1 DEF StopEnter
<1>2. CASE StopCommand(t)
  BY <1>2 DEF StopCommand, SendStopStreaming
<1>3. CASE StopOnWorker(t)
  BY <1>3 DEF StopOnWorker
<1>4. CASE StopAwaitJoiner(t)
  BY <1>4 DEF StopAwaitJoiner
<1>5. CASE StopWake(t)
  <2>1. pc' \in [Threads -> Pcs] /\ Pending' \subseteq Pending
    BY <1>5 DEF StopWake, Pcs
  <2>2. lifecycle_cv' \subseteq Threads
    BY <1>5 DEF StopWake
  <2> QED
    BY <1>5, <2>1, <2>2 DEF StopWake, Pcs
<1>6. CASE StopIdle(t)
  <2>1. pc[t] = "stopDecide" /\ UNCHANGED <<data_mutex, cvVars, clientVars>>
    BY <1>6 DEF StopIdle
  <2>2. CASE Return(t) /\ lifecycle_mutex' = Nobody
    BY <2>1, <2>2
  <2>3. CASE GoTo(t, "stopSettle") /\ UNCHANGED <<callVars, lifecycle_mutex>>
    BY <2>1, <2>3
  <2> QED
    BY <1>6, <2>2, <2>3 DEF StopIdle
<1>7. CASE StopReap(t)
  BY <1>7 DEF StopReap, TakeWorker
<1>8. CASE StopJoined(t)
  <2>1. pc' \in [Threads -> Pcs] /\ Pending' \subseteq Pending
    BY <1>8 DEF StopJoined, Pcs
  <2>2. /\ handle' \in [Threads -> 0 .. MaxStarts] /\ active_worker_id' \in 0 .. MaxStarts
        /\ joining' \in BOOLEAN /\ worker' = worker
    BY <1>8, JoiningTypes DEF StopJoined
  <2>3. lifecycle_mutex' \in Threads \cup {Nobody}
    BY <1>8 DEF StopJoined
  <2> QED
    BY <1>8, <2>1, <2>2, <2>3 DEF StopJoined, Pcs
<1>9. CASE StopNotify(t)
  BY <1>9 DEF StopNotify
<1>10. CASE StopSettle(t)
  BY <1>10 DEF StopSettle, SettleStopped, DataRecord
<1>11. CASE StopJoinSettle(t)
  BY <1>11, JoiningTypes DEF StopJoinSettle, SettleStopped, DataRecord
<1> QED
  BY <1>1, <1>2, <1>3, <1>4, <1>5, <1>6, <1>7, <1>8, <1>9, <1>10, <1>11 DEF StopStep

\* Every step of wait_for_first_sample() keeps the types and takes no budget.
LEMMA TypeWait ==
  ASSUME TypeInv, NEW t \in Threads, WaitStep(t)
  PROVE  TypeStep
<1> USE DEF TypeInv, TypeOK, GenerationInv, Nobody, Move, GoTo, Return, Home, Pending, PendingPcs,
            ResettingPcs, StartPcs, StopPcs, WaitPcs, ApiPcs, WorkerPcs, TypeStep, NotifyAll,
            NoCapture, callVars, lockVars, cvVars, ownerVars, flagVars, reportVars, linkVars,
            sessionVars, startVars, apiVars, clientVars
<1>1. CASE WaitRefused(t)
  BY <1>1 DEF WaitRefused
<1>2. CASE WaitEnter(t)
  BY <1>2 DEF WaitEnter, DataRecord
<1>3. CASE WaitCheck(t)
  BY <1>3 DEF WaitCheck
<1>4. CASE WaitBlock(t)
  BY <1>4 DEF WaitBlock
<1>5. CASE WaitWake(t)
  <2>1. pc' \in [Threads -> Pcs] /\ Pending' \subseteq Pending
    BY <1>5 DEF WaitWake, Pcs
  <2>2. data_mutex' \in Threads \cup {Nobody}
    BY <1>5 DEF WaitWake
  <2> QED
    BY <1>5, <2>1, <2>2 DEF WaitWake, Pcs
<1>6. CASE WaitAnswerTrue(t)
  BY <1>6 DEF WaitAnswerTrue
<1>7. CASE WaitAnswerFalse(t)
  BY <1>7 DEF WaitAnswerFalse
<1>8. CASE WaitReturn(t)
  BY <1>8 DEF WaitReturn
<1> QED
  BY <1>1, <1>2, <1>3, <1>4, <1>5, <1>6, <1>7, <1>8 DEF WaitStep

\* A delivery keeps the record guarded by data_mutex_ in its type.
LEMMA DeliverTypes ==
  ASSUME TypeOK, NEW w \in Workers, WDeliver(w)
  PROVE  data' \in DataRecord /\ data'.generation = data.generation
<1>1. data' = [data EXCEPT !.latest = w, !.delivered_generation = data.generation]
  BY Zenon DEF WDeliver
<1>2. data \in DataRecord /\ w \in 0 .. MaxStarts
  BY DEF TypeOK, Workers
<1> QED
  BY <1>1, <1>2 DEF DataRecord

\* Every step of the worker thread keeps the types and takes no budget.
LEMMA TypeWorker ==
  ASSUME TypeInv, NEW w \in Workers, WorkerStep(w)
  PROVE  TypeStep
<1> USE DEF TypeInv, TypeOK, GenerationInv, Nobody, Move, GoTo, Return, Home, Pending, PendingPcs,
            ResettingPcs, StartPcs, StopPcs, WaitPcs, ApiPcs, WorkerPcs, TypeStep, NotifyAll,
            NoCapture, callVars, lockVars, cvVars, ownerVars, flagVars, reportVars, linkVars,
            sessionVars, startVars, apiVars, clientVars, Threads
<1>1. CASE WLoop(w)
  BY <1>1 DEF WLoop
<1>2. CASE WConnecting(w)
  BY <1>2 DEF WConnecting, DataRecord
<1>3. CASE WDiscover(w)
  BY <1>3 DEF WDiscover, EndSession, SessionFailures
<1>4. CASE WConnect(w)
  <2>1. result' \in [Workers -> SessionFailures \cup {"None", "Stopped"}]
    BY <1>4 DEF WConnect, EndSession, SessionFailures
  <2>2. shutdown_requested' \in BOOLEAN
    BY <1>4 DEF WConnect
  <2>3. pc' \in [Threads -> Pcs] /\ Pending' \subseteq Pending
    BY <1>4 DEF WConnect, EndSession, Pcs
  <2> QED
    BY <1>4, <2>1, <2>2, <2>3 DEF WConnect, Pcs
<1>5. CASE WStartRealtime(w)
  <2>1. result' \in [Workers -> SessionFailures \cup {"None", "Stopped"}]
    BY <1>5 DEF WStartRealtime, EndSession, SessionFailures
  <2>2. session_started' \in BOOLEAN /\ stop_owed' \in BOOLEAN
    BY <1>5 DEF WStartRealtime
  <2>3. pc' \in [Threads -> Pcs] /\ Pending' \subseteq Pending
    BY <1>5 DEF WStartRealtime, EndSession, Pcs
  <2> QED
    BY <1>5, <2>1, <2>2, <2>3 DEF WStartRealtime, Pcs
<1>6. CASE WRecvCheck(w)
  BY <1>6 DEF WRecvCheck, EndSession
<1>7. CASE WReceiveFails(w)
  <2>a. pc' = [pc EXCEPT ![w] = "close"]
    BY <1>7 DEF WReceiveFails, EndSession
  <2>1. pc' \in [Threads -> Pcs] /\ Pending' \subseteq Pending
    BY <2>a DEF Pcs
  <2>2. result' \in [Workers -> SessionFailures \cup {"None", "Stopped"}]
    BY <1>7 DEF WReceiveFails, EndSession, SessionFailures
  <2> QED
    BY <1>7, <2>1, <2>2 DEF WReceiveFails, Pcs
<1>8. CASE WReceive(w)
  <2>1. pc' \in [Threads -> Pcs] /\ Pending' \subseteq Pending
    BY <1>8 DEF WReceive, EndSession, Pcs
  <2>2. result' \in [Workers -> SessionFailures \cup {"None", "Stopped"}]
    BY <1>8 DEF WReceive, EndSession, SessionFailures
  <2> QED
    BY <1>8, <2>1, <2>2 DEF WReceive, Pcs
<1>9. CASE WMalformed(w)
  <2>1. pc' \in [Threads -> Pcs] /\ Pending' \subseteq Pending
    BY <1>9 DEF WMalformed, EndRecord, Pcs
  <2>2. result' \in [Workers -> SessionFailures \cup {"None", "Stopped"}]
    BY <1>9 DEF WMalformed, EndRecord, SessionFailures
  <2> QED
    BY <1>9, <2>1, <2>2 DEF WMalformed, Pcs
<1>10. CASE WRecord(w)
  <2>a. \E q \in WorkerPcs \ PendingPcs : pc' = [pc EXCEPT ![w] = q]
    BY <1>10 DEF WRecord, EndRecord
  <2>1. pc' \in [Threads -> Pcs] /\ Pending' \subseteq Pending
    BY <2>a DEF Pcs
  <2>2. result' \in [Workers -> SessionFailures \cup {"None", "Stopped"}]
    BY <1>10 DEF WRecord, EndRecord, DropOutcomes, SessionFailures
  <2>3. data' \in DataRecord /\ data'.generation = data.generation
    BY <1>10 DEF WRecord, DataRecord
  <2> QED
    BY <1>10, <2>1, <2>2, <2>3 DEF WRecord, Pcs
<1>11. CASE WCallbackReturns(w)
  BY <1>11 DEF WCallbackReturns
<1>12. CASE WCallbackThrows(w)
  BY <1>12 DEF WCallbackThrows, EndRecord, CallbackFailure, SessionFailures
<1>13. CASE WDeliver(w)
  <2>1. data' \in DataRecord /\ data'.generation = data.generation
    BY <1>13, DeliverTypes
  <2>2. result' \in [Workers -> SessionFailures \cup {"None", "Stopped"}]
    BY <1>13 DEF WDeliver, EndRecord
  <2>3. pc' \in [Threads -> Pcs] /\ Pending' \subseteq Pending
    BY <1>13 DEF WDeliver, EndRecord, Pcs
  <2> QED
    BY <1>13, <2>1, <2>2, <2>3 DEF WDeliver, Pcs
<1>14. CASE WClose(w)
  BY <1>14 DEF WClose, CloseSession, SendStopStreaming
<1>15. CASE WFailStop(w)
  BY <1>15 DEF WFailStop, Publish, FaultFor, FaultCodes, DataRecord
<1>16. CASE WLeave(w)
  BY <1>16 DEF WLeave
<1>17. CASE WBackoff(w)
  BY <1>17 DEF WBackoff, DataRecord
<1>18. CASE WBackoffCheck(w)
  <2>a. \E q \in WorkerPcs \ PendingPcs : pc' = [pc EXCEPT ![w] = q]
    BY <1>18 DEF WBackoffCheck
  <2>1. pc' \in [Threads -> Pcs] /\ Pending' \subseteq Pending
    BY <2>a DEF Pcs
  <2>2. data_mutex' \in Threads \cup {Nobody}
    BY <1>18 DEF WBackoffCheck
  <2> QED
    BY <1>18, <2>1, <2>2 DEF WBackoffCheck, Pcs
<1>19. CASE WBackoffBlock(w)
  BY <1>19 DEF WBackoffBlock
<1>20. CASE WBackoffElapsed(w)
  BY <1>20 DEF WBackoffElapsed
<1>21. CASE WCatch(w)
  BY <1>21 DEF WCatch, Publish, FaultCodes, SessionFailures, DataRecord
<1>22. CASE WFinish(w)
  BY <1>22 DEF WFinish, CloseSession, SendStopStreaming
<1>23. CASE WExit(w)
  BY <1>23 DEF WExit
<1>24. CASE WSettle(w)
  BY <1>24 DEF WSettle, SettleStopped, DataRecord
<1>25. CASE WExitNotify(w)
  BY <1>25 DEF WExitNotify
<1>26. CASE WExited(w)
  BY <1>26 DEF WExited
<1> QED
  BY <1>1, <1>2, <1>3, <1>4, <1>5, <1>6, <1>7, <1>8, <1>9, <1>10, <1>11, <1>12, <1>13, <1>14,
     <1>15, <1>16, <1>17, <1>18, <1>19, <1>20, <1>21, <1>22, <1>23, <1>24, <1>25, <1>26
     DEF WorkerStep, SessionStep

\* So do wake-ups, deadlines, bias() and the calls of operations other than start().
LEMMA TypeOther ==
  ASSUME TypeInv, NEW t \in Threads,
         SpuriousWake(t) \/ WaitTimeout(t) \/ Bias(t) \/ (Call(t) /\ pc'[t] # "start")
  PROVE  TypeStep
<1> USE DEF TypeInv, TypeOK, GenerationInv, Nobody, Move, GoTo, Return, Home, Pending, PendingPcs,
            ResettingPcs, StartPcs, StopPcs, WaitPcs, ApiPcs, WorkerPcs, TypeStep, NotifyAll,
            NoCapture, callVars, lockVars, cvVars, ownerVars, flagVars, reportVars, linkVars,
            sessionVars, startVars, apiVars, clientVars
<1>1. CASE SpuriousWake(t)
  BY <1>1 DEF SpuriousWake
<1>2. CASE WaitTimeout(t)
  BY <1>2 DEF WaitTimeout
<1>3. CASE Bias(t)
  BY <1>3 DEF Bias
<1>4. CASE Call(t) /\ pc'[t] # "start"
  BY <1>4 DEF Call, Ops
<1> QED
  BY <1>1, <1>2, <1>3, <1>4

\* A step that consumes no budget stays within it.
LEMMA BudgetKept ==
  ASSUME TypeInv, TypeStep
  PROVE  TypeInv'
<1>1. IsFiniteSet(Pending)
  BY ThreadsFinite, FS_Subset DEF Pending
<1>2. Cardinality(Pending') <= Cardinality(Pending) /\ IsFiniteSet(Pending')
  BY <1>1, FS_Subset DEF TypeStep
<1>3. Cardinality(Pending) \in Nat /\ Cardinality(Pending') \in Nat
  BY <1>1, <1>2, FS_CardinalityType
<1>4. attempts' = attempts /\ attempts \in Nat
  BY DEF TypeInv, TypeStep, TypeOK
<1>5. attempts + Cardinality(Pending) <= MaxStarts
  BY DEF TypeInv, BudgetInv
<1>6. attempts' + Cardinality(Pending') <= MaxStarts
  BY <1>2, <1>3, <1>4, <1>5
<1> QED
  BY <1>6 DEF TypeInv, TypeStep, BudgetInv

\* Calling start() takes one unit of budget.
LEMMA TypeCallStart ==
  ASSUME TypeInv, NEW t \in Threads, Call(t), pc'[t] = "start"
  PROVE  TypeInv'
<1> USE DEF TypeInv, TypeOK, GenerationInv, Move, GoTo, Pending, PendingPcs,
            ResettingPcs, StartPcs, StopPcs, WaitPcs, ApiPcs, WorkerPcs,
            lockVars, cvVars, ownerVars, flagVars, reportVars, linkVars,
            sessionVars, startVars, clientVars
<1>1. TypeOK' /\ GenerationInv'
  BY DEF Call, Ops
<1>2. Pending' = Pending \cup {t} /\ t \notin Pending
  BY DEF Call, Ops
<1>3. attempts' = attempts /\ attempts \in Nat /\ attempts + Cardinality(Pending) < MaxStarts
  BY DEF Call, Ops, Budget
<1>4. IsFiniteSet(Pending)
  BY ThreadsFinite, FS_Subset
<1>5. Cardinality(Pending) \in Nat /\ Cardinality(Pending') = Cardinality(Pending) + 1
  <2> HIDE DEF Pending
  <2>1. Cardinality(Pending) \in Nat
    BY <1>4, FS_CardinalityType
  <2> QED
    BY <1>2, <1>4, <2>1, FS_AddElement
<1>6. attempts' + Cardinality(Pending') <= MaxStarts
  BY <1>3, <1>5
<1> QED
  BY <1>1, <1>6 DEF BudgetInv

\* The reset turns a pending start() into an attempt.
LEMMA TypeStartReset ==
  ASSUME TypeInv, NEW t \in Threads, StartReset(t)
  PROVE  TypeInv'
<1> USE DEF Move, GoTo, PendingPcs, ResettingPcs, StartPcs, StopPcs, WaitPcs, ApiPcs, WorkerPcs,
            callVars, cvVars, ownerVars, flagVars, linkVars, sessionVars
<1>1. IsFiniteSet(Pending)
  BY ThreadsFinite, FS_Subset DEF Pending
<1>2. Pending' = Pending \ {t} /\ t \in Pending
  BY DEF StartReset, Pending, TypeInv, TypeOK
<1>3. Cardinality(Pending) \in Nat /\ Cardinality(Pending') = Cardinality(Pending) - 1
  BY <1>1, <1>2, FS_CardinalityType, FS_RemoveElement
<1>4. Cardinality(Pending) # 0
  BY <1>1, <1>2, FS_EmptySet
<1>5. attempts + Cardinality(Pending) <= MaxStarts /\ attempts \in Nat
  BY DEF TypeInv, BudgetInv, TypeOK
<1>6. attempts' = attempts + 1
  BY DEF StartReset, ResetState
<1>7. attempts' + Cardinality(Pending') <= MaxStarts /\ attempts' \in 0 .. MaxStarts
  BY <1>3, <1>4, <1>5, <1>6
<1>8. /\ data' = [state |-> "Connecting", generation |-> data.generation + 1,
                  delivered_generation |-> 0, latest |-> Nobody, attempt |-> attempts + 1]
      /\ saved' = [stopping |-> stopping, worker_exited |-> worker_exited,
                   fault |-> fault_code, data |-> data]
      /\ fault_code' = "None"
  BY Zenon DEF StartReset, ResetState
<1>9. data \in DataRecord /\ data.generation \in Nat /\ data.generation <= attempts
  BY DEF TypeInv, TypeOK, GenerationInv, DataRecord
<1>10. data' \in DataRecord /\ data'.generation <= attempts'
  BY <1>5, <1>6, <1>7, <1>8, <1>9 DEF DataRecord, Nobody
<1>11. stopping \in BOOLEAN /\ worker_exited \in BOOLEAN /\ fault_code \in FaultCodes
  BY DEF TypeInv, TypeOK
<1>12. saved' \in SavedRecord /\ saved'.data = data
  BY <1>8, <1>9, <1>11 DEF SavedRecord
<1>13. GenerationInv'
  BY <1>5, <1>6, <1>9, <1>10, <1>12 DEF GenerationInv
<1>14. pc' \in [Threads -> Pcs]
  BY DEF StartReset, TypeInv, TypeOK, Pcs
<1>15. fault_code' \in FaultCodes
  BY <1>8 DEF FaultCodes
<1>16. TypeOK'
  BY <1>7, <1>10, <1>12, <1>14, <1>15 DEF StartReset, TypeInv, TypeOK, Pcs
<1> QED
  BY <1>7, <1>13, <1>16 DEF TypeInv, BudgetInv

\* A stuttering step keeps the type invariant.
LEMMA TypeStutter == ASSUME TypeInv, UNCHANGED vars PROVE TypeInv'
BY DEF TypeInv, TypeOK, GenerationInv, BudgetInv, Pending, vars, callVars, lockVars, cvVars,
       ownerVars, flagVars, reportVars, linkVars, sessionVars, startVars, clientVars

\* TypeInv is inductive.
LEMMA TypeNext == ASSUME TypeInv, [Next]_vars PROVE TypeInv'
<1>1. CASE UNCHANGED vars
  BY <1>1, TypeStutter
<1>2. ASSUME NEW w \in Workers, WorkerStep(w) PROVE TypeInv'
  BY <1>2, TypeWorker, BudgetKept
<1>3. ASSUME NEW t \in Threads, Call(t) PROVE TypeInv'
  BY <1>3, TypeCallStart, TypeOther, BudgetKept
<1>4. ASSUME NEW t \in Threads, ApiStep(t) PROVE TypeInv'
  BY <1>4, TypeStart, TypeStartReset, TypeStop, TypeWait, TypeOther, BudgetKept DEF ApiStep
<1>5. ASSUME NEW t \in Threads, SpuriousWake(t) \/ WaitTimeout(t) PROVE TypeInv'
  BY <1>5, TypeOther, BudgetKept
<1> QED
  BY <1>1, <1>2, <1>3, <1>4, <1>5 DEF Next

\* Type correctness: whatever threads and callbacks do, every variable of the client
\* stays in its range; generation_ and delivered_generation_ in particular never exceed
\* the number of starts.
THEOREM TypeCorrect == Spec => []TypeOK
<1>1. Init => TypeInv
  BY TypeInit
<1>2. TypeInv /\ [Next]_vars => TypeInv'
  BY TypeNext
<1>3. TypeInv => TypeOK
  BY DEF TypeInv
<1> QED
  BY <1>1, <1>2, <1>3, PTL DEF Spec

-----------------------------------------------------------------------------
(* Safety.  The properties of Lifecycle follow from an inductive invariant *)
(* in six parts.                                                           *)

USE ConstantsAssumption

LockedPcs == {"startBlock", "startFlags", "startSpawn", "startRestore", "startRepublish",
              "stopCommand", "stopDecide", "stopSettle", "stopJoinSettle"}

JoinPcs == {"startJoin", "stopJoin", "stopJoinSettle"}

\* stop() found no fault latched and is about to write Stopped.
SettlePcs == {"stopSettle", "stopJoinSettle"}

\* The last steps of a worker.
ExitPcs == {"exited", "exitSettle", "exitNotify"}

\* Where a worker's session may be open.
SessionPcs == {"recvCheck", "receiving", "record", "callback", "deliver", "close", "catch",
               "finish"} \cup ApiPcs

\* lifecycle_mutex_ is owned by the thread that is inside a critical section.
LockInv == \A t \in Threads : pc[t] \in LockedPcs <=> lifecycle_mutex = t

\* joining_ is up exactly while some thread, and only one, has a handle to join; that
\* thread is not a worker.
JoinInv ==
  /\ \A t \in Threads : handle[t] # Nobody <=> pc[t] \in JoinPcs
  /\ \A t, u \in Threads : handle[t] # Nobody /\ handle[u] # Nobody => t = u
  /\ joining <=> \E t \in Threads : handle[t] # Nobody
  /\ joining => worker = Nobody
  /\ \A w \in Workers : handle[w] = Nobody

\* A running worker has a handle, is the one active_worker_id_ names and has not been
\* declared exited before its last steps; start() resets the client only in its absence.
ActiveInv ==
  /\ \A w \in Workers : Live(w) =>
       /\ worker = w \/ \E t \in Threads : handle[t] = w
       /\ active_worker_id = w
       /\ worker_exited => pc[w] \in ExitPcs
  /\ \A t \in Threads : pc[t] \in ResettingPcs => worker = Nobody /\ ~joining
  /\ \A t \in Threads : pc[t] = "startSpawn" => ~worker_exited

\* A StopStreaming that is owed will be tried: session_started_ is up, and a worker is
\* still to close the session.
StreamInv ==
  /\ stop_owed => session_started
  /\ session_started => \E w \in Workers : pc[w] \in SessionPcs

\* The workers a stop() has outlived stay gone, because a later start() makes a new one.
QuietInv ==
  \A t \in Threads :
    /\ born[t] <= attempts
    /\ pc[t] = "stopNotify" =>
         /\ \A w \in Workers : w <= born[t] => ~Live(w)
         /\ \A u \in Threads : pc[u] \in ResettingPcs => born[t] < attempts

\* Nobody runs who could latch a fault between stop()'s check and its write of Stopped.
SettleInv == \A t \in Threads : pc[t] \in SettlePcs => \A w \in Workers : ~Live(w)

SafetyInv == TypeInv /\ LockInv /\ JoinInv /\ ActiveInv /\ StreamInv /\ QuietInv /\ SettleInv

-----------------------------------------------------------------------------
(* Frames: what the steps that neither move the handle nor reset the       *)
(* client have in common.                                                  *)

\* A step of the worker's own code: between being created and being dead it only moves
\* itself, and declares itself exited just before its last steps.
WorkerFrame(w) ==
  /\ pc[w] \in WorkerPcs \ {"unborn", "dead"}
  /\ \E q \in WorkerPcs \ {"unborn"} : pc' = [pc EXCEPT ![w] = q]
  /\ UNCHANGED <<handle, born, lifecycle_mutex, worker, joining, active_worker_id, attempts>>
  /\ worker_exited' # worker_exited => pc'[w] = "exited"
  /\ pc[w] \in ExitPcs => pc'[w] \in ExitPcs \cup {"dead"}

\* A step of an API call that leaves worker_ and the start in progress alone.
ApiFrame(t) ==
  /\ pc[t] \notin JoinPcs \cup ResettingPcs
  /\ pc'[t] \notin JoinPcs \cup ResettingPcs \cup {"stopNotify"}
  /\ pc'[t] \in SettlePcs => worker = Nobody /\ ~joining /\ ~Faulted
  /\ pc' = [pc EXCEPT ![t] = pc'[t]]
  /\ t \in Workers => {pc[t], pc'[t]} \subseteq ApiPcs \cup {"callback"}
  /\ \/ lifecycle_mutex' = lifecycle_mutex /\ (pc'[t] \in LockedPcs <=> pc[t] \in LockedPcs)
     \/ lifecycle_mutex = Nobody /\ lifecycle_mutex' = t /\ pc'[t] \in LockedPcs
     \/ pc[t] \in LockedPcs /\ lifecycle_mutex' = Nobody /\ pc'[t] \notin LockedPcs
  /\ UNCHANGED <<handle, worker, joining, active_worker_id, worker_exited, attempts>>
  /\ born' = [born EXCEPT ![t] = born'[t]] /\ born'[t] \in {0, attempts, born[t]}

\* Every step of the worker is such a step.
LEMMA WorkerFrames ==
  ASSUME TypeOK, NEW w \in Workers, WorkerStep(w)
  PROVE  WorkerFrame(w)
<1> USE DEF TypeOK, WorkerFrame, ExitPcs, Threads, Move, GoTo, Return, Home, PendingPcs,
            ResettingPcs, StartPcs, StopPcs, WaitPcs, ApiPcs, WorkerPcs, NotifyAll, callVars, lockVars, cvVars, ownerVars, flagVars,
            reportVars, linkVars, sessionVars, startVars, apiVars, clientVars
<1>1. CASE WLoop(w)
  BY <1>1 DEF WLoop
<1>2. CASE WConnecting(w)
  BY <1>2 DEF WConnecting
<1>3. CASE WDiscover(w)
  BY <1>3 DEF WDiscover, EndSession
<1>4. CASE WConnect(w)
  BY <1>4 DEF WConnect, EndSession
<1>5. CASE WStartRealtime(w)
  BY <1>5 DEF WStartRealtime, EndSession
<1>6. CASE WRecvCheck(w)
  BY <1>6 DEF WRecvCheck, EndSession
<1>7. CASE WReceiveFails(w)
  BY <1>7 DEF WReceiveFails, EndSession
<1>8. CASE WReceive(w)
  BY <1>8 DEF WReceive, EndSession
<1>9. CASE WMalformed(w)
  BY <1>9 DEF WMalformed, EndRecord
<1>10. CASE WRecord(w)
  BY <1>10 DEF WRecord, EndRecord
<1>11. CASE WCallbackReturns(w)
  BY <1>11 DEF WCallbackReturns
<1>12. CASE WCallbackThrows(w)
  BY <1>12 DEF WCallbackThrows, EndRecord
<1>13. CASE WDeliver(w)
  BY <1>13 DEF WDeliver, EndRecord
<1>14. CASE WClose(w)
  BY <1>14 DEF WClose
<1>15. CASE WFailStop(w)
  BY <1>15 DEF WFailStop
<1>16. CASE WLeave(w)
  BY <1>16 DEF WLeave
<1>17. CASE WBackoff(w)
  BY <1>17 DEF WBackoff
<1>18. CASE WBackoffCheck(w)
  BY <1>18 DEF WBackoffCheck
<1>19. CASE WBackoffBlock(w)
  BY <1>19 DEF WBackoffBlock
<1>20. CASE WBackoffElapsed(w)
  BY <1>20 DEF WBackoffElapsed
<1>21. CASE WCatch(w)
  BY <1>21 DEF WCatch
<1>22. CASE WFinish(w)
  BY <1>22 DEF WFinish
<1>23. CASE WExit(w)
  BY <1>23 DEF WExit
<1>24. CASE WSettle(w)
  BY <1>24 DEF WSettle
<1>25. CASE WExitNotify(w)
  BY <1>25 DEF WExitNotify
<1>26. CASE WExited(w)
  BY <1>26 DEF WExited
<1> QED
  BY <1>1, <1>2, <1>3, <1>4, <1>5, <1>6, <1>7, <1>8, <1>9, <1>10, <1>11, <1>12, <1>13, <1>14,
     <1>15, <1>16, <1>17, <1>18, <1>19, <1>20, <1>21, <1>22, <1>23, <1>24, <1>25, <1>26
     DEF WorkerStep, SessionStep

\* The calls' steps that do not take, give back or reset anything.
OrdinaryStep(t) ==
  \/ StartRejected(t) \/ StartAwaitJoiner(t) \/ StartAwaitExit(t) \/ StartBlock(t)
  \/ StartWake(t) \/ StartNotify(t)
  \/ StopEnter(t) \/ StopCommand(t) \/ StopOnWorker(t) \/ StopAwaitJoiner(t)
  \/ StopWake(t) \/ StopIdle(t) \/ StopSettle(t) \/ StopNotify(t)
  \/ WaitStep(t) \/ Bias(t) \/ WaitTimeout(t) \/ Call(t)

\* Every ordinary step of a call is such a step.
LEMMA ApiFrames ==
  ASSUME SafetyInv, NEW t \in Threads, OrdinaryStep(t)
  PROVE  ApiFrame(t)
<1>a. /\ pc \in [Threads -> Pcs] /\ handle \in [Threads -> 0 .. MaxStarts]
      /\ born \in [Threads -> 0 .. MaxStarts]
  BY DEF SafetyInv, TypeInv, TypeOK, Pcs
<1>b. pc[t] \notin JoinPcs => handle[t] = Nobody
  BY DEF SafetyInv, JoinInv
<1>c. ~(t \in Callers /\ t \in Workers)
  BY DEF Workers
<1> USE <1>a, <1>b, <1>c DEF JoinPcs, LockedPcs, SettlePcs, ApiFrame, Threads, Move, GoTo, Return, Home,
            PendingPcs, ResettingPcs, StartPcs, StopPcs, WaitPcs, ApiPcs,
            callVars, lockVars, cvVars, ownerVars, flagVars,
            reportVars, linkVars, sessionVars, startVars, apiVars, clientVars
<1>1. CASE StartRejected(t)
  BY <1>1 DEF StartRejected
<1>2. CASE StartAwaitJoiner(t)
  BY <1>2 DEF StartAwaitJoiner
<1>3. CASE StartAwaitExit(t)
  BY <1>3 DEF StartAwaitExit, EnterStart
<1>4. CASE StartBlock(t)
  BY <1>4 DEF StartBlock
<1>5. CASE StartWake(t)
  BY <1>5 DEF StartWake, EnterStart
<1>6. CASE StartNotify(t)
  BY <1>6 DEF StartNotify
<1>7. CASE StopEnter(t)
  BY <1>7 DEF StopEnter
<1>8. CASE StopCommand(t)
  BY <1>8 DEF StopCommand
<1>9. CASE StopOnWorker(t)
  BY <1>9 DEF StopOnWorker
<1>10. CASE StopAwaitJoiner(t)
  BY <1>10 DEF StopAwaitJoiner
<1>11. CASE StopWake(t)
  BY <1>11 DEF StopWake
<1>12. CASE StopIdle(t)
  <2>1. pc[t] = "stopDecide" /\ worker = Nobody /\ ~joining /\ UNCHANGED clientVars
    BY <1>12 DEF StopIdle
  <2>2. CASE Return(t) /\ lifecycle_mutex' = Nobody
    BY <2>1, <2>2
  <2>3. CASE ~Faulted /\ GoTo(t, "stopSettle") /\ UNCHANGED <<callVars, lifecycle_mutex>>
    BY <2>1, <2>3
  <2> QED
    BY <1>12, <2>2, <2>3 DEF StopIdle
<1>13. CASE StopNotify(t)
  BY <1>13 DEF StopNotify
<1>14. CASE WaitRefused(t)
  BY <1>14 DEF WaitRefused
<1>15. CASE WaitEnter(t)
  BY <1>15 DEF WaitEnter
<1>16. CASE WaitCheck(t)
  BY <1>16 DEF WaitCheck
<1>17. CASE WaitBlock(t)
  BY <1>17 DEF WaitBlock
<1>18. CASE WaitWake(t)
  BY <1>18 DEF WaitWake
<1>19. CASE WaitAnswerTrue(t)
  BY <1>19 DEF WaitAnswerTrue
<1>20. CASE WaitAnswerFalse(t)
  BY <1>20 DEF WaitAnswerFalse
<1>21. CASE WaitReturn(t)
  BY <1>21 DEF WaitReturn
<1>22. CASE Bias(t)
  BY <1>22 DEF Bias
<1>23. CASE WaitTimeout(t)
  BY <1>23 DEF WaitTimeout
<1>24. CASE Call(t)
  BY <1>24 DEF Call, Ops
<1>25. CASE StopSettle(t)
  BY <1>25 DEF StopSettle
<1> QED
  BY <1>1, <1>2, <1>3, <1>4, <1>5, <1>6, <1>7, <1>8, <1>9, <1>10, <1>11, <1>12, <1>13, <1>14,
     <1>15, <1>16, <1>17, <1>18, <1>19, <1>20, <1>21, <1>22, <1>23, <1>24, <1>25
     DEF OrdinaryStep, WaitStep

-----------------------------------------------------------------------------
(* The five parts that concern ownership are kept by every step. *)

OwnershipInv == LockInv /\ JoinInv /\ ActiveInv /\ QuietInv /\ SettleInv

\* An unlocked mutex or an empty handle is told apart from every thread.
LEMMA NobodyIsNoThread == Nobody \notin Threads /\ Callers \cap Workers = {}
BY DEF Nobody, Threads, Workers

\* Without a handle, in worker_ or on its way to a join, there is no running worker.
LEMMA NoHandleNoWorker ==
  ASSUME SafetyInv, worker = Nobody, ~joining
  PROVE  \A w \in Workers : ~Live(w)
<1>1. \A t \in Threads : handle[t] = Nobody
  BY DEF SafetyInv, JoinInv
<1>2. Nobody \notin Workers
  BY DEF Nobody, Workers
<1> QED
  BY <1>1, <1>2 DEF SafetyInv, ActiveInv

\* A worker in a call is running.
LEMMA CallerIsLive ==
  ASSUME NEW w \in Workers, pc[w] \in ApiPcs
  PROVE  Live(w)
BY DEF Live, ApiPcs, StartPcs, PendingPcs, ResettingPcs, StopPcs, WaitPcs

\* The worker's own steps.
LEMMA OwnershipWorker ==
  ASSUME SafetyInv, NEW w \in Workers, WorkerStep(w)
  PROVE  OwnershipInv'
<1>1. WorkerFrame(w)
  BY WorkerFrames DEF SafetyInv, TypeInv
<1>2. PICK q \in WorkerPcs \ {"unborn"} : pc' = [pc EXCEPT ![w] = q]
  BY <1>1 DEF WorkerFrame
<1>3. pc \in [Threads -> Pcs] /\ w \in Threads
  BY DEF SafetyInv, TypeInv, TypeOK, Pcs, Threads
<1>4. LockInv'
  BY <1>1, <1>2, <1>3 DEF SafetyInv, LockInv, WorkerFrame, LockedPcs, WorkerPcs
<1>5. JoinInv'
  BY <1>1, <1>2, <1>3 DEF SafetyInv, JoinInv, WorkerFrame, JoinPcs, WorkerPcs
<1>6. \A t \in Threads : pc'[t] \in ResettingPcs \cup {"stopNotify"} => pc'[t] = pc[t]
  BY <1>2, <1>3 DEF WorkerPcs, ResettingPcs
<1>7. \A v \in Workers : Live(v)' => Live(v) /\ v \in Threads
  BY <1>1, <1>2, <1>3 DEF WorkerFrame, Live, Threads
<1>8. \A v \in Workers : Live(v) => v = w
  BY <1>1, <1>3 DEF SafetyInv, ActiveInv, WorkerFrame, Live
<1>9. \A v \in Workers : Live(v)' =>
        /\ (worker = v \/ \E t \in Threads : handle[t] = v)'
        /\ active_worker_id' = v
  BY <1>1, <1>7 DEF SafetyInv, ActiveInv, WorkerFrame
<1>10. Live(w)' /\ worker_exited' => pc'[w] \in ExitPcs
  BY <1>1, <1>2, <1>3, <1>7 DEF SafetyInv, ActiveInv, WorkerFrame, Live, ExitPcs
<1>11. \A t \in Threads : pc'[t] \in ResettingPcs => worker' = Nobody /\ ~joining'
  BY <1>1, <1>6 DEF SafetyInv, ActiveInv, WorkerFrame
<1>12. \A t \in Threads : pc'[t] = "startSpawn" => ~worker_exited'
  <2> SUFFICES ASSUME NEW t \in Threads, pc'[t] = "startSpawn" PROVE ~worker_exited'
    OBVIOUS
  <2>1. pc[t] = "startSpawn"
    BY <1>6 DEF ResettingPcs
  <2>2. worker = Nobody /\ ~joining /\ Live(w)
    BY <1>1, <2>1 DEF SafetyInv, ActiveInv, WorkerFrame, Live, ResettingPcs
  <2>3. ~\E u \in Threads : handle[u] = w
    BY <2>2 DEF SafetyInv, JoinInv, Nobody, Workers
  <2> QED
    BY <2>2, <2>3 DEF SafetyInv, ActiveInv, Nobody, Workers
<1>13. ActiveInv'
  BY <1>7, <1>8, <1>9, <1>10, <1>11, <1>12 DEF ActiveInv
<1>14. QuietInv'
  BY <1>1, <1>6, <1>7 DEF SafetyInv, QuietInv, WorkerFrame
<1>15. \A t \in Threads : pc'[t] \in SettlePcs => pc'[t] = pc[t]
  BY <1>2, <1>3 DEF WorkerPcs, SettlePcs
<1>16. SettleInv'
  BY <1>7, <1>15 DEF SafetyInv, SettleInv
<1> QED
  BY <1>4, <1>5, <1>13, <1>14, <1>16 DEF OwnershipInv

\* The ordinary steps of calls.
LEMMA OwnershipApi ==
  ASSUME SafetyInv, NEW t \in Threads, ApiFrame(t)
  PROVE  OwnershipInv'
<1>1. ApiFrame(t)
  OBVIOUS
<1>2. /\ pc \in [Threads -> Pcs] /\ born \in [Threads -> 0 .. MaxStarts]
      /\ lifecycle_mutex \in Threads \cup {Nobody} /\ Nobody \notin Threads
      /\ attempts \in 0 .. MaxStarts
  BY NobodyIsNoThread DEF SafetyInv, TypeInv, TypeOK, Pcs
<1>3. LockInv'
  BY <1>1, <1>2 DEF SafetyInv, LockInv, ApiFrame
<1>4. JoinInv'
  BY <1>1, <1>2 DEF SafetyInv, JoinInv, ApiFrame
<1>5. \A u \in Threads : pc'[u] \in ResettingPcs \cup {"stopNotify"} => u # t /\ pc'[u] = pc[u]
  BY <1>1, <1>2 DEF ApiFrame
<1>6. \A v \in Workers : Live(v)' => Live(v) /\ (pc'[v] = pc[v] \/ v = t)
  BY <1>1, <1>2 DEF ApiFrame, Live, Threads, ApiPcs, StartPcs, PendingPcs, ResettingPcs,
                    StopPcs, WaitPcs
<1>7. \A v \in Workers : Live(v)' =>
        /\ (worker = v \/ \E u \in Threads : handle[u] = v)'
        /\ active_worker_id' = v
        /\ worker_exited' => pc[v] \in ExitPcs
  BY <1>1, <1>6 DEF SafetyInv, ActiveInv, ApiFrame
<1>8. t \in Workers => pc[t] \notin ExitPcs
  BY <1>1 DEF ApiFrame, ExitPcs, ApiPcs, StartPcs, PendingPcs, ResettingPcs, StopPcs, WaitPcs
<1>9. ActiveInv'
  BY <1>1, <1>5, <1>6, <1>7, <1>8 DEF SafetyInv, ActiveInv, ApiFrame, ResettingPcs
<1>10. \A u \in Threads : born'[u] <= attempts' /\ (u # t => born'[u] = born[u])
  BY <1>1, <1>2 DEF SafetyInv, QuietInv, ApiFrame
<1>11. QuietInv'
  BY <1>1, <1>5, <1>6, <1>10 DEF SafetyInv, QuietInv, ApiFrame
<1>12. pc'[t] \in SettlePcs => \A w \in Workers : ~Live(w)
  BY <1>1, NoHandleNoWorker DEF ApiFrame
<1>13. \A u \in Threads : u # t => pc'[u] = pc[u]
  BY <1>1, <1>2 DEF ApiFrame
<1>14. SettleInv'
  BY <1>6, <1>12, <1>13 DEF SafetyInv, SettleInv
<1> QED
  BY <1>3, <1>4, <1>9, <1>11, <1>14 DEF OwnershipInv

\* Taking the handle out of worker_: only a thread that is not the worker does.
LEMMA OwnershipTake ==
  ASSUME SafetyInv, NEW t \in Threads, StartReap(t) \/ StopReap(t)
  PROVE  OwnershipInv'
<1> USE NobodyIsNoThread
<1>1. /\ pc \in [Threads -> Pcs] /\ handle \in [Threads -> 0 .. MaxStarts]
      /\ lifecycle_mutex \in Threads \cup {Nobody} /\ worker \in 0 .. MaxStarts
  BY DEF SafetyInv, TypeInv, TypeOK, Pcs
<1>2. /\ ~joining /\ worker # Nobody /\ joining' = TRUE /\ worker' = Nobody
      /\ handle' = [handle EXCEPT ![t] = worker]
      /\ active_worker_id' = active_worker_id
  BY Zenon DEF StartReap, StopReap, TakeWorker
<1>3. /\ pc[t] \in {"start", "stopDecide"} /\ pc'[t] \in {"startJoin", "stopJoin"}
      /\ pc' = [pc EXCEPT ![t] = pc'[t]]
  BY <1>1 DEF StartReap, StopReap, Move, GoTo, JoinPcs
<1>4. UNCHANGED <<worker_exited, attempts, born>>
  BY DEF StartReap, StopReap, flagVars, startVars
<1>5. \/ lifecycle_mutex = Nobody /\ lifecycle_mutex' = Nobody /\ pc[t] = "start"
      \/ lifecycle_mutex' = Nobody /\ pc[t] = "stopDecide"
  BY DEF StartReap, StopReap, EnterStart, Move, lockVars
<1>6. t \notin Workers
  <2> SUFFICES ASSUME t \in Workers PROVE FALSE
    OBVIOUS
  <2>1. Live(t)
    BY <1>3, CallerIsLive DEF ApiPcs, StartPcs, PendingPcs, StopPcs
  <2>2. active_worker_id = t /\ ~worker_exited
    BY <1>3, <2>1 DEF SafetyInv, ActiveInv, ExitPcs
  <2> QED
    BY <2>2 DEF StartReap, StopReap, OnWorkerThread
<1>7. LockInv'
  BY <1>1, <1>3, <1>5 DEF SafetyInv, LockInv, LockedPcs, JoinPcs
<1>8. \A u \in Threads : handle[u] = Nobody
  BY <1>2 DEF SafetyInv, JoinInv
<1>9. JoinInv'
  <2>1. \A u \in Threads : handle'[u] # Nobody <=> u = t
    BY <1>1, <1>2, <1>8
  <2>2. \A u \in Threads : pc'[u] \in JoinPcs <=> u = t
    BY <1>1, <1>3, <1>8 DEF SafetyInv, JoinInv, JoinPcs
  <2> QED
    BY <1>2, <1>6, <2>1, <2>2 DEF JoinInv, Threads
<1>10. \A w \in Workers : w \in Threads /\ pc'[w] = pc[w] /\ (Live(w)' <=> Live(w))
  BY <1>1, <1>3, <1>6 DEF Live, Threads
<1>11. \A u \in Threads : pc'[u] \notin ResettingPcs /\ pc[u] \notin ResettingPcs
  BY <1>1, <1>3, <1>5 DEF SafetyInv, LockInv, LockedPcs, ResettingPcs, JoinPcs
<1>12. \A w \in Workers : Live(w)' => handle'[t] = w /\ active_worker_id' = w
  BY <1>1, <1>2, <1>8, <1>10 DEF SafetyInv, ActiveInv, Nobody, Workers
<1>13. ActiveInv'
  BY <1>4, <1>10, <1>11, <1>12 DEF SafetyInv, ActiveInv, ResettingPcs
<1>14. QuietInv'
  BY <1>1, <1>3, <1>4, <1>10, <1>11 DEF SafetyInv, QuietInv, JoinPcs
<1>15. SettleInv'
  BY <1>1, <1>3, <1>10 DEF SafetyInv, SettleInv, SettlePcs
<1> QED
  BY <1>7, <1>9, <1>13, <1>14, <1>15 DEF OwnershipInv

\* The steps after the only join: nothing runs any more.
JoinedStep(t) == StartJoined(t) \/ StopJoined(t) \/ StopJoinSettle(t)

\* They keep the ownership invariant, in the absence of every worker.
LEMMA OwnershipJoined ==
  ASSUME SafetyInv, NEW t \in Threads, JoinedStep(t)
  PROVE  OwnershipInv' /\ \A w \in Workers : ~Live(w)
<1> USE NobodyIsNoThread
<1>1. /\ pc \in [Threads -> Pcs] /\ handle \in [Threads -> 0 .. MaxStarts]
  BY DEF SafetyInv, TypeInv, TypeOK, Pcs
<1>2. /\ pc[t] \in JoinPcs /\ pc'[t] \in {"startNotify", "stopNotify", "stopJoinSettle"}
      /\ pc' = [pc EXCEPT ![t] = pc'[t]]
  BY <1>1 DEF JoinedStep, StartJoined, StopJoined, StopJoinSettle, Move, GoTo, JoinPcs
<1>3. UNCHANGED <<worker, worker_exited, attempts, born>>
  BY DEF JoinedStep, StartJoined, StopJoined, StopJoinSettle, EndJoining, ownerVars, flagVars,
         startVars
<1>4. joining /\ worker = Nobody /\ \A u \in Threads : u # t => handle[u] = Nobody
  BY <1>2 DEF SafetyInv, JoinInv
<1>5. \/ pc[t] = "stopJoinSettle"
      \/ pc[handle[t]] = "dead" /\ lifecycle_mutex = Nobody
  BY DEF JoinedStep, StartJoined, StopJoined, StopJoinSettle, Joined, Move
<1>6. \A w \in Workers : ~Live(w)
  <2>1. CASE pc[t] = "stopJoinSettle"
    BY <2>1 DEF SafetyInv, SettleInv, SettlePcs
  <2>2. CASE pc[handle[t]] = "dead"
    BY <1>4, <2>2 DEF SafetyInv, ActiveInv, Live, Nobody, Workers
  <2> QED
    BY <1>5, <2>1, <2>2
<1>7. t \notin Workers
  BY <1>2, <1>6, CallerIsLive DEF JoinPcs, ApiPcs, StartPcs, PendingPcs, StopPcs
<1>8. \A w \in Workers : ~Live(w)'
  BY <1>1, <1>2, <1>6, <1>7 DEF Live, Threads
<1>9. \A u \in Threads : u # t => pc[u] \notin LockedPcs /\ pc'[u] = pc[u]
  BY <1>1, <1>2, <1>5 DEF SafetyInv, LockInv, LockedPcs
<1>10. \/ /\ pc'[t] \in {"startNotify", "stopNotify"} /\ lifecycle_mutex' = Nobody
          /\ handle' = [handle EXCEPT ![t] = Nobody] /\ joining' = FALSE
       \/ /\ pc'[t] = "stopJoinSettle" /\ lifecycle_mutex' = t
          /\ handle' = handle /\ joining' = joining
  <2>1. CASE StartJoined(t)
    BY <1>1, <2>1 DEF StartJoined, EndJoining, Joined, Move, GoTo, lockVars
  <2>2. CASE StopJoined(t)
    BY <1>1, <2>2 DEF StopJoined, EndJoining, Joined, GoTo, ownerVars
  <2>3. CASE StopJoinSettle(t)
    BY <1>1, <2>3 DEF StopJoinSettle, EndJoining, Move, GoTo
  <2> QED
    BY <2>1, <2>2, <2>3 DEF JoinedStep
<1>11. LockInv'
  BY <1>9, <1>10 DEF LockInv, LockedPcs
<1>12. JoinInv'
  <2>1. \A u \in Threads : u # t => handle'[u] = Nobody /\ pc'[u] \notin JoinPcs
    BY <1>1, <1>4, <1>9, <1>10 DEF SafetyInv, JoinInv
  <2>2. CASE handle' = handle /\ joining' = joining /\ pc'[t] = "stopJoinSettle"
    BY <1>2, <1>3, <1>4, <1>7, <2>1, <2>2 DEF SafetyInv, JoinInv, JoinPcs, Threads
  <2>3. CASE /\ handle' = [handle EXCEPT ![t] = Nobody] /\ joining' = FALSE
             /\ pc'[t] \in {"startNotify", "stopNotify"}
    BY <1>1, <2>1, <2>3 DEF JoinInv, JoinPcs, Threads
  <2> QED
    BY <1>10, <2>2, <2>3
<1>13. \A u \in Threads : pc'[u] \notin ResettingPcs
  BY <1>2, <1>9 DEF LockedPcs, ResettingPcs
<1>14. ActiveInv'
  BY <1>8, <1>13 DEF ActiveInv, ResettingPcs
<1>15. QuietInv' /\ SettleInv'
  BY <1>3, <1>8, <1>13 DEF SafetyInv, QuietInv, SettleInv
<1> QED
  BY <1>6, <1>11, <1>12, <1>14, <1>15 DEF OwnershipInv

\* start() enters its reset: no worker, nobody joining.
LEMMA OwnershipReset ==
  ASSUME SafetyInv, NEW t \in Threads, StartReset(t)
  PROVE  OwnershipInv' /\ \A w \in Workers : ~Live(w)
<1> USE NobodyIsNoThread
<1>1. pc \in [Threads -> Pcs] /\ attempts \in Nat /\ born \in [Threads -> 0 .. MaxStarts]
  BY DEF SafetyInv, TypeInv, TypeOK, Pcs
<1>2. /\ pc[t] = "start" /\ pc' = [pc EXCEPT ![t] = "startFlags"]
      /\ lifecycle_mutex = Nobody /\ lifecycle_mutex' = t
      /\ ~joining /\ worker = Nobody /\ attempts' = attempts + 1
  BY DEF StartReset, Move, GoTo, EnterStart, ResetState
<1>3. UNCHANGED <<handle, born, worker, joining, active_worker_id, worker_exited>>
  BY DEF StartReset, callVars, ownerVars, flagVars
<1>4. \A w \in Workers : ~Live(w)
  BY <1>2, NoHandleNoWorker
<1>5. t \notin Workers
  BY <1>2, <1>4, CallerIsLive DEF ApiPcs, StartPcs, PendingPcs
<1>6. \A w \in Workers : ~Live(w)'
  BY <1>1, <1>2, <1>4, <1>5 DEF Live, Threads
<1>7. LockInv'
  BY <1>1, <1>2 DEF SafetyInv, LockInv, LockedPcs
<1>8. JoinInv'
  BY <1>1, <1>2, <1>3 DEF SafetyInv, JoinInv, JoinPcs
<1>9. ActiveInv'
  BY <1>1, <1>2, <1>3, <1>6 DEF SafetyInv, ActiveInv
<1>10. QuietInv'
  BY <1>1, <1>2, <1>3, <1>6 DEF SafetyInv, QuietInv
<1>11. SettleInv'
  BY <1>6 DEF SettleInv
<1> QED
  BY <1>4, <1>7, <1>8, <1>9, <1>10, <1>11 DEF OwnershipInv

\* The thread that resets the client is an application thread and alone.
LEMMA ResettingAlone ==
  ASSUME SafetyInv, NEW t \in Threads, pc[t] \in ResettingPcs
  PROVE  /\ \A w \in Workers : ~Live(w)
         /\ t \notin Workers /\ lifecycle_mutex = t /\ handle[t] = Nobody
         /\ \A u \in Threads : pc[u] \in LockedPcs => u = t
<1>1. \A w \in Workers : ~Live(w)
  BY NoHandleNoWorker DEF SafetyInv, ActiveInv
<1>2. t \notin Workers
  BY <1>1, CallerIsLive DEF ApiPcs, StartPcs
<1>3. lifecycle_mutex = t /\ handle[t] = Nobody
  BY DEF SafetyInv, LockInv, JoinInv, LockedPcs, JoinPcs, ResettingPcs
<1> QED
  BY <1>1, <1>2, <1>3 DEF SafetyInv, LockInv

\* The steps inside the reset, and the end of its rollback.
LEMMA OwnershipRollback ==
  ASSUME SafetyInv, NEW t \in Threads,
         StartFlags(t) \/ StartSpawnFails(t) \/ StartRestore(t) \/ StartRepublish(t)
  PROVE  OwnershipInv'
<1> USE NobodyIsNoThread
<1>1. /\ pc \in [Threads -> Pcs] /\ attempts \in Nat
      /\ born \in [Threads -> 0 .. MaxStarts] /\ handle \in [Threads -> 0 .. MaxStarts]
  BY DEF SafetyInv, TypeInv, TypeOK, Pcs
<1>2. pc[t] \in ResettingPcs
  BY DEF StartFlags, StartSpawnFails, StartRestore, StartRepublish, Move, ResettingPcs
<1>3. /\ \A w \in Workers : ~Live(w)
      /\ t \notin Workers /\ lifecycle_mutex = t /\ handle[t] = Nobody
      /\ \A u \in Threads : pc[u] \in LockedPcs => u = t
  BY <1>2, ResettingAlone
<1>4. UNCHANGED <<worker, joining, attempts>>
  BY DEF StartFlags, StartSpawnFails, StartRestore, StartRepublish, ownerVars, startVars
<1>5. /\ handle' = handle
      /\ born' = [born EXCEPT ![t] = born'[t]] /\ born'[t] \in {0, born[t]}
  BY <1>1, <1>3 DEF StartFlags, StartSpawnFails, StartRestore, StartRepublish, Return, callVars
<1>6. /\ pc' = [pc EXCEPT ![t] = pc'[t]]
      /\ \/ pc'[t] \in ResettingPcs /\ lifecycle_mutex' = t
         \/ pc'[t] = "idle" /\ lifecycle_mutex' = Nobody
  BY <1>1, <1>3 DEF StartFlags, StartSpawnFails, StartRestore, StartRepublish, Return, Move,
                    GoTo, Home, ResettingPcs, lockVars, Threads
<1>7. pc'[t] = "startSpawn" => worker_exited' = FALSE
  BY <1>1, <1>3 DEF StartFlags, StartSpawnFails, StartRestore, StartRepublish, Return, Move,
                    GoTo, Home, Threads
<1>8. \A w \in Workers : ~Live(w)'
  BY <1>1, <1>3, <1>6 DEF Live, Threads
<1>9. LockInv'
  BY <1>1, <1>3, <1>6 DEF SafetyInv, LockInv, LockedPcs, ResettingPcs
<1>10. JoinInv'
  BY <1>1, <1>2, <1>4, <1>5, <1>6 DEF SafetyInv, JoinInv, JoinPcs, ResettingPcs
<1>11. \A u \in Threads : pc'[u] \in ResettingPcs => u = t
  BY <1>1, <1>3, <1>6 DEF LockedPcs, ResettingPcs
<1>12. ActiveInv'
  BY <1>2, <1>4, <1>7, <1>8, <1>11 DEF SafetyInv, ActiveInv, ResettingPcs
<1>13. \A u \in Threads :
         /\ born'[u] <= attempts'
         /\ pc'[u] = "stopNotify" => born'[u] = born[u] /\ pc[u] = "stopNotify"
  BY <1>1, <1>4, <1>5, <1>6 DEF SafetyInv, QuietInv, ResettingPcs
<1>14. QuietInv'
  BY <1>2, <1>4, <1>8, <1>11, <1>13 DEF SafetyInv, QuietInv
<1>15. SettleInv'
  BY <1>8 DEF SettleInv
<1> QED
  BY <1>9, <1>10, <1>12, <1>14, <1>15 DEF OwnershipInv

\* start() creates the worker.
LEMMA OwnershipSpawn ==
  ASSUME SafetyInv, NEW t \in Threads, StartSpawn(t)
  PROVE  OwnershipInv'
<1> USE NobodyIsNoThread
<1>1. /\ pc \in [Threads -> Pcs] /\ attempts \in 0 .. MaxStarts
      /\ born \in [Threads -> 0 .. MaxStarts]
  BY DEF SafetyInv, TypeInv, TypeOK, Pcs
<1>2. pc[t] \in ResettingPcs /\ pc[t] = "startSpawn"
  BY DEF StartSpawn, ResettingPcs
<1>3. /\ \A w \in Workers : ~Live(w)
      /\ t \notin Workers /\ lifecycle_mutex = t /\ handle[t] = Nobody
      /\ \A u \in Threads : pc[u] \in LockedPcs => u = t
  BY <1>2, ResettingAlone
<1>4. /\ pc' = [pc EXCEPT ![t] = "idle", ![attempts] = "loop"]
      /\ born' = [born EXCEPT ![t] = 0]
      /\ worker' = attempts /\ active_worker_id' = attempts /\ lifecycle_mutex' = Nobody
      /\ UNCHANGED <<handle, joining, worker_exited, attempts>>
  BY <1>3 DEF StartSpawn, Home, Threads, flagVars
<1>5. worker = Nobody /\ ~joining /\ ~worker_exited
  BY <1>2 DEF SafetyInv, ActiveInv
<1>6. \A u \in Threads :
        /\ u = t => pc'[u] = "idle"
        /\ u # t /\ u = attempts => pc'[u] = "loop" /\ pc[u] \in {"unborn", "dead"}
        /\ u # t /\ u # attempts => pc'[u] = pc[u]
  <2>1. t # attempts
    BY <1>1, <1>3 DEF Threads, Workers
  <2>2. attempts \in Threads => attempts \in Workers
    BY <1>1 DEF Threads, Workers
  <2> QED
    BY <1>1, <1>3, <1>4, <2>1, <2>2 DEF Live
<1>7. LockInv'
  BY <1>3, <1>4, <1>6 DEF LockInv, LockedPcs
<1>8. JoinInv'
  BY <1>2, <1>4, <1>5, <1>6 DEF SafetyInv, JoinInv, JoinPcs
<1>9. \A w \in Workers : Live(w)' => w = attempts /\ pc'[w] = "loop"
  BY <1>3, <1>6 DEF Live, Threads
<1>10. \A u \in Threads : pc'[u] \notin ResettingPcs
  BY <1>3, <1>6 DEF LockedPcs, ResettingPcs
<1>11. ActiveInv'
  BY <1>4, <1>5, <1>9, <1>10 DEF ActiveInv, ResettingPcs
<1>12. \A u \in Threads : /\ born'[u] <= attempts'
                          /\ pc'[u] = "stopNotify" => born'[u] < attempts /\ born'[u] \in Nat
  BY <1>1, <1>2, <1>4, <1>6 DEF SafetyInv, QuietInv
<1>13. QuietInv'
  <2>1. \A u \in Threads, w \in Workers : pc'[u] = "stopNotify" /\ w <= born'[u] => ~Live(w)'
    BY <1>1, <1>9, <1>12 DEF Workers
  <2> QED
    BY <1>10, <1>12, <2>1 DEF QuietInv
<1>14. SettleInv'
  BY <1>2, <1>3, <1>6 DEF SettleInv, SettlePcs, LockedPcs
<1> QED
  BY <1>7, <1>8, <1>11, <1>13, <1>14 DEF OwnershipInv

-----------------------------------------------------------------------------
(* The stream: a StopStreaming that is owed is tried. *)

\* A step that closes the session, leaves it as it is, or opens it.
StreamFrame(t) ==
  \/ session_started' = FALSE /\ stop_owed' = (stop_owed /\ ~session_started)
  \/ /\ session_started' = session_started /\ (stop_owed' => stop_owed \/ session_started)
     /\ pc[t] \in SessionPcs => pc'[t] \in SessionPcs
  \/ session_started' = TRUE /\ pc'[t] \in SessionPcs

\* The worker opens a session only where it will close it again.
LEMMA StreamWorker ==
  ASSUME TypeOK, NEW w \in Workers, WorkerStep(w)
  PROVE  StreamFrame(w)
<1>a. pc \in [Threads -> Pcs] /\ w \in Threads
  BY DEF TypeOK, Pcs, Threads
<1> USE <1>a DEF StreamFrame, Move, GoTo, SessionPcs, ApiPcs, StartPcs, PendingPcs, ResettingPcs,
            StopPcs, WaitPcs, linkVars, sessionVars
<1>1. CASE WLoop(w)
  BY <1>1 DEF WLoop
<1>2. CASE WConnecting(w)
  BY <1>2 DEF WConnecting
<1>3. CASE WDiscover(w)
  BY <1>3 DEF WDiscover, EndSession
<1>4. CASE WConnect(w)
  BY <1>4 DEF WConnect, EndSession
<1>5. CASE WStartRealtime(w)
  BY <1>5 DEF WStartRealtime, EndSession
<1>6. CASE WRecvCheck(w)
  BY <1>6 DEF WRecvCheck, EndSession
<1>7. CASE WReceiveFails(w)
  BY <1>7 DEF WReceiveFails, EndSession
<1>8. CASE WReceive(w)
  BY <1>8 DEF WReceive, EndSession
<1>9. CASE WMalformed(w)
  BY <1>9 DEF WMalformed, EndRecord
<1>10. CASE WRecord(w)
  BY <1>10 DEF WRecord, EndRecord
<1>11. CASE WCallbackReturns(w)
  BY <1>11 DEF WCallbackReturns
<1>12. CASE WCallbackThrows(w)
  BY <1>12 DEF WCallbackThrows, EndRecord
<1>13. CASE WDeliver(w)
  BY <1>13 DEF WDeliver, EndRecord
<1>14. CASE WClose(w)
  BY <1>14 DEF WClose, CloseSession, SendStopStreaming
<1>15. CASE WFailStop(w)
  BY <1>15 DEF WFailStop
<1>16. CASE WLeave(w)
  BY <1>16 DEF WLeave
<1>17. CASE WBackoff(w)
  BY <1>17 DEF WBackoff
<1>18. CASE WBackoffCheck(w)
  BY <1>18 DEF WBackoffCheck
<1>19. CASE WBackoffBlock(w)
  BY <1>19 DEF WBackoffBlock
<1>20. CASE WBackoffElapsed(w)
  BY <1>20 DEF WBackoffElapsed
<1>21. CASE WCatch(w)
  BY <1>21 DEF WCatch
<1>22. CASE WFinish(w)
  BY <1>22 DEF WFinish, CloseSession, SendStopStreaming
<1>23. CASE WExit(w)
  BY <1>23 DEF WExit
<1>24. CASE WSettle(w)
  BY <1>24 DEF WSettle
<1>25. CASE WExitNotify(w)
  BY <1>25 DEF WExitNotify
<1>26. CASE WExited(w)
  BY <1>26 DEF WExited
<1> QED
  BY <1>1, <1>2, <1>3, <1>4, <1>5, <1>6, <1>7, <1>8, <1>9, <1>10, <1>11, <1>12, <1>13, <1>14,
     <1>15, <1>16, <1>17, <1>18, <1>19, <1>20, <1>21, <1>22, <1>23, <1>24, <1>25, <1>26
     DEF WorkerStep, SessionStep

\* Calls open no session; those that a callback makes leave its session open or close it.
LEMMA StreamApi ==
  ASSUME SafetyInv, NEW t \in Threads, OrdinaryStep(t)
  PROVE  /\ \/ session_started' = FALSE /\ stop_owed' = (stop_owed /\ ~session_started)
            \/ session_started' = session_started /\ (stop_owed' => stop_owed \/ session_started)
         /\ t \in Workers => pc'[t] \in SessionPcs
<1> USE DEF linkVars, sessionVars, clientVars
<1>1. t \in Workers => pc'[t] \in SessionPcs
  BY ApiFrames DEF ApiFrame, SessionPcs
<1>2. CASE StopCommand(t)
  BY <1>1, <1>2 DEF StopCommand, SendStopStreaming
<1>3. CASE Bias(t)
  BY <1>1, <1>3 DEF Bias, CanBias
<1>4. CASE WaitStep(t)
  BY <1>1, <1>4 DEF WaitStep, WaitRefused, WaitEnter, WaitCheck, WaitBlock, WaitWake,
                    WaitAnswerTrue, WaitAnswerFalse, WaitReturn
<1>5. CASE OrdinaryStep(t) /\ ~StopCommand(t) /\ ~Bias(t) /\ ~WaitStep(t)
  BY <1>1, <1>5 DEF OrdinaryStep, StartRejected, StartAwaitJoiner, StartAwaitExit, StartBlock,
                    StartWake, StartNotify, StopEnter, StopOnWorker, StopAwaitJoiner, StopWake,
                    StopIdle, StopSettle, StopNotify, WaitTimeout, Call
<1> QED
  BY <1>2, <1>3, <1>4, <1>5

\* The steps of a call that move the handle or reset the client.
OwnershipStep(t) ==
  \/ StartReap(t) \/ StopReap(t) \/ JoinedStep(t) \/ StartReset(t)
  \/ StartFlags(t) \/ StartSpawnFails(t) \/ StartRestore(t) \/ StartRepublish(t)
  \/ StartSpawn(t)

\* Steps that move the handle or reset the client leave the stream to its worker.
LEMMA StreamOwnership ==
  ASSUME SafetyInv, NEW t \in Threads, OwnershipStep(t)
  PROVE  StreamInv'
<1>1. UNCHANGED <<session_started, stop_owed>>
  BY DEF OwnershipStep, StartReap, StopReap, JoinedStep, StartJoined, StopJoined,
         StopJoinSettle, StartReset, StartFlags, StartSpawnFails, StartRestore, StartRepublish,
         StartSpawn, linkVars, sessionVars
<1>2. \A w \in Workers : pc[w] \in SessionPcs => Live(w)
  BY DEF SessionPcs, Live, ApiPcs, StartPcs, PendingPcs, ResettingPcs, StopPcs, WaitPcs
<1>3. CASE StartReap(t) \/ StopReap(t)
  <2>1. pc \in [Threads -> Pcs]
    BY DEF SafetyInv, TypeInv, TypeOK, Pcs
  <2>2. \A w \in Workers : pc[w] \in SessionPcs => pc'[w] \in SessionPcs
    BY <1>3, <2>1 DEF StartReap, StopReap, Move, GoTo, SessionPcs, ApiPcs, StartPcs, PendingPcs,
                      StopPcs, Threads
  <2> QED
    BY <1>1, <2>2 DEF SafetyInv, StreamInv
<1>4. CASE JoinedStep(t) \/ StartReset(t)
  <2>1. \A w \in Workers : ~Live(w)
    BY <1>4, OwnershipJoined, OwnershipReset
  <2> QED
    BY <1>1, <1>2, <2>1 DEF SafetyInv, StreamInv
<1>5. CASE StartFlags(t) \/ StartSpawnFails(t) \/ StartRestore(t) \/ StartRepublish(t)
             \/ StartSpawn(t)
  <2>1. pc[t] \in ResettingPcs
    BY <1>5 DEF StartFlags, StartSpawnFails, StartRestore, StartRepublish, StartSpawn, Move,
                ResettingPcs
  <2>2. \A w \in Workers : ~Live(w)
    BY <2>1, ResettingAlone
  <2> QED
    BY <1>1, <1>2, <2>2 DEF SafetyInv, StreamInv
<1> QED
  BY <1>3, <1>4, <1>5 DEF OwnershipStep

-----------------------------------------------------------------------------
(* The invariant is inductive, and the properties follow. *)

\* A constructed client satisfies the invariant.
LEMMA SafetyInit == Init => SafetyInv
<1> SUFFICES ASSUME Init PROVE SafetyInv
  OBVIOUS
<1> USE NobodyIsNoThread
<1>1. \A t \in Threads : /\ pc[t] \in {"unborn", "idle"} /\ (t \in Workers => pc[t] = "unborn")
                         /\ handle[t] = Nobody /\ born[t] = 0
  BY DEF Init
<1>2. LockInv
  BY <1>1 DEF Init, LockInv, LockedPcs
<1>3. JoinInv
  BY <1>1 DEF Init, JoinInv, JoinPcs, Threads
<1>4. \A w \in Workers : ~Live(w)
  BY <1>1 DEF Live, Threads
<1>5. ActiveInv
  BY <1>1, <1>4 DEF ActiveInv, ResettingPcs
<1>6. StreamInv
  BY DEF Init, StreamInv
<1>7. QuietInv /\ SettleInv
  BY <1>1, <1>4 DEF Init, QuietInv, SettleInv
<1> QED
  BY <1>2, <1>3, <1>5, <1>6, <1>7, TypeInit DEF SafetyInv

\* Steps that change only data_mutex_ or who sleeps preserve the invariant.
LEMMA SafetyStutter ==
  ASSUME SafetyInv,
         UNCHANGED <<pc, callVars, lifecycle_mutex, clientVars>>
  PROVE  OwnershipInv' /\ StreamInv'
<1> USE DEF SafetyInv, callVars, ownerVars, flagVars, linkVars, sessionVars, startVars, clientVars
<1>1. LockInv' /\ JoinInv'
  BY DEF LockInv, JoinInv
<1>2. ActiveInv' /\ StreamInv'
  BY DEF ActiveInv, StreamInv, Live
<1>3. QuietInv' /\ SettleInv'
  BY DEF QuietInv, SettleInv, Live
<1> QED
  BY <1>1, <1>2, <1>3 DEF OwnershipInv

\* Every step of the client preserves the invariant.
LEMMA SafetyNext ==
  ASSUME SafetyInv, [Next]_vars
  PROVE  SafetyInv'
<1>1. TypeInv'
  BY TypeNext DEF SafetyInv
<1>2. SUFFICES OwnershipInv' /\ StreamInv'
  BY <1>1 DEF SafetyInv, OwnershipInv
<1>3. CASE UNCHANGED vars
  BY <1>3, SafetyStutter DEF vars, lockVars
<1>4. ASSUME NEW w \in Workers, WorkerStep(w) PROVE OwnershipInv' /\ StreamInv'
  <2>1. OwnershipInv'
    BY <1>4, OwnershipWorker
  <2>2. StreamFrame(w)
    BY <1>4, StreamWorker DEF SafetyInv, TypeInv
  <2>3. pc \in [Threads -> Pcs] /\ \A v \in Workers : v \in Threads
    BY DEF SafetyInv, TypeInv, TypeOK, Pcs, Threads
  <2>4. \A v \in Workers : v # w => pc'[v] = pc[v]
    BY <1>4, <2>3, WorkerFrames DEF SafetyInv, TypeInv, WorkerFrame
  <2>5. StreamInv'
    <3>1. CASE session_started' = FALSE /\ stop_owed' = (stop_owed /\ ~session_started)
      BY <3>1 DEF SafetyInv, StreamInv
    <3>2. CASE /\ session_started' = session_started
               /\ stop_owed' => stop_owed \/ session_started
               /\ pc[w] \in SessionPcs => pc'[w] \in SessionPcs
      BY <2>4, <3>2 DEF SafetyInv, StreamInv
    <3>3. CASE session_started' = TRUE /\ pc'[w] \in SessionPcs
      BY <3>3 DEF StreamInv
    <3> QED
      BY <2>2, <3>1, <3>2, <3>3 DEF StreamFrame
  <2> QED
    BY <2>1, <2>5
<1>5. ASSUME NEW t \in Threads, OrdinaryStep(t) PROVE OwnershipInv' /\ StreamInv'
  <2>1. OwnershipInv'
    BY <1>5, ApiFrames, OwnershipApi
  <2>2. pc \in [Threads -> Pcs] /\ \A v \in Workers : v \in Threads
    BY DEF SafetyInv, TypeInv, TypeOK, Pcs, Threads
  <2>3. \A v \in Workers : v # t => pc'[v] = pc[v]
    BY <1>5, <2>2, ApiFrames DEF ApiFrame
  <2>4. StreamInv'
    <3>1. CASE session_started' = FALSE /\ stop_owed' = (stop_owed /\ ~session_started)
      BY <3>1 DEF SafetyInv, StreamInv
    <3>2. CASE /\ session_started' = session_started
               /\ stop_owed' => stop_owed \/ session_started
      <4>1. t \in Workers => pc'[t] \in SessionPcs
        BY <1>5, StreamApi
      <4> QED
        BY <2>3, <3>2, <4>1 DEF SafetyInv, StreamInv
    <3> QED
      BY <1>5, <3>1, <3>2, StreamApi
  <2> QED
    BY <2>1, <2>4
<1>6. ASSUME NEW t \in Threads, OwnershipStep(t) PROVE OwnershipInv' /\ StreamInv'
  <2>1. StreamInv'
    BY <1>6, StreamOwnership
  <2>2. OwnershipInv'
    BY <1>6, OwnershipTake, OwnershipJoined, OwnershipReset, OwnershipRollback, OwnershipSpawn
       DEF OwnershipStep
  <2> QED
    BY <2>1, <2>2
<1>7. ASSUME NEW t \in Threads, SpuriousWake(t) PROVE OwnershipInv' /\ StreamInv'
  BY <1>7, SafetyStutter DEF SpuriousWake, lockVars
<1>8. ASSUME NEW t \in Threads, ApiStep(t) PROVE OrdinaryStep(t) \/ OwnershipStep(t)
  BY <1>8 DEF ApiStep, StartStep, StopStep, OrdinaryStep, OwnershipStep, JoinedStep
<1>9. ASSUME NEW t \in Threads, Call(t) \/ WaitTimeout(t) PROVE OrdinaryStep(t)
  BY <1>9 DEF OrdinaryStep
<1> QED
  BY <1>3, <1>4, <1>5, <1>6, <1>7, <1>8, <1>9 DEF Next

\* The invariant holds in every reachable state.
LEMMA SafetyInvariant == Spec => []SafetyInv
BY SafetyInit, SafetyNext, PTL DEF Spec

\* At most one worker runs, and none while start() rewrites the callback, the flags, the
\* latch and the health snapshot that a worker uses without lifecycle_mutex_.
THEOREM StartOwnership == Spec => []StartOwnsTheClient
<1>1. SafetyInv => StartOwnsTheClient
  <2> SUFFICES ASSUME SafetyInv PROVE StartOwnsTheClient
    OBVIOUS
  <2>1. \A v, w \in Workers : Live(v) /\ Live(w) => v = w
    BY DEF SafetyInv, ActiveInv
  <2>2. \A t \in Threads, w \in Workers : pc[t] \in ResettingPcs => ~Live(w)
    BY ResettingAlone
  <2> QED
    BY <2>1, <2>2 DEF StartOwnsTheClient
<1> QED
  BY <1>1, SafetyInvariant, PTL

\* Code that the sample callback calls recognises its thread: start() refuses there and
\* stop() does not join, also when another thread holds the handle.
THEOREM CallbackThread == Spec => []CallbackKnowsItsThread
<1>1. SafetyInv => CallbackKnowsItsThread
  BY DEF SafetyInv, ActiveInv, CallbackKnowsItsThread, OnWorkerThread, Live, ExitPcs, ApiPcs, StartPcs,
         PendingPcs, ResettingPcs, StopPcs, WaitPcs
<1> QED
  BY <1>1, SafetyInvariant, PTL

\* A running worker's std::thread is owned by worker_ or by exactly one joining thread,
\* never by itself: it is neither dropped joinable, nor joined twice, nor joined by itself.
THEOREM HandleOwnership == Spec => []HandleOwnedOnce
<1>1. SafetyInv => HandleOwnedOnce
  <2> SUFFICES ASSUME SafetyInv, NEW w \in Workers, Live(w)
               PROVE  /\ w \notin {t \in Threads : handle[t] = w}
                      /\ IF worker = w THEN {t \in Threads : handle[t] = w} = {}
                         ELSE \E t \in Threads : {u \in Threads : handle[u] = w} = {t}
    BY DEF HandleOwnedOnce
  <2>1. w # Nobody
    BY DEF Nobody, Workers
  <2>2. handle[w] # w
    BY <2>1 DEF SafetyInv, JoinInv
  <2>3. worker = w => \A t \in Threads : handle[t] # w
    BY <2>1 DEF SafetyInv, JoinInv
  <2>4. worker # w => \E t \in Threads : handle[t] = w /\ \A u \in Threads : handle[u] = w => u = t
    BY <2>1 DEF SafetyInv, JoinInv, ActiveInv
  <2> QED
    BY <2>2, <2>3, <2>4
<1> QED
  BY <1>1, SafetyInvariant, PTL

\* When no worker runs, a StopStreaming was tried after the last command to stream, whatever
\* stop(), bias() and a connecting worker did at the same time.
THEOREM StreamIsStopped == Spec => []NoOrphanedStream
<1>1. SafetyInv => NoOrphanedStream
  BY DEF SafetyInv, StreamInv, NoOrphanedStream, Live, SessionPcs, ApiPcs, StartPcs, PendingPcs,
         ResettingPcs, StopPcs, WaitPcs
<1> QED
  BY <1>1, SafetyInvariant, PTL

\* When stop() returns to an application thread, every worker started before the call is
\* dead: none of their callbacks is running or will run.
THEOREM StopIsQuiet == Spec => StopReturnsQuiet
<1>1. ASSUME SafetyInv, [Next]_vars, NEW c \in Callers, pc[c] \in StopPcs, pc'[c] = "idle"
      PROVE  \A w \in 1 .. born[c] : ~Live(w)
  <2>1. /\ pc \in [Threads -> Pcs] /\ born \in [Threads -> 0 .. MaxStarts]
        /\ attempts \in 0 .. MaxStarts /\ active_worker_id \in 0 .. MaxStarts
    BY <1>1 DEF SafetyInv, TypeInv, TypeOK, Pcs
  <2>2. /\ c \in Threads /\ c \notin Workers /\ c # attempts /\ c # active_worker_id
        /\ \A w \in 1 .. born[c] : w \in Workers /\ w <= born[c]
    BY <2>1 DEF Threads, Workers
  <2>3. pc[c] # "idle"
    BY <1>1 DEF StopPcs
  <2>4. ~UNCHANGED vars
    BY <1>1, <2>3 DEF vars
  <2>5. ASSUME NEW w \in Workers, WorkerStep(w) PROVE FALSE
    BY <1>1, <2>1, <2>2, <2>3, <2>5, WorkerFrames DEF SafetyInv, TypeInv, WorkerFrame
  <2>6. ASSUME NEW t \in Threads, SpuriousWake(t) \/ OwnershipStep(t) PROVE FALSE
    BY <1>1, <2>1, <2>2, <2>3, <2>6
       DEF SpuriousWake, OwnershipStep, StartReap, StopReap, JoinedStep, StartJoined, StopJoined,
           StopJoinSettle, StartReset, StartFlags, StartSpawnFails, StartRestore, StartRepublish,
           StartSpawn, Move, GoTo, Return, StopPcs
  <2>7. ASSUME NEW t \in Threads, OrdinaryStep(t)
        PROVE  t = c /\ (StopOnWorker(c) \/ StopIdle(c) \/ StopSettle(c) \/ StopNotify(c))
    <3>1. t = c
      BY <1>1, <2>1, <2>2, <2>3, <2>7, ApiFrames DEF ApiFrame
    <3>2. ~(StopEnter(c) \/ StopCommand(c) \/ StopAwaitJoiner(c) \/ StopWake(c))
      BY <1>1, <2>1, <2>2, <2>3 DEF StopEnter, StopCommand, StopAwaitJoiner, StopWake, Move, GoTo
    <3>3. ~(\/ StartRejected(c) \/ StartAwaitJoiner(c) \/ StartAwaitExit(c) \/ StartBlock(c)
            \/ StartWake(c) \/ StartNotify(c))
      BY <1>1 DEF StartRejected, StartAwaitJoiner, StartAwaitExit, StartBlock, StartWake,
                  StartNotify, Move, StopPcs
    <3>4. ~(WaitStep(c) \/ Bias(c) \/ WaitTimeout(c))
      BY <1>1 DEF WaitStep, WaitRefused, WaitEnter, WaitCheck, WaitBlock, WaitWake,
                  WaitAnswerTrue, WaitAnswerFalse, WaitReturn, Bias, WaitTimeout, Move, StopPcs
    <3>5. ~Call(c)
      BY <1>1, <2>2, <2>3 DEF Call, Move
    <3> QED
      BY <2>7, <3>1, <3>2, <3>3, <3>4, <3>5 DEF OrdinaryStep
  <2>8. ASSUME NEW t \in Threads, Call(t) \/ WaitTimeout(t) \/ ApiStep(t)
        PROVE  OrdinaryStep(t) \/ OwnershipStep(t)
    BY <2>8 DEF ApiStep, StartStep, StopStep, OrdinaryStep, OwnershipStep, JoinedStep
  <2>9. StopOnWorker(c) \/ StopIdle(c) \/ StopSettle(c) \/ StopNotify(c)
    BY <1>1, <2>4, <2>5, <2>6, <2>7, <2>8 DEF Next
  <2>10. ~StopOnWorker(c)
    BY <2>2 DEF StopOnWorker, OnWorkerThread
  <2>11. CASE StopIdle(c)
    BY <1>1, <2>2, <2>11, NoHandleNoWorker DEF StopIdle
  <2>12. CASE StopNotify(c)
    BY <1>1, <2>2, <2>12 DEF StopNotify, SafetyInv, QuietInv
  <2>13. CASE StopSettle(c)
    BY <1>1, <2>2, <2>13 DEF StopSettle, SafetyInv, SettleInv, SettlePcs
  <2> QED
    BY <2>9, <2>10, <2>11, <2>12, <2>13
<1>2. SafetyInv /\ [Next]_vars =>
        [\A c \in Callers :
           pc[c] \in StopPcs /\ pc'[c] = "idle" => \A w \in 1 .. born[c] : ~Live(w)]_vars
  BY <1>1
<1> QED
  BY <1>2, SafetyInvariant, PTL DEF Spec, StopReturnsQuiet

=============================================================================
