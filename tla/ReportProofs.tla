---------------------------- MODULE ReportProofs -----------------------------
(***************************************************************************)
(* Proofs about what Lifecycle reports: health, fault latch and latest     *)
(* sample agree with each other and with the worker, and the client        *)
(* implements ClientContract.                                              *)
(***************************************************************************)
EXTENDS LifecycleProofs

USE ConstantsAssumption

(* The steps in which a worker may have a fault latched, and those in which it handles a record. *)
EndingPcs  == {"finish", "exiting", "exited", "exitNotify"}
HandlePcs  == {"callback", "deliver"} \cup ApiPcs
ReportsEnd == {"Stopped", "Faulted"}

\* What the snapshot says while worker w runs, and when it has just died: a worker with a
\* latched fault is on its way out, a session that ended has an outcome, the end is
\* reported by the last step but one, and records are handled as Streaming.
WorkerReport(w) ==
  /\ Faulted => pc[w] \in EndingPcs \cup {"dead"}
  /\ pc[w] \in {"close", "policy"} => result[w] # "None"
  /\ data.attempt = w
  /\ data.state \in ReportsEnd \/ pc[w] \notin {"exitNotify", "dead"}
  /\ data.state = "Stopped" => pc[w] \in {"exitNotify", "dead"}
  /\ pc[w] \in HandlePcs => data.state = "Streaming"
  /\ data.state = "Faulted" <=> Faulted

\* A snapshot whose latest sample belongs to its start, and is there exactly if delivered.
Coherent(d) ==
  /\ d.latest \in {Nobody, d.attempt}
  /\ d.generation # 0 => (d.latest # Nobody <=> d.delivered_generation = d.generation)

LatestInv == Coherent(data) /\ data.attempt <= attempts

\* Nothing runs and nothing is being started: the end of the past is reported.
RestInv ==
  (\A w \in Workers : ~Live(w)) /\ (\A t \in Threads : pc[t] \notin ResettingPcs)
    => data.state \in ReportsEnd /\ (data.state = "Faulted" <=> Faulted)

\* What start() has saved is such a state of rest, and how far it is put back.
RollbackInv ==
  \A t \in Threads : pc[t] \in ResettingPcs =>
    /\ attempts \in Workers
    /\ saved.data.state \in ReportsEnd /\ (saved.data.state = "Faulted" <=> saved.fault # "None")
    /\ Coherent(saved.data) /\ saved.data.attempt <= attempts
    /\ ~Faulted
    /\ IF pc[t] = "startRepublish" THEN data = saved.data
       ELSE data.state = "Connecting" /\ data.attempt = attempts

\* Where stop() is about to write Stopped there is no fault to overwrite.
CheckedInv == \A t \in Threads : pc[t] \in SettlePcs => ~Faulted

ReportInv ==
  /\ \A w \in Workers : Live(w) => WorkerReport(w)
  /\ LatestInv
  /\ RestInv
  /\ RollbackInv
  /\ CheckedInv

-----------------------------------------------------------------------------
(* The invariant is inductive. *)

\* What a running worker's step makes of the report, its outcome included.
LEMMA ReportWorker ==
  ASSUME TypeOK, NEW w \in Workers, Live(w), WorkerReport(w), Coherent(data), WorkerStep(w)
  PROVE  WorkerReport(w)' /\ Coherent(data)' /\ UNCHANGED <<attempts, saved>>
<1>a. /\ pc \in [Threads -> Pcs] /\ w \in Threads /\ w # Nobody
      /\ result \in [Workers -> SessionFailures \cup {"None", "Stopped"}]
      /\ data \in DataRecord
  BY DEF TypeOK, Pcs, Threads, Workers, Nobody
<1> USE <1>a DEF WorkerReport, Coherent, Faulted, DataRecord, Live, EndingPcs, ReportsEnd,
            HandlePcs, Move, GoTo, ApiPcs, StartPcs, PendingPcs, ResettingPcs, StopPcs, WaitPcs,
            SessionFailures, startVars, apiVars, reportVars, linkVars, sessionVars
<1>1. CASE WLoop(w)
  BY <1>1 DEF WLoop
<1>2. CASE WConnecting(w)
  BY <1>2 DEF WConnecting
<1>3. CASE WDiscover(w)
  BY <1>3 DEF WDiscover, EndSession
<1>4. CASE WConnect(w)
  BY <1>4 DEF WConnect, EndSession
<1>5. CASE WStartRealtime(w)
  BY <1>5 DEF WStartRealtime, EndSession
<1>6. CASE WRecvCheck(w)
  BY <1>6 DEF WRecvCheck, EndSession
<1>7. CASE WReceiveFails(w)
  BY <1>7 DEF WReceiveFails, EndSession
<1>8. CASE WReceive(w)
  BY <1>8 DEF WReceive, EndSession
<1>9. CASE WMalformed(w)
  BY <1>9 DEF WMalformed, EndRecord
<1>10. CASE WRecord(w)
  BY <1>10 DEF WRecord, EndRecord, DropOutcomes
<1>11. CASE WCallbackReturns(w)
  BY <1>11 DEF WCallbackReturns
<1>12. CASE WCallbackThrows(w)
  BY <1>12 DEF WCallbackThrows, EndRecord, CallbackFailure
<1>13. CASE WDeliver(w)
  BY <1>13 DEF WDeliver, EndRecord
<1>14. CASE WClose(w)
  BY <1>14 DEF WClose, CloseSession, SendStopStreaming
<1>15. CASE WFailStop(w)
  BY <1>15 DEF WFailStop, Publish, FaultFor
<1>16. CASE WLeave(w)
  BY <1>16 DEF WLeave
<1>17. CASE WBackoff(w)
  BY <1>17 DEF WBackoff
<1>18. CASE WBackoffCheck(w)
  BY <1>18 DEF WBackoffCheck
<1>19. CASE WBackoffBlock(w)
  BY <1>19 DEF WBackoffBlock
<1>20. CASE WBackoffElapsed(w)
  BY <1>20 DEF WBackoffElapsed
<1>21. CASE WCatch(w)
  BY <1>21 DEF WCatch, Publish
<1>22. CASE WFinish(w)
  BY <1>22 DEF WFinish, CloseSession, SendStopStreaming
<1>23. CASE WExit(w)
  BY <1>23 DEF WExit
<1>24. CASE WSettle(w)
  BY <1>24 DEF WSettle, SettleStopped
<1>25. CASE WExitNotify(w)
  BY <1>25 DEF WExitNotify
<1>26. CASE WExited(w)
  BY <1>26 DEF WExited
<1> QED
  BY <1>1, <1>2, <1>3, <1>4, <1>5, <1>6, <1>7, <1>8, <1>9, <1>10, <1>11, <1>12, <1>13, <1>14,
     <1>15, <1>16, <1>17, <1>18, <1>19, <1>20, <1>21, <1>22, <1>23, <1>24, <1>25, <1>26
     DEF WorkerStep, SessionStep

\* A call that leaves the report alone and neither begins nor ends a reset.
LEMMA ReportQuiet ==
  ASSUME SafetyInv, ReportInv, NEW t \in Threads, NEW q, pc' = [pc EXCEPT ![t] = q],
         pc[t] \notin ResettingPcs, q \notin ResettingPcs,
         t \in Workers => {pc[t], q} \subseteq ApiPcs \cup {"callback"},
         q \in SettlePcs => ~Faulted,
         UNCHANGED <<data, fault_code, result, saved, attempts>>
  PROVE  ReportInv'
<1>1. pc \in [Threads -> Pcs] /\ \A w \in Workers : w \in Threads
  BY DEF SafetyInv, TypeInv, TypeOK, Pcs, Threads
<1>2. \A u \in Threads : pc'[u] = IF u = t THEN q ELSE pc[u]
  BY <1>1
<1>3. \A w \in Workers : Live(w)' <=> Live(w)
  BY <1>1, <1>2 DEF Live, ApiPcs, StartPcs, PendingPcs, ResettingPcs, StopPcs, WaitPcs
<1>4. ASSUME NEW w \in Workers, Live(w)' PROVE WorkerReport(w)'
  <2>1. WorkerReport(w)
    BY <1>3, <1>4 DEF ReportInv
  <2>2. CASE w # t
    BY <1>1, <1>2, <2>1, <2>2 DEF WorkerReport, Faulted
  <2>3. CASE w = t
    BY <1>2, <2>1, <2>3 DEF WorkerReport, Faulted, HandlePcs, EndingPcs, ReportsEnd, ApiPcs,
                            StartPcs, PendingPcs, ResettingPcs, StopPcs, WaitPcs
  <2> QED
    BY <2>2, <2>3
<1>5. \A u \in Threads : pc'[u] \in ResettingPcs <=> pc[u] \in ResettingPcs /\ pc'[u] = pc[u]
  BY <1>2
<1>6. LatestInv' /\ RestInv'
  BY <1>3, <1>5 DEF ReportInv, LatestInv, RestInv, Coherent, Faulted
<1>7. RollbackInv'
  BY <1>5 DEF ReportInv, RollbackInv, Coherent, Faulted
<1>8. CheckedInv'
  BY <1>2 DEF ReportInv, CheckedInv, Faulted
<1> QED
  BY <1>4, <1>6, <1>7, <1>8 DEF ReportInv

\* A stop() that found no worker, or has joined it, and found no fault reports Stopped.
LEMMA ReportSettled ==
  ASSUME SafetyInv, ReportInv,
         \A w \in Workers : ~Live(w) /\ ~Live(w)',
         \A t \in Threads : pc[t] \notin ResettingPcs /\ pc'[t] \notin ResettingPcs,
         ~Faulted, SettleStopped, UNCHANGED <<fault_code, saved, attempts>>
  PROVE  ReportInv'
<1>1. data \in DataRecord
  BY DEF SafetyInv, TypeInv, TypeOK
<1>2. RestInv'
  BY <1>1 DEF ReportInv, RestInv, SettleStopped, Faulted, DataRecord, ReportsEnd
<1>3. LatestInv'
  BY <1>1 DEF ReportInv, LatestInv, Coherent, SettleStopped, DataRecord
<1> QED
  BY <1>2, <1>3 DEF ReportInv, RollbackInv, CheckedInv, Faulted

\* The ordinary steps of calls change the report only when stop() has found no worker.
LEMMA OrdinaryReports ==
  ASSUME NEW t \in Threads, OrdinaryStep(t)
  PROVE  UNCHANGED <<fault_code, result, saved, attempts>> /\ (data' = data \/ StopSettle(t))
<1> USE DEF startVars, reportVars, sessionVars, clientVars
<1>1. CASE WaitStep(t)
  BY <1>1 DEF WaitStep, WaitRefused, WaitEnter, WaitCheck, WaitBlock, WaitWake,
              WaitAnswerTrue, WaitAnswerFalse, WaitReturn
<1>2. CASE OrdinaryStep(t) /\ ~WaitStep(t)
  BY <1>2 DEF OrdinaryStep, StartRejected, StartAwaitJoiner, StartAwaitExit, StartBlock,
              StartWake, StartNotify, StopEnter, StopCommand, StopOnWorker, StopAwaitJoiner,
              StopWake, StopIdle, StopSettle, StopNotify, Bias, WaitTimeout, Call
<1> QED
  BY <1>1, <1>2

\* Ordinary steps of calls preserve the invariant.
LEMMA ReportApi ==
  ASSUME SafetyInv, ReportInv, NEW t \in Threads, OrdinaryStep(t)
  PROVE  ReportInv'
<1>1. ApiFrame(t)
  BY ApiFrames
<1>2. UNCHANGED <<fault_code, result, saved, attempts>> /\ (data' = data \/ StopSettle(t))
  BY OrdinaryReports
<1>3. CASE data' = data
  BY <1>1, <1>2, <1>3, ReportQuiet DEF ApiFrame
<1>4. CASE StopSettle(t)
  <2>1. pc[t] = "stopSettle" /\ SettleStopped
    BY <1>4 DEF StopSettle
  <2>2. ~Faulted /\ \A w \in Workers : ~Live(w)
    BY <2>1 DEF SafetyInv, SettleInv, ReportInv, CheckedInv, SettlePcs
  <2>3. \A u \in Threads : pc[u] \notin ResettingPcs
    BY <2>1, ResettingAlone DEF LockedPcs, ResettingPcs
  <2>4. t \notin Workers
    BY <2>1, <2>2, CallerIsLive DEF ApiPcs, StopPcs
  <2>5. pc \in [Threads -> Pcs] /\ \A w \in Workers : w \in Threads
    BY DEF SafetyInv, TypeInv, TypeOK, Pcs, Threads
  <2>6. /\ \A w \in Workers : ~Live(w)'
        /\ \A u \in Threads : pc'[u] \notin ResettingPcs
    BY <1>1, <2>2, <2>3, <2>4, <2>5 DEF ApiFrame, Live
  <2> QED
    BY <1>2, <2>1, <2>2, <2>3, <2>6, ReportSettled
<1> QED
  BY <1>2, <1>3, <1>4

\* The steps that take the handle, or end a join without settling, leave the report alone.
HandleStep(t) == StartReap(t) \/ StopReap(t) \/ StartJoined(t) \/ StopJoined(t)

\* What they have in common; stop() goes on to write Stopped only if no fault is latched.
LEMMA HandleFrame ==
  ASSUME NEW t \in Threads, HandleStep(t)
  PROVE  /\ UNCHANGED <<data, fault_code, result, saved, attempts, stop_owed>>
         /\ \E q \in {"startJoin", "stopJoin", "startNotify", "stopNotify", "stopJoinSettle"} :
              /\ pc' = [pc EXCEPT ![t] = q]
              /\ {pc[t], q} \subseteq ApiPcs \ ResettingPcs
              /\ q \in SettlePcs => ~Faulted
<1>1. UNCHANGED <<data, fault_code, result, saved, attempts, stop_owed>>
  BY DEF HandleStep, StartReap, StopReap, StartJoined, StopJoined, reportVars, sessionVars,
         linkVars, startVars
<1>2. PICK q \in {"startJoin", "stopJoin", "startNotify", "stopNotify", "stopJoinSettle"} :
        /\ pc' = [pc EXCEPT ![t] = q] /\ pc[t] \in {"start", "stopDecide", "startJoin", "stopJoin"}
        /\ q = "stopJoinSettle" => ~Faulted
  BY DEF HandleStep, StartReap, StopReap, StartJoined, StopJoined, Move, GoTo
<1> QED
  BY <1>1, <1>2 DEF ApiPcs, StartPcs, PendingPcs, ResettingPcs, StopPcs, SettlePcs

\* They preserve the invariant.
LEMMA ReportHandle ==
  ASSUME SafetyInv, ReportInv, NEW t \in Threads, HandleStep(t)
  PROVE  ReportInv'
BY HandleFrame, ReportQuiet

\* stop() writes Stopped after its join.
LEMMA ReportJoined ==
  ASSUME SafetyInv, ReportInv, NEW t \in Threads, StopJoinSettle(t)
  PROVE  ReportInv'
<1>1. \A w \in Workers : ~Live(w)
  BY OwnershipJoined DEF JoinedStep
<1>2. pc \in [Threads -> Pcs] /\ \A w \in Workers : w \in Threads
  BY DEF SafetyInv, TypeInv, TypeOK, Pcs, Threads
<1>3. /\ pc[t] = "stopJoinSettle" /\ pc' = [pc EXCEPT ![t] = "stopNotify"] /\ SettleStopped
      /\ UNCHANGED <<fault_code, saved, attempts>>
  BY DEF StopJoinSettle, Move, GoTo, startVars
<1>4. ~Faulted
  BY <1>3 DEF ReportInv, CheckedInv, SettlePcs
<1>5. \A u \in Threads : pc[u] \notin ResettingPcs
  BY <1>3, ResettingAlone DEF LockedPcs, ResettingPcs
<1>6. t \notin Workers
  BY <1>1, <1>3, CallerIsLive DEF ApiPcs, StopPcs
<1>7. /\ \A w \in Workers : ~Live(w)'
      /\ \A u \in Threads : pc'[u] \notin ResettingPcs
  BY <1>1, <1>2, <1>3, <1>5, <1>6 DEF Live, ResettingPcs
<1> QED
  BY <1>1, <1>3, <1>4, <1>5, <1>7, ReportSettled

\* start() saves a state of rest and opens the next generation.
LEMMA ReportReset ==
  ASSUME SafetyInv, TypeInv', ReportInv, NEW t \in Threads, StartReset(t)
  PROVE  ReportInv'
<1> USE NobodyIsNoThread
<1>1. /\ pc \in [Threads -> Pcs] /\ \A w \in Workers : w \in Threads
      /\ data \in DataRecord /\ attempts \in 0 .. MaxStarts /\ attempts' \in 0 .. MaxStarts
  BY DEF SafetyInv, TypeInv, TypeOK, Pcs, Threads
<1>2. /\ pc[t] = "start" /\ pc' = [pc EXCEPT ![t] = "startFlags"] /\ lifecycle_mutex = Nobody
      /\ ResetState
  BY DEF StartReset, EnterStart, Move, GoTo
<1>3. \A w \in Workers : ~Live(w)
  BY OwnershipReset
<1>4. \A u \in Threads : pc[u] \notin ResettingPcs
  BY <1>2, ResettingAlone
<1>5. t \notin Workers
  BY <1>2, <1>3, CallerIsLive DEF ApiPcs, StartPcs, PendingPcs
<1>6. /\ \A w \in Workers : ~Live(w)'
      /\ \A u \in Threads : pc'[u] \in ResettingPcs <=> u = t
      /\ pc'[t] = "startFlags"
  BY <1>1, <1>2, <1>3, <1>4, <1>5 DEF Live, ResettingPcs
<1>7. data.state \in ReportsEnd /\ (data.state = "Faulted" <=> Faulted)
  BY <1>3, <1>4 DEF ReportInv, RestInv
<1>8. /\ attempts' \in Workers /\ attempts' = attempts + 1
      /\ data'.state = "Connecting" /\ data'.attempt = attempts' /\ fault_code' = "None"
      /\ saved'.data = data /\ saved'.fault = fault_code
  BY <1>1, <1>2 DEF ResetState, Workers
<1>9. LatestInv'
  BY <1>1, <1>2, <1>8 DEF LatestInv, Coherent, ResetState, DataRecord, Nobody
<1>10. Coherent(data) /\ data.attempt <= attempts'
  BY <1>1, <1>8 DEF ReportInv, LatestInv, DataRecord
<1>11. RollbackInv'
  BY <1>6, <1>7, <1>8, <1>10 DEF RollbackInv, Coherent, Faulted
<1> QED
  BY <1>6, <1>8, <1>9, <1>11 DEF ReportInv, RestInv, CheckedInv, Faulted

\* Inside the reset the report is put back in two steps, or not touched.
LEMMA ReportRollback ==
  ASSUME SafetyInv, ReportInv, NEW t \in Threads,
         StartFlags(t) \/ StartSpawnFails(t) \/ StartRestore(t)
  PROVE  ReportInv'
<1>1. /\ pc \in [Threads -> Pcs] /\ \A w \in Workers : w \in Threads
  BY DEF SafetyInv, TypeInv, TypeOK, Pcs, Threads
<1>2. pc[t] \in ResettingPcs /\ pc[t] # "startRepublish"
  BY DEF StartFlags, StartSpawnFails, StartRestore, Move, ResettingPcs
<1>3. /\ \A w \in Workers : ~Live(w)
      /\ t \notin Workers /\ \A u \in Threads : pc[u] \in LockedPcs => u = t
  BY <1>2, ResettingAlone
<1>4. /\ UNCHANGED <<fault_code, attempts, saved>>
      /\ \/ pc' = [pc EXCEPT ![t] = "startSpawn"] /\ data' = data
         \/ pc' = [pc EXCEPT ![t] = "startRestore"] /\ data' = data
         \/ pc' = [pc EXCEPT ![t] = "startRepublish"] /\ data' = saved.data
  BY DEF StartFlags, StartSpawnFails, StartRestore, Move, GoTo, reportVars, startVars
<1>5. /\ \A w \in Workers : ~Live(w)'
      /\ \A u \in Threads : pc'[u] \in ResettingPcs <=> u = t
  BY <1>1, <1>3, <1>4 DEF Live, LockedPcs, ResettingPcs
<1>6. /\ ~Faulted /\ attempts \in Workers
      /\ saved.data.state \in ReportsEnd /\ (saved.data.state = "Faulted" <=> saved.fault # "None")
      /\ Coherent(saved.data) /\ saved.data.attempt <= attempts
      /\ data.state = "Connecting" /\ data.attempt = attempts
  BY <1>2 DEF ReportInv, RollbackInv
<1>7. LatestInv'
  BY <1>4, <1>6 DEF ReportInv, LatestInv, Coherent
<1>8. RollbackInv'
  BY <1>1, <1>4, <1>5, <1>6 DEF RollbackInv, Coherent, Faulted
<1>9. CheckedInv'
  BY <1>4, <1>6 DEF CheckedInv, Faulted
<1> QED
  BY <1>5, <1>7, <1>8, <1>9 DEF ReportInv, RestInv

\* The rollback ends in the state of rest it began in.
LEMMA ReportRepublish ==
  ASSUME SafetyInv, ReportInv, NEW t \in Threads, StartRepublish(t)
  PROVE  ReportInv' /\ data' = saved.data
<1>1. /\ pc \in [Threads -> Pcs] /\ \A w \in Workers : w \in Threads /\ data \in DataRecord
  BY DEF SafetyInv, TypeInv, TypeOK, Pcs, Threads
<1>2. pc[t] \in ResettingPcs /\ pc[t] = "startRepublish"
  BY DEF StartRepublish, ResettingPcs
<1>3. /\ \A w \in Workers : ~Live(w)
      /\ t \notin Workers /\ \A u \in Threads : pc[u] \in LockedPcs => u = t
  BY <1>2, ResettingAlone
<1>4. /\ pc' = [pc EXCEPT ![t] = "idle"]
      /\ fault_code' = saved.fault /\ attempts' = attempts
      /\ data' = IF saved.fault = "None" THEN data ELSE [data EXCEPT !.state = "Faulted"]
  BY <1>3 DEF StartRepublish, Return, GoTo, Home, Threads
<1>5. /\ \A w \in Workers : ~Live(w)'
      /\ \A u \in Threads : pc'[u] \notin ResettingPcs
  BY <1>1, <1>3, <1>4 DEF Live, LockedPcs, ResettingPcs
<1>6. /\ saved.data.state \in ReportsEnd /\ (saved.data.state = "Faulted" <=> saved.fault # "None")
      /\ data = saved.data
  BY <1>2 DEF ReportInv, RollbackInv
<1>7. data \in DataRecord
  BY DEF SafetyInv, TypeInv, TypeOK
<1>8. data' = data
  BY <1>4, <1>6, <1>7 DEF DataRecord
<1>9. RestInv'
  BY <1>4, <1>6, <1>8 DEF RestInv, Faulted
<1>10. LatestInv'
  BY <1>4, <1>8 DEF ReportInv, LatestInv, Coherent
<1>11. CheckedInv'
  BY <1>1, <1>3, <1>4 DEF CheckedInv, SettlePcs, LockedPcs
<1> QED
  BY <1>5, <1>6, <1>8, <1>9, <1>10, <1>11 DEF ReportInv, RollbackInv

\* A worker begins with the report its start() opened.
LEMMA ReportSpawn ==
  ASSUME SafetyInv, ReportInv, NEW t \in Threads, StartSpawn(t)
  PROVE  /\ ReportInv'
         /\ attempts \in Workers /\ data.attempt = attempts
         /\ \A w \in Workers : Live(w)' <=> w = attempts
         /\ \A u \in Threads : pc'[u] \notin ResettingPcs
<1>1. /\ pc \in [Threads -> Pcs] /\ \A w \in Workers : w \in Threads
  BY DEF SafetyInv, TypeInv, TypeOK, Pcs, Threads
<1>2. pc[t] \in ResettingPcs /\ pc[t] = "startSpawn"
  BY DEF StartSpawn, ResettingPcs
<1>3. /\ \A w \in Workers : ~Live(w)
      /\ t \notin Workers /\ \A u \in Threads : pc[u] \in LockedPcs => u = t
  BY <1>2, ResettingAlone
<1>4. ~Faulted /\ attempts \in Workers /\ data.state = "Connecting" /\ data.attempt = attempts
  BY <1>2 DEF ReportInv, RollbackInv
<1>5. /\ pc' = [pc EXCEPT ![t] = "idle", ![attempts] = "loop"]
      /\ UNCHANGED <<data, fault_code, attempts>>
  BY <1>3 DEF StartSpawn, Home, Threads, reportVars
<1>6. \A u \in Threads : pc'[u] = IF u = attempts THEN "loop" ELSE IF u = t THEN "idle" ELSE pc[u]
  BY <1>1, <1>5
<1>7. \A w \in Workers : Live(w)' <=> w = attempts
  BY <1>1, <1>3, <1>4, <1>6 DEF Live
<1>8. \A u \in Threads : pc'[u] \notin ResettingPcs
  BY <1>3, <1>6 DEF LockedPcs, ResettingPcs
<1>9. WorkerReport(attempts)'
  BY <1>1, <1>4, <1>5, <1>6 DEF WorkerReport, Faulted, HandlePcs, ReportsEnd, ApiPcs, StartPcs,
                               PendingPcs, ResettingPcs, StopPcs, WaitPcs
<1>10. \A w \in Workers : Live(w)' => WorkerReport(w)'
  BY <1>5, <1>7, <1>9
<1>11. LatestInv'
  BY <1>5 DEF ReportInv, LatestInv, Coherent
<1>12. RestInv' /\ RollbackInv' /\ CheckedInv'
  BY <1>4, <1>5, <1>7, <1>8 DEF RestInv, RollbackInv, CheckedInv, Faulted
<1> QED
  BY <1>4, <1>7, <1>8, <1>10, <1>11, <1>12 DEF ReportInv

\* A constructed client satisfies the invariant.
LEMMA ReportInit == Init => ReportInv
<1> SUFFICES ASSUME Init PROVE ReportInv
  OBVIOUS
<1>1. \A t \in Threads : pc[t] \in {"unborn", "idle"} /\ (t \in Workers => pc[t] = "unborn")
  BY DEF Init
<1>2. \A w \in Workers : ~Live(w)
  BY <1>1 DEF Live, Threads
<1>3. LatestInv /\ RestInv
  BY DEF Init, LatestInv, RestInv, Coherent, InitialData, ReportsEnd, Faulted, Nobody
<1> QED
  BY <1>1, <1>2, <1>3 DEF ReportInv, RollbackInv, CheckedInv, ResettingPcs, SettlePcs

\* The worker's steps preserve the invariant.
LEMMA ReportWorkerStep ==
  ASSUME SafetyInv, ReportInv, NEW w \in Workers, WorkerStep(w)
  PROVE  /\ ReportInv'
         /\ Live(w) /\ WorkerReport(w) /\ WorkerReport(w)'
         /\ \A v \in Workers : v # w => ~Live(v) /\ ~Live(v)'
         /\ \A t \in Threads : pc[t] \notin ResettingPcs /\ pc'[t] \notin ResettingPcs
<1>1. pc \in [Threads -> Pcs] /\ \A v \in Workers : v \in Threads
  BY DEF SafetyInv, TypeInv, TypeOK, Pcs, Threads
<1>2. WorkerFrame(w)
  BY WorkerFrames DEF SafetyInv, TypeInv
<1>3. Live(w)
  BY <1>2 DEF WorkerFrame, Live
<1>4. \A t \in Threads : pc[t] \notin ResettingPcs
  BY <1>3, ResettingAlone
<1>5. PICK q \in WorkerPcs \ {"unborn"} : pc' = [pc EXCEPT ![w] = q]
  BY <1>2 DEF WorkerFrame
<1>6. \A t \in Threads : pc'[t] \notin ResettingPcs
  BY <1>1, <1>4, <1>5 DEF WorkerPcs, ResettingPcs
<1>7. \A v \in Workers : v # w => ~Live(v) /\ ~Live(v)'
  BY <1>1, <1>3, <1>5 DEF SafetyInv, ActiveInv, Live
<1>8. WorkerReport(w)
  BY <1>3 DEF ReportInv
<1>9. WorkerReport(w)' /\ Coherent(data)' /\ UNCHANGED <<attempts, saved>>
  BY <1>3, <1>8, ReportWorker DEF SafetyInv, TypeInv, ReportInv, LatestInv
<1>10. data'.attempt = data.attempt
  BY <1>8, <1>9 DEF WorkerReport
<1>11. LatestInv'
  BY <1>9, <1>10 DEF ReportInv, LatestInv
<1>12. RestInv'
  <2>1. ~Live(w)' => pc'[w] = "dead"
    BY <1>1, <1>5 DEF Live
  <2> QED
    BY <1>9, <2>1 DEF RestInv, WorkerReport
<1>13. \A v \in Workers : Live(v)' => WorkerReport(v)'
  BY <1>7, <1>9
<1>14. \A t \in Threads : pc'[t] \notin SettlePcs
  BY <1>1, <1>3, <1>5 DEF SafetyInv, SettleInv, SettlePcs, WorkerPcs
<1>15. ReportInv'
  BY <1>6, <1>11, <1>12, <1>13, <1>14 DEF ReportInv, RollbackInv, CheckedInv
<1> QED
  BY <1>3, <1>4, <1>6, <1>7, <1>8, <1>9, <1>15

\* Steps that change only who sleeps preserve the invariant.
LEMMA ReportStutter ==
  ASSUME ReportInv, UNCHANGED <<pc, clientVars>>
  PROVE  ReportInv'
<1> USE DEF reportVars, sessionVars, startVars, clientVars
<1>1. \A w \in Workers : Live(w)' => WorkerReport(w)'
  BY DEF ReportInv, Live, WorkerReport, Faulted
<1>2. LatestInv' /\ RestInv'
  BY DEF ReportInv, LatestInv, RestInv, Coherent, Live, Faulted
<1>3. RollbackInv' /\ CheckedInv'
  BY DEF ReportInv, RollbackInv, CheckedInv, Coherent, Faulted
<1> QED
  BY <1>1, <1>2, <1>3 DEF ReportInv

\* A step of the client is one of these.
LEMMA NextCases ==
  ASSUME [Next]_vars
  PROVE  \/ UNCHANGED vars
         \/ \E w \in Workers : WorkerStep(w)
         \/ \E t \in Threads : OrdinaryStep(t) \/ OwnershipStep(t) \/ SpuriousWake(t)
<1>1. ASSUME NEW t \in Threads, Call(t) \/ WaitTimeout(t) \/ ApiStep(t)
      PROVE  OrdinaryStep(t) \/ OwnershipStep(t)
  BY <1>1 DEF ApiStep, StartStep, StopStep, OrdinaryStep, OwnershipStep, JoinedStep
<1> QED
  BY <1>1 DEF Next

\* Every step of the client preserves the invariant.
LEMMA ReportNext ==
  ASSUME SafetyInv, ReportInv, [Next]_vars
  PROVE  ReportInv'
<1>1. TypeInv'
  BY TypeNext DEF SafetyInv
<1>2. CASE UNCHANGED vars
  BY <1>2, ReportStutter DEF vars
<1>3. ASSUME NEW w \in Workers, WorkerStep(w) PROVE ReportInv'
  BY <1>3, ReportWorkerStep
<1>4. ASSUME NEW t \in Threads, OrdinaryStep(t) PROVE ReportInv'
  BY <1>4, ReportApi
<1>5. ASSUME NEW t \in Threads, OwnershipStep(t) PROVE ReportInv'
  BY <1>1, <1>5, ReportHandle, ReportJoined, ReportReset, ReportRollback, ReportRepublish,
     ReportSpawn DEF OwnershipStep, JoinedStep, HandleStep
<1>6. ASSUME NEW t \in Threads, SpuriousWake(t) PROVE ReportInv'
  BY <1>6, ReportStutter DEF SpuriousWake
<1> QED
  BY <1>2, <1>3, <1>4, <1>5, <1>6, NextCases

\* The invariant holds in every reachable state.
LEMMA ReportInvariant == Spec => []ReportInv
BY SafetyInvariant, ReportInit, ReportNext, PTL DEF Spec

\* health().state is Faulted exactly when a fault is latched, but for the moment in which a
\* failed start() has put back the one and not the other: what set_fault(), stop(), the
\* worker's end and the rollback write separately never disagrees.
THEOREM HealthAndLatch == Spec => []HealthMatchesLatch
<1>1. SafetyInv /\ ReportInv => HealthMatchesLatch
  <2> SUFFICES ASSUME SafetyInv, ReportInv PROVE HealthMatchesLatch
    OBVIOUS
  <2>1. CASE \E w \in Workers : Live(w)
    BY <2>1 DEF ReportInv, WorkerReport, HealthMatchesLatch
  <2>2. CASE \E t \in Threads : pc[t] \in ResettingPcs
    BY <2>2 DEF ReportInv, RollbackInv, HealthMatchesLatch, Faulted
  <2>3. CASE (\A w \in Workers : ~Live(w)) /\ (\A t \in Threads : pc[t] \notin ResettingPcs)
    BY <2>3 DEF ReportInv, RestInv, HealthMatchesLatch
  <2> QED
    BY <2>1, <2>2, <2>3
<1> QED
  BY <1>1, SafetyInvariant, ReportInvariant, PTL

\* With no worker and lifecycle_mutex_ free the client reports Stopped or Faulted, however
\* its sessions ended and whether or not a start() failed in between.
THEOREM RestingReport == Spec => []RestsStoppedOrFaulted
<1>1. SafetyInv /\ ReportInv => RestsStoppedOrFaulted
  BY ResettingAlone, NobodyIsNoThread DEF ReportInv, RestInv, RestsStoppedOrFaulted, ReportsEnd
<1> QED
  BY <1>1, SafetyInvariant, ReportInvariant, PTL

\* latest_sample() never shows a sample of an earlier start, also after a failed start(),
\* and shows one exactly when delivered_generation_ says so.
THEOREM LatestOfThisStart == Spec => []LatestBelongsToStart
<1>1. ReportInv => LatestBelongsToStart
  BY DEF ReportInv, LatestInv, Coherent, LatestBelongsToStart
<1> QED
  BY <1>1, ReportInvariant, PTL

-----------------------------------------------------------------------------
(* The client implements its contract: every step is one of the contract,  *)
(* or invisible there.                                                     *)

ContractStep ==
  Contract!Next \/ UNCHANGED <<Running, Phase, Report, fault_code, stop_owed, Before>>

\* Between its first and its last step, a worker's step makes progress, delivers, latches
\* or settles in the contract, or turns the stream on or off.
LEMMA ContractWorker ==
  ASSUME SafetyInv, ReportInv, NEW w \in Workers, WorkerStep(w)
  PROVE  ContractStep
<1>a. /\ pc \in [Threads -> Pcs] /\ w \in Threads /\ data \in DataRecord
      /\ stop_owed \in BOOLEAN /\ data' \in DataRecord
      /\ result \in [Workers -> SessionFailures \cup {"None", "Stopped"}]
  BY TypeNext DEF SafetyInv, TypeInv, TypeOK, Pcs, Threads, Next
<1>b. WorkerReport(w) /\ WorkerReport(w)' /\ UNCHANGED saved
  BY ReportWorkerStep, ReportWorker DEF SafetyInv, TypeInv, ReportInv, LatestInv
<1>c. Running = {w} /\ Phase = "settled" /\ Phase' = "settled" /\ Before' = Before
  <2>1. Before' = Before
    BY <1>b DEF Before
  <2>2. Phase = "settled" /\ Phase' = "settled"
    BY ReportWorkerStep DEF Phase, ResettingPcs
  <2>3. Running = {w}
    BY ReportWorkerStep DEF Running
  <2> QED
    BY <2>1, <2>2, <2>3
<1>d. Running' = IF pc'[w] = "dead" THEN {} ELSE {w}
  <2>1. Live(w)' <=> pc'[w] # "dead"
    BY <1>a, WorkerFrames DEF SafetyInv, TypeInv, WorkerFrame, Live
  <2> QED
    BY <2>1, ReportWorkerStep DEF Running
<1>e. pc[w] = "exitNotify" => ~stop_owed
  BY ReportWorkerStep DEF SafetyInv, StreamInv, SessionPcs, Live, ApiPcs, StartPcs, PendingPcs,
                          ResettingPcs, StopPcs, WaitPcs
<1> USE <1>a, <1>b, <1>c, <1>d, <1>e DEF ContractStep, Contract!Next, Contract!Active, WorkerReport,
      Faulted, DataRecord, EndingPcs, ReportsEnd, HandlePcs, Move, GoTo, ApiPcs, StartPcs, PendingPcs,
      ResettingPcs, StopPcs, WaitPcs, SessionFailures, Report, Shown, reportVars, linkVars,
      sessionVars
<1>1. CASE WLoop(w)
  BY <1>1 DEF WLoop
<1>2. CASE WConnecting(w)
  BY <1>2 DEF WConnecting, Contract!Progress
<1>3. CASE WDiscover(w)
  BY <1>3 DEF WDiscover, EndSession
<1>4. CASE WConnect(w)
  BY <1>4 DEF WConnect, EndSession
<1>5. CASE WStartRealtime(w)
  BY <1>5 DEF WStartRealtime, EndSession, Contract!Stream
<1>6. CASE WRecvCheck(w)
  BY <1>6 DEF WRecvCheck, EndSession
<1>7. CASE WReceiveFails(w)
  BY <1>7 DEF WReceiveFails, EndSession
<1>8. CASE WReceive(w)
  BY <1>8 DEF WReceive, EndSession
<1>9. CASE WMalformed(w)
  BY <1>9 DEF WMalformed, EndRecord
<1>10. CASE WRecord(w)
  BY <1>10 DEF WRecord, EndRecord, Contract!Progress
<1>11. CASE WCallbackReturns(w)
  BY <1>11 DEF WCallbackReturns
<1>12. CASE WCallbackThrows(w)
  BY <1>12 DEF WCallbackThrows, EndRecord
<1>13. CASE WDeliver(w)
  BY <1>13 DEF WDeliver, EndRecord, Contract!Deliver
<1>14. CASE WClose(w)
  BY <1>14 DEF WClose, CloseSession, SendStopStreaming, Contract!Stream
<1>15. CASE WFailStop(w)
  BY <1>15 DEF WFailStop, Publish, FaultFor, Contract!Latch
<1>16. CASE WLeave(w)
  BY <1>16 DEF WLeave
<1>17. CASE WBackoff(w)
  BY <1>17 DEF WBackoff, Contract!Progress
<1>18. CASE WBackoffCheck(w)
  BY <1>18 DEF WBackoffCheck
<1>19. CASE WBackoffBlock(w)
  BY <1>19 DEF WBackoffBlock
<1>20. CASE WBackoffElapsed(w)
  BY <1>20 DEF WBackoffElapsed
<1>21. CASE WCatch(w)
  BY <1>21 DEF WCatch, Publish, Contract!Latch
<1>22. CASE WFinish(w)
  BY <1>22 DEF WFinish, CloseSession, SendStopStreaming, Contract!Stream
<1>23. CASE WExit(w)
  BY <1>23 DEF WExit
<1>24. CASE WSettle(w)
  BY <1>24 DEF WSettle, SettleStopped, Contract!Settle
<1>25. CASE WExitNotify(w)
  BY <1>25 DEF WExitNotify, Contract!Leave
<1>26. CASE WExited(w)
  BY <1>26 DEF WExited
<1> QED
  BY <1>1, <1>2, <1>3, <1>4, <1>5, <1>6, <1>7, <1>8, <1>9, <1>10, <1>11, <1>12, <1>13, <1>14,
     <1>15, <1>16, <1>17, <1>18, <1>19, <1>20, <1>21, <1>22, <1>23, <1>24, <1>25, <1>26
     DEF WorkerStep, SessionStep

\* A thread that moves outside the reset changes neither what runs nor the phase.
LEMMA ContractFrame ==
  ASSUME SafetyInv, NEW t \in Threads, NEW q, pc' = [pc EXCEPT ![t] = q],
         pc[t] \notin ResettingPcs, q \notin ResettingPcs,
         t \in Workers => {pc[t], q} \subseteq ApiPcs \cup {"callback"}
  PROVE  Running' = Running /\ Phase' = Phase
<1>1. pc \in [Threads -> Pcs] /\ \A w \in Workers : w \in Threads
  BY DEF SafetyInv, TypeInv, TypeOK, Pcs, Threads
<1>2. \A w \in Workers : Live(w)' <=> Live(w)
  BY <1>1 DEF Live, ApiPcs, StartPcs, PendingPcs, ResettingPcs, StopPcs, WaitPcs
<1>3. \A u \in Threads : /\ pc'[u] \in ResettingPcs <=> pc[u] \in ResettingPcs
                         /\ pc'[u] = "startRepublish" <=> pc[u] = "startRepublish"
  BY <1>1 DEF ResettingPcs
<1> QED
  BY <1>2, <1>3 DEF Running, Phase

\* Only bias(), on a running and healthy session, tells the sensor to stream again.
LEMMA OrdinaryStreams ==
  ASSUME NEW t \in Threads, OrdinaryStep(t), stop_owed', ~stop_owed
  PROVE  CanBias
<1> USE DEF linkVars, sessionVars, clientVars
<1>1. CASE WaitStep(t)
  BY <1>1 DEF WaitStep, WaitRefused, WaitEnter, WaitCheck, WaitBlock, WaitWake,
              WaitAnswerTrue, WaitAnswerFalse, WaitReturn
<1>2. CASE OrdinaryStep(t) /\ ~WaitStep(t)
  BY <1>2 DEF OrdinaryStep, StartRejected, StartAwaitJoiner, StartAwaitExit, StartBlock,
              StartWake, StartNotify, StopEnter, StopCommand, SendStopStreaming, StopOnWorker,
              StopAwaitJoiner, StopWake, StopIdle, StopSettle, StopNotify, Bias, WaitTimeout, Call
<1> QED
  BY <1>1, <1>2

\* A stop() that settles does what the contract calls so.
LEMMA ContractSettle ==
  ASSUME SafetyInv, ReportInv, NEW t \in Threads, pc[t] \in SettlePcs, SettleStopped,
         UNCHANGED <<Running, Phase, fault_code, stop_owed, Before>>
  PROVE  ContractStep
<1>1. data \in DataRecord
  BY DEF SafetyInv, TypeInv, TypeOK
<1>2. ~Faulted
  BY DEF ReportInv, CheckedInv
<1>3. Phase = "settled"
  BY ResettingAlone DEF Phase, LockedPcs, ResettingPcs, SettlePcs
<1> QED
  BY <1>1, <1>2, <1>3 DEF ContractStep, Contract!Next, Contract!Settle, SettleStopped, Faulted,
                          Report, Shown, DataRecord

\* The ordinary steps of calls turn the stream off or, in bias(), on; stop() may settle.
LEMMA ContractApi ==
  ASSUME SafetyInv, ReportInv, NEW t \in Threads, OrdinaryStep(t)
  PROVE  ContractStep
<1>1. ApiFrame(t)
  BY ApiFrames
<1>2. Running' = Running /\ Phase' = Phase
  BY <1>1, ContractFrame DEF ApiFrame
<1>3. UNCHANGED <<fault_code, saved, attempts>> /\ (data' = data \/ StopSettle(t))
  BY OrdinaryReports
<1>4. Before' = Before
  BY <1>3 DEF Before
<1>5. CASE data' = data
  <2>1. Report' = Report
    BY <1>5 DEF Report, Shown
  <2>2. stop_owed \in BOOLEAN /\ stop_owed' \in BOOLEAN
    <3>1. [Next]_vars
      BY DEF OrdinaryStep, Next, ApiStep, StartStep, StopStep
    <3> QED
      BY <3>1, TypeNext DEF SafetyInv, TypeInv, TypeOK
  <2>3. stop_owed' /\ ~stop_owed => Contract!Active
    <3> SUFFICES ASSUME stop_owed', ~stop_owed PROVE Contract!Active
      OBVIOUS
    <3>1. CanBias
      BY OrdinaryStreams
    <3>2. PICK w \in Workers : pc[w] \in SessionPcs
      BY <3>1 DEF CanBias, SafetyInv, StreamInv
    <3>3. Live(w)
      BY <3>2 DEF SessionPcs, Live, ApiPcs, StartPcs, PendingPcs, ResettingPcs, StopPcs, WaitPcs
    <3>4. Running = {w} /\ data.attempt = w
      BY <3>3 DEF SafetyInv, ActiveInv, Running, ReportInv, WorkerReport
    <3> QED
      BY <3>1, <3>4 DEF Contract!Active, CanBias, Faulted, Report, Shown
  <2>4. CASE stop_owed' = stop_owed
    BY <1>2, <1>3, <1>4, <2>1, <2>4 DEF ContractStep
  <2>5. CASE stop_owed' = ~stop_owed
    BY <1>2, <1>3, <1>4, <2>1, <2>2, <2>3, <2>5 DEF ContractStep, Contract!Next, Contract!Stream
  <2> QED
    BY <2>2, <2>4, <2>5
<1>6. CASE StopSettle(t)
  <2>1. SettleStopped /\ pc[t] = "stopSettle" /\ stop_owed' = stop_owed
    BY <1>6 DEF StopSettle, sessionVars, linkVars
  <2> QED
    BY <1>2, <1>3, <1>4, <2>1, ContractSettle DEF SettlePcs
<1> QED
  BY <1>3, <1>5, <1>6

\* Moving the handle, and the joins, are invisible, but that stop() settles after its join.
LEMMA ContractHandle ==
  ASSUME SafetyInv, ReportInv, NEW t \in Threads, HandleStep(t) \/ StopJoinSettle(t)
  PROVE  ContractStep
<1>1. CASE HandleStep(t)
  <2>1. Running' = Running /\ Phase' = Phase
    BY <1>1, HandleFrame, ContractFrame
  <2>2. UNCHANGED <<data, fault_code, saved, stop_owed>>
    BY <1>1, HandleFrame
  <2> QED
    BY <2>1, <2>2 DEF ContractStep, Report, Shown, Before
<1>2. CASE StopJoinSettle(t)
  <2>1. /\ pc[t] = "stopJoinSettle" /\ pc' = [pc EXCEPT ![t] = "stopNotify"] /\ SettleStopped
        /\ UNCHANGED <<fault_code, saved, stop_owed>>
    BY <1>2 DEF StopJoinSettle, Move, GoTo, startVars, sessionVars, linkVars
  <2>2. Running' = Running /\ Phase' = Phase
    BY <2>1, ContractFrame DEF ApiPcs, StopPcs, ResettingPcs
  <2>3. Before' = Before
    BY <2>1 DEF Before
  <2> QED
    BY <2>1, <2>2, <2>3, ContractSettle DEF SettlePcs
<1> QED
  BY <1>1, <1>2

\* start() opens a start, which runs, or is undone in two steps.
LEMMA ContractReset ==
  ASSUME SafetyInv, ReportInv, [Next]_vars, NEW t \in Threads,
         \/ StartReset(t) \/ StartFlags(t) \/ StartSpawn(t) \/ StartSpawnFails(t)
         \/ StartRestore(t) \/ StartRepublish(t)
  PROVE  ContractStep
<1>1. /\ pc \in [Threads -> Pcs] /\ \A w \in Workers : w \in Threads
      /\ data \in DataRecord /\ attempts \in 0 .. MaxStarts
  BY DEF SafetyInv, TypeInv, TypeOK, Pcs, Threads
<1>2. stop_owed' = stop_owed
  BY DEF StartReset, StartFlags, StartSpawn, StartSpawnFails, StartRestore, StartRepublish,
         sessionVars, linkVars
<1>3. SafetyInv' /\ ReportInv'
  BY SafetyNext, ReportNext
<1>4. ASSUME NEW u \in Threads, pc[u] \in ResettingPcs
      PROVE  Running = {} /\ Phase = IF pc[u] = "startRepublish" THEN "undoing" ELSE "opening"
  BY <1>4, ResettingAlone DEF Running, Phase, LockedPcs, ResettingPcs
<1>5. ASSUME SafetyInv', NEW u \in Threads, pc'[u] \in ResettingPcs
      PROVE  Running' = {} /\ Phase' = IF pc'[u] = "startRepublish" THEN "undoing" ELSE "opening"
  <2>1. /\ \A w \in Workers : worker' = Nobody /\ ~joining' => ~Live(w)'
        /\ worker' = Nobody /\ ~joining'
    BY <1>5, NobodyIsNoThread DEF SafetyInv, ActiveInv, JoinInv, Threads
  <2>2. \A v \in Threads : pc'[v] \in ResettingPcs => v = u
    BY <1>5 DEF SafetyInv, LockInv, LockedPcs, ResettingPcs
  <2> QED
    BY <1>5, <2>1, <2>2 DEF Running, Phase, ResettingPcs
<1>6. CASE StartReset(t)
  <2>1. /\ pc[t] = "start" /\ pc' = [pc EXCEPT ![t] = "startFlags"] /\ lifecycle_mutex = Nobody
        /\ ResetState
    BY <1>6 DEF StartReset, EnterStart, Move, GoTo
  <2>2. Running = {} /\ Phase = "settled"
    BY <1>6, <2>1, OwnershipReset, ResettingAlone, NobodyIsNoThread
       DEF Running, Phase, ResettingPcs
  <2>3. Running' = {} /\ Phase' = "opening"
    BY <1>1, <1>3, <1>5, <2>1 DEF ResettingPcs
  <2>4. Report'.start \in Nat /\ Report'.start > Report.start
    BY <1>1, <2>1 DEF ReportInv, LatestInv, ResetState, Report, Shown, DataRecord
  <2>5. /\ Report' = [state |-> "Connecting", start |-> Report'.start, latest |-> 0]
        /\ fault_code' = "None" /\ Before' = [report |-> Report, fault |-> fault_code]
    BY <2>1 DEF ResetState, Report, Shown, Before, Nobody
  <2> QED
    BY <1>2, <2>2, <2>3, <2>4, <2>5 DEF ContractStep, Contract!Next, Contract!Open
<1>7. CASE StartFlags(t) \/ StartSpawnFails(t)
  <2>1. /\ pc[t] \in {"startFlags", "startSpawn"} /\ pc'[t] \in {"startSpawn", "startRestore"}
        /\ UNCHANGED <<data, fault_code, saved>>
    BY <1>1, <1>7 DEF StartFlags, StartSpawnFails, Move, GoTo, reportVars, startVars
  <2>2. Running = {} /\ Phase = "opening" /\ Running' = {} /\ Phase' = "opening"
    BY <1>3, <1>4, <1>5, <2>1 DEF ResettingPcs
  <2> QED
    BY <1>2, <2>1, <2>2 DEF ContractStep, Report, Before, Shown
<1>8. CASE StartRestore(t)
  <2>1. /\ pc[t] = "startRestore" /\ pc'[t] = "startRepublish"
        /\ data' = saved.data /\ UNCHANGED <<fault_code, saved>>
    BY <1>1, <1>8 DEF StartRestore, Move, GoTo, startVars
  <2>2. Running = {} /\ Phase = "opening" /\ Running' = {} /\ Phase' = "undoing"
    BY <1>3, <1>4, <1>5, <2>1 DEF ResettingPcs
  <2>3. Report' = Before.report /\ Before' = Before
    BY <2>1 DEF Report, Before, Shown
  <2> QED
    BY <1>2, <2>1, <2>2, <2>3 DEF ContractStep, Contract!Next, Contract!UndoReport
<1>9. CASE StartRepublish(t)
  <2>1. pc[t] = "startRepublish" /\ fault_code' = saved.fault
    BY <1>9 DEF StartRepublish
  <2>2. Running = {} /\ Phase = "undoing"
    BY <1>4, <2>1 DEF ResettingPcs
  <2>3. /\ \A w \in Workers : ~Live(w)
        /\ t \notin Workers /\ \A u \in Threads : pc[u] \in LockedPcs => u = t
    BY <2>1, ResettingAlone DEF ResettingPcs
  <2>4. pc' = [pc EXCEPT ![t] = "idle"]
    BY <1>9, <2>3 DEF StartRepublish, Return, GoTo, Home, Threads
  <2>5. Running' = {} /\ Phase' = "settled"
    BY <1>1, <2>3, <2>4 DEF Running, Phase, Live, LockedPcs, ResettingPcs
  <2>6. Report' = Report
    <3>1. data' = data
      BY <1>9, <2>1, ReportRepublish DEF ReportInv, RollbackInv, ResettingPcs
    <3> QED
      BY <3>1 DEF Report, Shown
  <2> QED
    BY <1>2, <2>1, <2>2, <2>5, <2>6 DEF ContractStep, Contract!Next, Contract!UndoFault, Before
<1>10. CASE StartSpawn(t)
  <2>1. pc[t] = "startSpawn" /\ UNCHANGED <<data, fault_code>>
    BY <1>10 DEF StartSpawn, reportVars
  <2>2. Phase = "opening"
    BY <1>4, <2>1 DEF ResettingPcs
  <2>3. Running' = {data.attempt} /\ Phase' = "settled"
    BY <1>10, ReportSpawn DEF Running, Phase, ResettingPcs
  <2> QED
    BY <1>2, <2>1, <2>2, <2>3 DEF ContractStep, Contract!Next, Contract!Run, Report, Shown
<1> QED
  BY <1>6, <1>7, <1>8, <1>9, <1>10

\* The client implements ClientContract.  Whatever its threads interleave, an application and
\* a sensor see starts that run one after the other or are undone, samples only of the running
\* start and before it reports its end, the first fault kept until the next start, and no
\* stream left behind.
THEOREM ContractImplemented == Spec => ImplementsContract
<1>1. Init => Contract!Init
  <2> SUFFICES ASSUME Init PROVE Contract!Init
    OBVIOUS
  <2>1. \A t \in Threads : pc[t] \in {"unborn", "idle"} /\ (t \in Workers => pc[t] = "unborn")
    BY DEF Init
  <2>2. Running = {} /\ Phase = "settled"
    BY <2>1 DEF Running, Phase, Live, ResettingPcs, Threads
  <2> QED
    BY <2>2 DEF Init, Contract!Init, Report, Shown, InitialData, Nobody
<1>2. ASSUME SafetyInv, ReportInv, [Next]_vars PROVE ContractStep
  <2>1. CASE UNCHANGED vars
    BY <2>1 DEF ContractStep, vars, clientVars, reportVars, sessionVars, linkVars, startVars,
                Running, Phase, Report, Before, Shown, Live
  <2>2. ASSUME NEW w \in Workers, WorkerStep(w) PROVE ContractStep
    BY <1>2, <2>2, ContractWorker
  <2>3. ASSUME NEW t \in Threads, OrdinaryStep(t) PROVE ContractStep
    BY <1>2, <2>3, ContractApi
  <2>4. ASSUME NEW t \in Threads, OwnershipStep(t) PROVE ContractStep
    BY <1>2, <2>4, ContractHandle, ContractReset DEF OwnershipStep, JoinedStep, HandleStep
  <2>5. ASSUME NEW t \in Threads, SpuriousWake(t) PROVE ContractStep
    BY <2>5 DEF ContractStep, SpuriousWake, clientVars, reportVars, sessionVars, linkVars,
                startVars, Running, Phase, Report, Before, Shown, Live
  <2> QED
    BY <1>2, <2>1, <2>2, <2>3, <2>4, <2>5, NextCases
<1>3. SafetyInv /\ ReportInv /\ [Next]_vars => [Contract!Next]_(Contract!contractVars)
  BY <1>2 DEF ContractStep, Contract!contractVars
<1> QED
  BY <1>1, <1>3, SafetyInvariant, ReportInvariant, PTL DEF Spec, ImplementsContract, Contract!Spec

\* The theorems about the contract, read through the refinement mapping.
Promised == INSTANCE ContractProofs WITH
  running <- Running, phase <- Phase, report <- Report, fault <- fault_code,
  streaming <- stop_owed, before <- Before

\* Once health() has said Stopped or Faulted, neither it nor latest_sample() changes for that
\* start, whatever the threads of the application, the worker and its callback still do: it
\* follows from the contract.
THEOREM ClientEndIsFinal == Spec => EndIsFinal
<1> DEFINE Final == Report.state \in {"Stopped", "Faulted"} /\ Report'.start = Report.start
                      => Report' = Report
<1>1. Contract!Init => Promised!Init
  BY DEF Contract!Init, Promised!Init
<1>2. [Contract!Next]_(Contract!contractVars) => [Promised!Next]_(Promised!contractVars)
  BY DEF Contract!Next, Contract!contractVars, Contract!Open, Contract!Run, Contract!UndoReport,
         Contract!UndoFault, Contract!Active, Contract!Progress, Contract!Deliver, Contract!Latch,
         Contract!Settle, Contract!Stream, Contract!Leave,
         Promised!Next, Promised!contractVars, Promised!Open, Promised!Run, Promised!UndoReport,
         Promised!UndoFault, Promised!Active, Promised!Progress, Promised!Deliver, Promised!Latch,
         Promised!Settle, Promised!Stream, Promised!Leave
<1>3. [Final]_(Promised!contractVars) => [Final]_(Contract!contractVars)
  BY DEF Contract!contractVars, Promised!contractVars
<1> QED
  BY <1>1, <1>2, <1>3, ContractImplemented, Promised!EndsAreFinal, PTL
     DEF ImplementsContract, EndIsFinal, Contract!Spec, Promised!Spec, Contract!EndIsFinal,
         Promised!EndIsFinal

=============================================================================
