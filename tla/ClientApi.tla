------------------------------ MODULE ClientApi ------------------------------
(***************************************************************************)
(* start(), stop(), wait_for_first_sample() and bias(), each called by any *)
(* number of application threads and from inside the sample callback.      *)
(***************************************************************************)
EXTENDS ClientCore

\* The start() calls that have reset the state, or still may, stay within MaxStarts.
Pending == {t \in Threads : pc[t] \in PendingPcs}
Budget  == attempts + Cardinality(Pending) < MaxStarts

Call(t) ==
  \E op \in Ops :
    /\ \/ t \in Callers /\ Move(t, "idle", op) /\ op \in CallerOps
       \/ t \in Workers /\ Move(t, "callback", op) /\ op \in CallbackOps
    /\ op = "start" => Budget
    /\ born' = [born EXCEPT ![t] = attempts]
    /\ UNCHANGED <<handle, captured, lockVars, cvVars, clientVars>>

\* A condition variable may wake a thread without a notification.
SpuriousWake(t) ==
  /\ t \in lifecycle_cv \cup first_sample_cv
  /\ lifecycle_cv' = lifecycle_cv \ {t}
  /\ first_sample_cv' = first_sample_cv \ {t}
  /\ UNCHANGED <<pc, callVars, lockVars, clientVars>>

-----------------------------------------------------------------------------
(* start(): every iteration of its loop takes lifecycle_mutex_ at "start". *)

EnterStart(t) == t \notin lifecycle_cv /\ lifecycle_mutex = Nobody

\* throw std::logic_error("client is already running")
StartRejected(t) ==
  /\ pc[t] = "start" /\ EnterStart(t)
  /\ \/ OnWorkerThread(t)
     \/ ~joining /\ worker # Nobody /\ ~worker_exited /\ ~Faulted
  /\ Return(t)
  /\ UNCHANGED <<lockVars, cvVars, clientVars>>

\* Wait for !joining_, which changes under the mutex: checking and blocking are one step.
StartAwaitJoiner(t) ==
  /\ pc[t] = "start" /\ EnterStart(t) /\ ~OnWorkerThread(t)
  /\ joining
  /\ lifecycle_cv' = lifecycle_cv \cup {t}
  /\ UNCHANGED <<pc, callVars, lockVars, first_sample_cv, clientVars>>

\* The worker has faulted and not exited: worker_exited_ || !faulted() was just found
\* false, and start() is about to block with the mutex held.
StartAwaitExit(t) ==
  /\ Move(t, "start", "startBlock") /\ EnterStart(t) /\ ~OnWorkerThread(t)
  /\ ~joining /\ worker # Nobody /\ ~worker_exited /\ Faulted
  /\ lifecycle_mutex' = t
  /\ UNCHANGED <<callVars, data_mutex, cvVars, clientVars>>

StartBlock(t) ==
  /\ Move(t, "startBlock", "startWoken")
  /\ lifecycle_mutex' = Nobody
  /\ lifecycle_cv' = lifecycle_cv \cup {t}
  /\ UNCHANGED <<callVars, data_mutex, first_sample_cv, clientVars>>

\* Awake with the mutex: `continue` if the predicate holds, else block again.
StartWake(t) ==
  /\ EnterStart(t)
  /\ \/ /\ worker_exited \/ ~Faulted
        /\ Move(t, "startWoken", "start") /\ UNCHANGED lifecycle_mutex
     \/ /\ ~worker_exited /\ Faulted
        /\ Move(t, "startWoken", "startBlock") /\ lifecycle_mutex' = t
  /\ UNCHANGED <<callVars, data_mutex, cvVars, clientVars>>

\* Fault injection: the worker's identity goes with the handle.
TakeWorkerAndIdentity(t) ==
  /\ ~joining /\ worker # Nobody
  /\ joining' = TRUE
  /\ handle' = [handle EXCEPT ![t] = worker]
  /\ worker' = Nobody
  /\ active_worker_id' = Nobody

\* joining_ = true; the local takes worker_ over.
TakeWorker(t) ==
  /\ ~joining /\ worker # Nobody
  /\ joining' = TRUE
  /\ handle' = [handle EXCEPT ![t] = worker]
  /\ worker' = Nobody
  /\ UNCHANGED active_worker_id

\* join() has returned and lifecycle_mutex_ is free.
Joined(t) == pc[handle[t]] = "dead" /\ lifecycle_mutex = Nobody

\* The joining is over.
EndJoining(t) ==
  /\ handle' = [handle EXCEPT ![t] = Nobody]
  /\ active_worker_id' = Nobody
  /\ joining' = FALSE
  /\ UNCHANGED worker

StartReap(t) ==
  /\ Move(t, "start", "startJoin") /\ EnterStart(t)
  /\ worker_exited
  /\ TakeWorker(t)
  /\ UNCHANGED <<captured, born, lockVars, cvVars, flagVars, reportVars, sessionVars, startVars>>

StartJoined(t) ==
  /\ Move(t, "startJoin", "startNotify") /\ Joined(t)
  /\ EndJoining(t)
  /\ UNCHANGED <<captured, born, lockVars, cvVars, flagVars, reportVars, sessionVars, startVars>>

StartNotify(t) ==
  /\ Move(t, "startNotify", "start")
  /\ lifecycle_cv' = {}
  /\ UNCHANGED <<callVars, lockVars, first_sample_cv, clientVars>>

\* Fault injection: the sample of the previous start survives.
ResetStateKeepingLatest ==
  /\ data_mutex = Nobody
  /\ attempts' = attempts + 1
  /\ saved' = [stopping |-> stopping, worker_exited |-> worker_exited, fault |-> fault_code,
               data |-> data]
  /\ fault_code' = "None"
  /\ data' = [data EXCEPT !.state = "Connecting", !.generation = data.generation + 1,
                          !.delivered_generation = 0, !.attempt = attempts + 1]

\* Remember the previous state, clear the fault latch, open the next generation.
ResetState ==
  /\ data_mutex = Nobody
  /\ attempts' = attempts + 1
  /\ saved' = [stopping |-> stopping, worker_exited |-> worker_exited, fault |-> fault_code,
               data |-> data]
  /\ fault_code' = "None"
  /\ data' = [state |-> "Connecting", generation |-> data.generation + 1,
              delivered_generation |-> 0, latest |-> Nobody, attempt |-> attempts + 1]

\* Fault injection: start() goes ahead while the old worker is being joined.
StartResetWhileJoining(t) ==
  /\ Move(t, "start", "startFlags") /\ EnterStart(t) /\ ~OnWorkerThread(t)
  /\ worker = Nobody
  /\ lifecycle_mutex' = t
  /\ ResetState
  /\ UNCHANGED <<callVars, data_mutex, cvVars, ownerVars, flagVars, sessionVars>>

\* No worker, and nobody joining one.
StartReset(t) ==
  /\ Move(t, "start", "startFlags") /\ EnterStart(t) /\ ~OnWorkerThread(t)
  /\ ~joining /\ worker = Nobody
  /\ lifecycle_mutex' = t
  /\ ResetState
  /\ UNCHANGED <<callVars, data_mutex, cvVars, ownerVars, flagVars, sessionVars>>

StartFlags(t) ==
  /\ Move(t, "startFlags", "startSpawn")
  /\ stopping' = FALSE
  /\ worker_exited' = FALSE
  /\ UNCHANGED <<callVars, lockVars, cvVars, ownerVars, reportVars, sessionVars, startVars>>

\* create_worker_thread() returns: the worker runs, start() returns.
StartSpawn(t) ==
  /\ pc[t] = "startSpawn"
  /\ pc' = [pc EXCEPT ![t] = Home(t), ![attempts] = "loop"]
  /\ born' = [born EXCEPT ![t] = 0]
  /\ worker' = attempts
  /\ active_worker_id' = attempts
  /\ NotifyAll
  /\ lifecycle_mutex' = Nobody
  /\ saved' = NothingSaved
  /\ UNCHANGED <<handle, captured, data_mutex, joining, flagVars, reportVars, sessionVars, attempts>>

\* create_worker_thread() throws: everything is put back, in three steps.
StartSpawnFails(t) ==
  /\ SpawnCanFail
  /\ Move(t, "startSpawn", "startRestore")
  /\ stopping' = saved.stopping
  /\ worker_exited' = saved.worker_exited
  /\ UNCHANGED <<callVars, lockVars, cvVars, ownerVars, reportVars, sessionVars, startVars>>

\* Fault injection: the rollback forgets health_.state.
StartRestoreButState(t) ==
  /\ Move(t, "startRestore", "startRepublish") /\ data_mutex = Nobody
  /\ data' = [saved.data EXCEPT !.state = data.state]
  /\ UNCHANGED <<callVars, lockVars, cvVars, ownerVars, flagVars, fault_code, sessionVars, startVars>>

StartRestore(t) ==
  /\ Move(t, "startRestore", "startRepublish") /\ data_mutex = Nobody
  /\ data' = saved.data
  /\ UNCHANGED <<callVars, lockVars, cvVars, ownerVars, flagVars, fault_code, sessionVars, startVars>>

\* fault_latch_.reset(), then the previous fault is published again, if there was one.
StartRepublish(t) ==
  /\ pc[t] = "startRepublish" /\ data_mutex = Nobody
  /\ Return(t)
  /\ fault_code' = saved.fault
  /\ data' = IF saved.fault = "None" THEN data ELSE [data EXCEPT !.state = "Faulted"]
  /\ NotifyAll
  /\ lifecycle_mutex' = Nobody
  /\ saved' = NothingSaved
  /\ UNCHANGED <<data_mutex, ownerVars, flagVars, sessionVars, attempts>>

-----------------------------------------------------------------------------
(* stop(): every iteration of its loop takes lifecycle_mutex_ at "stop". *)

\* The flag is raised and both condition variables notified, data_mutex_ not held.
StopEnter(t) ==
  /\ Move(t, "stop", "stopCommand") /\ lifecycle_mutex = Nobody
  /\ lifecycle_mutex' = t
  /\ stopping' = TRUE
  /\ NotifyAll
  /\ UNCHANGED <<callVars, data_mutex, ownerVars, worker_exited, reportVars, sessionVars, startVars>>

\* Fault injection: nothing wakes a blocked receive.
StopCommandWithoutShutdown(t) ==
  /\ Move(t, "stopCommand", "stopDecide")
  /\ SendStopStreaming
  /\ UNCHANGED <<callVars, lockVars, cvVars, ownerVars, flagVars, reportVars, result, startVars,
                 shutdown_requested>>

\* Under command_mutex_: StopStreaming if a session is open, then the shutdown that
\* wakes a blocked receive.
StopCommand(t) ==
  /\ Move(t, "stopCommand", "stopDecide")
  /\ SendStopStreaming
  /\ shutdown_requested' = TRUE
  /\ UNCHANGED <<callVars, lockVars, cvVars, ownerVars, flagVars, reportVars, result, startVars>>

\* stop() in the callback does not join its own thread.
StopOnWorker(t) ==
  /\ pc[t] = "stopDecide" /\ OnWorkerThread(t)
  /\ Return(t)
  /\ lifecycle_mutex' = Nobody
  /\ UNCHANGED <<data_mutex, cvVars, clientVars>>

StopAwaitJoiner(t) ==
  /\ Move(t, "stopDecide", "stopAwait") /\ ~OnWorkerThread(t)
  /\ joining
  /\ lifecycle_mutex' = Nobody
  /\ lifecycle_cv' = lifecycle_cv \cup {t}
  /\ UNCHANGED <<callVars, data_mutex, first_sample_cv, clientVars>>

\* Awake with the mutex: still joining_, sleep on; else `continue`.
StopWake(t) ==
  /\ t \notin lifecycle_cv /\ lifecycle_mutex = Nobody
  /\ \/ /\ joining /\ pc[t] = "stopAwait"
        /\ lifecycle_cv' = lifecycle_cv \cup {t} /\ UNCHANGED pc
     \/ /\ ~joining /\ Move(t, "stopAwait", "stop") /\ UNCHANGED lifecycle_cv
  /\ UNCHANGED <<callVars, lockVars, first_sample_cv, clientVars>>

\* Fault injection: stop() returns while another thread joins the worker.
StopIdleDuringJoin(t) ==
  /\ pc[t] = "stopDecide" /\ ~OnWorkerThread(t)
  /\ worker = Nobody
  /\ \/ Faulted /\ Return(t) /\ lifecycle_mutex' = Nobody
     \/ ~Faulted /\ GoTo(t, "stopSettle") /\ UNCHANGED <<callVars, lifecycle_mutex>>
  /\ UNCHANGED <<data_mutex, cvVars, clientVars>>

\* Nothing to join.  With a fault latched stop() returns; else the state is still to be settled.
StopIdle(t) ==
  /\ pc[t] = "stopDecide" /\ ~OnWorkerThread(t)
  /\ ~joining /\ worker = Nobody
  /\ \/ Faulted /\ Return(t) /\ lifecycle_mutex' = Nobody
     \/ ~Faulted /\ GoTo(t, "stopSettle") /\ UNCHANGED <<callVars, lifecycle_mutex>>
  /\ UNCHANGED <<data_mutex, cvVars, clientVars>>

StopSettle(t) ==
  /\ pc[t] = "stopSettle"
  /\ SettleStopped
  /\ Return(t)
  /\ lifecycle_mutex' = Nobody
  /\ UNCHANGED <<data_mutex, cvVars, ownerVars, flagVars, fault_code, sessionVars, startVars>>

\* Fault injection: stop() in the callback joins its own thread.
StopReapFromCallback(t) ==
  /\ Move(t, "stopDecide", "stopJoin")
  /\ TakeWorker(t)
  /\ lifecycle_mutex' = Nobody
  /\ UNCHANGED <<captured, born, data_mutex, cvVars, flagVars, reportVars, sessionVars, startVars>>

StopReap(t) ==
  /\ Move(t, "stopDecide", "stopJoin") /\ ~OnWorkerThread(t)
  /\ TakeWorker(t)
  /\ lifecycle_mutex' = Nobody
  /\ UNCHANGED <<captured, born, data_mutex, cvVars, flagVars, reportVars, sessionVars, startVars>>

\* After the join, with lifecycle_mutex_ held: the same check, and the joining is over.
StopJoined(t) ==
  /\ pc[t] = "stopJoin" /\ Joined(t)
  /\ \/ Faulted /\ GoTo(t, "stopNotify") /\ EndJoining(t) /\ UNCHANGED lifecycle_mutex
     \/ /\ ~Faulted /\ GoTo(t, "stopJoinSettle")
        /\ lifecycle_mutex' = t /\ UNCHANGED <<handle, ownerVars>>
  /\ UNCHANGED <<captured, born, data_mutex, cvVars, flagVars, reportVars, sessionVars, startVars>>

StopJoinSettle(t) ==
  /\ Move(t, "stopJoinSettle", "stopNotify")
  /\ SettleStopped
  /\ EndJoining(t)
  /\ lifecycle_mutex' = Nobody
  /\ UNCHANGED <<captured, born, data_mutex, cvVars, flagVars, fault_code, sessionVars, startVars>>

\* Fault injection: nobody is told that the joining is over.
StopNotifyNobody(t) ==
  /\ pc[t] = "stopNotify"
  /\ Return(t)
  /\ UNCHANGED <<lockVars, cvVars, clientVars>>

StopNotify(t) ==
  /\ pc[t] = "stopNotify"
  /\ NotifyAll
  /\ Return(t)
  /\ UNCHANGED <<lockVars, clientVars>>

-----------------------------------------------------------------------------
(* wait_for_first_sample(), under data_mutex_ except while asleep *)

WaitOver(ticket) ==
  \/ data.generation # ticket.generation
  \/ data.delivered_generation = ticket.generation
  \/ stopping
  \/ Faulted

\* Before the first start() there is no generation to wait for.
WaitRefused(t) ==
  /\ pc[t] = "wait" /\ data_mutex = Nobody /\ data.generation = 0
  /\ Return(t)
  /\ UNCHANGED <<lockVars, cvVars, clientVars>>

WaitEnter(t) ==
  /\ Move(t, "wait", "waitCheck") /\ data_mutex = Nobody /\ data.generation # 0
  /\ data_mutex' = t
  /\ captured' = [captured EXCEPT ![t] = [generation |-> data.generation, attempt |-> data.attempt]]
  /\ UNCHANGED <<handle, born, lifecycle_mutex, cvVars, clientVars>>

WaitCheck(t) ==
  /\ Move(t, "waitCheck", IF WaitOver(captured[t]) THEN "waitAnswer" ELSE "waitBlock")
  /\ UNCHANGED <<callVars, lockVars, cvVars, clientVars>>

WaitBlock(t) ==
  /\ Move(t, "waitBlock", "waitWoken")
  /\ data_mutex' = Nobody
  /\ first_sample_cv' = first_sample_cv \cup {t}
  /\ UNCHANGED <<callVars, lifecycle_mutex, lifecycle_cv, clientVars>>

\* The deadline passes while the thread is asleep.
WaitTimeout(t) ==
  /\ Move(t, "waitWoken", "waitLast") /\ t \in first_sample_cv
  /\ first_sample_cv' = first_sample_cv \ {t}
  /\ UNCHANGED <<callVars, lockVars, lifecycle_cv, clientVars>>

\* Awake: evaluate the predicate again or, after a timeout, answer whatever it says.
WaitWake(t) ==
  /\ t \notin first_sample_cv /\ data_mutex = Nobody
  /\ Move(t, "waitWoken", "waitCheck") \/ Move(t, "waitLast", "waitAnswer")
  /\ data_mutex' = t
  /\ UNCHANGED <<callVars, lifecycle_mutex, cvVars, clientVars>>

\* Fault injection: a sample of any generation will do.
WaitAnswerForAny(ticket) == data.delivered_generation = data.generation

WaitAnswer(ticket) ==
  /\ data.generation = ticket.generation
  /\ data.delivered_generation = ticket.generation

WaitAnswerTrue(t) ==
  /\ Move(t, "waitAnswer", "waitedTrue") /\ WaitAnswer(captured[t])
  /\ data_mutex' = Nobody
  /\ UNCHANGED <<callVars, lifecycle_mutex, cvVars, clientVars>>

WaitAnswerFalse(t) ==
  /\ pc[t] = "waitAnswer" /\ ~WaitAnswer(captured[t])
  /\ Return(t)
  /\ data_mutex' = Nobody
  /\ UNCHANGED <<lifecycle_mutex, cvVars, clientVars>>

WaitReturn(t) ==
  /\ pc[t] = "waitedTrue"
  /\ Return(t)
  /\ UNCHANGED <<lockVars, cvVars, clientVars>>

-----------------------------------------------------------------------------
(* bias(): command, record and data mutex, then SetSoftwareBias and StartRealtime *)

\* Fault injection: bias() trusts health_.state alone.
CanBiasByHealth == data.state = "Streaming"

CanBias == ~stopping /\ session_started /\ ~Faulted /\ data.state = "Streaming"

Bias(t) ==
  /\ pc[t] = "bias" /\ data_mutex = Nobody
  /\ stop_owed' = (stop_owed \/ CanBias)
  /\ Return(t)
  /\ UNCHANGED <<lockVars, cvVars, ownerVars, flagVars, reportVars, result, session_started,
                 shutdown_requested, startVars>>

-----------------------------------------------------------------------------

StartStep(t) ==
  \/ StartRejected(t) \/ StartAwaitJoiner(t) \/ StartAwaitExit(t) \/ StartBlock(t)
  \/ StartWake(t) \/ StartReap(t) \/ StartJoined(t) \/ StartNotify(t) \/ StartReset(t)
  \/ StartFlags(t) \/ StartSpawn(t) \/ StartSpawnFails(t) \/ StartRestore(t)
  \/ StartRepublish(t)

StopStep(t) ==
  \/ StopEnter(t) \/ StopCommand(t) \/ StopOnWorker(t) \/ StopAwaitJoiner(t)
  \/ StopWake(t) \/ StopIdle(t) \/ StopSettle(t) \/ StopReap(t) \/ StopJoined(t)
  \/ StopJoinSettle(t) \/ StopNotify(t)

WaitStep(t) ==
  \/ WaitRefused(t) \/ WaitEnter(t) \/ WaitCheck(t) \/ WaitBlock(t) \/ WaitWake(t)
  \/ WaitAnswerTrue(t) \/ WaitAnswerFalse(t) \/ WaitReturn(t)

\* Every step of a call, but for the deadline of a wait.
ApiStep(t) == StartStep(t) \/ StopStep(t) \/ WaitStep(t) \/ Bias(t)

=============================================================================
