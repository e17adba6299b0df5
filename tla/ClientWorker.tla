---------------------------- MODULE ClientWorker -----------------------------
(***************************************************************************)
(* The worker thread: run() with receive_session(), handle_record(),       *)
(* set_fault(), close_session() and finish_session().                      *)
(***************************************************************************)
EXTENDS ClientCore

\* run(): while (!stopping_ && !faulted())
WLoop(w) ==
  /\ Move(w, "loop", IF stopping \/ Faulted THEN "finish" ELSE "connecting")
  /\ result' = [result EXCEPT ![w] = "None"]
  /\ UNCHANGED <<apiVars, lockVars, cvVars, flagVars, reportVars, linkVars>>

WConnecting(w) ==
  /\ Move(w, "connecting", "discover") /\ data_mutex = Nobody
  /\ data' = [data EXCEPT !.state = "Connecting"]
  /\ UNCHANGED <<apiVars, lockVars, cvVars, flagVars, fault_code, sessionVars>>

\* receive_session() returns; on the paths that use this, stopping_ turns any outcome
\* into Stopped.
EndSession(w, from, outcome) ==
  /\ Move(w, from, "close")
  /\ result' = [result EXCEPT ![w] = IF stopping THEN "Stopped" ELSE outcome]

\* Discovery succeeds, fails, or throws something other than a DiscoveryError.  While a
\* worker lives stopping_ is never lowered, so the checks before and after are one.
WDiscover(w) ==
  /\ \/ /\ stopping \/ "SensorConfiguration" \in Failures
        /\ EndSession(w, "discover", "SensorConfiguration")
     \/ ~stopping /\ Move(w, "discover", "connect") /\ UNCHANGED result
     \/ "Exception" \in Failures /\ Move(w, "discover", "catch") /\ UNCHANGED result
  /\ UNCHANGED <<apiVars, lockVars, cvVars, flagVars, reportVars, linkVars>>

\* UdpTransport::connect: a new socket, shutdown_requested_ lowered.
WConnect(w) ==
  /\ \/ Move(w, "connect", "startRealtime") /\ shutdown_requested' = FALSE /\ UNCHANGED result
     \/ /\ "Socket" \in Failures
        /\ EndSession(w, "connect", "Socket")
        /\ UNCHANGED shutdown_requested
  /\ UNCHANGED <<apiVars, lockVars, cvVars, flagVars, reportVars, session_started, stop_owed>>

\* Under command_mutex_: give up if stopping_, else send StartRealtime.
WStartRealtime(w) ==
  /\ \/ /\ stopping \/ "Socket" \in Failures
        /\ EndSession(w, "startRealtime", "Socket")
        /\ UNCHANGED <<session_started, stop_owed>>
     \/ /\ ~stopping /\ Move(w, "startRealtime", "recvCheck")
        /\ session_started' = TRUE
        /\ stop_owed' = TRUE
        /\ UNCHANGED result
  /\ UNCHANGED <<apiVars, lockVars, cvVars, flagVars, reportVars, shutdown_requested>>

\* while (!stopping_), before each receive; computing its deadline may throw.
WRecvCheck(w) ==
  /\ \/ stopping /\ EndSession(w, "recvCheck", "Stopped")
     \/ ~stopping /\ Move(w, "recvCheck", "receiving") /\ UNCHANGED result
     \/ "Exception" \in Failures /\ Move(w, "recvCheck", "catch") /\ UNCHANGED result
  /\ UNCHANGED <<apiVars, lockVars, cvVars, flagVars, reportVars, linkVars>>

\* receive() returns nothing (the deadline passed, or shutdown() woke it), or throws.
WReceiveFails(w) ==
  /\ \/ /\ stopping \/ data_mutex = Nobody
        /\ shutdown_requested \/ "Timeout" \in Failures
        /\ EndSession(w, "receiving", "Timeout")
     \/ /\ "Socket" \in Failures
        /\ EndSession(w, "receiving", "Socket")
  /\ UNCHANGED <<apiVars, lockVars, cvVars, flagVars, reportVars, linkVars>>

\* A datagram arrives; stopping_ is checked before it is looked at.
WReceive(w) ==
  /\ ~shutdown_requested
  /\ \/ stopping /\ EndSession(w, "receiving", "Stopped")
     \/ ~stopping /\ Move(w, "receiving", "record") /\ UNCHANGED result
  /\ UNCHANGED <<apiVars, lockVars, cvVars, flagVars, reportVars, linkVars>>

\* The record is done with, leaving an outcome or none; stopping_ is not consulted.
EndRecord(w, from, outcome) ==
  /\ Move(w, from, IF outcome = "None" THEN "recvCheck" ELSE "close")
  /\ result' = [result EXCEPT ![w] = outcome]

\* The datagram does not decode: skipped, or the last of a malformed storm.
WMalformed(w) ==
  /\ "MalformedStorm" \in Failures /\ data_mutex = Nobody
  /\ \E outcome \in {"None", "MalformedStorm"} : EndRecord(w, "record", outcome)
  /\ UNCHANGED <<apiVars, lockVars, cvVars, flagVars, reportVars, linkVars>>

\* The outcomes of a record that is not delivered: an FT discontinuity ends the session
\* only under FailStop; a sample that is not finite is a configuration failure.
DropOutcomes ==
  {"SeriousStatus", "SensorConfiguration"}
    \cup (IF RecoveryPolicy = "FailStop" THEN {"FtStall", "FtBackward"} ELSE {})

\* handle_record() up to the callback: Streaming; the record is dropped, or delivered
\* (even with an error status, if so configured).
WRecord(w) ==
  /\ data_mutex = Nobody
  /\ data' = [data EXCEPT !.state = "Streaming"]
  /\ \/ \E outcome \in {"None"} \cup (Failures \cap DropOutcomes) : EndRecord(w, "record", outcome)
     \/ \E outcome \in {"None"} \cup (Failures \cap {"SeriousStatus"}) :
          Move(w, "record", "callback") /\ result' = [result EXCEPT ![w] = outcome]
  /\ UNCHANGED <<apiVars, lockVars, cvVars, flagVars, fault_code, linkVars>>

WCallbackReturns(w) ==
  /\ Move(w, "callback", "deliver")
  /\ UNCHANGED <<apiVars, lockVars, cvVars, flagVars, reportVars, sessionVars>>

\* callback_failure_outcome()
CallbackFailure(outcome) ==
  IF outcome # "None" \/ RecoveryPolicy = "Reconnect" THEN outcome ELSE "Callback"

WCallbackThrows(w) ==
  /\ "Callback" \in Failures /\ data_mutex = Nobody
  /\ EndRecord(w, "callback", CallbackFailure(result[w]))
  /\ UNCHANGED <<apiVars, lockVars, cvVars, flagVars, reportVars, linkVars>>

\* Fault injection: the generation after the current one is marked delivered.
WDeliverOffByOne(w) ==
  /\ data_mutex = Nobody
  /\ data' = [data EXCEPT !.latest = w, !.delivered_generation = data.generation + 1]
  /\ NotifyAll
  /\ EndRecord(w, "deliver", result[w])
  /\ UNCHANGED <<apiVars, lockVars, flagVars, fault_code, linkVars>>

\* The sample counts as delivered.  The notifications are part of the step: what it makes
\* true is only evaluated under data_mutex_, so nobody blocks on the old value.
WDeliver(w) ==
  /\ data_mutex = Nobody
  /\ data' = [data EXCEPT !.latest = w, !.delivered_generation = data.generation]
  /\ NotifyAll
  /\ EndRecord(w, "deliver", result[w])
  /\ UNCHANGED <<apiVars, lockVars, flagVars, fault_code, linkVars>>

\* close_session(): StopStreaming if still owed, then UdpTransport::close.
CloseSession == SendStopStreaming /\ shutdown_requested' = TRUE

WClose(w) ==
  /\ Move(w, "close", "policy")
  /\ CloseSession
  /\ UNCHANGED <<apiVars, lockVars, cvVars, flagVars, reportVars, result>>

\* fault_for(): each failure has a fault code of its own name.
FaultFor(outcome) == IF outcome = "Stopped" THEN "None" ELSE outcome

\* FailStop latches the outcome, also when stop() was called in the meantime.
WFailStop(w) ==
  /\ Move(w, "policy", "finish")
  /\ result[w] # "Stopped" /\ RecoveryPolicy = "FailStop"
  /\ Publish(FaultFor(result[w]))
  /\ NotifyAll
  /\ UNCHANGED <<apiVars, lockVars, flagVars, sessionVars>>

WLeave(w) ==
  /\ Move(w, "policy", "finish")
  /\ \/ result[w] = "Stopped"
     \/ RecoveryPolicy = "Reconnect" /\ stopping
  /\ UNCHANGED <<apiVars, lockVars, cvVars, flagVars, reportVars, sessionVars>>

\* Reconnect: health_.state = Backoff, then the interruptible delay.
WBackoff(w) ==
  /\ Move(w, "policy", "backoff") /\ data_mutex = Nobody
  /\ result[w] # "Stopped" /\ RecoveryPolicy = "Reconnect" /\ ~stopping
  /\ data' = [data EXCEPT !.state = "Backoff"]
  /\ UNCHANGED <<apiVars, lockVars, cvVars, flagVars, fault_code, sessionVars>>

\* stopping_ is evaluated with data_mutex_ held, at first and after each wake-up; before
\* that, computing the deadline may throw.
WBackoffCheck(w) ==
  /\ pc[w] \in {"backoff", "backoffWoken"} /\ w \notin first_sample_cv /\ data_mutex = Nobody
  /\ \/ stopping /\ GoTo(w, "loop") /\ UNCHANGED data_mutex
     \/ ~stopping /\ GoTo(w, "backoffBlock") /\ data_mutex' = w
     \/ /\ "Exception" \in Failures /\ pc[w] = "backoff"
        /\ GoTo(w, "catch") /\ UNCHANGED data_mutex
  /\ UNCHANGED <<apiVars, lifecycle_mutex, cvVars, flagVars, reportVars, sessionVars>>

WBackoffBlock(w) ==
  /\ Move(w, "backoffBlock", "backoffWoken")
  /\ data_mutex' = Nobody
  /\ first_sample_cv' = first_sample_cv \cup {w}
  /\ UNCHANGED <<apiVars, lifecycle_mutex, lifecycle_cv, flagVars, reportVars, sessionVars>>

\* Fault injection: an elapsed delay is taken for a wake-up.
WBackoffElapsedAsWake(w) ==
  /\ Move(w, "backoffWoken", "backoff") /\ w \in first_sample_cv /\ data_mutex = Nobody
  /\ first_sample_cv' = first_sample_cv \ {w}
  /\ UNCHANGED <<apiVars, lockVars, lifecycle_cv, flagVars, reportVars, sessionVars>>

\* The delay is over.
WBackoffElapsed(w) ==
  /\ Move(w, "backoffWoken", "loop") /\ w \in first_sample_cv /\ data_mutex = Nobody
  /\ first_sample_cv' = first_sample_cv \ {w}
  /\ UNCHANGED <<apiVars, lockVars, lifecycle_cv, flagVars, reportVars, sessionVars>>

\* The catch clauses of run(), under either policy.
WCatch(w) ==
  /\ Move(w, "catch", "finish")
  /\ \/ stopping /\ UNCHANGED <<reportVars, cvVars>>
     \/ ~stopping /\ Publish("Socket") /\ NotifyAll
  /\ UNCHANGED <<apiVars, lockVars, flagVars, sessionVars>>

\* finish_session() in the code's order: close, worker_exited_, faulted(), health_.state, notify.
WFinish(w) ==
  /\ Move(w, "finish", "exiting")
  /\ CloseSession
  /\ UNCHANGED <<apiVars, lockVars, cvVars, flagVars, reportVars, result>>

WExit(w) ==
  /\ Move(w, "exiting", "exited")
  /\ worker_exited' = TRUE
  /\ UNCHANGED <<apiVars, lockVars, cvVars, stopping, reportVars, sessionVars>>

WExited(w) ==
  /\ Move(w, "exited", IF Faulted THEN "exitNotify" ELSE "exitSettle")
  /\ UNCHANGED <<apiVars, lockVars, cvVars, flagVars, reportVars, sessionVars>>

WSettle(w) ==
  /\ Move(w, "exitSettle", "exitNotify")
  /\ SettleStopped
  /\ UNCHANGED <<apiVars, lockVars, cvVars, flagVars, fault_code, sessionVars>>

\* Fault injection: a worker exits without a word.
WExitSilently(w) ==
  /\ Move(w, "exitNotify", "dead")
  /\ result' = [result EXCEPT ![w] = "None"]
  /\ UNCHANGED <<apiVars, lockVars, cvVars, flagVars, reportVars, linkVars>>

WExitNotify(w) ==
  /\ Move(w, "exitNotify", "dead")
  /\ NotifyAll
  /\ result' = [result EXCEPT ![w] = "None"]
  /\ UNCHANGED <<apiVars, lockVars, flagVars, reportVars, linkVars>>

-----------------------------------------------------------------------------

SessionStep(w) ==
  \/ WConnecting(w) \/ WDiscover(w) \/ WConnect(w) \/ WStartRealtime(w) \/ WRecvCheck(w)
  \/ WReceiveFails(w) \/ WReceive(w) \/ WMalformed(w) \/ WRecord(w) \/ WCallbackReturns(w)
  \/ WCallbackThrows(w) \/ WDeliver(w) \/ WClose(w)

WorkerStep(w) ==
  \/ WLoop(w) \/ SessionStep(w) \/ WFailStop(w) \/ WLeave(w) \/ WBackoff(w)
  \/ WBackoffCheck(w) \/ WBackoffBlock(w) \/ WBackoffElapsed(w) \/ WCatch(w) \/ WFinish(w)
  \/ WExit(w) \/ WExited(w) \/ WSettle(w) \/ WExitNotify(w)

=============================================================================
