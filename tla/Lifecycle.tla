------------------------------ MODULE Lifecycle ------------------------------
(***************************************************************************)
(* The client: application threads and callbacks calling the API against   *)
(* the worker thread, and what must hold of every interleaving.            *)
(***************************************************************************)
EXTENDS ClientApi, ClientWorker

Next ==
  \/ \E t \in Threads : Call(t) \/ SpuriousWake(t) \/ ApiStep(t) \/ WaitTimeout(t)
  \/ \E w \in Workers : WorkerStep(w)

Spec == Init /\ [][Next]_vars

-----------------------------------------------------------------------------
(* Safety *)

Live(w) == pc[w] \notin {"unborn", "dead"}

\* There is never more than one running worker, and none while start() rewrites
\* callback_, the flags, the latch and the health snapshot, which a worker uses without
\* lifecycle_mutex_.
StartOwnsTheClient ==
  /\ \A v, w \in Workers : Live(v) /\ Live(w) => v = w
  /\ \A t \in Threads, w \in Workers : pc[t] \in ResettingPcs => ~Live(w)

\* A running worker's std::thread has exactly one owner, worker_ or one joining thread:
\* losing it would terminate the process, sharing it would join twice, and owning its
\* own handle would have a worker join itself.
HandleOwnedOnce ==
  \A w \in Workers : Live(w) =>
    LET joiners == {t \in Threads : handle[t] = w}
    IN /\ w \notin joiners
       /\ IF worker = w THEN joiners = {} ELSE \E t \in Threads : joiners = {t}

\* When stop() returns to an application thread, every worker started before the call is
\* gone, so none of their callbacks runs afterwards.
StopReturnsQuiet ==
  [][\A c \in Callers :
       pc[c] \in StopPcs /\ pc'[c] = "idle" => \A w \in 1 .. born[c] : ~Live(w)]_vars

\* Once no worker runs, StopStreaming has been tried since the sensor was last told to stream:
\* stop() racing the StartRealtime of a connecting worker, or of bias(), leaves no stream that
\* nobody tried to stop.  (A send() that fails is ignored by the code.)
NoOrphanedStream == (\A w \in Workers : ~Live(w)) => ~stop_owed

\* A worker in receive() after stop() raised stopping_ has been shut down, or the stopper
\* is about to do it; and receive() is only shut down by a stop, so that is never taken
\* for a timeout.
BlockedReceiveIsWoken ==
  \A w \in Workers : pc[w] = "receiving" =>
    /\ stopping => shutdown_requested \/ \E t \in Threads : pc[t] = "stopCommand"
    /\ shutdown_requested => stopping

\* health_.state says Faulted exactly when a fault is latched, except while a failed
\* start() has put back the one and not yet the other.
HealthMatchesLatch ==
  (data.state = "Faulted" <=> Faulted) \/ \E t \in Threads : pc[t] = "startRepublish"

\* With no worker and nobody in a critical section of the lifecycle, the client reports
\* Stopped or Faulted, never the state of a past session.
RestsStoppedOrFaulted ==
  (\A w \in Workers : ~Live(w)) /\ lifecycle_mutex = Nobody
    => data.state \in {"Stopped", "Faulted"}

\* latest_sample() is empty or a sample of the current start, and it is there exactly
\* when wait_for_first_sample() may say so.
LatestBelongsToStart ==
  /\ data.latest \in {Nobody, data.attempt}
  /\ data.generation # 0
       => (data.latest # Nobody <=> data.delivered_generation = data.generation)

\* Code in the sample callback is recognised as the worker thread, also after another
\* thread has moved the std::thread handle away: otherwise stop() or the destructor called
\* there would wait for itself.
CallbackKnowsItsThread ==
  \A w \in Workers : pc[w] \in ApiPcs \cup {"callback"} => OnWorkerThread(w)

\* wait_for_first_sample() returns true only for a sample of the start that was current
\* when it was called.
WaiterAnswersForItsStart ==
  [][\A t \in Threads :
       pc[t] # "waitedTrue" /\ pc'[t] = "waitedTrue"
         => captured[t].attempt = data.attempt /\ data.latest = data.attempt]_vars

\* Once stop() is joining the worker, the worker does not sleep out its reconnect delay.
StopInterruptsBackoff ==
  \A t \in Threads :
    pc[t] = "stopJoin" => ~(pc[handle[t]] = "backoffWoken" /\ handle[t] \in first_sample_cv)

\* An application thread that is asleep although its wait is over will be notified without the
\* help of its deadline: stop() may slip its notification in before the thread blocks, but then
\* the worker, another thread, has yet to exit and notify again, as has a start() that opened a
\* new generation.  A wait made in the callback has no such worker but itself: there the lost
\* notification costs its timeout, and stop(), which joins that worker, as long.
WakeUpToCome ==
  \A c \in Callers :
    pc[c] = "waitWoken" /\ c \in first_sample_cv /\ WaitOver(captured[c])
      => \/ stopping /\ \E w \in Workers : Live(w)
         \/ \E s \in Threads : pc[s] \in ResettingPcs

-----------------------------------------------------------------------------
(* The contract *)

\* The refinement mapping.
Running == {w \in Workers : Live(w)}

Phase == IF \E t \in Threads : pc[t] = "startRepublish" THEN "undoing"
         ELSE IF \E t \in Threads : pc[t] \in ResettingPcs THEN "opening" ELSE "settled"

Shown(snapshot) == [state |-> snapshot.state, start |-> snapshot.attempt,
                    latest |-> snapshot.latest]

Report == Shown(data)
Before == [report |-> Shown(saved.data), fault |-> saved.fault]

Contract == INSTANCE ClientContract WITH
  running <- Running, phase <- Phase, report <- Report, fault <- fault_code,
  streaming <- stop_owed, before <- Before

\* Threads, locks and wake-ups together implement the contract: starts one after the other,
\* samples only of the running start and before it reports its end, the first fault kept until
\* the next start, a failed start() undone, no stream left behind.
ImplementsContract == Contract!Spec

\* A promise of the contract that the application sees: once health() says Stopped or Faulted,
\* neither it nor latest_sample() changes for that start, although stop() may have settled the
\* state while a worker, a callback or another thread's join is still going on.
EndIsFinal == Contract!EndIsFinal

-----------------------------------------------------------------------------
(* Liveness *)

\* A thread that can go on does: discovery, receive and the backoff delay end, callbacks
\* end and so do the timed waits they make.  data_mutex_ is granted to a waiter that
\* keeps asking for it.  Nothing is assumed of what the application calls, or of the
\* deadlines of its own waits, which may be arbitrarily far away.
Fairness ==
  /\ \A t \in Threads : WF_vars(ApiStep(t))
  /\ \A c \in Callers : SF_vars(WaitStep(c))
  /\ \A w \in Workers : WF_vars(WorkerStep(w)) /\ WF_vars(WaitTimeout(w))

\* stop() returns, wherever it is called from.
StopReturns == \A t \in Threads : pc[t] \in StopPcs ~> pc[t] \notin StopPcs

\* start() returns or throws.
StartReturns == \A t \in Threads : pc[t] \in StartPcs ~> pc[t] \notin StartPcs

\* A session that failed under Reconnect is followed by another one, or by a stop.
SessionRetried ==
  \A w \in Workers :
    pc[w] \in {"backoff", "backoffBlock", "backoffWoken"} ~> pc[w] = "connecting" \/ stopping

=============================================================================
