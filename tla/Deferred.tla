------------------------------- MODULE Deferred ------------------------------
(***************************************************************************)
(* The end of a client: ~Client on an application thread, or on the worker *)
(* thread from inside the sample callback, when the client is handed to    *)
(* the DeferredDestroyer.  Its thread, Reaper, is a caller that only ever  *)
(* calls stop() on what it takes from the queue.  The queue is guarded by  *)
(* a mutex and a condition variable of its own, used in the regular way:   *)
(* pushing and taking are one step each.                                   *)
(***************************************************************************)
EXTENDS Lifecycle

CONSTANTS Reaper,       \* the thread of the deferred destroyer
          Destructors   \* where ~Client may run: "application", "callback"

ASSUME DeferredAssumption ==
  /\ Reaper \in Callers
  /\ Destructors \subseteq {"application", "callback"}

VARIABLES
  stage,      \* "alive"; "deferring", then "queued", if handed over; "closing" in the stop() of
              \* ~Client or of the destroyer, "destructing" in that of ~Impl; "freed"
  destroyer   \* the thread the destruction is up to, or Nobody

deferredVars == <<vars, stage, destroyer>>

DeferredInit == Init /\ stage = "alive" /\ destroyer = Nobody

\* Nobody uses a client once its destruction has begun, but for the callbacks of a worker
\* that an application thread in ~Client has yet to join.
MayCall(t) ==
  /\ t # Reaper
  /\ stage = "alive" \/ (stage = "closing" /\ t \in Workers /\ destroyer # Reaper)

ApplicationCall(t) == MayCall(t) /\ Call(t) /\ UNCHANGED <<stage, destroyer>>

\* Fault injection: the worker is known by the handle, which a joining thread has moved away.
KnownByHandle(t) == ~worker_exited /\ worker = t

CalledFromWorkerThread(t) == OnWorkerThread(t)

BeginStop(t) ==
  /\ GoTo(t, "stop")
  /\ born' = [born EXCEPT ![t] = attempts]
  /\ UNCHANGED <<handle, captured, lockVars, cvVars, clientVars>>

\* ~Client begins.  No other application thread is using the client, except that one may be
\* joining the worker while the callback destroys it.
Destroy(t) ==
  /\ stage = "alive" /\ t # Reaper /\ pc[t] = Home(t) /\ lifecycle_mutex = Nobody
  /\ \/ t \in Callers /\ "application" \in Destructors /\ \A c \in Callers : pc[c] = "idle"
     \/ t \in Workers /\ "callback" \in Destructors /\ \A c \in Callers : pc[c] \in {"idle", "stopJoin"}
  /\ stage' = IF CalledFromWorkerThread(t) THEN "deferring" ELSE "closing"
  /\ destroyer' = t
  /\ BeginStop(t)

StopReturned == destroyer # Nobody /\ pc[destroyer] = Home(destroyer)

\* DeferredDestroyer::enqueue, and ~Client returns to the callback.
Enqueue ==
  /\ stage = "deferring" /\ StopReturned
  /\ stage' = "queued" /\ destroyer' = Nobody
  /\ UNCHANGED vars

\* DeferredDestroyer::run takes the client from the queue and stops it.
TakeOver ==
  /\ stage = "queued"
  /\ stage' = "closing" /\ destroyer' = Reaper
  /\ BeginStop(Reaper)

\* The unique_ptr goes: ~Impl stops once more ...
Destruct ==
  /\ stage = "closing" /\ StopReturned
  /\ stage' = "destructing" /\ UNCHANGED destroyer
  /\ BeginStop(destroyer)

\* ... and mutexes, condition variables and everything else are gone.
Free ==
  /\ stage = "destructing" /\ StopReturned
  /\ stage' = "freed" /\ destroyer' = Nobody
  /\ UNCHANGED vars

DestroyStep == Enqueue \/ TakeOver \/ Destruct \/ Free

\* A callback does not return from inside ~Client.
ClientStep ==
  /\ \/ \E t \in Threads : ApiStep(t) \/ WaitTimeout(t)
     \/ \E w \in Workers : (w = destroyer => pc[w] # "callback") /\ WorkerStep(w)
  /\ UNCHANGED <<stage, destroyer>>

Spurious(t) == SpuriousWake(t) /\ UNCHANGED <<stage, destroyer>>

\* What nobody is bound to do.
Event(t) == ApplicationCall(t) \/ Spurious(t) \/ Destroy(t)

DeferredNext == (\E t \in Threads : Event(t)) \/ ClientStep \/ DestroyStep

DeferredSpec == DeferredInit /\ [][DeferredNext]_deferredVars

-----------------------------------------------------------------------------
(* Properties *)

\* Once the storage of a client is released no worker runs, and the only thread that may still
\* be inside it is a stop() whose join is over: whoever destroys a client, and wherever,
\* outlasts its worker and its callbacks.
OutlastsTheWorker ==
  stage = "freed" =>
    /\ \A w \in Workers : ~Live(w)
    /\ \A c \in Callers : pc[c] \in {"idle", "stopNotify"}

\* Once the storage of a client is released no thread is inside it.
NothingInsideFreed ==
  stage = "freed" => (\A w \in Workers : ~Live(w)) /\ (\A c \in Callers : pc[c] = "idle")

\* A destruction that has begun ends, also one from inside the callback.
DestructionEnds == stage # "alive" ~> stage = "freed"

=============================================================================
