----------------------------- MODULE ClientCore ------------------------------
(***************************************************************************)
(* The state of netft::Client::Impl that its threads share, and the idioms *)
(* its operations are built from.  ClientApi holds the operations of the   *)
(* API, ClientWorker the worker thread, Lifecycle puts them together.      *)
(*                                                                         *)
(* Kept: both condition variables and the mutexes they are waited on with, *)
(* every flag, the std::thread handle and where it is moved, the fault     *)
(* latch, the state and generation part of the health snapshot, the        *)
(* rollback of a failed start(), the commands that start and stop the      *)
(* sensor's stream.  Abstracted: records, counters, messages and time; why *)
(* a session fails is a choice from Failures.                              *)
(*                                                                         *)
(* Granularity.  A step is one critical section or one access to an        *)
(* atomic.  command_mutex_ and record_mutex_ are held inside one step only *)
(* and do not appear.  lifecycle_mutex_ and data_mutex_ do, because the    *)
(* predicate of a wait is evaluated in one step and the thread blocks in   *)
(* the next, while some notifiers do not hold the mutex.                   *)
(***************************************************************************)
EXTENDS Integers, FiniteSets

CONSTANTS Callers,        \* application threads
          MaxStarts,      \* bound: start() calls that get as far as resetting the state
          RecoveryPolicy, \* config_.recovery_policy
          Failures,       \* the ways in which a session goes wrong in this instance
          SpawnCanFail,   \* TRUE iff std::thread's constructor may throw
          CallerOps,      \* operations application threads call
          CallbackOps     \* operations the sample callback calls

Ops == {"start", "stop", "wait", "bias"}

SessionFailures == {"SensorConfiguration", "Timeout", "Socket", "SeriousStatus", "FtStall",
                    "FtBackward", "MalformedStorm", "Callback"}

\* "Exception": one that no SessionOutcome carries, caught by run() itself.
ASSUME ConstantsAssumption ==
  /\ MaxStarts \in Nat
  /\ IsFiniteSet(Callers)
  /\ Callers \cap (0 .. MaxStarts) = {}
  /\ RecoveryPolicy \in {"Reconnect", "FailStop"}
  /\ Failures \subseteq SessionFailures \cup {"Exception"}
  /\ SpawnCanFail \in BOOLEAN
  /\ CallerOps \subseteq Ops
  /\ CallbackOps \subseteq Ops

Nobody  == 0                  \* std::thread::id{}, an empty handle, an unlocked mutex
Workers == 1 .. MaxStarts     \* a worker thread is named by the start that creates it
Threads == Callers \cup Workers

VARIABLES
  pc,                                  \* where each thread is
  handle,                              \* the std::thread moved out of worker_ to be joined
  captured,                            \* captured_generation, and the start it stood for
  born,                                \* history: start attempts before the current call
  lifecycle_mutex, data_mutex,         \* the owner, or Nobody
  lifecycle_cv, first_sample_cv,       \* the threads asleep on it
  worker, joining, active_worker_id,   \* worker_, joining_, active_worker_id_
  stopping, worker_exited,             \* the two atomics
  data,                                \* guarded by data_mutex_: see DataRecord
  fault_code,                          \* fault_latch_.code_
  result,                              \* SessionOutcome::result of each worker
  session_started,                     \* guarded by command_mutex_
  shutdown_requested,                  \* UdpTransport::shutdown_requested_
  stop_owed,                           \* history: told to stream, no StopStreaming tried since
  attempts,                            \* history: start attempts so far
  saved                                \* the previous_* locals of start()

callVars    == <<handle, captured, born>>
lockVars    == <<lifecycle_mutex, data_mutex>>
cvVars      == <<lifecycle_cv, first_sample_cv>>
ownerVars   == <<worker, joining, active_worker_id>>
flagVars    == <<stopping, worker_exited>>
reportVars  == <<data, fault_code>>
linkVars    == <<session_started, shutdown_requested, stop_owed>>
sessionVars == <<result, linkVars>>
startVars   == <<attempts, saved>>
apiVars     == <<callVars, ownerVars, startVars>>
clientVars  == <<ownerVars, flagVars, reportVars, sessionVars, startVars>>
vars        == <<pc, callVars, lockVars, cvVars, clientVars>>

PendingPcs   == {"start", "startBlock", "startWoken", "startJoin", "startNotify"}
ResettingPcs == {"startFlags", "startSpawn", "startRestore", "startRepublish"}
StartPcs  == PendingPcs \cup ResettingPcs
StopPcs   == {"stop", "stopCommand", "stopDecide", "stopSettle", "stopAwait", "stopJoin",
              "stopJoinSettle", "stopNotify"}
WaitPcs   == {"wait", "waitCheck", "waitBlock", "waitWoken", "waitLast", "waitAnswer",
              "waitedTrue"}
ApiPcs    == StartPcs \cup StopPcs \cup WaitPcs \cup {"bias"}
WorkerPcs == {"unborn", "loop", "connecting", "discover", "connect", "startRealtime",
              "recvCheck", "receiving", "record", "callback", "deliver", "close", "policy",
              "backoff", "backoffBlock", "backoffWoken", "catch", "finish", "exiting",
              "exited", "exitSettle", "exitNotify", "dead"}

\* generation_ and delivered_generation_; latest is the worker that delivered latest_;
\* attempt names the start the generation stands for: a failed start() puts generation_
\* back, so one generation may stand for several starts.
DataRecord == [state : {"Stopped", "Connecting", "Streaming", "Backoff", "Faulted"},
               generation : 0 .. MaxStarts, delivered_generation : 0 .. MaxStarts,
               latest : 0 .. MaxStarts, attempt : 0 .. MaxStarts]

FaultCodes == {"None"} \cup SessionFailures

SavedRecord == [stopping : BOOLEAN, worker_exited : BOOLEAN, fault : FaultCodes,
                data : DataRecord]

InitialData == [state |-> "Stopped", generation |-> 0, delivered_generation |-> 0,
                latest |-> Nobody, attempt |-> 0]

NothingSaved == [stopping |-> FALSE, worker_exited |-> TRUE, fault |-> "None",
                 data |-> InitialData]

NoCapture == [generation |-> 0, attempt |-> 0]

\* The type invariant: every variable of the client stays in its range.
TypeOK ==
  /\ pc \in [Threads -> ApiPcs \cup WorkerPcs \cup {"idle"}]
  /\ handle \in [Threads -> 0 .. MaxStarts]
  /\ captured \in [Threads -> [generation : 0 .. MaxStarts, attempt : 0 .. MaxStarts]]
  /\ born \in [Threads -> 0 .. MaxStarts]
  /\ lifecycle_mutex \in Threads \cup {Nobody}
  /\ data_mutex \in Threads \cup {Nobody}
  /\ lifecycle_cv \subseteq Threads
  /\ first_sample_cv \subseteq Threads
  /\ worker \in 0 .. MaxStarts
  /\ joining \in BOOLEAN
  /\ active_worker_id \in 0 .. MaxStarts
  /\ stopping \in BOOLEAN
  /\ worker_exited \in BOOLEAN
  /\ data \in DataRecord
  /\ fault_code \in FaultCodes
  /\ result \in [Workers -> SessionFailures \cup {"None", "Stopped"}]
  /\ session_started \in BOOLEAN
  /\ shutdown_requested \in BOOLEAN
  /\ stop_owed \in BOOLEAN
  /\ attempts \in 0 .. MaxStarts
  /\ saved \in SavedRecord

\* A constructed client: no worker, no socket.
Init ==
  /\ pc = [t \in Threads |-> IF t \in Workers THEN "unborn" ELSE "idle"]
  /\ handle = [t \in Threads |-> Nobody]
  /\ captured = [t \in Threads |-> NoCapture]
  /\ born = [t \in Threads |-> 0]
  /\ lifecycle_mutex = Nobody /\ data_mutex = Nobody
  /\ lifecycle_cv = {} /\ first_sample_cv = {}
  /\ worker = Nobody /\ joining = FALSE /\ active_worker_id = Nobody
  /\ stopping = FALSE /\ worker_exited = TRUE
  /\ data = InitialData
  /\ fault_code = "None"
  /\ result = [w \in Workers |-> "None"]
  /\ session_started = FALSE /\ shutdown_requested = FALSE /\ stop_owed = FALSE
  /\ attempts = 0
  /\ saved = NothingSaved

-----------------------------------------------------------------------------

Faulted == fault_code # "None"

\* !worker_exited_ && active_worker_id_ == std::this_thread::get_id()
OnWorkerThread(t) == ~worker_exited /\ active_worker_id = t

GoTo(t, label) == pc' = [pc EXCEPT ![t] = label]

Move(t, from, to) == pc[t] = from /\ GoTo(t, to)

Home(t) == IF t \in Callers THEN "idle" ELSE "callback"

\* The call returns or throws to the application thread, or to the callback that made
\* it, and its locals go out of scope.
Return(t) ==
  /\ GoTo(t, Home(t))
  /\ handle' = [handle EXCEPT ![t] = Nobody]
  /\ captured' = [captured EXCEPT ![t] = NoCapture]
  /\ born' = [born EXCEPT ![t] = 0]

\* first_sample_cv_.notify_all(); lifecycle_cv_.notify_all()
NotifyAll == lifecycle_cv' = {} /\ first_sample_cv' = {}

\* if (session_started_) send(StopStreaming); session_started_ = false.  A send() that throws is
\* ignored and not repeated: what is owed, and paid here, is the attempt.
SendStopStreaming ==
  /\ session_started' = FALSE
  /\ stop_owed' = (stop_owed /\ ~session_started)

\* FaultLatch::publish: only the first fault since the last reset counts.
Publish(code) ==
  /\ data_mutex = Nobody
  /\ fault_code' = IF Faulted THEN fault_code ELSE code
  /\ data' = IF Faulted THEN data ELSE [data EXCEPT !.state = "Faulted"]

\* lock data_mutex_; health_.state = Stopped.  faulted() was found false in a step before: a
\* fault published in between would be overwritten.
SettleStopped ==
  /\ data_mutex = Nobody
  /\ data' = [data EXCEPT !.state = "Stopped"]

=============================================================================
