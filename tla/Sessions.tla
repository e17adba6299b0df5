------------------------------ MODULE Sessions -------------------------------
(***************************************************************************)
(* The worker's sessions over time: run() and receive_session() with their *)
(* deadlines on top of Transport, apply_configuration(), the count of      *)
(* malformed datagrams, the reconnect delay, and the two things stop()     *)
(* does to them.  The client's other threads are in Lifecycle, what        *)
(* happens to a valid record in Records.                                   *)
(***************************************************************************)
EXTENDS Transport, Sequences

CONSTANTS Policies,                 \* config_.recovery_policy is one of these
          InitialDelay, MaxDelay,   \* config_.reconnect_initial_delay, reconnect_max_delay
          StormThreshold,           \* kMalformedStormThreshold
          Calibrations,             \* what discovery may find
          MaxSessions,              \* bound: sessions opened
          MaxMalformed              \* bound: malformed datagrams

ASSUME SessionsAssumption ==
  /\ Policies \subseteq {"Reconnect", "FailStop"}
  /\ Datagrams \subseteq {"record", "serious", "malformed"}
  /\ InitialDelay \in Nat \ {0} /\ MaxDelay \in Nat /\ InitialDelay <= MaxDelay
  /\ StormThreshold \in Nat \ {0} /\ MaxSessions \in Nat /\ MaxMalformed \in Nat

VARIABLES
  recovery_policy,         \* config_.recovery_policy
  pc,                      \* "configure", "receive", "policy", "backoff", "faulted", "stopped"
  stopping,
  received_valid_record,
  result,                  \* SessionOutcome::result
  backoff,                 \* the local of run()
  consecutive_malformed,
  health,                  \* of health_: sensor_configuration and the counters about it; those
                           \* that only count outcomes (timeouts, reconnections) are left out
  past                     \* history: see Init

session == <<received_valid_record, result>>
client  == <<backoff, consecutive_malformed, health>>
vars    == <<transportVars, recovery_policy, pc, stopping, session, client, past>>

NoCalibration == "none"

Results ==
  {"Stopped", "SensorConfiguration", "Socket", "Timeout", "SeriousStatus", "MalformedStorm"}

HealthRecord ==
  [malformed_count : 0 .. MaxMalformed, calibration_change_count : 0 .. MaxSessions,
   calibration : Calibrations \cup {NoCalibration}, revision : 0 .. MaxSessions]

PastRecord ==
  [sessions : 0 .. MaxSessions, silence : 0 .. ReceiveTimeout + MaxLate, row : 0 .. MaxMalformed,
   cut : BOOLEAN, fruitless : 0 .. MaxSessions, found : Seq(Calibrations)]

\* The type invariant: deadlines, delays and counters stay in their ranges.
TypeOK ==
  /\ TransportTypeOK
  /\ recovery_policy \in Policies
  /\ pc \in {"configure", "receive", "policy", "backoff", "faulted", "stopped"}
  /\ stopping \in BOOLEAN /\ received_valid_record \in BOOLEAN
  /\ result \in Results
  /\ backoff \in InitialDelay .. MaxDelay
  /\ consecutive_malformed \in 0 .. MaxMalformed
  /\ health \in HealthRecord /\ past \in PastRecord

\* past: sessions opened; ticks without a valid record in this one; malformed datagrams in a
\* row in this one; whether receive() was cut short; failed sessions since one with a valid
\* record, or the start; the calibrations found, each listed where it differs from the one
\* before.
Init ==
  /\ TransportInit
  /\ recovery_policy \in Policies
  /\ pc = "configure" /\ stopping = FALSE
  /\ received_valid_record = FALSE /\ result = "Stopped"
  /\ backoff = InitialDelay
  /\ consecutive_malformed = 0
  /\ health = [malformed_count |-> 0, calibration_change_count |-> 0,
               calibration |-> NoCalibration, revision |-> 0]
  /\ past = [sessions |-> 0, silence |-> 0, row |-> 0, cut |-> FALSE, fruitless |-> 0, found |-> <<>>]

-----------------------------------------------------------------------------
(* Opening a session *)

\* Fault injection: two discoveries never find the same.
SameCalibrationNever(calibration) == FALSE

SameCalibration(calibration) == health.calibration = calibration

\* A calibration other than the previous one is a new revision, counted as a change.
ApplyConfiguration(calibration) ==
  IF health.revision = 0 THEN [health EXCEPT !.calibration = calibration, !.revision = 1]
  ELSE IF SameCalibration(calibration) THEN health
  ELSE [health EXCEPT !.calibration = calibration, !.revision = @ + 1,
                      !.calibration_change_count = @ + 1]

Found(calibration) ==
  IF past.found # <<>> /\ past.found[Len(past.found)] = calibration THEN past.found
  ELSE Append(past.found, calibration)

\* Discovery, connection and StartRealtime succeed; the deadline is set.
OpenSession ==
  /\ pc = "configure" /\ ~stopping /\ past.sessions < MaxSessions
  /\ \E calibration \in Calibrations :
       /\ health' = ApplyConfiguration(calibration)
       /\ past' = [past EXCEPT !.sessions = @ + 1, !.silence = 0, !.row = 0,
                               !.found = Found(calibration)]
  /\ pc' = "receive" /\ left' = ReceiveTimeout /\ Connect
  /\ received_valid_record' = FALSE /\ result' = "Stopped"
  /\ UNCHANGED <<platform, at, slice, datagram, got, late, ignored, stopping, backoff,
                 consecutive_malformed>>

\* Discovery fails; or it succeeds and is applied, and the connection fails.
OpenFails ==
  /\ pc = "configure" /\ ~stopping /\ past.sessions < MaxSessions
  /\ \/ /\ result' = "SensorConfiguration"
        /\ past' = [past EXCEPT !.sessions = @ + 1]
        /\ UNCHANGED health
     \/ \E calibration \in Calibrations :
          /\ result' = "Socket"
          /\ health' = ApplyConfiguration(calibration)
          /\ past' = [past EXCEPT !.sessions = @ + 1, !.found = Found(calibration)]
  /\ pc' = "policy" /\ received_valid_record' = FALSE
  /\ UNCHANGED <<transportVars, stopping, backoff, consecutive_malformed>>

\* stop() comes during the discovery, whose result is still applied, or the connection.
OpenStopped ==
  /\ pc = "configure" /\ stopping /\ past.sessions < MaxSessions
  /\ \E calibration \in Calibrations :
       /\ health' = ApplyConfiguration(calibration)
       /\ past' = [past EXCEPT !.sessions = @ + 1, !.found = Found(calibration)]
  /\ pc' = "policy" /\ result' = "Stopped" /\ received_valid_record' = FALSE
  /\ UNCHANGED <<transportVars, stopping, backoff, consecutive_malformed>>

-----------------------------------------------------------------------------
(* The receive loop *)

\* The session is over; close() after it.
EndWith(outcome) ==
  /\ pc' = "policy" /\ result' = outcome
  /\ at' = "out" /\ left' = 0 /\ got' = "nothing" /\ late' = 0 /\ ignored' = 0
  /\ Close
  /\ UNCHANGED <<platform, slice>>

\* The caller of receive(): the loop's conditions before it.
CallReceive ==
  /\ pc = "receive" /\ at = "out" /\ ~stopping /\ left > 0
  /\ Receive
  /\ UNCHANGED <<pc, stopping, session, client, past>>

\* What receive() does, and what passes meanwhile.
InReceive ==
  /\ pc = "receive"
  /\ ReceiveStep \/ SocketStep
  /\ past' = [past EXCEPT !.silence = @ + (left + late' - left' - late),
                          !.cut = CutShort]
  /\ UNCHANGED <<pc, stopping, session, client>>

Returned(what) == pc = "receive" /\ at = "returned" /\ got = what

\* stopping_ is seen before receive() or after it, whatever it returned.
SessionStopped ==
  /\ pc = "receive" /\ at \in {"out", "returned"} /\ stopping
  /\ EndWith("Stopped")
  /\ UNCHANGED <<stopping, received_valid_record, client, past>>

\* The deadline has passed before receive() is called, or receive() returns 0.
TimeOut ==
  /\ (pc = "receive" /\ at = "out" /\ left = 0) \/ Returned("nothing")
  /\ ~stopping
  /\ EndWith("Timeout")
  /\ UNCHANGED <<stopping, received_valid_record, client, past>>

ReceiveThrows ==
  /\ Returned("error") /\ ~stopping
  /\ EndWith("Socket")
  /\ UNCHANGED <<stopping, received_valid_record, client, past>>

\* Fault injections: a storm is noticed one datagram late; every datagram, or none, extends
\* the deadline.
StormLate == consecutive_malformed + 1 > StormThreshold
DeadlineAfterAny(kind)  == ReceiveTimeout
DeadlineAfterNone(kind) == left

Storm == consecutive_malformed + 1 >= StormThreshold

\* A valid record extends the deadline.
DeadlineAfter(kind) == IF kind = "malformed" THEN left ELSE ReceiveTimeout

GoOn(kind, overdue) ==
  /\ at' = "out" /\ left' = DeadlineAfter(kind) /\ late' = overdue /\ got' = "nothing"
  /\ UNCHANGED <<platform, slice, datagram, shutdown_requested, ignored, pc, result>>

\* The datagram does not decode; a storm of these ends the session.
ReceiveMalformed ==
  /\ Returned("malformed") /\ ~stopping /\ health.malformed_count < MaxMalformed
  /\ health' = [health EXCEPT !.malformed_count = @ + 1]
  /\ consecutive_malformed' = consecutive_malformed + 1
  /\ past' = [past EXCEPT !.row = @ + 1]
  /\ IF Storm THEN EndWith("MalformedStorm")
     ELSE GoOn("malformed", late)
  /\ UNCHANGED <<stopping, received_valid_record, backoff>>

\* handle_record() may end the session.
ReceiveRecord ==
  /\ Returned("record") \/ Returned("serious")
  /\ ~stopping
  /\ consecutive_malformed' = 0
  /\ received_valid_record' = TRUE
  /\ past' = [past EXCEPT !.silence = 0, !.row = 0]
  /\ IF got = "serious" THEN EndWith("SeriousStatus")
     ELSE GoOn("record", 0)
  /\ UNCHANGED <<stopping, backoff, health>>

-----------------------------------------------------------------------------
(* After a session *)

\* The outcome is a local of run().
Go(place) ==
  /\ pc' = place /\ received_valid_record' = FALSE /\ result' = "Stopped"
  /\ UNCHANGED <<transportVars, stopping>>

\* The worker ends: FailStop latches the outcome, a stop needs none.
WorkerEnds ==
  /\ \/ pc = "policy" /\ recovery_policy = "FailStop" /\ result # "Stopped" /\ Go("faulted")
     \/ pc = "policy" /\ result = "Stopped" /\ Go("stopped")
     \/ pc = "policy" /\ recovery_policy = "Reconnect" /\ stopping /\ Go("stopped")
     \/ pc = "configure" /\ stopping /\ Go("stopped")
  /\ past' = [past EXCEPT !.silence = 0, !.row = 0, !.cut = FALSE]
  /\ UNCHANGED client

\* Fault injections: a session that worked does not count; the delay grows without limit.
DelayKept == backoff
NextDelayUnlimited == 2 * backoff

\* The delay is back to the initial one if the session had a valid record.
Delay == IF received_valid_record THEN InitialDelay ELSE backoff

NextDelay == Least(2 * backoff, MaxDelay)

EnterBackoff ==
  /\ pc = "policy" /\ recovery_policy = "Reconnect" /\ result # "Stopped" /\ ~stopping
  /\ Go("backoff")
  /\ backoff' = Delay
  /\ past' = [past EXCEPT !.silence = 0, !.row = 0, !.cut = FALSE,
                          !.fruitless = IF received_valid_record THEN 1 ELSE @ + 1]
  /\ UNCHANGED <<consecutive_malformed, health>>

\* The delay is over, or stop() ended it.
BackoffElapsed ==
  /\ pc = "backoff" /\ Go("configure")
  /\ backoff' = NextDelay
  /\ UNCHANGED <<consecutive_malformed, health, past>>

-----------------------------------------------------------------------------
(* stop() and start() *)

Stop ==
  /\ pc \notin {"faulted", "stopped"} /\ ~stopping /\ stopping' = TRUE
  /\ UNCHANGED <<transportVars, pc, session, client, past>>

\* Next, stop() calls shutdown().  The code does so in any case; without an open socket, that
\* is elsewhere than in receive, it sets only a flag that connect() clears again.
StopCommand ==
  /\ pc = "receive" /\ stopping /\ ~shutdown_requested /\ Shutdown
  /\ UNCHANGED <<platform, at, left, slice, datagram, got, late, ignored, pc, stopping, session,
                 client, past>>

\* start() again: the counters and the configuration stay, the malformed count and the delay
\* are new.
Restart ==
  /\ pc \in {"faulted", "stopped"} /\ pc' = "configure" /\ stopping' = FALSE
  /\ backoff' = InitialDelay
  /\ consecutive_malformed' = 0
  /\ past' = [past EXCEPT !.fruitless = 0]
  /\ UNCHANGED <<transportVars, session, health>>

Worker ==
  \/ OpenSession \/ OpenFails \/ OpenStopped
  \/ CallReceive \/ SessionStopped \/ TimeOut \/ ReceiveThrows \/ ReceiveMalformed \/ ReceiveRecord
  \/ WorkerEnds \/ EnterBackoff \/ BackoffElapsed

Next == (Worker \/ InReceive \/ Stop \/ StopCommand \/ Restart) /\ UNCHANGED recovery_policy

Spec == Init /\ [][Next]_vars

\* The worker runs, its calls return when they can (no failure or signal is counted on),
\* time passes, stop() goes on.
Fairness ==
  /\ WF_vars(Worker /\ UNCHANGED recovery_policy)
  /\ WF_vars(pc = "receive" /\ ReceiveProgress /\ Next)
  /\ WF_vars(pc = "receive" /\ Elapse /\ Next)
  /\ WF_vars(StopCommand /\ Next)

-----------------------------------------------------------------------------
(* Properties *)

\* A session that ends with Timeout had no valid record for the whole receive timeout, as
\* the message of that outcome says.
TimeoutMeansSilence ==
  pc = "policy" /\ result = "Timeout" => past.silence >= ReceiveTimeout

\* A session that ends with Timeout had no valid record for the whole receive timeout, unless
\* receive() was cut short: a signal in a recv() whose datagram was dropped, WSAEINTR, or an
\* empty datagram.
TimeoutExplained ==
  pc = "policy" /\ result = "Timeout" => past.silence >= ReceiveTimeout \/ past.cut

\* Malformed datagrams do not keep a session alive: its deadline is always the receive timeout
\* after the latest valid record.
DeadlineFollowsValidRecords ==
  pc = "receive" => past.silence + left = ReceiveTimeout + late

\* receive() outlasts its deadline only in a recv() whose datagram was dropped: neither
\* signals nor the rounds of WSAPoll() make its waiting longer.
LateOnlyAfterDrop == late > 0 => at # "poll"

\* After shutdown() receive() waits no longer: on Windows at most for the rest of a round.
ShutdownNoticed == ignored <= IF platform = "windows" THEN CheckInterval ELSE 0

\* No session endures a storm: fewer malformed datagrams in a row than the threshold.
StormNotEndured == pc = "receive" => past.row < StormThreshold

\* The delay before a reconnection is the initial one doubled for every earlier failure in a
\* row without a valid record, never beyond the maximum.
BackoffFollowsFailures ==
  pc = "backoff" => backoff = Least(InitialDelay * 2 ^ (past.fruitless - 1), MaxDelay)

\* A revision names one calibration: it is the number of changes seen by discovery, whatever
\* failed or was restarted in between, and calibration_change_count agrees with it.
RevisionNamesCalibration ==
  /\ health.revision = Len(past.found)
  /\ health.revision > 0 =>
       /\ health.calibration = past.found[health.revision]
       /\ health.calibration_change_count = health.revision - 1

\* Every stop() ends the worker, whatever it was waiting for.
StopEndsWorker == stopping ~> pc \in {"stopped", "faulted"}

LiveSpec == Spec /\ Fairness
=============================================================================
