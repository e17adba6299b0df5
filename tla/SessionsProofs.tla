--------------------------- MODULE SessionsProofs ----------------------------
(***************************************************************************)
(* Proofs about Sessions and the Transport below it: the deadline of a     *)
(* session, what a timeout means, storms, the reconnect delay and the      *)
(* revisions of the sensor's configuration, for all timeouts and limits.   *)
(***************************************************************************)
EXTENDS Sessions, FiniteSetTheorems, TLAPS

\* Powers of two double: 2^n counts the subsets of n numbers, and half of the subsets of one
\* number more contain that number.
LEMMA PowersOfTwo ==
  ASSUME NEW n \in Nat
  PROVE  2 ^ n \in Nat \ {0} /\ 2 ^ (n + 1) = 2 * 2 ^ n
<1> DEFINE S == 1 .. n
           T == 1 .. (n + 1)
           A == SUBSET S
           B == {s \in SUBSET T : n + 1 \in s}
           f == [s \in A |-> s \cup {n + 1}]
<1>1. IsFiniteSet(S) /\ Cardinality(S) = n /\ IsFiniteSet(T) /\ Cardinality(T) = n + 1
  BY FS_Interval
<1>2. IsFiniteSet(A) /\ Cardinality(A) = 2 ^ n /\ Cardinality(SUBSET T) = 2 ^ (n + 1)
  BY <1>1, FS_SUBSET
<1>3. T = S \cup {n + 1} /\ n + 1 \notin S
  OBVIOUS
<1> HIDE DEF S, T
<1>4. SUBSET T = A \cup B /\ A \cap B = {}
  BY <1>3
<1>5. ExistsBijection(A, B)
  <2>1. f \in [A -> B]
    BY <1>3
  <2>2. \A s, t \in A : f[s] = f[t] => s = t
    BY <1>3
  <2>3. ASSUME NEW t \in B PROVE \E s \in A : f[s] = t
    <3>1. t \ {n + 1} \in A
      BY <1>3, <2>3
    <3>2. f[t \ {n + 1}] = t
      BY <3>1, <2>3
    <3> QED
      BY <3>1, <3>2
  <2>4. f \in Bijection(A, B)
    BY <2>1, <2>2, <2>3 DEF Bijection, Injection, Surjection, IsInjective
  <2> QED
    BY <2>4 DEF ExistsBijection
<1>6. IsFiniteSet(B) /\ Cardinality(B) = Cardinality(A)
  BY <1>2, <1>5, FS_Bijection
<1>7. Cardinality(A \cup B) = Cardinality(A) + Cardinality(B) - Cardinality(A \cap B)
  BY <1>2, <1>6, FS_Union
<1>8. Cardinality(A \cap B) = 0 /\ Cardinality(A) \in Nat
  BY <1>2, <1>4, FS_EmptySet, FS_CardinalityType
<1>9. Cardinality(A) # 0
  <2>1. {} \in A
    OBVIOUS
  <2> QED
    BY <1>2, <2>1, FS_EmptySet
<1> HIDE DEF A, B
<1>10. 2 ^ n = Cardinality(A) /\ 2 ^ (n + 1) = Cardinality(A \cup B)
  BY <1>2, <1>4
<1>11. Cardinality(A \cup B) = 2 * Cardinality(A) /\ Cardinality(A) \in Nat \ {0}
  BY <1>6, <1>7, <1>8, <1>9
<1> QED
  BY <1>10, <1>11

USE TransportAssumption, SessionsAssumption

\* What receive() keeps about its time: poll() never waits beyond the deadline, and beyond
\* shutdown() only for the rest of a round of WSAPoll().
TransportInv ==
  /\ at = "poll" => slice <= left /\ late = 0
  /\ late > 0 => left = 0
  /\ ignored > 0 => shutdown_requested /\ platform = "windows"
  /\ ignored <= CheckInterval
  /\ at = "poll" /\ platform = "windows" => ignored + slice <= Least(CheckInterval, ReceiveTimeout)

\* Between sessions the transport is at rest.
AwayInv == pc # "receive" => at = "out" /\ left = 0 /\ late = 0 /\ ignored = 0

\* Only stop() shuts down the socket of a session.
StopInv == pc = "receive" /\ shutdown_requested => stopping

\* The session's row of malformed datagrams is part of the client's.
StormInv ==
  /\ past.row <= consecutive_malformed /\ consecutive_malformed <= health.malformed_count
  /\ pc \in {"faulted", "stopped"} => past.row = 0
  /\ StormNotEndured

\* Failed sessions are sessions.
FailuresInv ==
  /\ past.fruitless <= past.sessions
  /\ pc \in {"receive", "policy"} => past.fruitless < past.sessions
  /\ pc = "backoff" => past.fruitless > 0

RevisionInv ==
  /\ Len(past.found) <= past.sessions
  /\ health.revision = 0 => health.calibration_change_count = 0
  /\ RevisionNamesCalibration

SessionInv ==
  /\ TypeOK /\ TransportInv /\ AwayInv /\ StopInv /\ DeadlineFollowsValidRecords
  /\ StormInv /\ FailuresInv /\ RevisionInv

\* Why receive() returned nothing, if one poll() can wait for the whole timeout.
ReturnInv ==
  /\ at = "poll" /\ platform = "posix" => slice = left
  /\ pc = "receive" /\ at = "returned" /\ got = "nothing"
       => left = 0 \/ shutdown_requested \/ past.cut

\* The delay is the one due after the failures so far.
DelayInv ==
  /\ BackoffFollowsFailures
  /\ pc \in {"configure", "receive", "policy"}
       => backoff = Least(InitialDelay * 2 ^ past.fruitless, MaxDelay)

-----------------------------------------------------------------------------
(* The transport *)

\* PollTime is the time left, cut to one poll() or one round of WSAPoll().
LEMMA PollTimes ==
  ASSUME TransportTypeOK
  PROVE  /\ PollTime \in 0 .. left
         /\ platform = "windows" => PollTime <= Least(CheckInterval, ReceiveTimeout)
         /\ platform = "posix" /\ ReceiveTimeout <= PollLimit => PollTime = left
BY DEF TransportTypeOK, PollTime, Least

\* What passes in receive() keeps the transport's invariant, and time is accounted for: a tick
\* comes off the deadline or is late.
LEMMA TransportSteps ==
  ASSUME TransportTypeOK, TransportInv, ReceiveStep \/ SocketStep
  PROVE  /\ TransportTypeOK' /\ TransportInv'
         /\ left + late' - left' - late \in {0, 1}
         /\ UNCHANGED shutdown_requested /\ at' # "out"
<1> USE DEF TransportTypeOK, TransportInv, Return, Least
<1> DEFINE Goal == /\ TransportTypeOK' /\ TransportInv'
                   /\ left + late' - left' - late \in {0, 1}
                   /\ UNCHANGED shutdown_requested /\ at' # "out"
<1>1. CASE PollReady
  BY <1>1 DEF PollReady
<1>2. CASE PollExpires
  BY <1>2, PollTimes DEF PollExpires, Poll
<1>3. CASE PollInterrupted
  BY <1>3, PollTimes DEF PollInterrupted, PollAgain, Poll
<1>4. CASE PollFails
  BY <1>4 DEF PollFails
<1>5. CASE Recheck
  BY <1>5 DEF Recheck
<1>6. CASE Recv
  BY <1>6 DEF Recv
<1>7. CASE RecvInterrupted
  BY <1>7 DEF RecvInterrupted
<1>8. CASE Drop
  BY <1>8 DEF Drop
<1>9. CASE Elapse
  BY <1>9 DEF Elapse, Wakes
<1>10. ASSUME NEW kind \in Datagrams \cup {"empty"}, Arrive(kind) PROVE Goal
  BY <1>10 DEF Arrive
<1> QED
  BY <1>1, <1>2, <1>3, <1>4, <1>5, <1>6, <1>7, <1>8, <1>9, <1>10 DEF ReceiveStep, SocketStep

-----------------------------------------------------------------------------
(* Sessions *)

\* p and h have the fields of past and of health, and no others.
IsPast(p) ==
  p = [sessions |-> p.sessions, silence |-> p.silence, row |-> p.row, cut |-> p.cut,
       fruitless |-> p.fruitless, found |-> p.found]

InRange(p) ==
  /\ p.sessions \in 0 .. MaxSessions /\ p.silence \in 0 .. ReceiveTimeout + MaxLate
  /\ p.row \in 0 .. MaxMalformed /\ p.cut \in BOOLEAN
  /\ p.fruitless \in 0 .. MaxSessions /\ p.found \in Seq(Calibrations)

IsHealth(h) ==
  h = [malformed_count |-> h.malformed_count, calibration |-> h.calibration,
       calibration_change_count |-> h.calibration_change_count, revision |-> h.revision]

\* What the records are is what their fields are.
LEMMA PastFields ==
  ASSUME NEW p
  PROVE  p \in PastRecord <=> IsPast(p) /\ InRange(p)
BY DEF PastRecord, IsPast, InRange

LEMMA HealthFields ==
  ASSUME NEW h
  PROVE  h \in HealthRecord <=>
           /\ IsHealth(h)
           /\ h.malformed_count \in 0 .. MaxMalformed
           /\ h.calibration_change_count \in 0 .. MaxSessions
           /\ h.calibration \in Calibrations \cup {NoCalibration}
           /\ h.revision \in 0 .. MaxSessions
BY DEF HealthRecord, IsHealth

\* A discovery adds at most one entry to the list and one revision, together.
LEMMA Discovered ==
  ASSUME TypeOK, RevisionInv, past.sessions < MaxSessions,
         NEW calibration \in Calibrations,
         health' = ApplyConfiguration(calibration),
         past'.found = Found(calibration), past'.sessions = past.sessions + 1
  PROVE  /\ RevisionInv' /\ health' \in HealthRecord /\ past'.found \in Seq(Calibrations)
         /\ health'.malformed_count = health.malformed_count
<1>1. /\ health \in HealthRecord /\ past.found \in Seq(Calibrations)
      /\ past.sessions \in 0 .. MaxSessions
  BY PastFields DEF TypeOK, InRange
<1> DEFINE n == Len(past.found)
<1>2. n \in Nat /\ (past.found = <<>> <=> n = 0)
  BY <1>1
<1>3. /\ n <= past.sessions /\ health.revision = n /\ IsHealth(health)
      /\ n > 0 => health.calibration = past.found[n] /\ health.calibration_change_count = n - 1
      /\ n = 0 => health.calibration_change_count = 0
  BY <1>1, HealthFields DEF RevisionInv, RevisionNamesCalibration
<1> HIDE DEF n
<1>4. CASE n = 0 \/ past.found[n] # calibration
  <2>1. past'.found = Append(past.found, calibration)
    BY <1>2, <1>4 DEF Found, n
  <2>2. /\ past'.found \in Seq(Calibrations) /\ Len(past'.found) = n + 1
        /\ past'.found[n + 1] = calibration
    BY <1>1, <2>1 DEF n
  <2>3. /\ IsHealth(health)' /\ health'.malformed_count = health.malformed_count
        /\ health'.calibration = calibration /\ health'.revision = n + 1
        /\ health'.calibration_change_count = n
    <3>1. CASE n = 0
      <4>1. health' = [health EXCEPT !.calibration = calibration, !.revision = 1]
        BY <1>3, <3>1 DEF ApplyConfiguration
      <4>2. health' = [malformed_count |-> health.malformed_count, calibration |-> calibration,
                       calibration_change_count |-> health.calibration_change_count,
                       revision |-> 1]
        BY <1>1, <4>1 DEF HealthRecord
      <4> QED
        BY <1>3, <3>1, <4>2 DEF IsHealth
    <3>2. CASE n # 0
      <4>1. health' = [health EXCEPT !.calibration = calibration,
                                     !.revision = health.revision + 1,
                                     !.calibration_change_count =
                                       health.calibration_change_count + 1]
        <5>1. health.revision # 0 /\ health.calibration # calibration
          BY <1>2, <1>3, <1>4, <3>2
        <5> QED
          BY <5>1 DEF ApplyConfiguration, SameCalibration
      <4>2. health' = [malformed_count |-> health.malformed_count, calibration |-> calibration,
                       calibration_change_count |-> health.calibration_change_count + 1,
                       revision |-> health.revision + 1]
        BY <1>1, <4>1 DEF HealthRecord
      <4> QED
        BY <1>2, <1>3, <3>2, <4>2 DEF IsHealth
    <3> QED
      BY <3>1, <3>2
  <2>4. health' \in HealthRecord
    <3>1. /\ health'.malformed_count \in 0 .. MaxMalformed
          /\ health'.calibration_change_count \in 0 .. MaxSessions
          /\ health'.revision \in 0 .. MaxSessions
      BY <1>1, <1>2, <1>3, <2>3, HealthFields
    <3> QED
      BY <2>3, <3>1, HealthFields
  <2>5. Len(past'.found) <= past'.sessions /\ RevisionNamesCalibration'
    BY <1>1, <1>2, <1>3, <2>2, <2>3 DEF RevisionNamesCalibration
  <2> QED
    BY <1>2, <2>2, <2>3, <2>4, <2>5 DEF RevisionInv
<1>5. CASE n # 0 /\ past.found[n] = calibration
  <2>1. past'.found = past.found
    BY <1>2, <1>5 DEF Found, n
  <2>2. health' = health
    BY <1>2, <1>3, <1>5 DEF ApplyConfiguration, SameCalibration
  <2> QED
    BY <1>1, <1>2, <1>3, <2>1, <2>2 DEF RevisionInv, RevisionNamesCalibration, n
<1> QED
  BY <1>4, <1>5

\* The steps that open a session, or fail to.
LEMMA OpenSteps ==
  ASSUME SessionInv, OpenSession \/ OpenFails \/ OpenStopped, UNCHANGED recovery_policy
  PROVE  SessionInv'
<1>1. past \in PastRecord /\ InRange(past) /\ health \in HealthRecord
  BY PastFields DEF SessionInv, TypeOK
<1>2. CASE OpenSession
  <2>1. PICK calibration \in Calibrations :
          /\ health' = ApplyConfiguration(calibration)
          /\ past' = [past EXCEPT !.sessions = @ + 1, !.silence = 0, !.row = 0,
                                  !.found = Found(calibration)]
    BY <1>2 DEF OpenSession
  <2>2. /\ pc = "configure" /\ ~stopping /\ past.sessions < MaxSessions
        /\ pc' = "receive" /\ left' = ReceiveTimeout /\ shutdown_requested' = FALSE
        /\ received_valid_record' = FALSE /\ result' = "Stopped"
        /\ UNCHANGED <<platform, at, slice, datagram, got, late, ignored, stopping, backoff,
                       consecutive_malformed>>
    BY <1>2 DEF OpenSession, Connect
  <2>3. /\ IsPast(past') /\ past'.sessions = past.sessions + 1 /\ past'.silence = 0
        /\ past'.row = 0 /\ past'.cut = past.cut /\ past'.fruitless = past.fruitless
        /\ past'.found = Found(calibration)
    BY <1>1, <2>1 DEF PastRecord, IsPast
  <2>4. /\ RevisionInv' /\ health' \in HealthRecord /\ past'.found \in Seq(Calibrations)
        /\ health'.malformed_count = health.malformed_count
    BY <2>1, <2>2, <2>3, Discovered DEF SessionInv
  <2>5. past' \in PastRecord
    <3>1. InRange(past')
      BY <1>1, <2>2, <2>3, <2>4 DEF InRange
    <3> QED
      BY <2>3, <3>1, PastFields
  <2>6. TypeOK'
    <3>1. TransportTypeOK'
      <4>1. ReceiveTimeout \in 0 .. ReceiveTimeout
        OBVIOUS
      <4> QED
        BY <2>2, <4>1 DEF SessionInv, TypeOK, TransportTypeOK
    <3> QED
      BY <2>2, <2>4, <2>5, <3>1 DEF SessionInv, TypeOK, Results
  <2>7. TransportInv' /\ AwayInv' /\ StopInv'
    BY <2>2 DEF SessionInv, TransportInv, AwayInv, StopInv, TypeOK, TransportTypeOK, Least
  <2>8. DeadlineFollowsValidRecords' /\ StormInv' /\ FailuresInv'
    BY <1>1, <2>2, <2>3, <2>4 DEF SessionInv, TypeOK, InRange, AwayInv,
       DeadlineFollowsValidRecords, StormInv, StormNotEndured, FailuresInv
  <2> QED
    BY <2>4, <2>6, <2>7, <2>8 DEF SessionInv
<1>3. CASE OpenFails \/ OpenStopped
  <2>1. /\ pc' = "policy" /\ pc = "configure" /\ received_valid_record' = FALSE
        /\ result' \in Results /\ past.sessions < MaxSessions
        /\ UNCHANGED <<transportVars, stopping, backoff, consecutive_malformed>>
    BY <1>3 DEF OpenFails, OpenStopped, Results
  <2> DEFINE Kept == /\ IsPast(past') /\ past'.sessions = past.sessions + 1
                     /\ past'.silence = past.silence /\ past'.row = past.row
                     /\ past'.cut = past.cut /\ past'.fruitless = past.fruitless
             Applied == /\ RevisionInv' /\ health' \in HealthRecord
                        /\ past'.found \in Seq(Calibrations)
                        /\ health'.malformed_count = health.malformed_count
  <2>2. ASSUME health' = health, past' = [past EXCEPT !.sessions = @ + 1] PROVE Kept /\ Applied
    <3>1. Kept /\ past'.found = past.found
      BY <1>1, <2>2 DEF PastRecord, IsPast
    <3>2. Len(past'.found) <= past'.sessions
      BY <1>1, <3>1 DEF InRange, SessionInv, RevisionInv
    <3>3. RevisionInv'
      BY <2>2, <3>1, <3>2 DEF SessionInv, RevisionInv, RevisionNamesCalibration
    <3> QED
      BY <1>1, <2>2, <3>1, <3>3 DEF InRange
  <2>3. ASSUME NEW calibration \in Calibrations,
               health' = ApplyConfiguration(calibration),
               past' = [past EXCEPT !.sessions = @ + 1, !.found = Found(calibration)]
        PROVE  Kept /\ Applied
    <3>1. Kept /\ past'.found = Found(calibration)
      BY <1>1, <2>3 DEF PastRecord, IsPast
    <3> QED
      BY <2>1, <2>3, <3>1, Discovered DEF SessionInv
  <2> HIDE DEF Kept, Applied
  <2>4. Kept /\ Applied
    BY <1>3, <2>2, <2>3 DEF OpenFails, OpenStopped
  <2>5. past' \in PastRecord
    <3>1. InRange(past')
      BY <1>1, <2>1, <2>4 DEF InRange, Kept, Applied
    <3> QED
      BY <2>4, <3>1, PastFields DEF Kept
  <2>6. TypeOK'
    BY <2>1, <2>4, <2>5 DEF SessionInv, TypeOK, TransportTypeOK, transportVars, Applied
  <2>7. TransportInv' /\ AwayInv' /\ StopInv'
    BY <2>1 DEF transportVars, SessionInv, TransportInv, AwayInv, StopInv
  <2>8. DeadlineFollowsValidRecords' /\ StormInv' /\ FailuresInv'
    BY <1>1, <2>1, <2>4 DEF Kept, Applied, InRange, SessionInv, DeadlineFollowsValidRecords,
       StormInv, StormNotEndured, FailuresInv
  <2> QED
    BY <2>4, <2>6, <2>7, <2>8 DEF SessionInv, Applied
<1> QED
  BY <1>2, <1>3

\* receive() is called, works and returns; time passes.
LEMMA ReceiveSteps ==
  ASSUME SessionInv, CallReceive \/ InReceive, UNCHANGED recovery_policy
  PROVE  SessionInv'
<1>1. past \in PastRecord /\ InRange(past) /\ health \in HealthRecord
  BY PastFields DEF SessionInv, TypeOK
<1>2. CASE CallReceive
  <2>1. TransportTypeOK' /\ TransportInv' /\ UNCHANGED <<left, late, shutdown_requested>>
    BY <1>2, PollTimes DEF CallReceive, Receive, Poll, Return, SessionInv, TypeOK,
                           TransportTypeOK, TransportInv, Least
  <2>2. pc = "receive" /\ UNCHANGED <<pc, stopping, session, client, past>>
    BY <1>2 DEF CallReceive
  <2> QED
    BY <2>1, <2>2 DEF session, client, SessionInv, TypeOK, AwayInv, StopInv,
       DeadlineFollowsValidRecords, StormInv, StormNotEndured, FailuresInv, RevisionInv,
       RevisionNamesCalibration
<1>3. CASE InReceive
  <2>1. /\ pc = "receive" /\ (ReceiveStep \/ SocketStep)
        /\ UNCHANGED <<pc, stopping, session, client>>
    BY <1>3 DEF InReceive
  <2>2. /\ TransportTypeOK' /\ TransportInv'
        /\ left + late' - left' - late \in {0, 1}
        /\ UNCHANGED shutdown_requested
    BY <2>1, TransportSteps DEF SessionInv, TypeOK
  <2> DEFINE spent == left + late' - left' - late
             short == CutShort
  <2>3. short \in BOOLEAN
    BY DEF CutShort
  <2> HIDE DEF spent, short
  <2>4. past' = [past EXCEPT !.silence = past.silence + spent, !.cut = short]
    BY <1>3 DEF InReceive, spent, short
  <2>5. /\ IsPast(past') /\ past'.sessions = past.sessions
        /\ past'.silence = past.silence + spent
        /\ past'.row = past.row /\ past'.cut = short /\ past'.fruitless = past.fruitless
        /\ past'.found = past.found
    BY <1>1, <2>4 DEF PastRecord, IsPast
  <2>6. /\ past.silence \in Nat /\ past'.silence + left' = ReceiveTimeout + late'
        /\ left' \in Nat /\ late' \in 0 .. MaxLate /\ past'.silence >= past.silence
    <3>1. /\ past.silence \in Nat /\ past.silence + left = ReceiveTimeout + late
          /\ left \in Nat /\ late \in Nat
      BY <1>1, <2>1 DEF InRange, SessionInv, TypeOK, TransportTypeOK, DeadlineFollowsValidRecords
    <3>2. left' \in Nat /\ late' \in 0 .. MaxLate
      BY <2>2 DEF TransportTypeOK
    <3>3. past'.silence = past.silence + (left + late' - left' - late)
      BY <2>5 DEF spent
    <3>4. ReceiveTimeout \in Nat /\ left + late' - left' - late \in {0, 1}
      BY <2>2
    <3>5. late' \in Int /\ left' \in Int
      BY <3>2
    <3>6. past'.silence + left' = ReceiveTimeout + late'
      BY <3>1, <3>3, <3>4, <3>5
    <3>7. past'.silence >= past.silence
      BY <3>1, <3>3, <3>4
    <3> QED
      BY <3>1, <3>2, <3>6, <3>7
  <2>7. past' \in PastRecord
    <3>1. past'.silence \in 0 .. ReceiveTimeout + MaxLate
      <4>1. past'.silence = past.silence + spent /\ spent \in {0, 1}
        BY <2>2, <2>5 DEF spent
      <4> QED
        BY <2>6, <4>1
    <3>2. InRange(past')
      BY <1>1, <2>3, <2>5, <3>1 DEF InRange
    <3> QED
      BY <2>5, <3>2, PastFields
  <2>8. TypeOK'
    BY <2>1, <2>2, <2>7 DEF session, client, SessionInv, TypeOK
  <2>9. AwayInv' /\ StopInv'
    BY <2>1, <2>2 DEF SessionInv, AwayInv, StopInv
  <2>10. StormInv' /\ FailuresInv' /\ RevisionInv'
    BY <2>1, <2>5 DEF client, SessionInv, StormInv, StormNotEndured, FailuresInv, RevisionInv,
                      RevisionNamesCalibration
  <2> QED
    BY <2>2, <2>6, <2>8, <2>9, <2>10 DEF SessionInv, DeadlineFollowsValidRecords
<1> QED
  BY <1>2, <1>3

\* The end of a session leaves the transport at rest.
LEMMA EndsAtRest ==
  ASSUME TransportTypeOK, NEW outcome \in Results, EndWith(outcome)
  PROVE  /\ TransportTypeOK' /\ TransportInv'
         /\ at' = "out" /\ left' = 0 /\ late' = 0 /\ ignored' = 0
         /\ pc' = "policy" /\ result' = outcome
BY DEF EndWith, Close, TransportTypeOK, TransportInv, Least

\* stop(), the deadline and an error end the session.
LEMMA EndSteps ==
  ASSUME SessionInv, SessionStopped \/ TimeOut \/ ReceiveThrows, UNCHANGED recovery_policy
  PROVE  SessionInv'
<1>1. /\ pc = "receive" /\ UNCHANGED <<stopping, received_valid_record, client, past>>
      /\ \E outcome \in Results : EndWith(outcome)
  BY DEF SessionStopped, TimeOut, ReceiveThrows, Returned, Results
<1>2. /\ TransportTypeOK' /\ TransportInv'
      /\ at' = "out" /\ left' = 0 /\ late' = 0 /\ ignored' = 0
      /\ pc' = "policy" /\ result' \in Results
  BY <1>1, EndsAtRest DEF SessionInv, TypeOK
<1> QED
  BY <1>1, <1>2 DEF client, SessionInv, TypeOK, AwayInv, StopInv, DeadlineFollowsValidRecords,
     StormInv, StormNotEndured, FailuresInv, RevisionInv, RevisionNamesCalibration

\* A datagram that does not decode: the row grows, or was too long already.
LEMMA MalformedStep ==
  ASSUME SessionInv, ReceiveMalformed, UNCHANGED recovery_policy
  PROVE  SessionInv'
<1>1. past \in PastRecord /\ InRange(past) /\ health \in HealthRecord
  BY PastFields DEF SessionInv, TypeOK
<1>2. /\ pc = "receive" /\ ~stopping /\ health.malformed_count < MaxMalformed
      /\ consecutive_malformed' = consecutive_malformed + 1
      /\ UNCHANGED <<stopping, received_valid_record, backoff>>
  BY DEF ReceiveMalformed, Returned
<1>3. /\ IsPast(past') /\ past'.sessions = past.sessions /\ past'.silence = past.silence
      /\ past'.row = past.row + 1 /\ past'.cut = past.cut /\ past'.fruitless = past.fruitless
      /\ past'.found = past.found
  <2>1. past' = [past EXCEPT !.row = @ + 1]
    BY DEF ReceiveMalformed
  <2> QED
    BY <1>1, <2>1 DEF PastRecord, IsPast
<1>4. /\ health' \in HealthRecord /\ health'.malformed_count = health.malformed_count + 1
      /\ health'.revision = health.revision /\ health'.calibration = health.calibration
      /\ health'.calibration_change_count = health.calibration_change_count
  <2>1. health' = [health EXCEPT !.malformed_count = @ + 1]
    BY DEF ReceiveMalformed
  <2> QED
    BY <1>1, <1>2, <2>1 DEF HealthRecord
<1>5. /\ past.row \in Nat /\ health.malformed_count \in Nat /\ consecutive_malformed \in Nat
      /\ past.row <= consecutive_malformed /\ consecutive_malformed <= health.malformed_count
  BY <1>1, HealthFields DEF InRange, SessionInv, TypeOK, StormInv
<1>6. past' \in PastRecord
  <2>1. past'.row \in 0 .. MaxMalformed
    BY <1>2, <1>3, <1>5
  <2>2. InRange(past')
    BY <1>1, <1>3, <2>1 DEF InRange
  <2> QED
    BY <1>3, <2>2, PastFields
<1>7. RevisionInv' /\ FailuresInv'
  <2>1. pc' \in {"receive", "policy"}
    BY <1>2 DEF ReceiveMalformed, EndWith, GoOn
  <2> QED
    BY <1>2, <1>3, <1>4, <2>1 DEF SessionInv, RevisionInv, RevisionNamesCalibration, FailuresInv
<1>8. consecutive_malformed' \in 0 .. MaxMalformed
  BY <1>2, <1>5
<1>9. CASE Storm
  <2>1. EndWith("MalformedStorm") /\ "MalformedStorm" \in Results
    BY <1>9 DEF ReceiveMalformed, Results
  <2>2. /\ TransportTypeOK' /\ TransportInv'
        /\ at' = "out" /\ left' = 0 /\ late' = 0 /\ ignored' = 0
        /\ pc' = "policy" /\ result' \in Results
    BY <2>1, EndsAtRest DEF SessionInv, TypeOK
  <2>3. TypeOK'
    BY <1>2, <1>4, <1>6, <1>8, <2>2 DEF SessionInv, TypeOK
  <2>4. StormInv'
    BY <1>2, <1>3, <1>4, <1>5, <2>2 DEF StormInv, StormNotEndured
  <2> QED
    BY <1>7, <2>2, <2>3, <2>4 DEF SessionInv, AwayInv, StopInv, DeadlineFollowsValidRecords
<1>10. CASE ~Storm
  <2>1. /\ at' = "out" /\ UNCHANGED <<left, late, platform, slice, datagram, shutdown_requested,
                                      ignored, pc, result>>
        /\ got' = "nothing"
    BY <1>10 DEF ReceiveMalformed, GoOn, DeadlineAfter
  <2>2. TransportTypeOK' /\ TransportInv'
    BY <2>1 DEF SessionInv, TypeOK, TransportTypeOK, TransportInv
  <2>3. TypeOK'
    BY <1>2, <1>4, <1>6, <1>8, <2>1, <2>2 DEF SessionInv, TypeOK
  <2>4. StormInv'
    BY <1>2, <1>3, <1>4, <1>5, <1>10, <2>1 DEF Storm, StormInv, StormNotEndured
  <2> QED
    BY <1>2, <1>3, <1>7, <2>1, <2>2, <2>3, <2>4 DEF SessionInv, AwayInv, StopInv,
                                                    DeadlineFollowsValidRecords
<1> QED
  BY <1>9, <1>10

\* A record: the deadline moves, the row ends.
LEMMA RecordStep ==
  ASSUME SessionInv, ReceiveRecord, UNCHANGED recovery_policy
  PROVE  SessionInv'
<1>1. past \in PastRecord /\ InRange(past)
  BY PastFields DEF SessionInv, TypeOK
<1>2. /\ pc = "receive" /\ at = "returned" /\ got \in {"record", "serious"}
      /\ consecutive_malformed' = 0 /\ received_valid_record' = TRUE
      /\ UNCHANGED <<stopping, backoff, health>>
  BY DEF ReceiveRecord, Returned
<1>3. /\ IsPast(past') /\ past'.sessions = past.sessions /\ past'.silence = 0
      /\ past'.row = 0 /\ past'.cut = past.cut /\ past'.fruitless = past.fruitless
      /\ past'.found = past.found
  <2>1. past' = [past EXCEPT !.silence = 0, !.row = 0]
    BY DEF ReceiveRecord
  <2> QED
    BY <1>1, <2>1 DEF PastRecord, IsPast
<1>4. past' \in PastRecord
  <2>1. InRange(past')
    BY <1>1, <1>3 DEF InRange
  <2> QED
    BY <1>3, <2>1, PastFields
<1>5. /\ TransportTypeOK' /\ TransportInv' /\ result' \in Results
      /\ \/ /\ at' = "out" /\ left' = 0 /\ late' = 0 /\ ignored' = 0 /\ pc' = "policy"
         \/ /\ pc' = "receive" /\ left' = ReceiveTimeout /\ late' = 0
            /\ UNCHANGED shutdown_requested
  <2>1. CASE got = "serious"
    <3>1. EndWith("SeriousStatus") /\ "SeriousStatus" \in Results
      BY <2>1 DEF ReceiveRecord, Results
    <3> QED
      BY <3>1, EndsAtRest DEF SessionInv, TypeOK
  <2>2. CASE got # "serious"
    <3>1. /\ at' = "out" /\ left' = ReceiveTimeout /\ late' = 0 /\ got' = "nothing"
          /\ UNCHANGED <<platform, slice, datagram, shutdown_requested, ignored, pc, result>>
      BY <2>2 DEF ReceiveRecord, GoOn, DeadlineAfter
    <3>2. ReceiveTimeout \in 0 .. ReceiveTimeout /\ 0 \in 0 .. MaxLate
      OBVIOUS
    <3>3. TransportTypeOK' /\ TransportInv'
      BY <3>1, <3>2 DEF SessionInv, TypeOK, TransportTypeOK, TransportInv
    <3> QED
      BY <1>2, <3>1, <3>3 DEF SessionInv, TypeOK
  <2> QED
    BY <2>1, <2>2
<1>6. TypeOK'
  BY <1>2, <1>4, <1>5 DEF SessionInv, TypeOK
<1>7. RevisionInv' /\ FailuresInv'
  BY <1>2, <1>3, <1>5 DEF SessionInv, RevisionInv, RevisionNamesCalibration, FailuresInv
<1>8. StormInv'
  BY <1>2, <1>3, <1>5, HealthFields DEF SessionInv, TypeOK, StormInv, StormNotEndured
<1> QED
  BY <1>2, <1>3, <1>5, <1>6, <1>7, <1>8 DEF SessionInv, AwayInv, StopInv,
                                            DeadlineFollowsValidRecords

\* Between sessions only the counters change.
LEMMA RestKept ==
  ASSUME SessionInv, pc # "receive", pc' # "receive", UNCHANGED transportVars
  PROVE  /\ TransportTypeOK' /\ TransportInv' /\ AwayInv' /\ StopInv'
         /\ DeadlineFollowsValidRecords' /\ StormNotEndured'
BY DEF transportVars, SessionInv, TypeOK, TransportTypeOK, TransportInv, AwayInv, StopInv,
       DeadlineFollowsValidRecords, StormNotEndured

\* What follows a session: the worker ends, or waits and goes on.
LEMMA PolicySteps ==
  ASSUME SessionInv, WorkerEnds \/ EnterBackoff \/ BackoffElapsed, UNCHANGED recovery_policy
  PROVE  SessionInv'
<1>1. past \in PastRecord /\ InRange(past)
  BY PastFields DEF SessionInv, TypeOK
<1>2. /\ pc # "receive" /\ pc' \in {"faulted", "stopped", "backoff", "configure"}
      /\ received_valid_record' = FALSE /\ result' = "Stopped"
      /\ UNCHANGED <<transportVars, stopping, consecutive_malformed, health>>
  BY DEF WorkerEnds, EnterBackoff, BackoffElapsed, Go, client
<1>3. /\ TransportTypeOK' /\ TransportInv' /\ AwayInv' /\ StopInv'
      /\ DeadlineFollowsValidRecords' /\ StormNotEndured'
  BY <1>2, RestKept
<1>4. backoff' \in InitialDelay .. MaxDelay
  BY DEF WorkerEnds, EnterBackoff, BackoffElapsed, client, Delay, NextDelay, Least, SessionInv,
         TypeOK
<1>5. CASE WorkerEnds
  <2>1. past' = [past EXCEPT !.silence = 0, !.row = 0, !.cut = FALSE]
        /\ pc' \in {"faulted", "stopped"}
    BY <1>5 DEF WorkerEnds, Go
  <2>2. /\ IsPast(past') /\ past'.sessions = past.sessions /\ past'.silence = 0
        /\ past'.row = 0 /\ past'.cut = FALSE /\ past'.fruitless = past.fruitless
        /\ past'.found = past.found
    BY <1>1, <2>1 DEF PastRecord, IsPast
  <2>3. past' \in PastRecord
    <3>1. past'.cut \in BOOLEAN /\ 0 \in 0 .. MaxMalformed /\ 0 \in 0 .. ReceiveTimeout + MaxLate
      <4>1. past'.cut = FALSE
        BY <2>2
      <4>2. past'.cut \in BOOLEAN
        BY <4>1
      <4>3. 0 \in 0 .. MaxMalformed /\ 0 \in 0 .. ReceiveTimeout + MaxLate
        OBVIOUS
      <4> QED
        BY <4>2, <4>3
    <3>2. InRange(past')
      BY <1>1, <2>2, <3>1 DEF InRange
    <3> QED
      BY <2>2, <3>2, PastFields
  <2>4. TypeOK'
    BY <1>2, <1>3, <1>4, <2>1, <2>3 DEF SessionInv, TypeOK, Results
  <2>5. StormInv' /\ FailuresInv' /\ RevisionInv'
    BY <1>2, <1>3, <2>1, <2>2 DEF SessionInv, TypeOK, StormInv, FailuresInv, RevisionInv,
                                  RevisionNamesCalibration
  <2> QED
    BY <1>3, <2>4, <2>5 DEF SessionInv
<1>6. CASE EnterBackoff
  <2> DEFINE failures == IF received_valid_record THEN 1 ELSE past.fruitless + 1
  <2> HIDE DEF failures
  <2>1. /\ past' = [past EXCEPT !.silence = 0, !.row = 0, !.cut = FALSE, !.fruitless = failures]
        /\ pc = "policy" /\ pc' = "backoff"
    BY <1>6 DEF EnterBackoff, Go, failures
  <2>2. /\ IsPast(past') /\ past'.sessions = past.sessions /\ past'.silence = 0
        /\ past'.row = 0 /\ past'.cut = FALSE /\ past'.fruitless = failures
        /\ past'.found = past.found
    BY <1>1, <2>1 DEF PastRecord, IsPast
  <2>3. failures \in 1 .. past.sessions
    BY <1>1, <2>1 DEF failures, InRange, SessionInv, FailuresInv
  <2>4. past' \in PastRecord
    <3>1. past'.cut \in BOOLEAN /\ 0 \in 0 .. MaxMalformed /\ 0 \in 0 .. ReceiveTimeout + MaxLate
      <4>1. past'.cut = FALSE
        BY <2>2
      <4>2. past'.cut \in BOOLEAN
        BY <4>1
      <4>3. 0 \in 0 .. MaxMalformed /\ 0 \in 0 .. ReceiveTimeout + MaxLate
        OBVIOUS
      <4> QED
        BY <4>2, <4>3
    <3>2. past'.fruitless \in 0 .. MaxSessions
      BY <1>1, <2>2, <2>3 DEF InRange
    <3>3. InRange(past')
      BY <1>1, <2>2, <3>1, <3>2 DEF InRange
    <3> QED
      BY <2>2, <3>3, PastFields
  <2>5. TypeOK'
    BY <1>2, <1>3, <1>4, <2>1, <2>4 DEF SessionInv, TypeOK, Results
  <2>6. FailuresInv'
    BY <2>1, <2>2, <2>3 DEF FailuresInv
  <2>7. StormInv' /\ RevisionInv'
    BY <1>2, <1>3, <2>1, <2>2 DEF SessionInv, TypeOK, StormInv, RevisionInv,
                                  RevisionNamesCalibration
  <2> QED
    BY <1>3, <2>5, <2>6, <2>7 DEF SessionInv
<1>7. CASE BackoffElapsed
  <2>1. pc' = "configure" /\ UNCHANGED past
    BY <1>7 DEF BackoffElapsed, Go
  <2>2. TypeOK'
    BY <1>2, <1>3, <1>4, <2>1 DEF SessionInv, TypeOK, Results
  <2>3. StormInv' /\ FailuresInv' /\ RevisionInv'
    BY <1>2, <1>3, <2>1 DEF SessionInv, StormInv, FailuresInv, RevisionInv,
                            RevisionNamesCalibration
  <2> QED
    BY <1>3, <2>2, <2>3 DEF SessionInv
<1> QED
  BY <1>5, <1>6, <1>7

\* stop() and start().
LEMMA ControlSteps ==
  ASSUME SessionInv, Stop \/ StopCommand \/ Restart, UNCHANGED recovery_policy
  PROVE  SessionInv'
<1>1. past \in PastRecord /\ InRange(past)
  BY PastFields DEF SessionInv, TypeOK
<1>2. CASE Stop
  BY <1>2 DEF Stop, transportVars, session, client, SessionInv, TypeOK, TransportTypeOK,
     TransportInv, AwayInv, StopInv, DeadlineFollowsValidRecords, StormInv, StormNotEndured,
     FailuresInv, RevisionInv, RevisionNamesCalibration
<1>3. CASE StopCommand
  BY <1>3 DEF StopCommand, Shutdown, session, client, SessionInv, TypeOK, TransportTypeOK,
     TransportInv, AwayInv, StopInv, DeadlineFollowsValidRecords, StormInv, StormNotEndured,
     FailuresInv, RevisionInv, RevisionNamesCalibration
<1>4. CASE Restart
  <2>1. /\ pc \in {"faulted", "stopped"} /\ pc' = "configure" /\ stopping' = FALSE
        /\ backoff' = InitialDelay /\ consecutive_malformed' = 0
        /\ UNCHANGED <<transportVars, session, health>>
        /\ past' = [past EXCEPT !.fruitless = 0]
    BY <1>4 DEF Restart
  <2>2. /\ TransportTypeOK' /\ TransportInv' /\ AwayInv' /\ StopInv'
        /\ DeadlineFollowsValidRecords' /\ StormNotEndured'
    BY <2>1, RestKept
  <2>3. /\ IsPast(past') /\ past'.sessions = past.sessions /\ past'.silence = past.silence
        /\ past'.row = past.row /\ past'.cut = past.cut /\ past'.fruitless = 0
        /\ past'.found = past.found
    BY <1>1, <2>1 DEF PastRecord, IsPast
  <2>4. past' \in PastRecord
    <3>1. InRange(past')
      BY <1>1, <2>3 DEF InRange
    <3> QED
      BY <2>3, <3>1, PastFields
  <2>5. TypeOK'
    <3>1. InitialDelay \in InitialDelay .. MaxDelay /\ 0 \in 0 .. MaxMalformed
      OBVIOUS
    <3> QED
      BY <2>1, <2>2, <2>4, <3>1 DEF session, SessionInv, TypeOK
  <2>6. StormInv'
    <3>1. past.row = 0 /\ health.malformed_count \in Nat
      BY <2>1, HealthFields DEF SessionInv, TypeOK, StormInv
    <3> QED
      BY <2>1, <2>2, <2>3, <3>1 DEF StormInv
  <2>7. FailuresInv' /\ RevisionInv'
    <3>1. health' = health /\ pc' = "configure" /\ past.sessions \in Nat
      BY <1>1, <2>1 DEF InRange
    <3> QED
      BY <2>3, <3>1 DEF SessionInv, FailuresInv, RevisionInv, RevisionNamesCalibration
  <2> QED
    BY <2>2, <2>5, <2>6, <2>7 DEF SessionInv
<1> QED
  BY <1>2, <1>3, <1>4

\* Every step preserves the invariant.
LEMMA SessionNext ==
  ASSUME SessionInv, [Next]_vars
  PROVE  SessionInv'
<1>1. CASE UNCHANGED vars
  BY <1>1 DEF vars, transportVars, session, client, SessionInv, TypeOK, TransportTypeOK,
     TransportInv, AwayInv, StopInv, DeadlineFollowsValidRecords, StormInv, StormNotEndured,
     FailuresInv, RevisionInv, RevisionNamesCalibration
<1>2. CASE Next
  BY <1>2, OpenSteps, ReceiveSteps, EndSteps, MalformedStep, RecordStep, PolicySteps, ControlSteps
     DEF Next, Worker
<1> QED
  BY <1>1, <1>2

\* A client before its first session.
LEMMA SessionInit == Init => SessionInv
<1> SUFFICES ASSUME Init PROVE SessionInv
  OBVIOUS
<1>1. TransportTypeOK /\ TransportInv
  <2>1. /\ platform \in Platforms /\ at = "out" /\ left = 0 /\ slice = 0 /\ datagram = "none"
        /\ got = "nothing" /\ shutdown_requested = FALSE /\ late = 0 /\ ignored = 0
    BY DEF Init, TransportInit
  <2>2. /\ 0 \in 0 .. ReceiveTimeout /\ 0 \in 0 .. MaxLate /\ CheckInterval \in Nat
    OBVIOUS
  <2>3. TransportTypeOK
    BY <2>1, <2>2 DEF TransportTypeOK
  <2>4. TransportInv
    BY <2>1, <2>2 DEF TransportInv
  <2> QED
    BY <2>3, <2>4
<1>2. past = [sessions |-> 0, silence |-> 0, row |-> 0, cut |-> FALSE, fruitless |-> 0,
              found |-> <<>>]
  BY DEF Init
<1>3. health = [malformed_count |-> 0, calibration_change_count |-> 0,
                calibration |-> NoCalibration, revision |-> 0]
  BY DEF Init
<1>4. TypeOK
  <2>1. past \in PastRecord
    BY <1>2 DEF PastRecord
  <2>2. health \in HealthRecord
    BY <1>3 DEF HealthRecord
  <2>3. InitialDelay \in InitialDelay .. MaxDelay /\ 0 \in 0 .. MaxMalformed
    OBVIOUS
  <2> QED
    BY <1>1, <2>1, <2>2, <2>3 DEF Init, TypeOK, Results
<1>5. AwayInv /\ StopInv /\ DeadlineFollowsValidRecords
  BY DEF Init, TransportInit, AwayInv, StopInv, DeadlineFollowsValidRecords
<1>6. StormInv /\ FailuresInv
  BY <1>2, <1>3 DEF Init, StormInv, StormNotEndured, FailuresInv
<1>7. RevisionInv
  BY <1>2, <1>3 DEF RevisionInv, RevisionNamesCalibration
<1> QED
  BY <1>1, <1>4, <1>5, <1>6, <1>7 DEF SessionInv

\* The invariant holds in every reachable state.
LEMMA SessionInvariant == Spec => []SessionInv
BY SessionInit, SessionNext, PTL DEF Spec

\* Deadlines, delays and counters stay in their ranges.
THEOREM SessionsTyped == Spec => []TypeOK
<1>1. SessionInv => TypeOK
  BY DEF SessionInv
<1> QED
  BY <1>1, SessionInvariant, PTL

\* The deadline of receive_session() is the receive timeout after the latest valid record, or
\* after the start of the session, whatever else arrived and however receive() was woken.
THEOREM DeadlineIsExact == Spec => []DeadlineFollowsValidRecords
<1>1. SessionInv => DeadlineFollowsValidRecords
  BY DEF SessionInv
<1> QED
  BY <1>1, SessionInvariant, PTL

\* poll() ends by the deadline, however often it is interrupted: only recv() can be late.
THEOREM PollNeverLate == Spec => []LateOnlyAfterDrop
<1>1. SessionInv => LateOnlyAfterDrop
  BY DEF SessionInv, TransportInv, LateOnlyAfterDrop
<1> QED
  BY <1>1, SessionInvariant, PTL

\* After shutdown() receive() waits no longer, on Windows at most for one check interval.
THEOREM ShutdownIsNoticed == Spec => []ShutdownNoticed
<1>1. SessionInv => ShutdownNoticed
  BY DEF SessionInv, TypeOK, TransportTypeOK, TransportInv, ShutdownNoticed
<1> QED
  BY <1>1, SessionInvariant, PTL

\* No session has as many malformed datagrams in a row as the threshold, although the count
\* behind it outlives sessions.
THEOREM StormsEndSessions == Spec => []StormNotEndured
<1>1. SessionInv => StormNotEndured
  BY DEF SessionInv, StormInv
<1> QED
  BY <1>1, SessionInvariant, PTL

\* The revision of the sensor's configuration counts the calibrations discovery found, over
\* failed connections, stops and restarts, and names the current one.
THEOREM RevisionsAreChanges == Spec => []RevisionNamesCalibration
<1>1. SessionInv => RevisionNamesCalibration
  BY DEF SessionInv, RevisionInv
<1> QED
  BY <1>1, SessionInvariant, PTL

-----------------------------------------------------------------------------
(* The reconnect delay *)

\* The next delay is due after one more failure.
LEMMA DelayDoubles ==
  ASSUME NEW n \in Nat, NEW d, d = Least(InitialDelay * 2 ^ n, MaxDelay)
  PROVE  Least(2 * d, MaxDelay) = Least(InitialDelay * 2 ^ (n + 1), MaxDelay)
<1>1. PICK p \in Nat \ {0} : p = 2 ^ n /\ 2 ^ (n + 1) = 2 * p
  BY PowersOfTwo
<1>2. PICK q \in Nat : q = InitialDelay * p
  BY <1>1
<1>3. InitialDelay * (2 * p) = 2 * q
  BY <1>1, <1>2
<1> QED
  BY <1>1, <1>2, <1>3 DEF Least

\* Every step keeps the delay due.
LEMMA DelayNext ==
  ASSUME SessionInv, DelayInv, [Next]_vars
  PROVE  DelayInv'
<1>1. past \in PastRecord /\ past.fruitless \in Nat
  BY PastFields DEF SessionInv, TypeOK, InRange
<1>2. ASSUME backoff' = backoff, past'.fruitless = past.fruitless,
             pc' = pc \/ (pc # "backoff" /\ pc' # "backoff"),
             pc \in {"faulted", "stopped"} => pc' \notin {"configure", "receive", "policy"}
      PROVE  DelayInv'
  BY <1>2 DEF DelayInv, BackoffFollowsFailures, SessionInv, TypeOK
<1>3. CASE UNCHANGED vars
  BY <1>2, <1>3 DEF vars, client
<1>4. CASE OpenSession \/ OpenFails \/ OpenStopped
  <2>1. /\ backoff' = backoff /\ pc = "configure" /\ pc' \in {"receive", "policy"}
    BY <1>4 DEF OpenSession, OpenFails, OpenStopped
  <2>2. past'.fruitless = past.fruitless
    <3>1. \/ past' = [past EXCEPT !.sessions = @ + 1]
          \/ \E calibration \in Calibrations :
               past' = [past EXCEPT !.sessions = @ + 1, !.found = Found(calibration)]
          \/ \E calibration \in Calibrations :
               past' = [past EXCEPT !.sessions = @ + 1, !.silence = 0, !.row = 0,
                                    !.found = Found(calibration)]
      BY <1>4 DEF OpenSession, OpenFails, OpenStopped
    <3> QED
      BY <1>1, <3>1 DEF PastRecord
  <2> QED
    BY <1>2, <2>1, <2>2
<1>5. CASE CallReceive \/ InReceive \/ SessionStopped \/ TimeOut \/ ReceiveThrows
           \/ ReceiveMalformed \/ ReceiveRecord
  <2>1. /\ backoff' = backoff /\ pc = "receive" /\ pc' \in {"receive", "policy"}
    BY <1>5 DEF CallReceive, InReceive, SessionStopped, TimeOut, ReceiveThrows, Returned,
                ReceiveMalformed, ReceiveRecord, EndWith, GoOn, client
  <2>2. past'.fruitless = past.fruitless
    <3> DEFINE spent == left + late' - left' - late
               short == CutShort
    <3> HIDE DEF spent, short
    <3>1. \/ past' = past \/ past' = [past EXCEPT !.row = @ + 1]
          \/ past' = [past EXCEPT !.silence = 0, !.row = 0]
          \/ past' = [past EXCEPT !.silence = past.silence + spent, !.cut = short]
      BY <1>5 DEF CallReceive, InReceive, SessionStopped, TimeOut, ReceiveThrows,
                  ReceiveMalformed, ReceiveRecord, spent, short
    <3> QED
      BY <1>1, <3>1 DEF PastRecord
  <2> QED
    BY <1>2, <2>1, <2>2
<1>6. CASE WorkerEnds
  <2>1. pc' \in {"faulted", "stopped"}
    BY <1>6 DEF WorkerEnds, Go
  <2> QED
    BY <2>1 DEF DelayInv, BackoffFollowsFailures
<1>7. CASE EnterBackoff
  <2>1. pc = "policy" /\ pc' = "backoff" /\ backoff' = Delay
    BY <1>7 DEF EnterBackoff, Go
  <2> DEFINE failures == IF received_valid_record THEN 1 ELSE past.fruitless + 1
  <2> HIDE DEF failures
  <2>2. past'.fruitless = failures
    <3>1. past' = [past EXCEPT !.silence = 0, !.row = 0, !.cut = FALSE, !.fruitless = failures]
      BY <1>7 DEF EnterBackoff, failures
    <3> QED
      BY <1>1, <3>1 DEF PastRecord
  <2>3. backoff' = Least(InitialDelay * 2 ^ (failures - 1), MaxDelay)
    <3>1. CASE received_valid_record
      <4>1. failures - 1 = 0 /\ 2 ^ 0 = 1 /\ backoff' = InitialDelay
        BY <2>1, <3>1 DEF failures, Delay
      <4> QED
        BY <4>1 DEF Least
    <3>2. CASE ~received_valid_record
      <4>1. failures - 1 = past.fruitless /\ backoff' = backoff
        BY <1>1, <2>1, <3>2 DEF failures, Delay
      <4> QED
        BY <2>1, <4>1 DEF DelayInv
    <3> QED
      BY <3>1, <3>2
  <2> QED
    BY <2>1, <2>2, <2>3 DEF DelayInv, BackoffFollowsFailures
<1>8. CASE BackoffElapsed
  <2>1. /\ pc = "backoff" /\ pc' = "configure" /\ backoff' = Least(2 * backoff, MaxDelay)
        /\ past' = past
    BY <1>8 DEF BackoffElapsed, Go, NextDelay
  <2>2. PICK n \in Nat : n = past.fruitless - 1
    BY <1>1, <2>1 DEF SessionInv, FailuresInv
  <2>3. n + 1 = past.fruitless
    BY <1>1, <2>2
  <2>4. backoff = Least(InitialDelay * 2 ^ n, MaxDelay)
    BY <2>1, <2>2 DEF DelayInv, BackoffFollowsFailures
  <2>5. backoff' = Least(InitialDelay * 2 ^ (n + 1), MaxDelay)
    BY <2>1, <2>4, DelayDoubles
  <2> QED
    BY <2>1, <2>3, <2>5 DEF DelayInv, BackoffFollowsFailures
<1>9. CASE Stop \/ StopCommand
  BY <1>2, <1>9 DEF Stop, StopCommand, client
<1>10. CASE Restart
  <2>1. pc' = "configure" /\ backoff' = InitialDelay /\ past' = [past EXCEPT !.fruitless = 0]
    BY <1>10 DEF Restart
  <2>2. past'.fruitless = 0 /\ 2 ^ 0 = 1
    BY <1>1, <2>1 DEF PastRecord
  <2>3. InitialDelay = Least(InitialDelay * 2 ^ 0, MaxDelay)
    BY <2>2 DEF Least
  <2> QED
    BY <2>1, <2>2, <2>3 DEF DelayInv, BackoffFollowsFailures
<1> QED
  BY <1>3, <1>4, <1>5, <1>6, <1>7, <1>8, <1>9, <1>10 DEF Next, Worker

\* The delay before a reconnection is the initial one, doubled for each failure in a row
\* without a valid record, up to the maximum, for every pair of limits.
THEOREM DelayIsDue == Spec => []BackoffFollowsFailures
<1>1. Init => DelayInv
  <2> SUFFICES ASSUME Init PROVE DelayInv
    OBVIOUS
  <2>1. pc = "configure" /\ backoff = InitialDelay /\ past.fruitless = 0 /\ 2 ^ 0 = 1
    BY DEF Init
  <2>2. InitialDelay = Least(InitialDelay * 2 ^ 0, MaxDelay)
    BY <2>1 DEF Least
  <2> QED
    BY <2>1, <2>2 DEF DelayInv, BackoffFollowsFailures
<1>2. DelayInv => BackoffFollowsFailures
  BY DEF DelayInv
<1> QED
  BY <1>1, <1>2, DelayNext, SessionInvariant, PTL DEF Spec

-----------------------------------------------------------------------------
(* Timeouts *)

\* receive() returns nothing at its deadline, after shutdown(), or because it was cut short.
LEMMA ReturnSteps ==
  ASSUME ReceiveTimeout <= PollLimit, TransportTypeOK, TransportInv,
         at = "poll" /\ platform = "posix" => slice = left,
         ReceiveStep \/ SocketStep
  PROVE  /\ at' = "poll" /\ platform' = "posix" => slice' = left'
         /\ at' = "returned" /\ got' = "nothing" => left' = 0 \/ shutdown_requested \/ CutShort
<1> USE DEF TransportTypeOK, TransportInv, Return, CutShort
<1>1. CASE PollReady
  BY <1>1 DEF PollReady
<1>2. CASE PollExpires
  BY <1>2, PollTimes DEF PollExpires, Poll
<1>3. CASE PollInterrupted
  BY <1>3, PollTimes DEF PollInterrupted, PollAgain, Poll
<1>4. CASE PollFails
  BY <1>4 DEF PollFails
<1>5. CASE Recheck
  BY <1>5 DEF Recheck
<1>6. CASE Recv
  BY <1>6 DEF Recv
<1>7. CASE RecvInterrupted
  BY <1>7 DEF RecvInterrupted
<1>8. CASE Drop
  BY <1>8 DEF Drop
<1>9. CASE Elapse
  BY <1>9 DEF Elapse
<1>10. CASE \E kind \in Datagrams \cup {"empty"} : Arrive(kind)
  BY <1>10 DEF Arrive
<1> QED
  BY <1>1, <1>2, <1>3, <1>4, <1>5, <1>6, <1>7, <1>8, <1>9, <1>10 DEF ReceiveStep, SocketStep

\* Every step keeps what a timeout means.
LEMMA TimeoutNext ==
  ASSUME ReceiveTimeout <= PollLimit, SessionInv, ReturnInv, TimeoutExplained, [Next]_vars
  PROVE  ReturnInv' /\ TimeoutExplained'
<1>1. past \in PastRecord /\ past.silence \in Nat /\ TransportTypeOK
  BY PastFields DEF SessionInv, TypeOK, InRange
<1>2. ASSUME pc' # "receive", pc # "receive", UNCHANGED transportVars, pc' # "policy"
      PROVE  ReturnInv' /\ TimeoutExplained'
  BY <1>2 DEF ReturnInv, TimeoutExplained, transportVars
<1>3. CASE UNCHANGED vars
  BY <1>3 DEF vars, transportVars, session, ReturnInv, TimeoutExplained
<1>4. CASE OpenSession
  <2>1. at' = "out" /\ pc' = "receive"
    BY <1>4 DEF OpenSession, SessionInv, AwayInv
  <2> QED
    BY <2>1 DEF ReturnInv, TimeoutExplained
<1>5. CASE OpenFails \/ OpenStopped
  <2>1. at' = "out" /\ pc' = "policy" /\ result' # "Timeout"
    BY <1>5 DEF OpenFails, OpenStopped, SessionInv, AwayInv, transportVars
  <2> QED
    BY <2>1 DEF ReturnInv, TimeoutExplained
<1>6. CASE CallReceive
  <2>1. /\ pc' = "receive" /\ UNCHANGED <<platform, left, shutdown_requested>>
        /\ at' = "poll" => slice' = PollTime
        /\ at' = "returned" => shutdown_requested
    BY <1>6 DEF CallReceive, Receive, Poll, Return
  <2> QED
    BY <1>1, <2>1, PollTimes DEF ReturnInv, TimeoutExplained
<1>7. CASE InReceive
  <2>1. pc' = "receive" /\ UNCHANGED shutdown_requested
    BY <1>7, TransportSteps DEF InReceive, SessionInv, TypeOK
  <2>2. /\ at' = "poll" /\ platform' = "posix" => slice' = left'
        /\ at' = "returned" /\ got' = "nothing" => left' = 0 \/ shutdown_requested \/ CutShort
    BY <1>7, ReturnSteps DEF InReceive, SessionInv, TypeOK, ReturnInv
  <2>3. past'.cut = CutShort
    <3> DEFINE spent == left + late' - left' - late
               short == CutShort
    <3> HIDE DEF spent, short
    <3>1. past' = [past EXCEPT !.silence = past.silence + spent, !.cut = short]
      BY <1>7 DEF InReceive, spent, short
    <3>2. past'.cut = short
      BY <1>1, <3>1 DEF PastRecord
    <3> QED
      BY <3>2 DEF short
  <2> QED
    BY <2>1, <2>2, <2>3 DEF ReturnInv, TimeoutExplained
<1>8. CASE TimeOut
  <2>1. /\ pc = "receive" /\ ~stopping /\ UNCHANGED past /\ at' = "out" /\ pc' = "policy"
        /\ left = 0 \/ (at = "returned" /\ got = "nothing")
    BY <1>8 DEF TimeOut, Returned, EndWith
  <2>2. left = 0 => past.silence >= ReceiveTimeout
    BY <1>1, <2>1 DEF SessionInv, DeadlineFollowsValidRecords, TransportTypeOK
  <2>3. ~shutdown_requested
    BY <2>1 DEF SessionInv, StopInv
  <2> QED
    BY <2>1, <2>2, <2>3 DEF ReturnInv, TimeoutExplained
<1>9. CASE SessionStopped \/ ReceiveThrows \/ ReceiveMalformed \/ ReceiveRecord
  <2>1. at' = "out" /\ (pc' = "receive" \/ (pc' = "policy" /\ result' # "Timeout"))
    BY <1>9 DEF SessionStopped, ReceiveThrows, ReceiveMalformed, ReceiveRecord, Returned,
                EndWith, GoOn
  <2> QED
    BY <2>1 DEF ReturnInv, TimeoutExplained
<1>10. CASE WorkerEnds \/ EnterBackoff \/ BackoffElapsed
  BY <1>2, <1>10 DEF WorkerEnds, EnterBackoff, BackoffElapsed, Go
<1>11. CASE Stop \/ StopCommand
  <2>1. /\ UNCHANGED <<pc, at, platform, slice, left, got, past, result>>
        /\ shutdown_requested => shutdown_requested'
    BY <1>11 DEF Stop, StopCommand, Shutdown, transportVars, session
  <2> QED
    BY <2>1 DEF ReturnInv, TimeoutExplained
<1>12. CASE Restart
  BY <1>2, <1>12 DEF Restart
<1> QED
  BY <1>3, <1>4, <1>5, <1>6, <1>7, <1>8, <1>9, <1>10, <1>11, <1>12 DEF Next, Worker

\* If one poll() can wait for the whole receive timeout, which then has at most INT_MAX
\* milliseconds, a session ends with Timeout only after that time without a valid record, or
\* because receive() was cut short.
THEOREM TimeoutIsExplained == ReceiveTimeout <= PollLimit => (Spec => []TimeoutExplained)
<1> SUFFICES ASSUME ReceiveTimeout <= PollLimit PROVE Spec => []TimeoutExplained
  OBVIOUS
<1>1. Init => ReturnInv /\ TimeoutExplained
  BY DEF Init, TransportInit, ReturnInv, TimeoutExplained
<1> QED
  BY <1>1, TimeoutNext, SessionInvariant, PTL DEF Spec

=============================================================================
