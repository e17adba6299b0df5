------------------------------- MODULE Records -------------------------------
(***************************************************************************)
(* What becomes of each record: handle_record(), the two sequence trackers *)
(* and bias(), against a sensor and a network that loses, duplicates and   *)
(* delays datagrams.  record_mutex_ and data_mutex_ make each of the two   *)
(* halves of handle_record() one step; between them runs the callback,     *)
(* while bias() may run.  How sessions end otherwise is in Sessions.       *)
(*                                                                         *)
(* Records are numbered by n in the order the sensor makes them; the       *)
(* client sees only the two wrapping sequence numbers.  Time is counted in *)
(* ticks, up to the interval of the rate limit.                            *)
(***************************************************************************)
EXTENDS SequenceTrackers, FiniteSets

CONSTANTS Scenarios,    \* pairs of a config_ and of a world: see RecordsAssumption
          MaxRecords,   \* bound: records the sensor makes; datagrams received in all
          Window        \* bound: how far a record may lag behind, or run ahead

ASSUME RecordsAssumption ==
  /\ MaxRecords \in Nat /\ Window \in 1 .. (Modulus \div 2 - 1)
  /\ \A s \in Scenarios :
       \* rate_interval: ticks in 1 / sample_rate_limit_hz, 0 for no limit
       /\ s.config \in [recovery_policy : {"Reconnect", "FailStop"}, deliver_errors : BOOLEAN,
                        rate_interval : Nat]
       \* what may happen, the severities of the records' status, where the sensor's two
       \* counters may stand at first, and the bound on records in this world
       /\ s.world \in [may : SUBSET {"throw", "overflow", "bias", "reboot"},
                       statuses : SUBSET {"Ok", "Warn", "Error"},
                       numbers : SUBSET Sequences32, records : 0 .. MaxRecords]

VARIABLES
  config,    \* config_
  world,     \* what the world may do, chosen once
  streaming, \* health_.state is Streaming
  pc,        \* "receive", "callback", "deliver" or "ended"
  rdt, ft,   \* rdt_sequence_, ft_sequence_
  health,    \* the counters of health_
  held,      \* the sample and outcome handle_record() keeps across the callback
  since,     \* ticks since last_delivery_at_, config.rate_interval if enough or never
  age,       \* ticks since received_at of the held sample
  sensor,    \* the sensor's counters: see Init
  net,       \* datagrams on their way
  past       \* history: see Init

client == <<streaming, rdt, ft, health, held, since, age>>
vars   == <<config, world, pc, client, sensor, net, past>>

Counters == {"received", "delivered", "lost", "duplicate", "out_of_order", "ft_stall",
             "ft_backward", "ft_restart", "warning", "device_error", "rate_limited",
             "callback_error"}

Outcomes == {"None", "SeriousStatus", "FtStall", "FtBackward", "Callback"}

Record == [n : 1 .. MaxRecords, seq : Sequences32, ft : Sequences32, status : world.statuses]

NoRecord == [n |-> 0, outcome |-> "None"]

SensorRecord == [n : 0 .. MaxRecords, boot : 0 .. MaxRecords, ft0 : Sequences32,
                 stream : 0 .. MaxRecords, seq0 : Sequences32]

PastRecord == [top : 0 .. MaxRecords, base : 0 .. MaxRecords, given : 0 .. MaxRecords,
               first : 0 .. MaxRecords, high : 0 .. MaxRecords,
               accepted : 0 .. MaxRecords, lost : Nat, mixed : BOOLEAN, rising : 0 .. 2,
               apart : 0 .. config.rate_interval, unscaled : 0 .. MaxRecords]

\* The type invariant: trackers, counters and datagrams stay in their ranges.
TypeOK ==
  /\ \E s \in Scenarios : config = s.config /\ world = s.world
  /\ streaming \in BOOLEAN
  /\ pc \in {"receive", "callback", "deliver", "ended"}
  /\ rdt \in RdtTracker
  /\ ft \in FtTracker
  /\ health \in [Counters -> 0 .. (Modulus * MaxRecords)]
  /\ held \in [n : 0 .. MaxRecords, outcome : Outcomes]
  /\ since \in 0 .. config.rate_interval
  /\ age \in 0 .. config.rate_interval
  /\ sensor \in SensorRecord
  /\ net \subseteq Record
  /\ past \in PastRecord

\* sensor: records made, those made before it last booted, the FT number at boot, those made
\* before the stream was last started, the RDT number at its start.
\* past: the latest record received, the one the FT tracker has as previous_, the latest
\* delivered; since rdt_sequence_ was reset: its first record, the latest it took, how many
\* it took, lost_count at the first, whether one of them was of an older stream; how many
\* records the session got since a boot, in order; ticks since the latest sample that went to
\* the callback was received, config.rate_interval if enough, if that callback threw or if
\* start() came since; how many sessions ended because a sample was not finite.
Init ==
  /\ \E s \in Scenarios : config = s.config /\ world = s.world
  /\ streaming = FALSE
  /\ pc = "receive"
  /\ rdt = NewRdtTracker /\ ft = NewFtTracker
  /\ health = [c \in Counters |-> 0]
  /\ held = NoRecord
  /\ since = config.rate_interval /\ age = 0
  /\ \E f, s \in world.numbers :
       sensor = [n |-> 0, boot |-> 0, ft0 |-> f, stream |-> 0, seq0 |-> s]
  /\ net = {}
  /\ past = [top |-> 0, base |-> 0, given |-> 0, first |-> 0, high |-> 0, accepted |-> 0,
             lost |-> 0, mixed |-> FALSE, rising |-> 0, apart |-> config.rate_interval, unscaled |-> 0]

-----------------------------------------------------------------------------
(* The sensor and the network, as the client's code expects them *)

\* A record is made.  The guard is the bound Window: neither tracker is ever asked to tell
\* numbers apart that are half the range from each other.
Emit ==
  /\ pc # "ended" /\ sensor.n < world.records /\ sensor.n - past.top < Window
  /\ sensor' = [sensor EXCEPT !.n = sensor.n + 1]
  /\ \E status \in world.statuses :
       net' = {m \in net : m.n > sensor.n + 1 - Window}
                \cup {[n |-> sensor.n + 1, status |-> status,
                       seq |-> (sensor.seq0 + sensor.n - sensor.stream) % Modulus,
                       ft |-> (sensor.ft0 + sensor.n - sensor.boot) % Modulus]}
  /\ UNCHANGED <<pc, client, past>>

\* StartRealtime: the sensor numbers a new stream.
StartRealtime ==
  \E s \in world.numbers : sensor' = [sensor EXCEPT !.stream = sensor.n, !.seq0 = s]

\* The sensor restarts while no session is open and counts FT samples from zero.
Reboot ==
  /\ "reboot" \in world.may /\ pc = "ended" /\ sensor.boot = 0 /\ sensor.n > 0
  /\ sensor' = [sensor EXCEPT !.boot = sensor.n, !.ft0 = 0]
  /\ past' = [past EXCEPT !.rising = 0]
  /\ UNCHANGED <<pc, client, net>>

\* Ticks are counted up to config.rate_interval.
Older(ticks) == IF ticks < config.rate_interval THEN ticks + 1 ELSE ticks

Tick ==
  /\ since < config.rate_interval \/ past.apart < config.rate_interval
       \/ (pc \in {"callback", "deliver"} /\ age < config.rate_interval)
  /\ since' = Older(since)
  /\ age' = IF pc \in {"callback", "deliver"} THEN Older(age) ELSE age
  /\ past' = [past EXCEPT !.apart = Older(@)]
  /\ UNCHANGED <<pc, streaming, rdt, ft, health, held, sensor, net>>

-----------------------------------------------------------------------------
(* handle_record() *)

One(condition) == IF condition THEN 1 ELSE 0

Discontinuity(f) == f.kind \in {"Stall", "Backward"}

\* What the record does to the session; a serious status comes first.
Outcome(m, f) ==
  IF m.status = "Error" THEN "SeriousStatus"
  ELSE IF config.recovery_policy = "Reconnect" \/ ~Discontinuity(f) THEN "None"
  ELSE IF f.kind = "Stall" THEN "FtStall" ELSE "FtBackward"

\* The record is worth delivering, rate limit aside.
Wanted(m, r, f) ==
  /\ r.kind \notin {"Duplicate", "OutOfOrder"}
  /\ m.status = "Error" => config.deliver_errors
  /\ ~Discontinuity(f)

\* last_delivery_at_ is set and less than the interval ago.
TooSoon == since < config.rate_interval

\* Fault injection: a sample the rate limit holds back is not counted.
HeldBackUncounted(m, r, f) == 0

HeldBack(m, r, f) == One(Wanted(m, r, f) /\ TooSoon)

Counted(m, r, f) ==
  [health EXCEPT !["received"] = @ + 1,
                 !["lost"] = @ + r.gap,
                 !["duplicate"] = @ + One(r.kind = "Duplicate"),
                 !["out_of_order"] = @ + One(r.kind = "OutOfOrder"),
                 !["ft_stall"] = @ + One(f.kind = "Stall"),
                 !["ft_backward"] = @ + One(f.kind = "Backward"),
                 !["ft_restart"] = @ + One(f.kind = "Restart"),
                 !["warning"] = @ + One(m.status = "Warn"),
                 !["device_error"] = @ + One(m.status = "Error"),
                 !["rate_limited"] = @ + HeldBack(m, r, f)]

After(outcome) == IF outcome = "None" THEN "receive" ELSE "ended"

\* What the model remembers of record m, whose fate is the "callback", "dropped" or, for a
\* sample that is not finite, "unscaled".
Remember(m, r, f, fate) ==
  LET taken == r.kind \in {"First", "Contiguous", "Gap"}
      first == r.kind = "First"
  IN [past EXCEPT !.top = IF m.n > @ THEN m.n ELSE @,
                  !.base = IF f.kind = "Backward" THEN @ ELSE m.n,
                  !.first = IF first THEN m.n ELSE @,
                  !.high = IF taken THEN m.n ELSE @,
                  !.accepted = IF first THEN 1 ELSE @ + One(taken),
                  !.lost = IF first THEN health["lost"] ELSE @,
                  !.mixed = (@ /\ ~first) \/ (taken /\ m.n <= sensor.stream),
                  !.rising = IF m.n <= sensor.boot \/ m.n <= past.top THEN 0
                             ELSE IF @ < 2 THEN @ + 1 ELSE 2,
                  !.apart = IF fate = "callback" THEN 0 ELSE @,
                  !.unscaled = @ + One(fate = "unscaled")]

\* The record is seen by both trackers and counted; it is dropped, or goes to the callback, or
\* ends the session (SensorConfiguration) because the sample it makes is not finite.  The
\* network may deliver it once more.
HandleRecord(m) ==
  /\ pc = "receive" /\ health["received"] < world.records
  /\ net' \in {net, net \ {m}}
  /\ LET r == RdtObserve(rdt, m.seq)
         f == FtObserve(ft, m.ft)
     IN /\ rdt' = r.tracker
        /\ ft' = f.tracker
        /\ health' = Counted(m, r, f)
        /\ \/ /\ Wanted(m, r, f) /\ ~TooSoon
              /\ pc' = "callback" /\ held' = [n |-> m.n, outcome |-> Outcome(m, f)]
              /\ past' = Remember(m, r, f, "callback")
           \/ /\ Wanted(m, r, f) /\ ~TooSoon /\ "overflow" \in world.may
              /\ pc' = "ended" /\ UNCHANGED held
              /\ past' = Remember(m, r, f, "unscaled")
           \/ /\ ~Wanted(m, r, f) \/ TooSoon
              /\ pc' = After(Outcome(m, f)) /\ UNCHANGED held
              /\ past' = Remember(m, r, f, "dropped")
  /\ streaming' = TRUE
  /\ UNCHANGED <<since, age, sensor>>

CallbackReturns ==
  /\ pc = "callback" /\ pc' = "deliver"
  /\ UNCHANGED <<client, sensor, net, past>>

\* record_callback_error() and callback_failure_outcome(): no delivery, and the rate limit
\* does not start anew.
CallbackThrows ==
  /\ "throw" \in world.may /\ pc = "callback"
  /\ health' = [health EXCEPT !["callback_error"] = @ + 1]
  /\ pc' = After(IF held.outcome # "None" \/ config.recovery_policy = "Reconnect"
                 THEN held.outcome ELSE "Callback")
  /\ held' = NoRecord /\ age' = 0
  /\ past' = [past EXCEPT !.apart = config.rate_interval]
  /\ UNCHANGED <<streaming, rdt, ft, since, sensor, net>>

\* Fault injection: last_delivery_at_ is not set.
LastDeliveryKept == since

LastDelivery == age

\* The sample is the latest; the rate limit counts from received_at.
Deliver ==
  /\ pc = "deliver"
  /\ health' = [health EXCEPT !["delivered"] = @ + 1]
  /\ past' = [past EXCEPT !.given = held.n]
  /\ pc' = After(held.outcome)
  /\ since' = LastDelivery /\ held' = NoRecord /\ age' = 0
  /\ UNCHANGED <<streaming, rdt, ft, sensor, net>>

-----------------------------------------------------------------------------

\* The next session, or the next start(): a new socket, StartRealtime, the RDT history
\* forgotten, the FT history kept.  Only start() forgets last_delivery_at_.
NextSession ==
  /\ pc = "ended" /\ pc' = "receive" /\ streaming' = FALSE
  /\ rdt' = RdtReset(rdt)
  /\ ft' = FtBeginSession(ft)
  /\ since' = IF config.recovery_policy = "FailStop" THEN config.rate_interval ELSE since
  /\ StartRealtime
  /\ net' = {}
  /\ past' = [past EXCEPT !.rising = 0,
                          !.apart = IF config.recovery_policy = "FailStop" THEN config.rate_interval ELSE @]
  /\ UNCHANGED <<health, held, age>>

\* The session ends for another reason, between two records.
EndSession ==
  /\ pc = "receive" /\ pc' = "ended"
  /\ UNCHANGED <<client, sensor, net, past>>

\* bias(): StartRealtime again, the RDT history forgotten; also while a callback runs.
Bias ==
  /\ "bias" \in world.may /\ pc # "ended" /\ streaming
  /\ rdt' = RdtReset(rdt)
  /\ StartRealtime
  /\ UNCHANGED <<pc, streaming, ft, health, held, since, age, net, past>>

Next ==
  /\ \/ Emit \/ Reboot \/ Tick
     \/ \E m \in net : HandleRecord(m)
     \/ CallbackReturns \/ CallbackThrows \/ Deliver
     \/ NextSession \/ EndSession \/ Bias
  /\ UNCHANGED <<config, world>>

Spec == Init /\ [][Next]_vars

-----------------------------------------------------------------------------
(* Properties *)

\* Samples are delivered in the order the sensor made them, each at most once, across wrapped
\* numbers, duplicated and late datagrams, new sessions and calls of bias().
SamplesInOrder ==
  [][health'["delivered"] > health["delivered"] => past'.given > past.given]_vars

\* lost_count is exact: since the RDT history was last forgotten, every record of the stream
\* from the first to the latest one was taken by the tracker or counted as lost.  The one
\* exception: after bias() a late record of the old stream may be taken, as the first or, when
\* the numbers of the two streams allow it, as a later one.
LossIsExact ==
  rdt.has_last /\ ~past.mixed =>
    past.accepted + (health["lost"] - past.lost) = past.high - past.first + 1

\* A record newer than all before it is never refused as a duplicate or as out of order, with
\* the same exception: measured by a number of the old stream, a record of the new one may
\* look old.
NewRecordsTaken ==
  [][past'.top > past.top /\ ~past'.mixed =>
       /\ health'["duplicate"] = health["duplicate"]
       /\ health'["out_of_order"] = health["out_of_order"]]_vars

\* No record is dropped silently: what was received and not delivered shows in a counter, or
\* has ended its session.
NoSilentDrop ==
  health["received"] - One(pc \in {"callback", "deliver"})
    <= health["delivered"] + health["callback_error"] + health["rate_limited"]
         + health["duplicate"] + health["out_of_order"] + health["ft_stall"]
         + health["ft_backward"] + health["device_error"] + past.unscaled

\* The rate limit is kept: a sample goes to the callback only when the one that went there
\* before was received an interval earlier, however long its callback ran, also in a new session
\* and after bias().  Two samples are exempt, as in the code: the one after a callback that
\* threw, which set no last_delivery_at_, and the first of a start(), which forgets it.
RateLimitHolds ==
  [][pc = "receive" /\ pc' = "callback" => past.apart = config.rate_interval]_vars

\* A sensor restart is noticed: once a session has got two records in order, with low FT
\* numbers, the tracker no longer measures by a high number from before the restart.  A restart
\* it cannot notice (the number before it was low, too, or the new ones no longer are) lasts
\* until the new numbers have caught up with the old one, and no longer.
RestartNoticed ==
  /\ past.rising = 2 /\ sensor.n - sensor.boot <= RestartLowMax + 1
       => past.base > sensor.boot \/ ft.previous <= RestartLowMax
  /\ past.base <= sensor.boot /\ past.top > sensor.boot
       => ~Ahead((past.top - sensor.boot - 1) % Modulus, ft.previous)

=============================================================================
