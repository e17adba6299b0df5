--------------------------- MODULE RecordsProofs ----------------------------
(***************************************************************************)
(* Proofs about Records and the two sequence trackers: what is lost is     *)
(* counted, nothing is dropped silently, new records are taken, samples    *)
(* are delivered in order and not too often, and a restart of the sensor   *)
(* is noticed, for every modulus, window, rate limit and number of records.*)
(***************************************************************************)
EXTENDS Records, TLAPS

-----------------------------------------------------------------------------
(* Numbers that wrap *)

\* What remains of a number is in range, and is the number less a multiple of the modulus.
LEMMA Remainder ==
  ASSUME NEW x \in Int, NEW k \in Nat, k > 0
  PROVE  /\ x % k \in 0 .. (k - 1) /\ x \div k \in Int
         /\ x = k * (x \div k) + (x % k)
BY SMT

\* Two numbers less than the modulus apart have remainders that differ by as much, or by the
\* modulus less or more.
LEMMA RemaindersApart ==
  ASSUME NEW x \in Int, NEW y \in Int, NEW k \in Nat, k > 0, x - y < k, y - x < k
  PROVE  (x % k) - (y % k) \in {x - y, x - y + k, x - y - k}
<1> DEFINE q == (x \div k) - (y \div k)
           a == x % k
           b == y % k
<1>1. /\ a \in 0 .. (k - 1) /\ b \in 0 .. (k - 1)
      /\ x = k * (x \div k) + a /\ y = k * (y \div k) + b
      /\ x \div k \in Int /\ y \div k \in Int
  BY Remainder
<1>2. q \in Int /\ k * q = k * (x \div k) - k * (y \div k)
  BY <1>1
<1> HIDE DEF q, a, b
<1>3. k * q = x - y - (a - b) /\ k * q \in Int
  BY <1>1, <1>2
<1>4. q < 2 /\ q > -2
  <2>1. k * q < 2 * k /\ k * q > -(2 * k)
    BY <1>1, <1>3
  <2> QED
    BY <1>2, <2>1
<1>5. k * q \in {0, k, -k}
  BY <1>2, <1>4
<1>6. a - b \in {x - y, x - y + k, x - y - k}
  BY <1>1, <1>3, <1>5
<1> QED
  BY <1>6 DEF a, b

\* Unsigned subtraction of two numbers less than the modulus apart is their distance, if the
\* first is not behind, and the modulus less the distance if it is.
LEMMA Distance ==
  ASSUME NEW x \in Int, NEW y \in Int, NEW k \in Nat, k > 0, x - y < k, y - x < k
  PROVE  ((x % k) - (y % k)) % k = IF x >= y THEN x - y ELSE x - y + k
<1> DEFINE a == x % k
           b == y % k
           d == a - b
<1>1. a \in 0 .. (k - 1) /\ b \in 0 .. (k - 1) /\ d \in {x - y, x - y + k, x - y - k}
  BY Remainder, RemaindersApart
<1> HIDE DEF a, b
<1>2. d \in Int /\ d < k /\ -k < d
  BY <1>1
<1> HIDE DEF d
<1>3. d % k = IF d >= 0 THEN d ELSE d + k
  BY <1>2
<1>4. (IF d >= 0 THEN d ELSE d + k) = IF x >= y THEN x - y ELSE x - y + k
  BY <1>1, <1>2
<1> QED
  BY <1>3, <1>4 DEF a, b, d

USE TrackersAssumption

Half == Modulus \div 2

\* The sequence number of a record that is i records behind the one numbered from.
Number(from, i) == (from + i) % Modulus

\* A tracker compares the numbers of records less than half the range apart as it should.
LEMMA NumbersCompare ==
  ASSUME NEW from \in Int, NEW i \in Int, NEW j \in Int, i - j < Half, j - i < Half
  PROVE  /\ Number(from, i) \in Sequences32
         /\ i >= j => Delta(Number(from, i), Number(from, j)) = i - j
         /\ Ahead(Number(from, i), Number(from, j)) <=> i >= j
         /\ Delta(Number(from, i), Number(from, j)) = 0 <=> i = j
         /\ Number(from, i) = Number(from, j) <=> i = j
<1> DEFINE x == from + i
           y == from + j
           d == Delta(Number(from, i), Number(from, j))
<1>1. Modulus = 2 * Half /\ Half \in Nat /\ Modulus > 0
  BY DEF Half
<1>2. x \in Int /\ y \in Int /\ x - y = i - j /\ x - y < Modulus /\ y - x < Modulus
  BY <1>1
<1> HIDE DEF x, y
<1>3. d = IF x >= y THEN x - y ELSE x - y + Modulus
  <2>1. ((x % Modulus) - (y % Modulus)) % Modulus = IF x >= y THEN x - y ELSE x - y + Modulus
    BY <1>1, <1>2, Distance
  <2> QED
    BY <2>1 DEF Delta, Number, x, y
<1>4. Number(from, i) \in Sequences32 /\ Number(from, j) \in Sequences32
  BY <1>1, <1>2, Remainder DEF Number, Sequences32, x, y
<1>5. Ahead(Number(from, i), Number(from, j)) <=> d < Half
  BY DEF Ahead, Half
<1>6. Number(from, i) = Number(from, j) => d = 0
  <2>1. \A n \in Sequences32 : (n - n) % Modulus = 0
    BY <1>1 DEF Sequences32
  <2> QED
    BY <1>4, <2>1 DEF Delta
<1> HIDE DEF d
<1>7. /\ i >= j => d = i - j
      /\ i < j => d = i - j + Modulus
  BY <1>2, <1>3
<1>8. d < Half <=> i >= j
  BY <1>1, <1>7
<1>9. d = 0 <=> i = j
  BY <1>1, <1>7
<1> QED
  BY <1>4, <1>5, <1>6, <1>7, <1>8, <1>9 DEF d

-----------------------------------------------------------------------------
(* The trackers *)

\* What RdtSequenceTracker::observe() says and keeps.
LEMMA RdtObserved ==
  ASSUME NEW t \in RdtTracker, NEW current \in Sequences32, NEW r, r = RdtObserve(t, current)
  PROVE  /\ r.kind \in {"First", "Duplicate", "OutOfOrder", "Contiguous", "Gap"}
         /\ r.kind = "First" <=> ~t.has_last
         /\ r.kind \in {"Contiguous", "Gap"}
              <=> t.has_last /\ Delta(current, t.previous) # 0 /\ Ahead(current, t.previous)
         /\ r.gap = IF r.kind = "Gap" THEN Delta(current, t.previous) - 1 ELSE 0
         /\ r.kind = "Contiguous" => Delta(current, t.previous) = 1
         /\ r.gap \in 0 .. Modulus
         /\ r.tracker \in RdtTracker /\ r.tracker.has_last
         /\ r.kind \in {"Duplicate", "OutOfOrder"} => r.tracker = t
         /\ r.kind \notin {"Duplicate", "OutOfOrder"} => r.tracker.previous = current
<1> DEFINE delta == Delta(current, t.previous)
<1>1. t.has_last \in BOOLEAN /\ t.previous \in Sequences32
  BY DEF RdtTracker
<1>2. delta \in 0 .. (Modulus - 1)
  BY <1>1, Remainder DEF Delta, Sequences32
<1> HIDE DEF delta
<1>3. /\ r.kind = IF ~t.has_last THEN "First"
                  ELSE IF delta = 0 THEN "Duplicate"
                  ELSE IF ~Ahead(current, t.previous) THEN "OutOfOrder"
                  ELSE IF delta = 1 THEN "Contiguous" ELSE "Gap"
      /\ r.gap = IF r.kind = "Gap" THEN delta - 1 ELSE 0
      /\ r.tracker = IF r.kind \in {"Duplicate", "OutOfOrder"} THEN t
                     ELSE [has_last |-> TRUE, previous |-> current]
  BY DEF RdtObserve, delta, Behind, Gap
<1>4. /\ r.kind \in {"First", "Duplicate", "OutOfOrder", "Contiguous", "Gap"}
      /\ r.kind = "First" <=> ~t.has_last
      /\ r.kind \in {"Contiguous", "Gap"}
           <=> t.has_last /\ delta # 0 /\ Ahead(current, t.previous)
      /\ r.kind = "Contiguous" => delta = 1
      /\ r.kind = "Gap" => delta # 0
  BY <1>3
<1>5. r.gap \in 0 .. Modulus
  BY <1>2, <1>3, <1>4
<1>6. /\ r.kind \in {"Duplicate", "OutOfOrder"} => r.tracker = t
      /\ r.kind \notin {"Duplicate", "OutOfOrder"}
           => r.tracker = [has_last |-> TRUE, previous |-> current]
  BY <1>3
<1>7. /\ r.tracker \in RdtTracker /\ r.tracker.has_last
      /\ r.kind \notin {"Duplicate", "OutOfOrder"} => r.tracker.previous = current
  <2>1. CASE r.kind \in {"Duplicate", "OutOfOrder"}
    BY <1>1, <1>4, <1>6, <2>1
  <2>2. CASE r.kind \notin {"Duplicate", "OutOfOrder"}
    <3>1. r.tracker = [has_last |-> TRUE, previous |-> current]
      BY <1>6, <2>2
    <3> QED
      BY <3>1 DEF RdtTracker
  <2> QED
    BY <2>1, <2>2
<1> QED
  BY <1>3, <1>4, <1>5, <1>6, <1>7 DEF delta

\* What FtSequenceTracker::observe() says and keeps.
LEMMA FtObserved ==
  ASSUME NEW t \in FtTracker, NEW current \in Sequences32, NEW f, f = FtObserve(t, current)
  PROVE  /\ f.kind \in {"First", "Stall", "Forward", "Restart", "Backward"}
         /\ f.kind = "First" <=> ~t.has_last
         /\ f.kind = "Stall" <=> t.has_last /\ current = t.previous
         /\ f.kind = "Forward" <=>
              t.has_last /\ current # t.previous /\ Ahead(current, t.previous)
         /\ f.kind \in {"Restart", "Backward"} <=>
              t.has_last /\ current # t.previous /\ ~Ahead(current, t.previous)
         /\ f.kind = "Restart" => ConfirmsRestart(t, current)
         /\ f.kind = "Backward" => ~ConfirmsRestart(t, current)
         /\ f.tracker \in FtTracker /\ f.tracker.has_last
         /\ f.kind = "Backward" =>
              /\ f.tracker.previous = t.previous
              /\ f.tracker.has_restart_candidate /\ f.tracker.restart_candidate = current
         /\ f.kind # "Backward" => f.tracker.previous = current
<1>1. t.has_last \in BOOLEAN /\ t.previous \in Sequences32
  BY DEF FtTracker
<1>2. /\ f.kind = IF ~t.has_last THEN "First"
                  ELSE IF current = t.previous THEN "Stall"
                  ELSE IF Ahead(current, t.previous) THEN "Forward"
                  ELSE IF ConfirmsRestart(t, current) THEN "Restart" ELSE "Backward"
      /\ f.tracker = [has_last |-> TRUE,
                      previous |-> IF f.kind = "Backward" THEN t.previous ELSE current,
                      has_restart_candidate |-> f.kind = "Backward",
                      restart_candidate |-> IF f.kind = "Backward" THEN current ELSE 0]
  BY DEF FtObserve
<1>3. /\ f.kind \in {"First", "Stall", "Forward", "Restart", "Backward"}
      /\ f.kind = "First" <=> ~t.has_last
      /\ f.kind = "Stall" <=> t.has_last /\ current = t.previous
      /\ f.kind = "Forward" <=>
           t.has_last /\ current # t.previous /\ Ahead(current, t.previous)
      /\ f.kind \in {"Restart", "Backward"} <=>
           t.has_last /\ current # t.previous /\ ~Ahead(current, t.previous)
      /\ f.kind = "Restart" => ConfirmsRestart(t, current)
      /\ f.kind = "Backward" => ~ConfirmsRestart(t, current)
  BY <1>2
<1>4. CASE f.kind = "Backward"
  <2>1. f.tracker = [has_last |-> TRUE, previous |-> t.previous,
                     has_restart_candidate |-> TRUE, restart_candidate |-> current]
    BY <1>2, <1>4
  <2> QED
    BY <1>1, <1>3, <1>4, <2>1 DEF FtTracker
<1>5. CASE f.kind # "Backward"
  <2>1. f.tracker = [has_last |-> TRUE, previous |-> current,
                     has_restart_candidate |-> FALSE, restart_candidate |-> 0]
    BY <1>2, <1>5
  <2>2. 0 \in Sequences32
    BY DEF Sequences32
  <2> QED
    BY <1>1, <1>3, <1>5, <2>1, <2>2 DEF FtTracker
<1> QED
  BY <1>4, <1>5
-----------------------------------------------------------------------------
(* The inductive invariant *)

InFlight == pc \in {"callback", "deliver"}

\* The counters are bounded by the number of records received.
CountInv ==
  /\ health["received"] <= world.records
  /\ \A c \in Counters \ {"lost"} : health[c] <= health["received"]
  /\ health["delivered"] + health["callback_error"] + One(InFlight) <= health["received"]
  /\ health["lost"] <= Modulus * health["received"]
  /\ past.accepted <= health["received"] /\ past.unscaled <= health["received"]
  /\ NoSilentDrop

\* The sensor, the network and the latest record received stay within a window, and the
\* datagrams carry the numbers of their records.
StreamInv ==
  /\ sensor.boot <= sensor.n /\ sensor.stream <= sensor.n /\ sensor.n <= world.records
  /\ past.top <= sensor.n /\ sensor.n - past.top <= Window
  /\ \A m \in net :
       /\ m.n <= sensor.n /\ m.n > sensor.n - Window
       /\ m.n > sensor.stream => m.seq = Number(sensor.seq0, m.n - 1 - sensor.stream)
       /\ m.n > sensor.boot => m.ft = Number(sensor.ft0, m.n - 1 - sensor.boot)
       /\ pc # "ended" => m.n > sensor.boot

\* While it has taken no record of an older stream, the RDT tracker has the latest record
\* received of all.
RdtInv ==
  /\ ~rdt.has_last => past.top <= sensor.stream
  /\ rdt.has_last /\ ~past.mixed =>
       /\ past.high = past.top /\ past.high > sensor.stream
       /\ rdt.previous = Number(sensor.seq0, past.high - 1 - sensor.stream)
  /\ LossIsExact

\* While the FT tracker measures by a record from before a restart, it has the latest record
\* since the restart as a candidate, if that came in order.
FtInv ==
  /\ sensor.boot > 0 => sensor.ft0 = 0
  /\ ft.has_last => past.base > 0
  /\ ~ft.has_last => past.top = 0
  /\ past.rising > 0 => past.top > sensor.boot
  /\ past.rising > 0 /\ past.base <= sensor.boot =>
       /\ ft.has_restart_candidate
       /\ ft.restart_candidate = Number(0, past.top - 1 - sensor.boot)
  /\ RestartNoticed

\* While a sample is at the callback the rate limit still measures from one before it, an
\* interval ago; otherwise it measures from the sample that went to the callback last.
RateInv ==
  IF InFlight THEN since = config.rate_interval /\ past.apart = age
              ELSE since = past.apart /\ age = 0

RecordsInv == TypeOK /\ CountInv /\ StreamInv /\ RdtInv /\ FtInv /\ RateInv

\* Worlds in which no number leads a tracker astray: bias() is not called while records of the
\* old stream are on their way, or the FT numbers, which may wrap, never rise from below the
\* threshold of a restart to above it.
NeverBiased(w) == "bias" \notin w.may
ThresholdNotCrossed(w) ==
  /\ "reboot" \notin w.may
  /\ \A f \in w.numbers : f > RestartLowMax /\ f + w.records - 1 <= Modulus + RestartLowMax

\* A sample on its way to delivery is newer than the delivered ones, because one of the
\* trackers has the latest record received.
OrderInv ==
  /\ past.given <= past.top
  /\ InFlight => past.given < held.n /\ held.n <= past.top
  /\ NeverBiased(world) =>
       ~past.mixed /\ (pc # "ended" => \A m \in net : m.n > sensor.stream)
  /\ ThresholdNotCrossed(world) =>
       /\ sensor.boot = 0 /\ sensor.ft0 > RestartLowMax
       /\ sensor.ft0 + world.records - 1 <= Modulus + RestartLowMax
       /\ ft.has_last => past.base = past.top /\ ft.previous = Number(sensor.ft0, past.top - 1)
-----------------------------------------------------------------------------
(* Records of the model *)

\* p and s have the fields of past and of sensor, and no others.
IsPast(p) ==
  p = [top |-> p.top, base |-> p.base, given |-> p.given, first |-> p.first, high |-> p.high,
       accepted |-> p.accepted, lost |-> p.lost, mixed |-> p.mixed, rising |-> p.rising,
       apart |-> p.apart, unscaled |-> p.unscaled]

InRange(p) ==
  /\ p.top \in 0 .. MaxRecords /\ p.base \in 0 .. MaxRecords /\ p.given \in 0 .. MaxRecords
  /\ p.first \in 0 .. MaxRecords /\ p.high \in 0 .. MaxRecords
  /\ p.accepted \in 0 .. MaxRecords /\ p.lost \in Nat /\ p.mixed \in BOOLEAN
  /\ p.rising \in 0 .. 2 /\ p.apart \in 0 .. config.rate_interval
  /\ p.unscaled \in 0 .. MaxRecords

IsSensor(s) ==
  s = [n |-> s.n, boot |-> s.boot, ft0 |-> s.ft0, stream |-> s.stream, seq0 |-> s.seq0]

\* What the records are is what their fields are.
LEMMA PastFields ==
  ASSUME NEW p
  PROVE  p \in PastRecord <=> IsPast(p) /\ InRange(p)
BY DEF PastRecord, IsPast, InRange

LEMMA SensorFields ==
  ASSUME NEW s
  PROVE  s \in SensorRecord <=>
           /\ IsSensor(s)
           /\ s.n \in 0 .. MaxRecords /\ s.boot \in 0 .. MaxRecords
           /\ s.stream \in 0 .. MaxRecords
           /\ s.ft0 \in Sequences32 /\ s.seq0 \in Sequences32
BY DEF SensorRecord, IsSensor

\* What the assumption on the scenarios says of the configuration and of the world.
LEMMA ScenarioTyped ==
  ASSUME TypeOK
  PROVE  /\ config.rate_interval \in Nat /\ config.recovery_policy \in {"Reconnect", "FailStop"}
         /\ world.records \in 0 .. MaxRecords /\ world.numbers \subseteq Sequences32
         /\ world.statuses \subseteq {"Ok", "Warn", "Error"}
         /\ MaxRecords \in Nat /\ Window \in Nat /\ Window >= 1 /\ Window < Half
<1>1. PICK s \in Scenarios : config = s.config /\ world = s.world
  BY DEF TypeOK
<1>2. s.config \in [recovery_policy : {"Reconnect", "FailStop"}, deliver_errors : BOOLEAN,
                    rate_interval : Nat]
  BY RecordsAssumption
<1>3. s.world \in [may : SUBSET {"throw", "overflow", "bias", "reboot"},
                   statuses : SUBSET {"Ok", "Warn", "Error"},
                   numbers : SUBSET Sequences32, records : 0 .. MaxRecords]
  BY RecordsAssumption
<1>4. MaxRecords \in Nat /\ Window \in Nat /\ Window >= 1 /\ Window < Half
  BY RecordsAssumption DEF Half
<1> QED
  BY <1>1, <1>2, <1>3, <1>4

\* The variables' parts have their types.
LEMMA PartsTyped ==
  ASSUME TypeOK
  PROVE  /\ past \in PastRecord /\ IsPast(past) /\ InRange(past)
         /\ sensor \in SensorRecord /\ IsSensor(sensor)
         /\ sensor.n \in 0 .. MaxRecords /\ sensor.boot \in 0 .. MaxRecords
         /\ sensor.stream \in 0 .. MaxRecords
         /\ sensor.ft0 \in Sequences32 /\ sensor.seq0 \in Sequences32
         /\ health \in [Counters -> Nat]
         /\ \A m \in net : /\ m.n \in 1 .. MaxRecords /\ m.seq \in Sequences32
                           /\ m.ft \in Sequences32 /\ m.status \in {"Ok", "Warn", "Error"}
<1>1. past \in PastRecord /\ sensor \in SensorRecord /\ net \subseteq Record
      /\ health \in [Counters -> 0 .. (Modulus * MaxRecords)]
  BY DEF TypeOK
<1>2. health \in [Counters -> Nat]
  <2>1. 0 .. (Modulus * MaxRecords) \subseteq Nat
    OBVIOUS
  <2> QED
    BY <1>1, <2>1
<1>3. \A m \in net : /\ m.n \in 1 .. MaxRecords /\ m.seq \in Sequences32
                     /\ m.ft \in Sequences32 /\ m.status \in {"Ok", "Warn", "Error"}
  BY <1>1, ScenarioTyped DEF Record
<1> QED
  BY <1>1, <1>2, <1>3, PastFields, SensorFields

\* What the model remembers of a record, field by field.
Recalled(m, r, f) ==
  /\ past'.top = IF m.n > past.top THEN m.n ELSE past.top
  /\ past'.base = IF f.kind = "Backward" THEN past.base ELSE m.n
  /\ past'.first = IF r.kind = "First" THEN m.n ELSE past.first
  /\ past'.high = IF r.kind \in {"First", "Contiguous", "Gap"} THEN m.n ELSE past.high
  /\ past'.accepted = IF r.kind = "First" THEN 1
                      ELSE past.accepted + One(r.kind \in {"First", "Contiguous", "Gap"})
  /\ past'.lost = IF r.kind = "First" THEN health["lost"] ELSE past.lost
  /\ past'.mixed = ((past.mixed /\ ~(r.kind = "First"))
                     \/ (r.kind \in {"First", "Contiguous", "Gap"} /\ m.n <= sensor.stream))
  /\ past'.rising = IF m.n <= sensor.boot \/ m.n <= past.top THEN 0
                    ELSE IF past.rising < 2 THEN past.rising + 1 ELSE 2
  /\ past'.given = past.given

Fates == {"callback", "dropped", "unscaled"}

LEMMA Remembered ==
  ASSUME NEW m, NEW r, NEW f, NEW fate \in Fates, past \in PastRecord,
         past' = Remember(m, r, f, fate)
  PROVE  /\ IsPast(past)' /\ Recalled(m, r, f)
         /\ past'.apart = IF fate = "callback" THEN 0 ELSE past.apart
         /\ past'.unscaled = past.unscaled + One(fate = "unscaled")
<1> DEFINE taken == r.kind \in {"First", "Contiguous", "Gap"}
           top == IF m.n > past.top THEN m.n ELSE past.top
           base == IF f.kind = "Backward" THEN past.base ELSE m.n
           first == IF r.kind = "First" THEN m.n ELSE past.first
           high == IF taken THEN m.n ELSE past.high
           accepted == IF r.kind = "First" THEN 1 ELSE past.accepted + One(taken)
           lost == IF r.kind = "First" THEN health["lost"] ELSE past.lost
           mixed == (past.mixed /\ ~(r.kind = "First")) \/ (taken /\ m.n <= sensor.stream)
           rising == IF m.n <= sensor.boot \/ m.n <= past.top THEN 0
                     ELSE IF past.rising < 2 THEN past.rising + 1 ELSE 2
           apart == IF fate = "callback" THEN 0 ELSE past.apart
           unscaled == past.unscaled + One(fate = "unscaled")
<1>1. past' = [past EXCEPT !.top = top, !.base = base, !.first = first, !.high = high,
                           !.accepted = accepted, !.lost = lost, !.mixed = mixed,
                           !.rising = rising, !.apart = apart, !.unscaled = unscaled]
  BY DEF Remember
<1> HIDE DEF top, base, first, high, accepted, lost, mixed, rising, apart, unscaled
<1>2. /\ IsPast(past)'
      /\ past'.top = top /\ past'.base = base /\ past'.first = first /\ past'.high = high
      /\ past'.accepted = accepted /\ past'.lost = lost /\ past'.mixed = mixed
      /\ past'.rising = rising /\ past'.unscaled = unscaled
      /\ past'.given = past.given /\ past'.apart = apart
  BY <1>1 DEF PastRecord, IsPast
<1> QED
  BY <1>2 DEF Recalled, top, base, first, high, accepted, lost, mixed, rising, apart, unscaled
\* What a record adds to the counters.
Tallied(m, r, f) ==
  /\ health' \in [Counters -> Nat]
  /\ health'["received"] = health["received"] + 1
  /\ health'["lost"] = health["lost"] + r.gap
  /\ health'["duplicate"] = health["duplicate"] + One(r.kind = "Duplicate")
  /\ health'["out_of_order"] = health["out_of_order"] + One(r.kind = "OutOfOrder")
  /\ health'["ft_stall"] = health["ft_stall"] + One(f.kind = "Stall")
  /\ health'["ft_backward"] = health["ft_backward"] + One(f.kind = "Backward")
  /\ health'["device_error"] = health["device_error"] + One(m.status = "Error")
  /\ health'["rate_limited"] = health["rate_limited"] + One(Wanted(m, r, f) /\ TooSoon)
  /\ health'["delivered"] = health["delivered"]
  /\ health'["callback_error"] = health["callback_error"]
  /\ \A c \in Counters \ {"lost"} : health'[c] <= health[c] + 1

LEMMA CountersMoved ==
  ASSUME NEW m, NEW r, NEW f, health \in [Counters -> Nat], r.gap \in Nat,
         health' = Counted(m, r, f)
  PROVE  Tallied(m, r, f)
<1> DEFINE a == One(r.kind = "Duplicate")
           b == One(r.kind = "OutOfOrder")
           c == One(f.kind = "Stall")
           d == One(f.kind = "Backward")
           e == One(f.kind = "Restart")
           g == One(m.status = "Warn")
           h == One(m.status = "Error")
           i == One(Wanted(m, r, f) /\ TooSoon)
<1>1. /\ a \in {0, 1} /\ b \in {0, 1} /\ c \in {0, 1} /\ d \in {0, 1}
      /\ e \in {0, 1} /\ g \in {0, 1} /\ h \in {0, 1} /\ i \in {0, 1}
  BY DEF One
<1>2. health' = [health EXCEPT !["received"] = @ + 1, !["lost"] = @ + r.gap,
                               !["duplicate"] = @ + a, !["out_of_order"] = @ + b,
                               !["ft_stall"] = @ + c, !["ft_backward"] = @ + d,
                               !["ft_restart"] = @ + e, !["warning"] = @ + g,
                               !["device_error"] = @ + h, !["rate_limited"] = @ + i]
  BY DEF Counted, HeldBack
<1> HIDE DEF a, b, c, d, e, g, h, i
<1>3. /\ health' \in [Counters -> Nat]
      /\ health'["received"] = health["received"] + 1
      /\ health'["lost"] = health["lost"] + r.gap
      /\ health'["duplicate"] = health["duplicate"] + a
      /\ health'["out_of_order"] = health["out_of_order"] + b
      /\ health'["ft_stall"] = health["ft_stall"] + c
      /\ health'["ft_backward"] = health["ft_backward"] + d
      /\ health'["ft_restart"] = health["ft_restart"] + e
      /\ health'["warning"] = health["warning"] + g
      /\ health'["device_error"] = health["device_error"] + h
      /\ health'["rate_limited"] = health["rate_limited"] + i
      /\ health'["delivered"] = health["delivered"]
      /\ health'["callback_error"] = health["callback_error"]
  BY <1>1, <1>2 DEF Counters
<1>4. \A x \in Counters \ {"lost"} : health'[x] <= health[x] + 1
  BY <1>1, <1>3 DEF Counters
<1> QED
  BY <1>3, <1>4 DEF Tallied, a, b, c, d, h, i

\* Counters bounded by the number of records received are in the range the model gives them.
LEMMA CountersBounded ==
  ASSUME NEW h \in [Counters -> Nat], NEW k \in 0 .. MaxRecords, MaxRecords \in Nat,
         \A c \in Counters \ {"lost"} : h[c] <= k, h["lost"] <= Modulus * k
  PROVE  h \in [Counters -> 0 .. (Modulus * MaxRecords)]
<1>1. k <= MaxRecords /\ MaxRecords <= Modulus * MaxRecords /\ Modulus * k <= Modulus * MaxRecords
  BY SMT
<1>2. \A c \in Counters : h[c] \in Nat /\ h[c] <= Modulus * MaxRecords
  <2> TAKE c \in Counters
  <2>1. CASE c = "lost"
    BY <1>1, <2>1
  <2>2. CASE c # "lost"
    BY <1>1, <2>2
  <2> QED
    BY <2>1, <2>2
<1>3. \A c \in Counters : h[c] \in 0 .. (Modulus * MaxRecords)
  BY <1>1, <1>2
<1> QED
  BY <1>3

\* handle_record() up to the callback: what it sees, and the three ways it goes on.
LEMMA Handled ==
  ASSUME TypeOK, NEW m \in net, HandleRecord(m),
         NEW r, r = RdtObserve(rdt, m.seq), NEW f, f = FtObserve(ft, m.ft)
  PROVE  /\ pc = "receive" /\ health["received"] < world.records
         /\ rdt' = r.tracker /\ ft' = f.tracker /\ health' = Counted(m, r, f)
         /\ net' \subseteq net /\ streaming' = TRUE /\ UNCHANGED <<since, age, sensor>>
         /\ \E fate \in Fates :
              /\ past' = Remember(m, r, f, fate)
              /\ \/ /\ Wanted(m, r, f) /\ ~TooSoon /\ fate = "callback" /\ pc' = "callback"
                    /\ held' = [n |-> m.n, outcome |-> Outcome(m, f)]
                 \/ /\ Wanted(m, r, f) /\ ~TooSoon /\ fate = "unscaled" /\ pc' = "ended"
                    /\ held' = held
                 \/ /\ ~Wanted(m, r, f) \/ TooSoon
                    /\ fate = "dropped" /\ pc' \in {"receive", "ended"} /\ held' = held
<1>1. /\ pc = "receive" /\ health["received"] < world.records
      /\ rdt' = r.tracker /\ ft' = f.tracker /\ health' = Counted(m, r, f)
      /\ net' \subseteq net /\ streaming' = TRUE /\ UNCHANGED <<since, age, sensor>>
  BY DEF HandleRecord
<1>2. \/ /\ Wanted(m, r, f) /\ ~TooSoon
         /\ pc' = "callback" /\ held' = [n |-> m.n, outcome |-> Outcome(m, f)]
         /\ past' = Remember(m, r, f, "callback")
      \/ /\ Wanted(m, r, f) /\ ~TooSoon
         /\ pc' = "ended" /\ held' = held
         /\ past' = Remember(m, r, f, "unscaled")
      \/ /\ ~Wanted(m, r, f) \/ TooSoon
         /\ pc' = After(Outcome(m, f)) /\ held' = held
         /\ past' = Remember(m, r, f, "dropped")
  BY DEF HandleRecord
<1>3. After(Outcome(m, f)) \in {"receive", "ended"}
  BY DEF After
<1> QED
  BY <1>1, <1>2, <1>3 DEF Fates
-----------------------------------------------------------------------------
(* handle_record() keeps the invariant *)

\* The facts about a record that is handled, by which the invariant's parts are kept.
Seen(m, r, f) ==
  /\ m \in net /\ HandleRecord(m)
  /\ r = RdtObserve(rdt, m.seq) /\ f = FtObserve(ft, m.ft)
  /\ UNCHANGED <<config, world>>

\* The effect of a record on history and counters.
LEMMA SeenEffect ==
  ASSUME TypeOK, NEW m, NEW r, NEW f, Seen(m, r, f)
  PROVE  /\ m \in net /\ m.n \in 1 .. MaxRecords
         /\ m.seq \in Sequences32 /\ m.ft \in Sequences32
         /\ r.gap \in 0 .. Modulus
         /\ pc = "receive" /\ health["received"] < world.records
         /\ rdt' = r.tracker /\ ft' = f.tracker /\ health' = Counted(m, r, f)
         /\ net' \subseteq net /\ streaming' = TRUE
         /\ UNCHANGED <<since, age, sensor, config, world>>
         /\ rdt \in RdtTracker /\ ft \in FtTracker
<1>1. /\ m \in net /\ HandleRecord(m) /\ r = RdtObserve(rdt, m.seq) /\ f = FtObserve(ft, m.ft)
      /\ UNCHANGED <<config, world>>
  BY DEF Seen
<1>2. /\ m.n \in 1 .. MaxRecords /\ m.seq \in Sequences32 /\ m.ft \in Sequences32
      /\ rdt \in RdtTracker /\ ft \in FtTracker
  BY <1>1, PartsTyped DEF TypeOK
<1>3. /\ pc = "receive" /\ health["received"] < world.records
      /\ rdt' = r.tracker /\ ft' = f.tracker /\ health' = Counted(m, r, f)
      /\ net' \subseteq net /\ streaming' = TRUE /\ UNCHANGED <<since, age, sensor>>
  BY <1>1, Handled
<1>4. r.gap \in 0 .. Modulus
  BY <1>1, <1>2, RdtObserved
<1> QED
  BY <1>1, <1>2, <1>3, <1>4

LEMMA SeenKeepsCounts ==
  ASSUME RecordsInv, NEW m, NEW r, NEW f, Seen(m, r, f)
  PROVE  TypeOK' /\ CountInv'
<1>1. TypeOK /\ CountInv
  BY DEF RecordsInv
<1>2. /\ m \in net /\ m.n \in 1 .. MaxRecords /\ r.gap \in 0 .. Modulus
      /\ pc = "receive" /\ health["received"] < world.records
      /\ rdt' = r.tracker /\ ft' = f.tracker /\ health' = Counted(m, r, f)
      /\ net' \subseteq net /\ streaming' = TRUE
      /\ UNCHANGED <<since, age, sensor, config, world>>
  BY <1>1, SeenEffect
<1>3. /\ past \in PastRecord /\ InRange(past) /\ health \in [Counters -> Nat]
      /\ world.records \in 0 .. MaxRecords /\ MaxRecords \in Nat
  BY <1>1, PartsTyped, ScenarioTyped
<1>4. PICK fate \in Fates :
        /\ past' = Remember(m, r, f, fate)
        /\ \/ /\ Wanted(m, r, f) /\ ~TooSoon /\ fate = "callback" /\ pc' = "callback"
              /\ held' = [n |-> m.n, outcome |-> Outcome(m, f)]
           \/ /\ Wanted(m, r, f) /\ ~TooSoon /\ fate = "unscaled" /\ pc' = "ended"
              /\ held' = held
           \/ /\ ~Wanted(m, r, f) \/ TooSoon
              /\ fate = "dropped" /\ pc' \in {"receive", "ended"} /\ held' = held
  BY <1>1, Handled DEF Seen
<1>5. /\ IsPast(past)' /\ Recalled(m, r, f)
      /\ past'.apart = IF fate = "callback" THEN 0 ELSE past.apart
      /\ past'.unscaled = past.unscaled + One(fate = "unscaled")
  BY <1>3, <1>4, Remembered
<1>6. Tallied(m, r, f)
  <2>1. r.gap \in Nat
    BY <1>2
  <2> QED
    BY <1>2, <1>3, <2>1, CountersMoved
<1>7. \A c \in Counters : health[c] \in Nat /\ health'[c] \in Nat
  BY <1>3, <1>6 DEF Tallied
<1>8. CountInv'
  <2>1. health'["received"] <= world'.records
    BY <1>2, <1>3, <1>6, <1>7 DEF Counters, Tallied
  <2>2. \A c \in Counters \ {"lost"} : health'[c] <= health'["received"]
    <3>1. \A c \in Counters \ {"lost"} : health[c] <= health["received"]
      BY <1>1 DEF CountInv
    <3>2. health["received"] \in Nat
      BY <1>7 DEF Counters
    <3> QED
      BY <1>6, <1>7, <3>1, <3>2 DEF Tallied
  <2>3. (health["delivered"] + health["callback_error"] + One(InFlight) <= health["received"])'
    BY <1>1, <1>2, <1>6, <1>7 DEF CountInv, InFlight, One, Counters, Tallied
  <2>4. (health["lost"] <= Modulus * health["received"])'
    <3>1. Modulus * (health["received"] + 1) = Modulus * health["received"] + Modulus
      BY <1>7 DEF Counters
    <3>2. Modulus * health["received"] \in Nat
      BY <1>7 DEF Counters
    <3> QED
      BY <1>1, <1>2, <1>6, <1>7, <3>1, <3>2 DEF CountInv, Counters, Tallied
  <2>5. (past.accepted <= health["received"] /\ past.unscaled <= health["received"])'
    BY <1>1, <1>3, <1>5, <1>6, <1>7 DEF CountInv, InRange, One, Counters, Recalled, Tallied
  <2>6. NoSilentDrop'
    <3>1. /\ health["received"] <= health["delivered"] + health["callback_error"]
               + health["rate_limited"] + health["duplicate"] + health["out_of_order"]
               + health["ft_stall"] + health["ft_backward"] + health["device_error"]
               + past.unscaled
          /\ past.unscaled \in Nat
      BY <1>1, <1>2, <1>3, <1>7 DEF CountInv, NoSilentDrop, One, InRange, Counters
    <3>2. CASE Wanted(m, r, f) /\ ~TooSoon /\ fate = "callback" /\ pc' = "callback"
      BY <1>5, <1>6, <1>7, <3>1, <3>2 DEF NoSilentDrop, One, Counters, Tallied
    <3>3. CASE Wanted(m, r, f) /\ ~TooSoon /\ fate = "unscaled" /\ pc' = "ended"
      BY <1>5, <1>6, <1>7, <3>1, <3>3 DEF NoSilentDrop, One, Counters, Tallied
    <3>4. CASE Wanted(m, r, f) /\ TooSoon /\ fate = "dropped" /\ pc' \in {"receive", "ended"}
      BY <1>5, <1>6, <1>7, <3>1, <3>4 DEF NoSilentDrop, One, Counters, Tallied
    <3>5. CASE ~Wanted(m, r, f) /\ fate = "dropped" /\ pc' \in {"receive", "ended"}
      <4>1. \/ r.kind = "Duplicate" \/ r.kind = "OutOfOrder" \/ f.kind = "Stall"
            \/ f.kind = "Backward" \/ m.status = "Error"
        BY <3>5 DEF Wanted, Discontinuity
      <4> QED
        BY <1>5, <1>6, <1>7, <3>1, <3>5, <4>1 DEF NoSilentDrop, One, Counters, Tallied
    <3> QED
      BY <1>4, <3>2, <3>3, <3>4, <3>5
  <2> QED
    BY <2>1, <2>2, <2>3, <2>4, <2>5, <2>6 DEF CountInv
<1>9. TypeOK'
  <2>1. rdt' \in RdtTracker /\ ft' \in FtTracker
    BY <1>1, <1>2, SeenEffect, RdtObserved, FtObserved DEF Seen
  <2>2. health' \in [Counters -> 0 .. (Modulus * MaxRecords)]
    <3>1. health'["received"] \in 0 .. MaxRecords
      BY <1>2, <1>3, <1>6, <1>7 DEF Counters, Tallied
    <3> QED
      BY <1>3, <1>6, <1>8, <3>1, CountersBounded DEF CountInv, Tallied
  <2>3. past' \in PastRecord'
    <3>1. InRange(past)'
      <4>1. past'.accepted \in 0 .. MaxRecords /\ past'.unscaled \in 0 .. MaxRecords
        BY <1>2, <1>3, <1>5, <1>6, <1>7, <1>8 DEF CountInv, InRange, One, Counters, Recalled, Tallied
      <4>2. past'.mixed \in BOOLEAN
        BY <1>5 DEF Recalled
      <4>3. past'.rising \in 0 .. 2
        BY <1>3, <1>5 DEF InRange, Recalled
      <4>4. past'.lost \in Nat
        BY <1>3, <1>5, <1>7 DEF InRange, Counters, Recalled
      <4>5. past'.apart \in 0 .. config'.rate_interval
        BY <1>1, <1>2, <1>3, <1>5, ScenarioTyped DEF InRange
      <4> QED
        BY <1>2, <1>3, <1>5, <4>1, <4>2, <4>3, <4>4, <4>5 DEF InRange, Recalled
    <3> QED
      BY <1>2, <1>5, <3>1 DEF PastRecord, IsPast, InRange
  <2>4. held' \in [n : 0 .. MaxRecords, outcome : Outcomes]
    <3>1. Outcome(m, f) \in Outcomes
      BY DEF Outcome, Outcomes
    <3>2. m.n \in 0 .. MaxRecords
      BY <1>2
    <3> QED
      BY <1>1, <1>4, <3>1, <3>2 DEF TypeOK
  <2>5. net' \subseteq Record' /\ sensor' \in SensorRecord
    BY <1>1, <1>2 DEF TypeOK, Record
  <2>6. pc' \in {"receive", "callback", "deliver", "ended"}
    BY <1>4
  <2> QED
    BY <1>1, <1>2, <2>1, <2>2, <2>3, <2>4, <2>5, <2>6 DEF TypeOK
<1> QED
  BY <1>8, <1>9
LEMMA SeenHistory ==
  ASSUME TypeOK, NEW m, NEW r, NEW f, Seen(m, r, f)
  PROVE  /\ Recalled(m, r, f) /\ Tallied(m, r, f)
         /\ InFlight' => /\ Wanted(m, r, f) /\ ~TooSoon /\ held'.n = m.n
                         /\ pc' = "callback"
         /\ past'.apart = IF InFlight' THEN 0 ELSE past.apart
<1>1. /\ r.gap \in Nat /\ health' = Counted(m, r, f) /\ past \in PastRecord
      /\ health \in [Counters -> Nat]
  <2>1. r.gap \in 0 .. Modulus /\ health' = Counted(m, r, f)
    BY SeenEffect
  <2> QED
    BY <2>1, PartsTyped
<1>2. PICK fate \in Fates :
        /\ past' = Remember(m, r, f, fate)
        /\ \/ /\ Wanted(m, r, f) /\ ~TooSoon /\ fate = "callback" /\ pc' = "callback"
              /\ held' = [n |-> m.n, outcome |-> Outcome(m, f)]
           \/ /\ Wanted(m, r, f) /\ ~TooSoon /\ fate = "unscaled" /\ pc' = "ended"
              /\ held' = held
           \/ /\ ~Wanted(m, r, f) \/ TooSoon
              /\ fate = "dropped" /\ pc' \in {"receive", "ended"} /\ held' = held
  BY Handled DEF Seen
<1>3. Recalled(m, r, f)
  BY <1>1, <1>2, Remembered
<1>4. Tallied(m, r, f)
  BY <1>1, CountersMoved
<1>5. InFlight' => Wanted(m, r, f) /\ ~TooSoon /\ held'.n = m.n /\ pc' = "callback"
  BY <1>2 DEF InFlight
<1>6. past'.apart = IF InFlight' THEN 0 ELSE past.apart
  <2>1. past'.apart = IF fate = "callback" THEN 0 ELSE past.apart
    BY <1>1, <1>2, Remembered
  <2> QED
    BY <1>2, <2>1 DEF InFlight
<1> QED
  BY <1>3, <1>4, <1>5, <1>6

LEMMA SeenKeepsStream ==
  ASSUME RecordsInv, NEW m, NEW r, NEW f, Seen(m, r, f)
  PROVE  StreamInv' /\ RateInv'
<1>1. TypeOK /\ StreamInv /\ RateInv
  BY DEF RecordsInv
<1>2. /\ m \in net /\ m.n \in 1 .. MaxRecords /\ pc = "receive" /\ net' \subseteq net
      /\ UNCHANGED <<since, age, sensor, config, world>>
  BY <1>1, SeenEffect
<1>3. past'.top = IF m.n > past.top THEN m.n ELSE past.top
  BY <1>1, SeenHistory DEF Recalled
<1>4. past.top \in Nat /\ sensor.n \in Nat /\ Window \in Nat
  BY <1>1, PartsTyped, ScenarioTyped DEF InRange
<1>5. m.n <= sensor.n
  BY <1>1, <1>2 DEF StreamInv
<1>6. RateInv'
  <2>1. past'.apart = IF InFlight' THEN 0 ELSE past.apart
    BY <1>1, SeenHistory
  <2>2. since = past.apart /\ age = 0
    BY <1>1, <1>2 DEF RateInv, InFlight
  <2>3. InFlight' => since = config.rate_interval
    <3>1. InFlight' => ~TooSoon
      BY <1>1, SeenHistory
    <3>2. since \in 0 .. config.rate_interval /\ config.rate_interval \in Nat
      BY <1>1, ScenarioTyped DEF TypeOK
    <3> QED
      BY <3>1, <3>2 DEF TooSoon
  <2> QED
    BY <1>2, <2>1, <2>2, <2>3 DEF RateInv
<1> QED
  BY <1>1, <1>2, <1>3, <1>4, <1>5, <1>6 DEF StreamInv

\* While the RDT tracker has the latest record of all, it takes the newer records of the stream,
\* and only those, and the gap it reports is the number of records in between.
LEMMA RdtRecognises ==
  ASSUME RecordsInv, NEW m, NEW r, NEW f, Seen(m, r, f),
         rdt.has_last, ~past.mixed, m.n > sensor.stream
  PROVE  /\ r.kind \in {"First", "Contiguous", "Gap"} <=> m.n > past.top
         /\ m.n > past.top => r.gap = m.n - past.top - 1
<1>1. TypeOK /\ StreamInv /\ RdtInv
  BY DEF RecordsInv
<1>2. /\ m \in net /\ m.n \in 1 .. MaxRecords /\ m.seq \in Sequences32
      /\ rdt \in RdtTracker /\ r = RdtObserve(rdt, m.seq)
  BY <1>1, SeenEffect DEF Seen
<1>3. /\ past.top \in Nat /\ sensor.n \in Nat /\ sensor.stream \in Nat /\ sensor.seq0 \in Int
      /\ Window \in Nat /\ Window < Half
  BY <1>1, PartsTyped, ScenarioTyped DEF InRange, Sequences32
<1> DEFINE i == m.n - 1 - sensor.stream
           j == past.top - 1 - sensor.stream
<1>4. /\ i \in Int /\ j \in Int /\ i - j = m.n - past.top /\ i - j < Half /\ j - i < Half
  BY <1>1, <1>2, <1>3 DEF StreamInv, Half
<1>5. m.seq = Number(sensor.seq0, i) /\ rdt.previous = Number(sensor.seq0, j)
  BY <1>1, <1>2 DEF StreamInv, RdtInv
<1> HIDE DEF i, j
<1>6. /\ i >= j => Delta(m.seq, rdt.previous) = i - j
      /\ Ahead(m.seq, rdt.previous) <=> i >= j
      /\ Delta(m.seq, rdt.previous) = 0 <=> i = j
  BY <1>3, <1>4, <1>5, NumbersCompare
<1>7. /\ r.kind \in {"First", "Duplicate", "OutOfOrder", "Contiguous", "Gap"}
      /\ r.kind = "First" <=> ~rdt.has_last
      /\ r.kind \in {"Contiguous", "Gap"}
           <=> rdt.has_last /\ Delta(m.seq, rdt.previous) # 0 /\ Ahead(m.seq, rdt.previous)
      /\ r.gap = IF r.kind = "Gap" THEN Delta(m.seq, rdt.previous) - 1 ELSE 0
      /\ r.kind = "Contiguous" => Delta(m.seq, rdt.previous) = 1
  BY <1>2, RdtObserved
<1>8. r.kind \in {"First", "Contiguous", "Gap"} <=> i > j
  BY <1>4, <1>6, <1>7
<1>9. i > j => r.gap = i - j - 1
  BY <1>4, <1>6, <1>7, <1>8
<1> QED
  BY <1>2, <1>3, <1>4, <1>8, <1>9

\* The RDT tracker and the lost count.
LEMMA SeenKeepsRdt ==
  ASSUME RecordsInv, NEW m, NEW r, NEW f, Seen(m, r, f)
  PROVE  /\ RdtInv'
         /\ past'.top > past.top /\ ~past'.mixed => r.kind \notin {"Duplicate", "OutOfOrder"}
<1>1. TypeOK /\ StreamInv /\ RdtInv
  BY DEF RecordsInv
<1>2. /\ m \in net /\ m.n \in 1 .. MaxRecords /\ m.seq \in Sequences32
      /\ rdt \in RdtTracker /\ r = RdtObserve(rdt, m.seq)
      /\ rdt' = r.tracker /\ UNCHANGED sensor
  BY <1>1, SeenEffect DEF Seen
<1>3. /\ InRange(past) /\ sensor.n \in Nat /\ sensor.stream \in Nat
      /\ \A c \in Counters : health[c] \in Nat
  BY <1>1, PartsTyped
<1>4. Recalled(m, r, f) /\ Tallied(m, r, f)
  BY <1>1, SeenHistory
<1>5. /\ r.kind \in {"First", "Duplicate", "OutOfOrder", "Contiguous", "Gap"}
      /\ r.kind = "First" <=> ~rdt.has_last
      /\ r.kind # "Gap" => r.gap = 0
      /\ rdt'.has_last
      /\ r.kind \in {"Duplicate", "OutOfOrder"} => rdt' = rdt
      /\ r.kind \notin {"Duplicate", "OutOfOrder"} => rdt'.previous = m.seq
  BY <1>2, RdtObserved
<1>6. health["lost"] \in Nat /\ health'["lost"] = health["lost"] + r.gap
  BY <1>3, <1>4 DEF Counters, Tallied
<1>7. ~past'.mixed => /\ r.kind \in {"First", "Contiguous", "Gap"} => ~(m.n <= sensor.stream)
                      /\ ~past.mixed \/ r.kind = "First"
  <2>1. past'.mixed = ((past.mixed /\ ~(r.kind = "First"))
                        \/ (r.kind \in {"First", "Contiguous", "Gap"} /\ m.n <= sensor.stream))
    BY <1>4 DEF Recalled
  <2> QED
    BY <2>1, Zenon
<1>8. CASE past'.mixed
  BY <1>5, <1>8 DEF RdtInv, LossIsExact
<1>9. CASE ~past'.mixed /\ r.kind = "First"
  <2>1. m.n > sensor.stream /\ past.top <= sensor.stream
    BY <1>1, <1>2, <1>3, <1>7, <1>5, <1>9 DEF RdtInv
  <2>2. /\ past'.top = m.n /\ past'.high = m.n /\ past'.first = m.n /\ past'.accepted = 1
        /\ past'.lost = health["lost"]
    BY <1>2, <1>3, <1>4, <1>9, <2>1 DEF Recalled, InRange
  <2>3. rdt'.previous = Number(sensor.seq0, m.n - 1 - sensor.stream)
    BY <1>1, <1>2, <1>5, <1>9, <2>1 DEF StreamInv
  <2>4. LossIsExact'
    BY <1>2, <1>5, <1>6, <1>9, <2>2 DEF LossIsExact
  <2> QED
    BY <1>2, <1>5, <1>9, <2>1, <2>2, <2>3, <2>4 DEF RdtInv
<1>10. CASE ~past'.mixed /\ r.kind # "First"
  <2>1. rdt.has_last /\ ~past.mixed
    BY <1>7, <1>5, <1>10
  <2>2. CASE m.n > past.top
    <3>1. m.n > sensor.stream
      BY <1>1, <1>2, <1>3, <2>1, <2>2 DEF RdtInv, InRange
    <3>2. r.kind \in {"Contiguous", "Gap"} /\ r.gap = m.n - past.top - 1
      BY <1>10, <2>1, <2>2, <3>1, RdtRecognises
    <3>3. /\ past'.top = m.n /\ past'.high = m.n /\ past'.first = past.first
          /\ past'.accepted = past.accepted + 1 /\ past'.lost = past.lost
      BY <2>2, <1>4, <3>2 DEF Recalled, One
    <3>4. rdt'.previous = Number(sensor.seq0, m.n - 1 - sensor.stream)
      BY <1>1, <1>2, <1>5, <3>1, <3>2 DEF StreamInv
    <3>5. LossIsExact'
      BY <1>1, <1>2, <1>3, <1>6, <2>1, <3>2, <3>3 DEF RdtInv, LossIsExact, InRange
    <3> QED
      BY <1>2, <1>5, <3>1, <3>2, <3>3, <3>4, <3>5 DEF RdtInv
  <2>3. CASE ~(m.n > past.top)
    <3>1. r.kind \notin {"First", "Contiguous", "Gap"}
      <4>1. CASE m.n > sensor.stream
        BY <2>1, <2>3, <4>1, RdtRecognises
      <4>2. CASE ~(m.n > sensor.stream)
        BY <1>2, <1>3, <1>7, <1>10, <4>2
      <4> QED
        BY <4>1, <4>2
    <3>2. /\ past'.top = past.top /\ past'.high = past.high /\ past'.first = past.first
          /\ past'.accepted = past.accepted /\ past'.lost = past.lost
      BY <1>3, <1>4, <2>3, <3>1 DEF Recalled, One, InRange
    <3>3. rdt' = rdt /\ r.gap = 0 /\ health'["lost"] = health["lost"]
      BY <1>5, <1>6, <3>1
    <3> QED
      BY <1>1, <1>2, <1>3, <2>1, <3>2, <3>3 DEF RdtInv, LossIsExact, InRange
  <2> QED
    BY <2>2, <2>3
<1> QED
  BY <1>8, <1>9, <1>10
\* The numbers of records that are few enough do not wrap.
LEMMA SmallNumber ==
  ASSUME NEW i \in Int, 0 <= i, i < Modulus
  PROVE  Number(0, i) = i
BY DEF Number

\* The FT tracker and the sensor's restart.
LEMMA SeenKeepsFt ==
  ASSUME RecordsInv, NEW m, NEW r, NEW f, Seen(m, r, f)
  PROVE  FtInv'
<1>1. TypeOK /\ StreamInv /\ FtInv
  BY DEF RecordsInv
<1>2. /\ m \in net /\ m.n \in 1 .. MaxRecords /\ m.ft \in Sequences32
      /\ ft \in FtTracker /\ f = FtObserve(ft, m.ft) /\ pc = "receive"
      /\ ft' = f.tracker /\ UNCHANGED sensor
  BY <1>1, SeenEffect DEF Seen
<1>3. /\ past.top \in Nat /\ past.base \in Nat /\ past.rising \in Nat
      /\ sensor.n \in Nat /\ sensor.boot \in Nat
      /\ Window \in Nat /\ Window < Half
  BY <1>1, PartsTyped, ScenarioTyped DEF InRange
<1>4. /\ past'.top = IF m.n > past.top THEN m.n ELSE past.top
      /\ past'.base = IF f.kind = "Backward" THEN past.base ELSE m.n
      /\ past'.rising = IF m.n <= sensor.boot \/ m.n <= past.top THEN 0
                        ELSE IF past.rising < 2 THEN past.rising + 1 ELSE 2
  BY <1>1, SeenHistory DEF Recalled
<1>5. /\ f.kind = "Backward" =>
           /\ ft.has_last /\ ~Ahead(m.ft, ft.previous) /\ ~ConfirmsRestart(ft, m.ft)
           /\ ft'.previous = ft.previous
           /\ ft'.has_restart_candidate /\ ft'.restart_candidate = m.ft
      /\ ft'.has_last
  BY <1>2, FtObserved
<1>6. m.n > sensor.boot /\ m.n <= sensor.n /\ m.ft = Number(sensor.ft0, m.n - 1 - sensor.boot)
  BY <1>1, <1>2 DEF StreamInv
<1>7. past'.base > 0
  BY <1>1, <1>2, <1>4, <1>5 DEF FtInv
<1>8. CASE past'.base > sensor.boot
  BY <1>1, <1>2, <1>3, <1>4, <1>5, <1>6, <1>7, <1>8 DEF FtInv, RestartNoticed
<1>9. CASE ~(past'.base > sensor.boot)
  <2>1. f.kind = "Backward" /\ past'.base = past.base /\ past.base <= sensor.boot
    BY <1>2, <1>3, <1>4, <1>6, <1>9
  <2>2. sensor.ft0 = 0 /\ m.ft = Number(0, m.n - 1 - sensor.boot)
    BY <1>1, <1>3, <1>6, <1>7, <1>9, <2>1 DEF FtInv
  <2>3. past'.rising > 0 =>
          /\ past'.top > sensor.boot
          /\ ft'.has_restart_candidate
          /\ ft'.restart_candidate = Number(0, past'.top - 1 - sensor.boot)
    BY <1>2, <1>3, <1>4, <1>5, <1>6, <2>1, <2>2
  <2>4. ~Ahead((past'.top - sensor.boot - 1) % Modulus, ft'.previous)
    <3>1. CASE m.n > past.top
      <4>1. past'.top = m.n /\ 0 + (m.n - 1 - sensor.boot) = m.n - sensor.boot - 1
        BY <1>2, <1>3, <1>4, <3>1
      <4>2. (past'.top - sensor.boot - 1) % Modulus = m.ft
        BY <2>2, <4>1 DEF Number
      <4> QED
        BY <1>5, <2>1, <4>2
    <3>2. CASE ~(m.n > past.top)
      BY <1>1, <1>2, <1>3, <1>4, <1>5, <1>6, <2>1, <3>2 DEF FtInv, RestartNoticed
    <3> QED
      BY <3>1, <3>2
  <2>5. ASSUME past'.rising = 2, sensor.n - sensor.boot <= RestartLowMax + 1
        PROVE  ft'.previous <= RestartLowMax
    <3> DEFINE i == m.n - 1 - sensor.boot
               j == past.top - 1 - sensor.boot
    <3>1. m.n > past.top /\ past.rising > 0
      BY <1>3, <1>2, <1>4, <2>5
    <3>2. past.top > sensor.boot /\ ft.has_restart_candidate /\ ft.restart_candidate = Number(0, j)
      BY <1>1, <2>1, <3>1 DEF FtInv
    <3>3. i \in Int /\ j \in Int /\ 0 <= j /\ j < i /\ i <= RestartLowMax /\ i < Modulus
      BY <1>2, <1>3, <1>6, <2>5, <3>1, <3>2
    <3>4. i - j < Half /\ j - i < Half
      BY <1>1, <1>2, <1>3, <1>6, <3>3 DEF StreamInv, Half
    <3>5. m.ft = Number(0, i)
      BY <2>2
    <3> HIDE DEF i, j
    <3>6. Number(0, i) = i /\ Number(0, j) = j
      BY <3>3, SmallNumber
    <3>7. Ahead(Number(0, i), Number(0, j))
      BY <3>3, <3>4, NumbersCompare
    <3>8. ~ConfirmsRestart(ft, m.ft) /\ ft'.previous = ft.previous
      BY <1>5, <2>1
    <3>9. ft.previous \in Int
      BY <1>2 DEF FtTracker, Sequences32
    <3>10. /\ ft.restart_candidate <= RestartLowMax /\ m.ft <= RestartLowMax
           /\ m.ft # ft.restart_candidate /\ Ahead(m.ft, ft.restart_candidate)
      BY <3>2, <3>3, <3>5, <3>6, <3>7
    <3>11. ~(ft.previous > RestartLowMax)
      BY <3>2, <3>8, <3>10 DEF ConfirmsRestart
    <3> QED
      BY <3>8, <3>9, <3>11
  <2>6. RestartNoticed'
    BY <1>2, <2>4, <2>5 DEF RestartNoticed
  <2> QED
    BY <1>1, <1>2, <1>5, <1>7, <2>3, <2>6 DEF FtInv
<1> QED
  BY <1>8, <1>9
-----------------------------------------------------------------------------
(* The other steps keep the invariant *)

\* The sensor makes a record.
LEMMA EmitKeeps ==
  ASSUME RecordsInv, Emit, UNCHANGED <<config, world>>
  PROVE  RecordsInv'
<1>1. TypeOK /\ CountInv /\ StreamInv /\ RdtInv /\ FtInv /\ RateInv
  BY DEF RecordsInv
<1>2. /\ pc # "ended" /\ sensor.n < world.records /\ sensor.n - past.top < Window
      /\ UNCHANGED <<config, world, pc, streaming, rdt, ft, health, held, since, age, past>>
  BY DEF Emit, client
<1>3. sensor' = [sensor EXCEPT !.n = sensor.n + 1]
  BY DEF Emit
<1>4. /\ sensor \in SensorRecord /\ sensor.n \in Nat /\ sensor.boot \in Nat /\ sensor.stream \in Nat
      /\ sensor.ft0 \in Sequences32 /\ sensor.seq0 \in Sequences32
      /\ past.top \in Nat /\ past.base \in Nat /\ world.records \in 0 .. MaxRecords
      /\ MaxRecords \in Nat /\ Window \in Nat /\ Window >= 1
  BY <1>1, PartsTyped, ScenarioTyped DEF InRange
<1>5. /\ IsSensor(sensor') /\ sensor'.n = sensor.n + 1 /\ sensor'.boot = sensor.boot
      /\ sensor'.ft0 = sensor.ft0 /\ sensor'.stream = sensor.stream
      /\ sensor'.seq0 = sensor.seq0
  BY <1>3, <1>4 DEF SensorRecord, IsSensor
<1> DEFINE seq == (sensor.seq0 + sensor.n - sensor.stream) % Modulus
           ftn == (sensor.ft0 + sensor.n - sensor.boot) % Modulus
<1>6. PICK status \in world.statuses :
        net' = {m \in net : m.n > sensor.n + 1 - Window}
                 \cup {[n |-> sensor.n + 1, status |-> status, seq |-> seq, ft |-> ftn]}
  BY DEF Emit
<1>7. /\ seq \in Sequences32 /\ ftn \in Sequences32
      /\ seq = Number(sensor.seq0, (sensor.n + 1) - 1 - sensor.stream)
      /\ ftn = Number(sensor.ft0, (sensor.n + 1) - 1 - sensor.boot)
  <2>1. /\ sensor.seq0 + sensor.n - sensor.stream \in Int
        /\ sensor.ft0 + sensor.n - sensor.boot \in Int
        /\ sensor.seq0 + ((sensor.n + 1) - 1 - sensor.stream) = sensor.seq0 + sensor.n - sensor.stream
        /\ sensor.ft0 + ((sensor.n + 1) - 1 - sensor.boot) = sensor.ft0 + sensor.n - sensor.boot
    BY <1>4 DEF Sequences32
  <2>2. seq \in Sequences32 /\ ftn \in Sequences32
    BY <2>1, Remainder DEF Sequences32
  <2> QED
    BY <2>1, <2>2 DEF Number
<1> HIDE DEF seq, ftn
<1>8. ASSUME NEW m \in net'
      PROVE  \/ m \in net /\ m.n > sensor.n + 1 - Window
             \/ m.n = sensor.n + 1 /\ m.seq = seq /\ m.ft = ftn
  BY <1>6
<1>9. TypeOK'
  <2>1. sensor.n + 1 \in 1 .. MaxRecords /\ sensor.n + 1 \in 0 .. MaxRecords
    BY <1>2, <1>4
  <2>2. net' \subseteq Record'
    <3>1. [n |-> sensor.n + 1, status |-> status, seq |-> seq, ft |-> ftn] \in Record
      BY <1>7, <2>1 DEF Record
    <3>2. net \subseteq Record /\ Record' = Record
      BY <1>1, <1>2 DEF TypeOK, Record
    <3> QED
      BY <1>6, <3>1, <3>2
  <2>3. sensor' \in SensorRecord
    BY <1>3, <1>4, <2>1 DEF SensorRecord
  <2> QED
    BY <1>1, <1>2, <2>2, <2>3 DEF TypeOK, PastRecord
<1>10. StreamInv'
  <2>1. (sensor.boot <= sensor.n /\ sensor.stream <= sensor.n /\ sensor.n <= world.records)'
    BY <1>1, <1>2, <1>4, <1>5 DEF StreamInv
  <2>2. (past.top <= sensor.n /\ sensor.n - past.top <= Window)'
    BY <1>1, <1>2, <1>4, <1>5 DEF StreamInv
  <2>3. ASSUME NEW m \in net'
        PROVE  /\ m.n <= sensor'.n /\ m.n > sensor'.n - Window
               /\ m.n > sensor'.stream => m.seq = Number(sensor'.seq0, m.n - 1 - sensor'.stream)
               /\ m.n > sensor'.boot => m.ft = Number(sensor'.ft0, m.n - 1 - sensor'.boot)
               /\ pc' # "ended" => m.n > sensor'.boot
    <3>1. CASE m \in net /\ m.n > sensor.n + 1 - Window
      <4>1. m.n \in Nat
        BY <1>1, <3>1, PartsTyped
      <4> QED
        BY <1>1, <1>2, <1>4, <1>5, <3>1, <4>1 DEF StreamInv
    <3>2. CASE m.n = sensor.n + 1 /\ m.seq = seq /\ m.ft = ftn
      BY <1>1, <1>4, <1>5, <1>7, <3>2 DEF StreamInv
    <3> QED
      BY <1>8, <3>1, <3>2
  <2> QED
    BY <2>1, <2>2, <2>3 DEF StreamInv
<1>11. CountInv' /\ RdtInv' /\ RateInv'
  BY <1>1, <1>2, <1>5 DEF CountInv, NoSilentDrop, RdtInv, LossIsExact, RateInv, InFlight
<1>12. FtInv'
  BY <1>1, <1>2, <1>4, <1>5 DEF FtInv, RestartNoticed
<1> QED
  BY <1>9, <1>10, <1>11, <1>12 DEF RecordsInv

\* The sensor restarts.
LEMMA RebootKeeps ==
  ASSUME RecordsInv, Reboot, UNCHANGED <<config, world>>
  PROVE  RecordsInv'
<1>1. TypeOK /\ CountInv /\ StreamInv /\ RdtInv /\ FtInv /\ RateInv
  BY DEF RecordsInv
<1>2. /\ pc = "ended" /\ sensor.n > 0
      /\ UNCHANGED <<config, world, pc, streaming, rdt, ft, health, held, since, age, net>>
  BY DEF Reboot, client
<1>3. sensor' = [sensor EXCEPT !.boot = sensor.n, !.ft0 = 0]
  BY DEF Reboot
<1>4. past' = [past EXCEPT !.rising = 0]
  BY DEF Reboot
<1>5. /\ sensor \in SensorRecord /\ sensor.n \in Nat /\ past.top \in Nat
      /\ past \in PastRecord /\ sensor.n \in 0 .. MaxRecords
  BY <1>1, PartsTyped DEF InRange
<1>6. /\ IsSensor(sensor') /\ sensor'.n = sensor.n /\ sensor'.boot = sensor.n
      /\ sensor'.ft0 = 0 /\ sensor'.stream = sensor.stream /\ sensor'.seq0 = sensor.seq0
  BY <1>3, <1>5 DEF SensorRecord, IsSensor
<1>7. /\ past'.top = past.top /\ past'.base = past.base /\ past'.first = past.first
      /\ past'.high = past.high /\ past'.accepted = past.accepted /\ past'.lost = past.lost
      /\ past'.mixed = past.mixed /\ past'.rising = 0 /\ past'.apart = past.apart
      /\ past'.unscaled = past.unscaled
  BY <1>4, <1>5 DEF PastRecord
<1>8. TypeOK'
  <2>1. sensor' \in SensorRecord
    <3>1. 0 \in Sequences32
      BY DEF Sequences32
    <3> QED
      BY <1>3, <1>5, <3>1 DEF SensorRecord
  <2>2. past' \in PastRecord'
    BY <1>2, <1>4, <1>5 DEF PastRecord
  <2> QED
    BY <1>1, <1>2, <2>1, <2>2 DEF TypeOK, Record
<1>9. StreamInv'
  <2>1. \A m \in net : m.n <= sensor.n /\ m.n \in Nat
    BY <1>1, PartsTyped DEF StreamInv
  <2> QED
    BY <1>1, <1>2, <1>5, <1>6, <1>7, <2>1 DEF StreamInv
<1>10. CountInv' /\ RdtInv' /\ RateInv'
  BY <1>1, <1>2, <1>6, <1>7 DEF CountInv, NoSilentDrop, RdtInv, LossIsExact, RateInv, InFlight
<1>11. FtInv'
  BY <1>1, <1>2, <1>5, <1>6, <1>7 DEF FtInv, RestartNoticed, StreamInv
<1> QED
  BY <1>8, <1>9, <1>10, <1>11 DEF RecordsInv
\* Time passes.
LEMMA TickKeeps ==
  ASSUME RecordsInv, Tick, UNCHANGED <<config, world>>
  PROVE  RecordsInv'
<1>1. TypeOK /\ CountInv /\ StreamInv /\ RdtInv /\ FtInv /\ RateInv
  BY DEF RecordsInv
<1>2. /\ since' = Older(since) /\ age' = IF InFlight THEN Older(age) ELSE age
      /\ UNCHANGED <<config, world, pc, streaming, rdt, ft, health, held, sensor, net>>
  BY DEF Tick, InFlight
<1>3. past' = [past EXCEPT !.apart = Older(past.apart)]
  BY DEF Tick
<1>4. \A t \in 0 .. config.rate_interval : Older(t) \in 0 .. config.rate_interval
  BY <1>1, ScenarioTyped DEF Older
<1>5. /\ past \in PastRecord /\ past.apart \in 0 .. config.rate_interval
  BY <1>1, PartsTyped DEF InRange
<1>6. /\ past'.top = past.top /\ past'.base = past.base /\ past'.first = past.first
      /\ past'.high = past.high /\ past'.accepted = past.accepted /\ past'.lost = past.lost
      /\ past'.mixed = past.mixed /\ past'.rising = past.rising
      /\ past'.apart = Older(past.apart) /\ past'.unscaled = past.unscaled
  BY <1>3, <1>5 DEF PastRecord
<1>7. TypeOK'
  <2>1. past' \in PastRecord'
    <3>1. Older(past.apart) \in 0 .. config.rate_interval
      BY <1>4, <1>5
    <3> HIDE DEF Older
    <3> QED
      BY <1>2, <1>3, <1>5, <3>1 DEF PastRecord
  <2>2. since' \in 0 .. config'.rate_interval /\ age' \in 0 .. config'.rate_interval
    BY <1>1, <1>2, <1>4 DEF TypeOK
  <2> QED
    BY <1>1, <1>2, <2>1, <2>2 DEF TypeOK, Record
<1>8. CountInv' /\ StreamInv' /\ RdtInv'
  BY <1>1, <1>2, <1>6 DEF CountInv, NoSilentDrop, StreamInv, RdtInv, LossIsExact, InFlight
<1>9. FtInv'
  BY <1>1, <1>2, <1>6 DEF FtInv, RestartNoticed
<1>10. RateInv'
  <2>1. Older(config.rate_interval) = config.rate_interval
    BY <1>1, ScenarioTyped DEF Older
  <2>2. InFlight' = InFlight
    BY <1>2 DEF InFlight
  <2> QED
    BY <1>1, <1>2, <1>6, <2>1, <2>2 DEF RateInv
<1> QED
  BY <1>7, <1>8, <1>9, <1>10 DEF RecordsInv

\* The callback returns, or the session ends between two records.
LEMMA PassingKeeps ==
  ASSUME RecordsInv, CallbackReturns \/ EndSession, UNCHANGED <<config, world>>
  PROVE  RecordsInv'
<1>1. /\ UNCHANGED <<config, world, streaming, rdt, ft, health, held, since, age, sensor, net, past>>
      /\ pc # "ended" /\ pc' \in {"deliver", "ended"}
      /\ InFlight' = InFlight
  BY DEF CallbackReturns, EndSession, client, InFlight
<1>2. TypeOK'
  BY <1>1 DEF RecordsInv, TypeOK, PastRecord, Record
<1>3. CountInv'
  BY <1>1 DEF RecordsInv, CountInv, NoSilentDrop, InFlight
<1>4. StreamInv' /\ RdtInv' /\ FtInv' /\ RateInv'
  BY <1>1 DEF RecordsInv, StreamInv, RdtInv, LossIsExact, FtInv, RestartNoticed, RateInv, InFlight
<1> QED
  BY <1>2, <1>3, <1>4 DEF RecordsInv

\* The callback throws.
LEMMA ThrowKeeps ==
  ASSUME RecordsInv, CallbackThrows, UNCHANGED <<config, world>>
  PROVE  RecordsInv'
<1>1. TypeOK /\ CountInv /\ StreamInv /\ RdtInv /\ FtInv /\ RateInv
  BY DEF RecordsInv
<1>2. /\ pc = "callback" /\ pc' \in {"receive", "ended"} /\ held' = NoRecord /\ age' = 0
      /\ UNCHANGED <<config, world, streaming, rdt, ft, since, sensor, net>>
  BY DEF CallbackThrows, After
<1>3. /\ health' = [health EXCEPT !["callback_error"] = @ + 1]
      /\ past' = [past EXCEPT !.apart = config.rate_interval]
  BY DEF CallbackThrows
<1>4. health \in [Counters -> Nat] /\ past.unscaled \in Nat /\ past \in PastRecord
      /\ world.records \in 0 .. MaxRecords /\ MaxRecords \in Nat /\ config.rate_interval \in Nat
  BY <1>1, PartsTyped, ScenarioTyped DEF InRange
<1>5. /\ health' \in [Counters -> Nat]
      /\ health'["callback_error"] = health["callback_error"] + 1
      /\ \A c \in Counters \ {"callback_error"} : health'[c] = health[c]
  BY <1>3, <1>4 DEF Counters
<1>6. \A c \in Counters : health[c] \in Nat
  BY <1>4
<1>a. /\ past'.top = past.top /\ past'.base = past.base /\ past'.first = past.first
      /\ past'.high = past.high /\ past'.accepted = past.accepted /\ past'.lost = past.lost
      /\ past'.mixed = past.mixed /\ past'.rising = past.rising
      /\ past'.apart = config.rate_interval /\ past'.unscaled = past.unscaled
  BY <1>3, <1>4 DEF PastRecord
<1>7. CountInv'
  <2>1. (health["delivered"] + health["callback_error"] + One(InFlight) <= health["received"])'
    BY <1>1, <1>2, <1>5, <1>6 DEF CountInv, InFlight, One, Counters
  <2>2. \A c \in Counters \ {"lost"} : health'[c] <= health'["received"]
    <3>1. health'["callback_error"] <= health'["received"]
      BY <1>5, <1>6, <2>1 DEF One, Counters
    <3>2. \A c \in Counters \ {"lost", "callback_error"} : health'[c] <= health'["received"]
      BY <1>1, <1>5 DEF CountInv, Counters
    <3> QED
      BY <3>1, <3>2
  <2>3. NoSilentDrop'
    BY <1>1, <1>2, <1>4, <1>5, <1>6, <1>a DEF CountInv, NoSilentDrop, One, Counters
  <2> QED
    BY <1>1, <1>2, <1>5, <1>a, <2>1, <2>2, <2>3 DEF CountInv, Counters
<1>8. TypeOK'
  <2>1. health' \in [Counters -> 0 .. (Modulus * MaxRecords)]
    <3>1. health'["received"] \in 0 .. MaxRecords
      BY <1>1, <1>4, <1>5, <1>6 DEF CountInv, Counters
    <3> QED
      BY <1>4, <1>5, <1>7, <3>1, CountersBounded DEF CountInv
  <2>2. NoRecord \in [n : 0 .. MaxRecords, outcome : Outcomes]
    BY <1>4 DEF NoRecord, Outcomes
  <2>3. age' \in 0 .. config'.rate_interval
    BY <1>2, <1>4
  <2>4. past' \in PastRecord'
    BY <1>2, <1>3, <1>4 DEF PastRecord
  <2> QED
    BY <1>1, <1>2, <2>1, <2>2, <2>3, <2>4 DEF TypeOK, Record
<1>9. health'["lost"] = health["lost"]
  BY <1>5 DEF Counters
<1>10. StreamInv' /\ RdtInv' /\ FtInv'
  BY <1>1, <1>2, <1>9, <1>a DEF StreamInv, RdtInv, LossIsExact, FtInv, RestartNoticed
<1>11. RateInv'
  BY <1>1, <1>2, <1>a DEF RateInv, InFlight
<1> QED
  BY <1>1, <1>7, <1>8, <1>10, <1>11 DEF RecordsInv

\* The sample becomes the latest.
LEMMA DeliverKeeps ==
  ASSUME RecordsInv, Deliver, UNCHANGED <<config, world>>
  PROVE  RecordsInv' /\ past'.given = held.n
<1>1. TypeOK /\ CountInv /\ StreamInv /\ RdtInv /\ FtInv /\ RateInv
  BY DEF RecordsInv
<1>2. /\ pc = "deliver" /\ pc' \in {"receive", "ended"} /\ held' = NoRecord /\ age' = 0
      /\ since' = age
      /\ UNCHANGED <<config, world, streaming, rdt, ft, sensor, net>>
  BY DEF Deliver, After, LastDelivery
<1>3. health' = [health EXCEPT !["delivered"] = @ + 1]
  BY DEF Deliver
<1>4. past' = [past EXCEPT !.given = held.n]
  BY DEF Deliver
<1>5. /\ health \in [Counters -> Nat] /\ past.unscaled \in Nat /\ past \in PastRecord
      /\ world.records \in 0 .. MaxRecords /\ MaxRecords \in Nat /\ config.rate_interval \in Nat
  BY <1>1, PartsTyped, ScenarioTyped DEF InRange
<1>6. /\ health' \in [Counters -> Nat]
      /\ health'["delivered"] = health["delivered"] + 1
      /\ \A c \in Counters \ {"delivered"} : health'[c] = health[c]
  BY <1>3, <1>5 DEF Counters
<1>7. \A c \in Counters : health[c] \in Nat
  BY <1>5
<1>8. /\ past'.top = past.top /\ past'.base = past.base /\ past'.first = past.first
      /\ past'.high = past.high /\ past'.accepted = past.accepted /\ past'.lost = past.lost
      /\ past'.mixed = past.mixed /\ past'.rising = past.rising
      /\ past'.apart = past.apart /\ past'.unscaled = past.unscaled /\ past'.given = held.n
  BY <1>4, <1>5 DEF PastRecord
<1>9. CountInv'
  <2>1. (health["delivered"] + health["callback_error"] + One(InFlight) <= health["received"])'
    BY <1>1, <1>2, <1>6, <1>7 DEF CountInv, InFlight, One, Counters
  <2>2. \A c \in Counters \ {"lost"} : health'[c] <= health'["received"]
    <3>1. health'["delivered"] <= health'["received"]
      BY <1>6, <1>7, <2>1 DEF One, Counters
    <3>2. \A c \in Counters \ {"lost", "delivered"} : health'[c] <= health'["received"]
      BY <1>1, <1>6 DEF CountInv, Counters
    <3> QED
      BY <3>1, <3>2
  <2>3. NoSilentDrop'
    BY <1>1, <1>2, <1>5, <1>6, <1>7, <1>8 DEF CountInv, NoSilentDrop, One, Counters
  <2> QED
    BY <1>1, <1>2, <1>6, <1>8, <2>1, <2>2, <2>3 DEF CountInv, Counters
<1>10. TypeOK'
  <2>1. health' \in [Counters -> 0 .. (Modulus * MaxRecords)]
    <3>1. health'["received"] \in 0 .. MaxRecords
      BY <1>1, <1>5, <1>6, <1>7 DEF CountInv, Counters
    <3> QED
      BY <1>5, <1>6, <1>9, <3>1, CountersBounded DEF CountInv
  <2>2. NoRecord \in [n : 0 .. MaxRecords, outcome : Outcomes]
    BY <1>5 DEF NoRecord, Outcomes
  <2>3. /\ age \in 0 .. config.rate_interval /\ 0 \in 0 .. config.rate_interval
        /\ held.n \in 0 .. MaxRecords
    BY <1>1, <1>5 DEF TypeOK
  <2>4. past' \in PastRecord'
    BY <1>2, <1>4, <1>5, <2>3 DEF PastRecord
  <2> QED
    BY <1>1, <1>2, <2>1, <2>2, <2>3, <2>4 DEF TypeOK, Record
<1>11. health'["lost"] = health["lost"]
  BY <1>6 DEF Counters
<1>12. StreamInv' /\ RdtInv' /\ FtInv'
  BY <1>1, <1>2, <1>8, <1>11 DEF StreamInv, RdtInv, LossIsExact, FtInv, RestartNoticed
<1>13. RateInv'
  BY <1>1, <1>2, <1>8 DEF RateInv, InFlight
<1> QED
  BY <1>8, <1>9, <1>10, <1>12, <1>13 DEF RecordsInv
\* StartRealtime: the stream begins after the records made so far.
LEMMA StreamStarts ==
  ASSUME TypeOK, StartRealtime
  PROVE  /\ sensor' \in SensorRecord /\ sensor'.n = sensor.n /\ sensor'.boot = sensor.boot
         /\ sensor'.ft0 = sensor.ft0 /\ sensor'.stream = sensor.n
<1>1. PICK s \in world.numbers : sensor' = [sensor EXCEPT !.stream = sensor.n, !.seq0 = s]
  BY DEF StartRealtime
<1>2. s \in Sequences32 /\ sensor \in SensorRecord /\ sensor.n \in 0 .. MaxRecords
  BY PartsTyped, ScenarioTyped
<1> QED
  BY <1>1, <1>2 DEF SensorRecord

\* A tracker that is reset has its type and no history; a new session keeps the FT history.
LEMMA TrackersReset ==
  ASSUME TypeOK
  PROVE  /\ RdtReset(rdt) \in RdtTracker /\ ~RdtReset(rdt).has_last
         /\ FtBeginSession(ft) \in FtTracker
         /\ FtBeginSession(ft).has_last = ft.has_last
         /\ FtBeginSession(ft).previous = ft.previous
<1>1. 0 \in Sequences32 /\ ft \in FtTracker
  BY DEF Sequences32, TypeOK
<1>2. RdtReset(rdt) \in RdtTracker /\ ~RdtReset(rdt).has_last
  BY <1>1 DEF RdtReset, NewRdtTracker, RdtTracker
<1>3. /\ FtBeginSession(ft) \in FtTracker
      /\ FtBeginSession(ft).has_last = ft.has_last
      /\ FtBeginSession(ft).previous = ft.previous
  BY <1>1 DEF FtBeginSession, FtTracker
<1> QED
  BY <1>2, <1>3

\* The next session begins.
LEMMA NextSessionKeeps ==
  ASSUME RecordsInv, NextSession, UNCHANGED <<config, world>>
  PROVE  RecordsInv' /\ past'.given = past.given
<1>1. TypeOK /\ CountInv /\ StreamInv /\ RdtInv /\ FtInv /\ RateInv
  BY DEF RecordsInv
<1> DEFINE Anew(t) == IF config.recovery_policy = "FailStop" THEN config.rate_interval ELSE t
<1>2. /\ pc = "ended" /\ pc' = "receive" /\ streaming' = FALSE
      /\ rdt' = RdtReset(rdt) /\ ft' = FtBeginSession(ft) /\ since' = Anew(since)
      /\ StartRealtime /\ net' = {}
      /\ UNCHANGED <<config, world, health, held, age>>
  BY DEF NextSession
<1>3. past' = [past EXCEPT !.rising = 0, !.apart = Anew(past.apart)]
  BY DEF NextSession
<1>4. /\ past \in PastRecord /\ past.top \in Nat /\ past.base \in Nat
      /\ past.apart \in 0 .. config.rate_interval /\ sensor.n \in Nat /\ sensor.boot \in Nat
      /\ config.rate_interval \in 0 .. config.rate_interval
  BY <1>1, PartsTyped, ScenarioTyped DEF InRange
<1>5. Anew(past.apart) \in 0 .. config.rate_interval /\ Anew(since) \in 0 .. config.rate_interval
  BY <1>1, <1>4 DEF TypeOK
<1>6. Anew(since) = Anew(past.apart) /\ age = 0
  BY <1>1, <1>2 DEF RateInv, InFlight
<1> HIDE DEF Anew
<1>7. /\ past'.top = past.top /\ past'.base = past.base /\ past'.first = past.first
      /\ past'.high = past.high /\ past'.accepted = past.accepted /\ past'.lost = past.lost
      /\ past'.mixed = past.mixed /\ past'.rising = 0 /\ past'.given = past.given
      /\ past'.apart = Anew(past.apart) /\ past'.unscaled = past.unscaled
  BY <1>3, <1>4 DEF PastRecord
<1>8. /\ rdt' \in RdtTracker /\ ~rdt'.has_last /\ ft' \in FtTracker
      /\ ft'.has_last = ft.has_last /\ ft'.previous = ft.previous
  BY <1>1, <1>2, TrackersReset
<1>9. /\ sensor' \in SensorRecord /\ sensor'.n = sensor.n /\ sensor'.boot = sensor.boot
      /\ sensor'.ft0 = sensor.ft0 /\ sensor'.stream = sensor.n
  BY <1>1, <1>2, StreamStarts
<1>10. TypeOK'
  <2>1. past' \in PastRecord'
    <3>1. 0 \in 0 .. 2 /\ past \in PastRecord /\ Anew(past.apart) \in 0 .. config.rate_interval
      BY <1>4, <1>5
    <3>2. past' \in PastRecord
      BY <1>3, <3>1 DEF PastRecord
    <3> QED
      BY <1>2, <3>2 DEF PastRecord
  <2> QED
    BY <1>1, <1>2, <1>5, <1>8, <1>9, <2>1 DEF TypeOK
<1>11. CountInv' /\ StreamInv' /\ RdtInv'
  BY <1>1, <1>2, <1>4, <1>7, <1>8, <1>9
     DEF CountInv, NoSilentDrop, StreamInv, RdtInv, LossIsExact, InFlight
<1>12. FtInv' /\ RateInv'
  <2>1. ~(past'.rising > 0) /\ past'.rising # 2
    BY <1>7
  <2>2. RestartNoticed'
    BY <1>1, <1>7, <1>8, <1>9, <2>1 DEF FtInv, RestartNoticed
  <2>3. RateInv'
    BY <1>2, <1>6, <1>7 DEF RateInv, InFlight
  <2> QED
    BY <1>1, <1>7, <1>8, <1>9, <2>1, <2>2, <2>3 DEF FtInv
<1> QED
  BY <1>7, <1>10, <1>11, <1>12 DEF RecordsInv

\* bias() starts the stream anew.
LEMMA BiasKeeps ==
  ASSUME RecordsInv, Bias, UNCHANGED <<config, world>>
  PROVE  RecordsInv'
<1>1. TypeOK /\ CountInv /\ StreamInv /\ RdtInv /\ FtInv /\ RateInv
  BY DEF RecordsInv
<1>2. /\ rdt' = RdtReset(rdt) /\ StartRealtime
      /\ UNCHANGED <<config, world, pc, streaming, ft, health, held, since, age, net, past>>
  BY DEF Bias
<1>3. rdt' \in RdtTracker /\ ~rdt'.has_last
  BY <1>1, <1>2, TrackersReset
<1>4. /\ sensor' \in SensorRecord /\ sensor'.n = sensor.n /\ sensor'.boot = sensor.boot
      /\ sensor'.ft0 = sensor.ft0 /\ sensor'.stream = sensor.n
  BY <1>1, <1>2, StreamStarts
<1>5. TypeOK'
  BY <1>1, <1>2, <1>3, <1>4 DEF TypeOK, PastRecord, Record
<1>6. StreamInv'
  <2>1. /\ sensor.n \in Nat /\ \A m \in net : m.n \in Nat /\ m.n <= sensor.n
    BY <1>1, PartsTyped DEF StreamInv
  <2> QED
    BY <1>1, <1>2, <1>4, <2>1 DEF StreamInv
<1>7. CountInv' /\ RdtInv'
  BY <1>1, <1>2, <1>3, <1>4 DEF CountInv, NoSilentDrop, StreamInv, RdtInv, LossIsExact, InFlight
<1>8. FtInv' /\ RateInv'
  BY <1>1, <1>2, <1>4 DEF FtInv, RestartNoticed, RateInv, InFlight
<1> QED
  BY <1>5, <1>6, <1>7, <1>8 DEF RecordsInv

LEMMA RecordsInit ==
  Init => RecordsInv
<1> SUFFICES ASSUME Init PROVE RecordsInv
  OBVIOUS
<1>1. PICK s \in Scenarios : config = s.config /\ world = s.world
  BY DEF Init
<1>2. /\ s.config \in [recovery_policy : {"Reconnect", "FailStop"}, deliver_errors : BOOLEAN,
                       rate_interval : Nat]
      /\ s.world \in [may : SUBSET {"throw", "overflow", "bias", "reboot"},
                      statuses : SUBSET {"Ok", "Warn", "Error"},
                      numbers : SUBSET Sequences32, records : 0 .. MaxRecords]
      /\ MaxRecords \in Nat /\ Window \in Nat
  BY RecordsAssumption
<1>3. /\ config.rate_interval \in Nat /\ world.numbers \subseteq Sequences32
      /\ world.records \in 0 .. MaxRecords
  BY <1>1, <1>2
<1>4. PICK f, q \in world.numbers :
        sensor = [n |-> 0, boot |-> 0, ft0 |-> f, stream |-> 0, seq0 |-> q]
  BY DEF Init
<1>5. past = [top |-> 0, base |-> 0, given |-> 0, first |-> 0, high |-> 0, accepted |-> 0,
              lost |-> 0, mixed |-> FALSE, rising |-> 0, apart |-> config.rate_interval,
              unscaled |-> 0]
  BY DEF Init
<1>6. /\ streaming = FALSE /\ pc = "receive" /\ rdt = NewRdtTracker /\ ft = NewFtTracker
      /\ held = NoRecord /\ since = config.rate_interval /\ age = 0 /\ net = {}
  BY DEF Init
<1>7. health = [c \in Counters |-> 0]
  BY DEF Init
<1>8. /\ 0 \in 0 .. MaxRecords /\ 0 \in Sequences32 /\ 0 \in 0 .. config.rate_interval
      /\ config.rate_interval \in 0 .. config.rate_interval /\ 0 \in 0 .. 2
      /\ 0 \in 0 .. (Modulus * MaxRecords)
  BY <1>2, <1>3 DEF Sequences32
<1>9. TypeOK
  <2>1. past \in PastRecord
    BY <1>5, <1>8 DEF PastRecord
  <2>2. sensor \in SensorRecord
    BY <1>3, <1>4, <1>8 DEF SensorRecord
  <2>3. rdt \in RdtTracker /\ ft \in FtTracker
    BY <1>6, <1>8 DEF NewRdtTracker, NewFtTracker, RdtTracker, FtTracker
  <2>4. health \in [Counters -> 0 .. (Modulus * MaxRecords)]
    BY <1>7, <1>8
  <2>5. held \in [n : 0 .. MaxRecords, outcome : Outcomes]
    BY <1>6, <1>8 DEF NoRecord, Outcomes
  <2> QED
    BY <1>1, <1>6, <1>8, <2>1, <2>2, <2>3, <2>4, <2>5 DEF TypeOK
<1>10. CountInv
  BY <1>3, <1>5, <1>6, <1>7 DEF CountInv, NoSilentDrop, One, InFlight, Counters
<1>11. StreamInv /\ RateInv
  BY <1>2, <1>3, <1>4, <1>5, <1>6 DEF StreamInv, RateInv, InFlight
<1>12. RdtInv /\ FtInv
  BY <1>4, <1>5, <1>6 DEF RdtInv, LossIsExact, FtInv, RestartNoticed, NewRdtTracker, NewFtTracker
<1> QED
  BY <1>9, <1>10, <1>11, <1>12 DEF RecordsInv

\* Every step keeps the invariant.
LEMMA RecordsNext ==
  RecordsInv /\ [Next]_vars => RecordsInv'
<1> SUFFICES ASSUME RecordsInv, [Next]_vars PROVE RecordsInv'
  OBVIOUS
<1>1. CASE UNCHANGED vars
  <2>1. UNCHANGED <<config, world, pc, streaming, rdt, ft, health, held, since, age, sensor, net, past>>
    BY <1>1 DEF vars, client
  <2>2. TypeOK'
    BY <2>1 DEF RecordsInv, TypeOK, PastRecord, Record
  <2>3. CountInv'
    BY <2>1 DEF RecordsInv, CountInv, NoSilentDrop, InFlight
  <2>4. StreamInv' /\ RdtInv' /\ FtInv' /\ RateInv'
    BY <2>1 DEF RecordsInv, StreamInv, RdtInv, LossIsExact, FtInv, RestartNoticed, RateInv, InFlight
  <2> QED
    BY <2>2, <2>3, <2>4 DEF RecordsInv
<1>2. CASE Next
  <2>1. UNCHANGED <<config, world>>
    BY <1>2 DEF Next
  <2>2. ASSUME NEW m \in net, HandleRecord(m) PROVE RecordsInv'
    <3>1. Seen(m, RdtObserve(rdt, m.seq), FtObserve(ft, m.ft))
      BY <2>1, <2>2 DEF Seen
    <3> QED
      BY <3>1, SeenKeepsCounts, SeenKeepsStream, SeenKeepsRdt, SeenKeepsFt DEF RecordsInv
  <2> QED
    BY <1>2, <2>1, <2>2, EmitKeeps, RebootKeeps, TickKeeps, PassingKeeps, ThrowKeeps, DeliverKeeps,
       NextSessionKeeps, BiasKeeps DEF Next
<1> QED
  BY <1>1, <1>2

LEMMA RecordsInvariant ==
  Spec => []RecordsInv
BY RecordsInit, RecordsNext, PTL DEF Spec
-----------------------------------------------------------------------------
(* What follows *)

\* The trackers, the counters, the datagrams and the history always have their types; no
\* counter exceeds what the number of records received allows.
THEOREM RecordsTyped ==
  Spec => []TypeOK
<1>1. RecordsInv => TypeOK
  BY DEF RecordsInv
<1> QED
  BY <1>1, RecordsInvariant, PTL

\* lost_count is exact: in a stream without records of an older one, every record from the
\* first to the latest was taken or counted as lost, however the numbers wrap, whatever is
\* delayed, duplicated or dropped, as long as no record lags behind by half of the numbers.
THEOREM LossesAreExact ==
  Spec => []LossIsExact
<1>1. RecordsInv => LossIsExact
  BY DEF RecordsInv, RdtInv
<1> QED
  BY <1>1, RecordsInvariant, PTL

\* Every record handle_record() received was delivered, shows in a counter or ended its
\* session.
THEOREM NothingDroppedSilently ==
  Spec => []NoSilentDrop
<1>1. RecordsInv => NoSilentDrop
  BY DEF RecordsInv, CountInv
<1> QED
  BY <1>1, RecordsInvariant, PTL

\* FtSequenceTracker notices a sensor restart from a high number within two records in order,
\* and an unnoticed one lasts only until the new numbers have caught up.
THEOREM RestartsAreNoticed ==
  Spec => []RestartNoticed
<1>1. RecordsInv => RestartNoticed
  BY DEF RecordsInv, FtInv
<1> QED
  BY <1>1, RecordsInvariant, PTL

\* The steps that are not of handle_record() receive nothing.
LEMMA OtherStepsReceiveNothing ==
  ASSUME RecordsInv, Next, ~\E m \in net : HandleRecord(m)
  PROVE  /\ past'.top = past.top /\ ~(pc = "receive" /\ pc' = "callback")
<1>1. past \in PastRecord
  BY PartsTyped DEF RecordsInv
<1>2. CASE Emit \/ CallbackReturns \/ EndSession \/ Bias
  BY <1>2 DEF Emit, CallbackReturns, EndSession, Bias, client
<1>7. CASE CallbackThrows
  <2>1. past' = [past EXCEPT !.apart = config.rate_interval] /\ pc = "callback"
    BY <1>7 DEF CallbackThrows
  <2> QED
    BY <1>1, <2>1 DEF PastRecord
<1>3. CASE Reboot
  <2>1. past' = [past EXCEPT !.rising = 0] /\ pc' = pc
    BY <1>3 DEF Reboot
  <2> QED
    BY <1>1, <2>1 DEF PastRecord
<1>4. CASE Tick
  <2>1. past' = [past EXCEPT !.apart = Older(@)] /\ pc' = pc
    BY <1>4 DEF Tick
  <2> QED
    BY <1>1, <2>1 DEF PastRecord
<1>5. CASE Deliver
  <2>1. past' = [past EXCEPT !.given = held.n] /\ pc = "deliver"
    BY <1>5 DEF Deliver
  <2> QED
    BY <1>1, <2>1 DEF PastRecord
<1>6. CASE NextSession
  <2> DEFINE anew == IF config.recovery_policy = "FailStop" THEN config.rate_interval ELSE past.apart
  <2>1. past' = [past EXCEPT !.rising = 0, !.apart = anew] /\ pc' = "receive"
    BY <1>6 DEF NextSession
  <2> HIDE DEF anew
  <2> QED
    BY <1>1, <2>1 DEF PastRecord
<1> QED
  BY <1>2, <1>3, <1>4, <1>5, <1>6, <1>7 DEF Next

\* A record newer than all before it is taken: RdtSequenceTracker calls it a duplicate or out
\* of order only when it measures by a record of an older stream.
THEOREM NewRecordsAreTaken ==
  Spec => NewRecordsTaken
<1> DEFINE Taken == past'.top > past.top /\ ~past'.mixed =>
                      /\ health'["duplicate"] = health["duplicate"]
                      /\ health'["out_of_order"] = health["out_of_order"]
<1>1. RecordsInv /\ [Next]_vars => [Taken]_vars
  <2> SUFFICES ASSUME RecordsInv, Next PROVE Taken
    BY DEF vars
  <2>1. past.top \in Nat
    BY PartsTyped DEF RecordsInv, InRange
  <2>2. CASE \E m \in net : HandleRecord(m)
    <3>1. PICK m \in net : HandleRecord(m)
      BY <2>2
    <3> DEFINE r == RdtObserve(rdt, m.seq)
               f == FtObserve(ft, m.ft)
    <3>2. Seen(m, r, f)
      BY <3>1 DEF Next, Seen
    <3> HIDE DEF r, f
    <3>3. past'.top > past.top /\ ~past'.mixed => r.kind \notin {"Duplicate", "OutOfOrder"}
      BY <3>2, SeenKeepsRdt
    <3>4. /\ health'["duplicate"] = health["duplicate"] + One(r.kind = "Duplicate")
          /\ health'["out_of_order"] = health["out_of_order"] + One(r.kind = "OutOfOrder")
      BY <3>2, SeenHistory DEF RecordsInv, Tallied
    <3>5. health["duplicate"] \in Nat /\ health["out_of_order"] \in Nat
      BY PartsTyped DEF RecordsInv, Counters
    <3> QED
      BY <3>3, <3>4, <3>5 DEF One
  <2>3. CASE ~\E m \in net : HandleRecord(m)
    BY <2>1, <2>3, OtherStepsReceiveNothing
  <2> QED
    BY <2>2, <2>3
<1> QED
  BY <1>1, RecordsInvariant, PTL DEF Spec, NewRecordsTaken

\* A sample goes to the callback only when the one that went there before was received an
\* interval earlier, through callbacks that take long, sessions that end and calls of bias(),
\* but not after a callback that threw, nor after start(): neither leaves a last_delivery_at_.
THEOREM RateLimitIsKept ==
  Spec => RateLimitHolds
<1> DEFINE Kept == pc = "receive" /\ pc' = "callback" => past.apart = config.rate_interval
<1>1. RecordsInv /\ [Next]_vars => [Kept]_vars
  <2> SUFFICES ASSUME RecordsInv, Next, pc = "receive", pc' = "callback"
               PROVE  past.apart = config.rate_interval
    BY DEF vars
  <2>1. PICK m \in net : HandleRecord(m)
    BY OtherStepsReceiveNothing
  <2> DEFINE r == RdtObserve(rdt, m.seq)
             f == FtObserve(ft, m.ft)
  <2>2. Seen(m, r, f)
    BY <2>1 DEF Next, Seen
  <2> HIDE DEF r, f
  <2>3. ~TooSoon
    BY <2>2, SeenHistory DEF RecordsInv, InFlight
  <2>4. since \in 0 .. config.rate_interval /\ config.rate_interval \in Nat
    BY ScenarioTyped DEF RecordsInv, TypeOK
  <2> QED
    BY <2>3, <2>4 DEF TooSoon, RecordsInv, RateInv, InFlight
<1> QED
  BY <1>1, RecordsInvariant, PTL DEF Spec, RateLimitHolds
-----------------------------------------------------------------------------
(* The order of the samples *)

\* While the latest number is above the threshold no late one is below it, to confirm a
\* restart, and the FT tracker compares each record with the latest one.
FarNumbers(m) ==
  /\ ft.has_last /\ ft.previous > RestartLowMax /\ m.n < past.top => m.ft > RestartLowMax
  /\ ft.has_last => /\ Ahead(m.ft, ft.previous) <=> m.n >= past.top
                    /\ m.ft = ft.previous <=> m.n = past.top

LEMMA NumbersStayApart ==
  ASSUME RecordsInv, OrderInv, ThresholdNotCrossed(world), NEW m \in net, pc # "ended"
  PROVE  FarNumbers(m)
<1>1. TypeOK /\ StreamInv
  BY DEF RecordsInv
<1>2. /\ m.n \in Nat /\ m.n >= 1 /\ past.top \in Nat /\ sensor.n \in Nat
      /\ sensor.ft0 \in Nat /\ Window \in Nat /\ Window < Half /\ world.records \in Nat
  BY <1>1, PartsTyped, ScenarioTyped DEF InRange, Sequences32
<1>3. /\ sensor.boot = 0 /\ sensor.ft0 > RestartLowMax
      /\ sensor.ft0 + world.records - 1 <= Modulus + RestartLowMax
      /\ ft.has_last => ft.previous = Number(sensor.ft0, past.top - 1)
  BY DEF OrderInv
<1>4. /\ m.n <= sensor.n /\ m.n > sensor.n - Window /\ sensor.n <= world.records
      /\ past.top <= sensor.n /\ sensor.n - past.top <= Window
      /\ m.ft = Number(sensor.ft0, m.n - 1 - 0)
  BY <1>1, <1>2, <1>3 DEF StreamInv
<1> DEFINE i == m.n - 1
           j == past.top - 1
<1>5. /\ i \in Int /\ j \in Int /\ i - j < Half /\ j - i < Half /\ m.n - 1 - 0 = i
      /\ sensor.ft0 \in Int
  BY <1>2, <1>4 DEF Half
<1>6. Number(sensor.ft0, j) > RestartLowMax /\ m.n < past.top => m.ft > RestartLowMax
  <2> SUFFICES ASSUME Number(sensor.ft0, j) > RestartLowMax, m.n < past.top
               PROVE  m.ft > RestartLowMax
    OBVIOUS
  <2> DEFINE x == sensor.ft0 + i
             y == sensor.ft0 + j
  <2>1. /\ x \in Int /\ y \in Int /\ RestartLowMax < x /\ 0 <= x /\ x < y
        /\ y <= Modulus + RestartLowMax /\ RestartLowMax < Modulus
    BY <1>2, <1>3, <1>4
  <2>2. y % Modulus > RestartLowMax /\ m.ft = x % Modulus
    BY <1>4, <1>5 DEF Number
  <2> HIDE DEF x, y
  <2>3. y < Modulus
    <3>1. y >= Modulus => (y % Modulus) = y - Modulus
      BY <2>1
    <3> QED
      BY <2>1, <2>2, <3>1
  <2>4. x % Modulus = x
    BY <2>1, <2>3
  <2> QED
    BY <2>1, <2>2, <2>4
<1>7. m.ft = Number(sensor.ft0, i) /\ (ft.has_last => ft.previous = Number(sensor.ft0, j))
  BY <1>3, <1>4, <1>5
<1>8. i >= j <=> m.n >= past.top
  BY <1>2
<1>9. i = j <=> m.n = past.top
  BY <1>2
<1> HIDE DEF i, j
<1>10. /\ Ahead(Number(sensor.ft0, i), Number(sensor.ft0, j)) <=> i >= j
       /\ Number(sensor.ft0, i) = Number(sensor.ft0, j) <=> i = j
  BY <1>5, NumbersCompare
<1> QED
  BY <1>6, <1>7, <1>8, <1>9, <1>10 DEF FarNumbers

\* A wanted record is newer than all before it.
LEMMA WantedIsNew ==
  ASSUME RecordsInv, OrderInv, NEW m, NEW r, NEW f, Seen(m, r, f), Wanted(m, r, f),
         NeverBiased(world) \/ ThresholdNotCrossed(world)
  PROVE  m.n > past.top
<1>1. TypeOK /\ StreamInv /\ RdtInv /\ FtInv
  BY DEF RecordsInv
<1>2. /\ m \in net /\ m.n \in 1 .. MaxRecords /\ m.seq \in Sequences32 /\ m.ft \in Sequences32
      /\ rdt \in RdtTracker /\ r = RdtObserve(rdt, m.seq)
      /\ ft \in FtTracker /\ f = FtObserve(ft, m.ft) /\ pc = "receive"
  BY <1>1, SeenEffect DEF Seen
<1>3. /\ past.top \in Nat /\ sensor.n \in Nat /\ sensor.stream \in Nat
  BY <1>1, PartsTyped DEF InRange
<1>4. CASE NeverBiased(world)
  <2>1. m.n > sensor.stream /\ ~past.mixed
    BY <1>2, <1>4 DEF OrderInv
  <2>2. CASE ~rdt.has_last
    BY <1>1, <1>2, <1>3, <2>1, <2>2 DEF RdtInv
  <2>3. CASE rdt.has_last
    <3>1. r.kind \in {"First", "Duplicate", "OutOfOrder", "Contiguous", "Gap"}
      BY <1>2, RdtObserved
    <3>2. r.kind \in {"First", "Contiguous", "Gap"}
      BY <3>1 DEF Wanted
    <3> QED
      BY <2>1, <2>3, <3>2, RdtRecognises
  <2> QED
    BY <2>2, <2>3
<1>5. CASE ThresholdNotCrossed(world)
  <2>1. f.kind \notin {"Stall", "Backward"}
    BY DEF Wanted, Discontinuity
  <2>2. /\ f.kind \in {"First", "Forward", "Restart"}
        /\ f.kind = "First" => ~ft.has_last
        /\ f.kind = "Forward" => ft.has_last /\ m.ft # ft.previous /\ Ahead(m.ft, ft.previous)
        /\ f.kind = "Restart" =>
             /\ ft.has_last /\ ~Ahead(m.ft, ft.previous)
             /\ ft.previous > RestartLowMax /\ m.ft <= RestartLowMax
    <3>1. f.kind = "Restart" => ConfirmsRestart(ft, m.ft)
      BY <1>2, FtObserved
    <3> QED
      BY <1>2, <2>1, <3>1, FtObserved DEF ConfirmsRestart
  <2>3. FarNumbers(m)
    BY <1>1, <1>2, <1>5, NumbersStayApart DEF RecordsInv
  <2>4. CASE f.kind = "First"
    BY <1>1, <1>2, <2>2, <2>4 DEF FtInv
  <2>5. CASE f.kind = "Forward"
    <3>1. m.n >= past.top /\ m.n # past.top
      BY <2>2, <2>3, <2>5 DEF FarNumbers
    <3> QED
      BY <1>2, <1>3, <3>1
  <2>6. CASE f.kind = "Restart"
    <3>1. ~(m.n >= past.top)
      BY <2>2, <2>3, <2>6 DEF FarNumbers
    <3>2. m.n < past.top
      BY <1>2, <1>3, <3>1
    <3> QED
      BY <1>2, <2>2, <2>3, <2>6, <3>2 DEF FarNumbers, Sequences32
  <2> QED
    BY <2>2, <2>4, <2>5, <2>6
<1> QED
  BY <1>4, <1>5
LEMMA SeenKeepsOrder ==
  ASSUME RecordsInv, OrderInv, NEW m, NEW r, NEW f, Seen(m, r, f),
         NeverBiased(world) \/ ThresholdNotCrossed(world)
  PROVE  OrderInv'
<1>1. TypeOK /\ StreamInv /\ RdtInv /\ FtInv
  BY DEF RecordsInv
<1>2. /\ m \in net /\ m.n \in 1 .. MaxRecords /\ m.ft \in Sequences32
      /\ ft \in FtTracker /\ f = FtObserve(ft, m.ft) /\ pc = "receive"
      /\ net' \subseteq net /\ ft' = f.tracker /\ UNCHANGED <<sensor, world>>
  BY <1>1, SeenEffect DEF Seen
<1>3. past.top \in Nat /\ past.given \in Nat
  BY <1>1, PartsTyped DEF InRange
<1>4. /\ past'.top = IF m.n > past.top THEN m.n ELSE past.top
      /\ past'.base = IF f.kind = "Backward" THEN past.base ELSE m.n
      /\ past'.mixed = ((past.mixed /\ ~(r.kind = "First"))
                         \/ (r.kind \in {"First", "Contiguous", "Gap"} /\ m.n <= sensor.stream))
      /\ past'.given = past.given
      /\ InFlight' => Wanted(m, r, f) /\ held'.n = m.n
  BY <1>1, SeenHistory DEF Recalled
<1>5. past'.given <= past'.top
  BY <1>2, <1>3, <1>4 DEF OrderInv
<1>6. InFlight' => past'.given < held'.n /\ held'.n <= past'.top
  <2>1. Wanted(m, r, f) => m.n > past.top
    BY WantedIsNew
  <2> QED
    BY <1>2, <1>3, <1>4, <2>1 DEF OrderInv
<1>7. ASSUME NeverBiased(world)
      PROVE  ~past'.mixed /\ \A k \in net' : k.n > sensor'.stream
  <2>1. ~past.mixed /\ \A k \in net : k.n > sensor.stream
    BY <1>2, <1>7 DEF OrderInv
  <2>2. m.n > sensor.stream /\ sensor.stream \in Nat
    BY <1>1, <1>2, <2>1, PartsTyped
  <2>3. ~(m.n <= sensor.stream)
    BY <1>2, <2>2
  <2>4. ~past'.mixed
    BY <1>4, <2>1, <2>3, Zenon
  <2> QED
    BY <1>2, <2>1, <2>4
<1>8. ASSUME ThresholdNotCrossed(world)
      PROVE  past'.base = past'.top /\ ft'.previous = Number(sensor.ft0, past'.top - 1)
  <2>1. FarNumbers(m)
    BY <1>2, <1>8, NumbersStayApart
  <2>2. m.ft = Number(sensor.ft0, m.n - 1)
    <3>1. sensor.boot = 0 /\ m.n > 0 /\ m.n - 1 - 0 = m.n - 1
      BY <1>2, <1>8 DEF OrderInv
    <3>2. m.n > sensor.boot
      BY <3>1
    <3>3. m.ft = Number(sensor.ft0, m.n - 1 - sensor.boot)
      BY <1>1, <1>2, <3>2 DEF StreamInv
    <3> QED
      BY <3>1, <3>3
  <2>3. ft.has_last => past.base = past.top /\ ft.previous = Number(sensor.ft0, past.top - 1)
    BY <1>8 DEF OrderInv
  <2>4. /\ f.kind \in {"First", "Stall", "Forward", "Restart", "Backward"}
        /\ f.kind = "First" <=> ~ft.has_last
        /\ f.kind = "Stall" <=> ft.has_last /\ m.ft = ft.previous
        /\ f.kind = "Forward" <=> ft.has_last /\ m.ft # ft.previous /\ Ahead(m.ft, ft.previous)
        /\ f.kind = "Backward" => ft'.previous = ft.previous
        /\ f.kind # "Backward" => ft'.previous = m.ft
    BY <1>2, FtObserved
  <2>5. f.kind # "Restart"
    <3> SUFFICES ASSUME f.kind = "Restart" PROVE FALSE
      OBVIOUS
    <3>1. ConfirmsRestart(ft, m.ft) /\ ft.has_last /\ ~Ahead(m.ft, ft.previous)
      BY <1>2, FtObserved
    <3>2. ~(m.n >= past.top)
      BY <2>1, <3>1 DEF FarNumbers
    <3>3. m.n < past.top
      BY <1>2, <1>3, <3>2
    <3> QED
      BY <1>2, <2>1, <3>1, <3>3 DEF FarNumbers, ConfirmsRestart, Sequences32
  <2>6. CASE f.kind = "Backward"
    <3>1. ft.has_last /\ ~(m.n >= past.top)
      BY <2>1, <2>4, <2>6 DEF FarNumbers
    <3>2. past'.top = past.top /\ past'.base = past.base
      BY <1>2, <1>3, <1>4, <2>6, <3>1
    <3> QED
      BY <2>3, <2>4, <2>6, <3>1, <3>2
  <2>7. CASE f.kind # "Backward"
    <3>1. m.n >= past.top
      <4>1. CASE f.kind = "First"
        BY <1>1, <1>2, <2>4, <4>1 DEF FtInv
      <4>2. CASE f.kind = "Stall"
        BY <1>3, <2>1, <2>4, <4>2 DEF FarNumbers
      <4>3. CASE f.kind = "Forward"
        BY <2>1, <2>4, <4>3 DEF FarNumbers
      <4> QED
        BY <2>4, <2>5, <2>7, <4>1, <4>2, <4>3
    <3>2. past'.top = m.n /\ past'.base = m.n
      BY <1>2, <1>3, <1>4, <2>7, <3>1
    <3> QED
      BY <2>2, <2>4, <2>7, <3>2
  <2> QED
    BY <2>6, <2>7
<1>9. NeverBiased(world)' = NeverBiased(world) /\ ThresholdNotCrossed(world)' = ThresholdNotCrossed(world)
  BY <1>2 DEF NeverBiased, ThresholdNotCrossed
<1> QED
  BY <1>2, <1>5, <1>6, <1>7, <1>8, <1>9 DEF OrderInv

LEMMA OrderNext ==
  ASSUME RecordsInv, OrderInv, Next, NeverBiased(world) \/ ThresholdNotCrossed(world)
  PROVE  /\ OrderInv'
         /\ health'["delivered"] > health["delivered"] => past'.given > past.given
<1>1. TypeOK /\ StreamInv /\ past \in PastRecord /\ health \in [Counters -> Nat]
      /\ past.given \in Nat /\ past.top \in Nat
  BY PartsTyped DEF RecordsInv, InRange
<1>2. UNCHANGED <<config, world>>
  BY DEF Next
<1>3. NeverBiased(world)' = NeverBiased(world) /\ ThresholdNotCrossed(world)' = ThresholdNotCrossed(world)
  BY <1>2 DEF NeverBiased, ThresholdNotCrossed
<1>4. health["delivered"] \in Nat
  BY <1>1 DEF Counters
<1>5. CASE \E m \in net : HandleRecord(m)
  <2>1. PICK m \in net : HandleRecord(m)
    BY <1>5
  <2> DEFINE r == RdtObserve(rdt, m.seq)
             f == FtObserve(ft, m.ft)
  <2>2. Seen(m, r, f)
    BY <1>2, <2>1 DEF Seen
  <2> HIDE DEF r, f
  <2>3. health'["delivered"] = health["delivered"]
    BY <1>1, <2>2, SeenHistory DEF Tallied
  <2> QED
    BY <1>4, <2>2, <2>3, SeenKeepsOrder
<1>6. CASE Emit
  <2>1. /\ UNCHANGED <<pc, ft, held, health, past>>
        /\ sensor' = [sensor EXCEPT !.n = sensor.n + 1]
        /\ \A m \in net' : m \in net \/ m.n = sensor.n + 1
    BY <1>6 DEF Emit, client
  <2>2. sensor'.boot = sensor.boot /\ sensor'.ft0 = sensor.ft0 /\ sensor'.stream = sensor.stream
    BY <1>1, <2>1 DEF TypeOK, SensorRecord
  <2>3. sensor.n + 1 > sensor.stream
    BY <1>1, PartsTyped DEF StreamInv
  <2> QED
    BY <1>2, <1>3, <1>4, <2>1, <2>2, <2>3 DEF OrderInv, InFlight
<1>7. CASE Reboot
  <2>1. /\ UNCHANGED <<pc, ft, held, health, net>> /\ pc = "ended" /\ "reboot" \in world.may
        /\ past' = [past EXCEPT !.rising = 0]
    BY <1>7 DEF Reboot, client
  <2>2. past'.given = past.given /\ past'.top = past.top /\ past'.mixed = past.mixed
    BY <1>1, <2>1 DEF PastRecord
  <2>3. ~ThresholdNotCrossed(world) /\ ~InFlight'
    BY <2>1 DEF ThresholdNotCrossed, InFlight
  <2> QED
    BY <1>3, <1>4, <2>1, <2>2, <2>3 DEF OrderInv
<1>8. CASE Tick
  <2>1. /\ UNCHANGED <<pc, ft, held, health, net, sensor>>
        /\ past' = [past EXCEPT !.apart = Older(@)]
    BY <1>8 DEF Tick
  <2>2. /\ past'.given = past.given /\ past'.top = past.top /\ past'.mixed = past.mixed
        /\ past'.base = past.base
    BY <1>1, <2>1 DEF PastRecord
  <2> QED
    BY <1>2, <1>3, <1>4, <2>1, <2>2 DEF OrderInv, InFlight
<1>9. CASE CallbackReturns \/ EndSession
  <2>1. UNCHANGED <<ft, held, health, net, sensor, past>> /\ (InFlight' => InFlight) /\ pc # "ended"
    BY <1>9 DEF CallbackReturns, EndSession, client, InFlight
  <2> QED
    BY <1>2, <1>3, <1>4, <2>1 DEF OrderInv
<1>10. CASE CallbackThrows
  <2>1. /\ UNCHANGED <<ft, net, sensor>> /\ ~InFlight' /\ pc # "ended"
        /\ health' = [health EXCEPT !["callback_error"] = @ + 1]
        /\ past' = [past EXCEPT !.apart = config.rate_interval]
    BY <1>10 DEF CallbackThrows, InFlight, After
  <2>2. health'["delivered"] = health["delivered"]
    BY <1>1, <2>1 DEF Counters
  <2>3. /\ past'.given = past.given /\ past'.top = past.top /\ past'.mixed = past.mixed
        /\ past'.base = past.base
    BY <1>1, <2>1 DEF PastRecord
  <2> QED
    BY <1>2, <1>3, <1>4, <2>1, <2>2, <2>3 DEF OrderInv
<1>11. CASE Deliver
  <2>1. UNCHANGED <<ft, net, sensor>> /\ InFlight /\ ~InFlight' /\ pc # "ended"
    BY <1>11 DEF Deliver, InFlight, After
  <2>2. past' = [past EXCEPT !.given = held.n]
    BY <1>11 DEF Deliver
  <2>3. /\ past'.given = held.n /\ past'.top = past.top /\ past'.mixed = past.mixed
        /\ past'.base = past.base
    BY <1>1, <2>2 DEF PastRecord
  <2>4. past.given < held.n /\ held.n <= past.top /\ held.n \in Nat
    BY <1>1, <2>1 DEF OrderInv, TypeOK
  <2> QED
    BY <1>1, <1>2, <1>3, <2>1, <2>3, <2>4 DEF OrderInv
<1>12. CASE NextSession
  <2> DEFINE anew == IF config.recovery_policy = "FailStop" THEN config.rate_interval ELSE past.apart
  <2>1. /\ ft' = FtBeginSession(ft) /\ net' = {} /\ StartRealtime /\ ~InFlight'
        /\ UNCHANGED health
    BY <1>12 DEF NextSession, InFlight
  <2>2. past' = [past EXCEPT !.rising = 0, !.apart = anew]
    BY <1>12 DEF NextSession
  <2> HIDE DEF anew
  <2>3. /\ past'.given = past.given /\ past'.top = past.top /\ past'.mixed = past.mixed
        /\ past'.base = past.base
    BY <1>1, <2>2 DEF PastRecord
  <2>4. /\ sensor'.boot = sensor.boot /\ sensor'.ft0 = sensor.ft0
        /\ ft'.has_last = ft.has_last /\ ft'.previous = ft.previous
    BY <1>1, <2>1, StreamStarts, TrackersReset
  <2> QED
    BY <1>2, <1>3, <1>4, <2>1, <2>3, <2>4 DEF OrderInv
<1>13. CASE Bias
  <2>1. UNCHANGED <<pc, ft, held, health, past>> /\ StartRealtime /\ ~NeverBiased(world)
    BY <1>13 DEF Bias, NeverBiased
  <2>2. sensor'.boot = sensor.boot /\ sensor'.ft0 = sensor.ft0
    BY <1>1, <2>1, StreamStarts
  <2> QED
    BY <1>2, <1>3, <1>4, <2>1, <2>2 DEF OrderInv, InFlight
<1> QED
  BY <1>5, <1>6, <1>7, <1>8, <1>9, <1>10, <1>11, <1>12, <1>13 DEF Next

\* Samples are delivered in the order the sensor made them and each at most once, through
\* wrapped numbers, duplicated and late datagrams, new sessions and sensor restarts, if bias()
\* is not called, and with calls of bias() at any time if the sensor does not restart and its
\* FT numbers, which may wrap, do not rise across the threshold of a restart.  Without the
\* condition it is not so: see RecordsStale.cfg.
THEOREM SamplesComeInOrder ==
  ASSUME \A s \in Scenarios : NeverBiased(s.world) \/ ThresholdNotCrossed(s.world)
  PROVE  Spec => SamplesInOrder
<1> DEFINE Rising == health'["delivered"] > health["delivered"] => past'.given > past.given
<1>1. TypeOK => NeverBiased(world) \/ ThresholdNotCrossed(world)
  BY DEF TypeOK
<1>2. Init => OrderInv
  <2> SUFFICES ASSUME Init PROVE OrderInv
    OBVIOUS
  <2>1. TypeOK
    BY RecordsInit DEF RecordsInv
  <2>2. past.given = 0 /\ past.top = 0 /\ past.mixed = FALSE
    BY DEF Init
  <2>3. PICK f, q \in world.numbers :
          sensor = [n |-> 0, boot |-> 0, ft0 |-> f, stream |-> 0, seq0 |-> q]
    BY DEF Init
  <2>4. pc = "receive" /\ ~ft.has_last /\ net = {}
    BY DEF Init, NewFtTracker
  <2>5. sensor.boot = 0 /\ sensor.ft0 \in world.numbers
    BY <2>3
  <2> QED
    BY <2>2, <2>4, <2>5 DEF OrderInv, InFlight, ThresholdNotCrossed
<1>3. RecordsInv /\ OrderInv /\ [Next]_vars => OrderInv' /\ [Rising]_vars
  <2> SUFFICES ASSUME RecordsInv, OrderInv, [Next]_vars PROVE OrderInv' /\ [Rising]_vars
    OBVIOUS
  <2>1. CASE UNCHANGED vars
    <3>1. UNCHANGED <<world, pc, ft, held, sensor, net, past>>
      BY <2>1 DEF vars, client
    <3> QED
      BY <2>1, <3>1 DEF OrderInv, InFlight, NeverBiased, ThresholdNotCrossed
  <2>2. CASE Next
    BY <1>1, <2>2, OrderNext DEF RecordsInv
  <2> QED
    BY <2>1, <2>2
<1> QED
  BY <1>2, <1>3, RecordsInvariant, PTL DEF Spec, SamplesInOrder

=============================================================================
