-------------------------- MODULE SequenceTrackers ---------------------------
(***************************************************************************)
(* RdtSequenceTracker and FtSequenceTracker, as functions from a tracker   *)
(* and a sequence number to what was observed and the tracker afterwards.  *)
(* In the code the numbers have 32 bits (Modulus = 2^32) and a restarted   *)
(* sensor counts from below RestartLowMax + 1 = 2^16.                      *)
(***************************************************************************)
EXTENDS Integers

CONSTANTS Modulus, RestartLowMax

ASSUME TrackersAssumption ==
  /\ Modulus \in Nat /\ Modulus >= 4 /\ Modulus % 2 = 0
  /\ RestartLowMax \in Nat /\ RestartLowMax + 1 < Modulus

Sequences32 == 0 .. (Modulus - 1)     \* std::uint32_t

RdtTracker == [has_last : BOOLEAN, previous : Sequences32]
FtTracker  == [has_last : BOOLEAN, previous : Sequences32,
               has_restart_candidate : BOOLEAN, restart_candidate : Sequences32]

NewRdtTracker == [has_last |-> FALSE, previous |-> 0]
NewFtTracker  == [has_last |-> FALSE, previous |-> 0,
                  has_restart_candidate |-> FALSE, restart_candidate |-> 0]

\* Unsigned subtraction, and the half of the range that counts as ahead.
Delta(current, previous) == (current - previous) % Modulus
Ahead(current, previous) == Delta(current, previous) < Modulus \div 2

\* Fault injections: a plain comparison, wrong once the number wraps; every record has a gap.
BehindByValue(current, previous) == current < previous
GapAlways(kind, delta) == delta - 1

Behind(current, previous) == ~Ahead(current, previous)

Gap(kind, delta) == IF kind = "Gap" THEN delta - 1 ELSE 0

RdtObserve(tracker, current) ==
  LET delta == Delta(current, tracker.previous)
      kind  == IF ~tracker.has_last THEN "First"
               ELSE IF delta = 0 THEN "Duplicate"
               ELSE IF Behind(current, tracker.previous) THEN "OutOfOrder"
               ELSE IF delta = 1 THEN "Contiguous" ELSE "Gap"
  IN [kind |-> kind, gap |-> Gap(kind, delta),
      tracker |-> IF kind \in {"Duplicate", "OutOfOrder"} THEN tracker
                  ELSE [has_last |-> TRUE, previous |-> current]]

\* RdtSequenceTracker::reset keeps previous_, which is read no more.
RdtReset(tracker) == NewRdtTracker

\* FtSequenceTracker::begin_session: the history stays, an unconfirmed restart does not.
FtBeginSession(tracker) == [tracker EXCEPT !.has_restart_candidate = FALSE,
                                           !.restart_candidate = 0]

\* Fault injections: any second backward step confirms a restart; none does.
ConfirmsAny(tracker, current)  == tracker.has_restart_candidate
ConfirmsNone(tracker, current) == FALSE

\* The second of two rising low numbers after a high one confirms a sensor restart.
ConfirmsRestart(tracker, current) ==
  /\ tracker.previous > RestartLowMax /\ tracker.has_restart_candidate
  /\ tracker.restart_candidate <= RestartLowMax /\ current <= RestartLowMax
  /\ current # tracker.restart_candidate /\ Ahead(current, tracker.restart_candidate)

FtObserve(tracker, current) ==
  LET kind == IF ~tracker.has_last THEN "First"
              ELSE IF current = tracker.previous THEN "Stall"
              ELSE IF Ahead(current, tracker.previous) THEN "Forward"
              ELSE IF ConfirmsRestart(tracker, current) THEN "Restart" ELSE "Backward"
  IN [kind |-> kind,
      tracker |-> [has_last |-> TRUE,
                   previous |-> IF kind = "Backward" THEN tracker.previous ELSE current,
                   has_restart_candidate |-> kind = "Backward",
                   restart_candidate |-> IF kind = "Backward" THEN current ELSE 0]]

=============================================================================
