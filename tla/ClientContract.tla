---------------------------- MODULE ClientContract ---------------------------
(***************************************************************************)
(* What a client promises its application and its sensor, without threads  *)
(* and locks: the specification Lifecycle is shown to implement.           *)
(*                                                                         *)
(* A start is opened and then runs, or is undone as if it had never been.  *)
(* While it runs, and until it reports Stopped or a fault, it delivers     *)
(* samples of its own; the first fault stays until the next start.  It     *)
(* ends only after it has reported so and has told the sensor to stop      *)
(* streaming.  No start is opened while another one is open or runs.       *)
(***************************************************************************)
EXTENDS Integers

VARIABLES
  running,     \* the starts whose worker runs
  phase,       \* "settled", or "opening" or "undoing" a start
  report,      \* what health() and latest_sample() show: state, the start, its latest sample
  fault,       \* fault_code()
  streaming,   \* the sensor has been told to stream, and no stop has been tried yet
  before       \* report and fault when the start was opened

contractVars == <<running, phase, report, fault, streaming, before>>

Init ==
  /\ running = {} /\ phase = "settled"
  /\ report = [state |-> "Stopped", start |-> 0, latest |-> 0]
  /\ fault = "None" /\ streaming = FALSE

Open ==
  /\ running = {} /\ phase = "settled"
  /\ phase' = "opening"
  /\ report' = [state |-> "Connecting", start |-> report'.start, latest |-> 0]
  /\ report'.start \in Nat /\ report'.start > report.start
  /\ fault' = "None"
  /\ before' = [report |-> report, fault |-> fault]
  /\ UNCHANGED <<running, streaming>>

Run ==
  /\ phase = "opening" /\ phase' = "settled"
  /\ running' = {report.start}
  /\ UNCHANGED <<report, fault, streaming>>

\* The worker cannot be created: first the report is put back, then the fault.
UndoReport ==
  /\ phase = "opening" /\ phase' = "undoing"
  /\ report' = before.report
  /\ UNCHANGED <<running, fault, streaming, before>>

UndoFault ==
  /\ phase = "undoing" /\ phase' = "settled"
  /\ fault' = before.fault
  /\ UNCHANGED <<running, report, streaming>>

-----------------------------------------------------------------------------

Active == running = {report.start} /\ fault = "None" /\ report.state # "Stopped"

Progress ==
  /\ Active
  /\ \E s \in {"Connecting", "Streaming", "Backoff"} : report' = [report EXCEPT !.state = s]
  /\ UNCHANGED <<running, phase, fault, streaming, before>>

Deliver ==
  /\ Active /\ report.state = "Streaming"
  /\ report' = [report EXCEPT !.latest = report.start]
  /\ UNCHANGED <<running, phase, fault, streaming, before>>

Latch ==
  /\ Active
  /\ fault' # "None"
  /\ report' = [report EXCEPT !.state = "Faulted"]
  /\ UNCHANGED <<running, phase, streaming, before>>

Settle ==
  /\ fault = "None" /\ phase = "settled"
  /\ report' = [report EXCEPT !.state = "Stopped"]
  /\ UNCHANGED <<running, phase, fault, streaming, before>>

Stream ==
  /\ Active \/ streaming
  /\ streaming' = ~streaming
  /\ UNCHANGED <<running, phase, report, fault, before>>

Leave ==
  /\ running # {} /\ report.state \in {"Stopped", "Faulted"} /\ ~streaming
  /\ running' = {}
  /\ UNCHANGED <<phase, report, fault, streaming, before>>

Next ==
  \/ Open \/ Run \/ UndoReport \/ UndoFault
  \/ Progress \/ Deliver \/ Latch \/ Settle \/ Stream \/ Leave

Spec == Init /\ [][Next]_contractVars

-----------------------------------------------------------------------------

\* What health() and latest_sample() show of a start that has reported its end, Stopped or
\* Faulted, is final: no late sample, no other state, until the next start or the rollback of
\* a failed one shows another start.
EndIsFinal ==
  [][report.state \in {"Stopped", "Faulted"} /\ report'.start = report.start
       => report' = report]_contractVars

=============================================================================
