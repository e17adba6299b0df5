--------------------------- MODULE ContractProofs ----------------------------
(***************************************************************************)
(* What follows from ClientContract alone, for whatever implements it: the *)
(* promises an application may rely on without looking at threads.         *)
(***************************************************************************)
EXTENDS ClientContract, TLAPS

States == {"Connecting", "Streaming", "Backoff", "Stopped", "Faulted"}
Ends   == {"Stopped", "Faulted"}

\* A report of one start: the latest sample is its own, a fault is shown.
Whole(shown, latched) ==
  /\ shown = [state |-> shown.state, start |-> shown.start, latest |-> shown.latest]
  /\ shown.state \in States /\ shown.start \in Nat /\ shown.latest \in {0, shown.start}
  /\ shown.state = "Faulted" <=> latched # "None"

\* Starts come one after the other: at most one runs, and it is the one reported.
OneStart ==
  /\ running = {} \/ running = {report.start}
  /\ phase \in {"settled", "opening", "undoing"} /\ (phase # "settled" => running = {})

\* The sensor streams for a running start only.
StreamHasStart == streaming \in BOOLEAN /\ (streaming => running # {})

\* A client at rest has reported an end.
RestIsReported == running = {} /\ phase = "settled" => report.state \in Ends

\* What is shown is a whole report, but for the step between the two halves of a rollback.
ShownIsWhole == phase # "undoing" => Whole(report, fault)

\* A start that is being opened or undone keeps a whole report of the one before.
RollbackInv ==
  /\ phase = "opening" => before.report.start < report.start /\ fault = "None"
  /\ phase = "undoing" => report = before.report /\ fault = "None"
  /\ phase # "settled" => Whole(before.report, before.fault) /\ before.report.state \in Ends

Promises == OneStart /\ StreamHasStart /\ RestIsReported /\ ShownIsWhole

ContractInv == Promises /\ RollbackInv

\* A new client has reported its end.
LEMMA ContractInit ==
  Init => ContractInv
<1> SUFFICES ASSUME Init PROVE ContractInv
  OBVIOUS
<1>1. /\ running = {} /\ phase = "settled" /\ fault = "None" /\ streaming = FALSE
      /\ report = [state |-> "Stopped", start |-> 0, latest |-> 0]
  BY DEF Init
<1>2. Whole(report, fault)
  BY <1>1 DEF Whole, States
<1> QED
  BY <1>1, <1>2 DEF ContractInv, Promises, OneStart, StreamHasStart, RestIsReported, ShownIsWhole,
                    RollbackInv, Ends

\* A running start's report changes only in its state or its latest sample.
LEMMA ActiveReports ==
  ASSUME ContractInv, Active, running' = running, phase' = phase, before' = before,
         report'.start = report.start, Whole(report', fault'), streaming' = streaming
  PROVE  ContractInv'
<1>1. phase = "settled" /\ running # {}
  BY DEF Active, ContractInv, Promises, OneStart
<1> QED
  BY <1>1 DEF ContractInv, Promises, OneStart, StreamHasStart, RestIsReported, ShownIsWhole,
              RollbackInv

\* Every step of the contract keeps the promises.
LEMMA ContractNext ==
  ContractInv /\ [Next]_contractVars => ContractInv'
<1> SUFFICES ASSUME ContractInv, [Next]_contractVars PROVE ContractInv'
  OBVIOUS
<1> USE DEF ContractInv, Promises
<1>1. CASE UNCHANGED contractVars
  BY <1>1 DEF contractVars, OneStart, StreamHasStart, RestIsReported, ShownIsWhole, RollbackInv
<1>2. CASE Open
  <2>1. Whole(report, fault) /\ report.state \in Ends
    BY <1>2 DEF Open, RestIsReported, ShownIsWhole
  <2>2. /\ report' = [state |-> "Connecting", start |-> report'.start, latest |-> 0]
        /\ report'.start \in Nat /\ report'.start > report.start /\ report.start \in Nat
        /\ fault' = "None" /\ phase' = "opening" /\ running' = {} /\ streaming' = streaming
        /\ running = {}
    BY <1>2, <2>1 DEF Open, Whole
  <2>3. before'.report = report /\ before'.fault = fault
    BY <1>2 DEF Open
  <2>4. Whole(report', fault')
    BY <2>2 DEF Whole, States
  <2>5. RollbackInv'
    BY <2>1, <2>2, <2>3 DEF RollbackInv
  <2> QED
    BY <2>2, <2>4, <2>5 DEF OneStart, StreamHasStart, RestIsReported, ShownIsWhole
<1>3. CASE Run
  <2>1. Whole(report, fault) /\ phase' = "settled" /\ running' = {report.start}
        /\ UNCHANGED <<report, fault, streaming>>
    BY <1>3 DEF Run, ShownIsWhole
  <2> QED
    BY <2>1 DEF OneStart, StreamHasStart, RestIsReported, ShownIsWhole, RollbackInv
<1>4. CASE UndoReport
  <2>1. /\ phase = "opening" /\ phase' = "undoing" /\ report' = before.report
        /\ UNCHANGED <<running, fault, streaming, before>>
    BY <1>4 DEF UndoReport
  <2> QED
    BY <2>1 DEF OneStart, StreamHasStart, RestIsReported, ShownIsWhole, RollbackInv
<1>5. CASE UndoFault
  <2>1. /\ phase = "undoing" /\ phase' = "settled" /\ fault' = before.fault
        /\ UNCHANGED <<running, report, streaming>>
    BY <1>5 DEF UndoFault
  <2> QED
    BY <2>1 DEF OneStart, StreamHasStart, RestIsReported, ShownIsWhole, RollbackInv
<1>6. CASE Progress \/ Deliver \/ Latch
  <2>1. Active /\ UNCHANGED <<running, phase, streaming, before>>
    BY <1>6 DEF Progress, Deliver, Latch
  <2>2. Whole(report, fault) /\ fault = "None"
    BY <2>1 DEF Active, OneStart, ShownIsWhole
  <2>3. report'.start = report.start /\ Whole(report', fault')
    <3>1. CASE Progress
      <4>1. PICK s \in {"Connecting", "Streaming", "Backoff"} : report' = [report EXCEPT !.state = s]
        BY <3>1 DEF Progress
      <4>2. /\ report'.state = s /\ report'.start = report.start /\ report'.latest = report.latest
            /\ report' = [state |-> report'.state, start |-> report'.start, latest |-> report'.latest]
        BY <2>2, <4>1 DEF Whole
      <4>3. fault' = "None"
        BY <2>2, <3>1 DEF Progress
      <4> QED
        BY <2>2, <4>2, <4>3 DEF Whole, States
    <3>2. CASE Deliver
      <4>1. report' = [report EXCEPT !.latest = report.start] /\ fault' = "None"
        BY <2>2, <3>2 DEF Deliver
      <4>2. /\ report'.state = report.state /\ report'.start = report.start
            /\ report'.latest = report.start
            /\ report' = [state |-> report'.state, start |-> report'.start, latest |-> report'.latest]
        BY <2>2, <4>1 DEF Whole
      <4> QED
        BY <2>2, <4>1, <4>2 DEF Whole
    <3>3. CASE Latch
      <4>1. report' = [report EXCEPT !.state = "Faulted"] /\ fault' # "None"
        BY <3>3 DEF Latch
      <4>2. /\ report'.state = "Faulted" /\ report'.start = report.start
            /\ report'.latest = report.latest
            /\ report' = [state |-> report'.state, start |-> report'.start, latest |-> report'.latest]
        BY <2>2, <4>1 DEF Whole
      <4> QED
        BY <2>2, <4>1, <4>2 DEF Whole, States
    <3> QED
      BY <1>6, <3>1, <3>2, <3>3
  <2> QED
    BY <2>1, <2>3, ActiveReports
<1>7. CASE Settle
  <2>1. /\ fault = "None" /\ phase = "settled" /\ report' = [report EXCEPT !.state = "Stopped"]
        /\ UNCHANGED <<running, phase, fault, streaming, before>>
    BY <1>7 DEF Settle
  <2>2. /\ report'.state = "Stopped" /\ report'.start = report.start /\ report'.latest = report.latest
        /\ report' = [state |-> report'.state, start |-> report'.start, latest |-> report'.latest]
    BY <2>1 DEF ShownIsWhole, Whole
  <2>3. Whole(report', fault')
    BY <2>1, <2>2 DEF ShownIsWhole, Whole, States
  <2> QED
    BY <2>1, <2>2, <2>3 DEF OneStart, StreamHasStart, RestIsReported, ShownIsWhole, RollbackInv, Ends
<1>8. CASE Stream
  <2>1. UNCHANGED <<running, phase, report, fault, before>> /\ streaming' \in BOOLEAN
    BY <1>8 DEF Stream
  <2>2. running # {}
    BY <1>8 DEF Stream, Active, StreamHasStart
  <2> QED
    BY <2>1, <2>2 DEF OneStart, StreamHasStart, RestIsReported, ShownIsWhole, RollbackInv
<1>9. CASE Leave
  BY <1>9 DEF Leave, OneStart, StreamHasStart, RestIsReported, ShownIsWhole, RollbackInv, Ends
<1> QED
  BY <1>1, <1>2, <1>3, <1>4, <1>5, <1>6, <1>7, <1>8, <1>9 DEF Next

\* The inductive invariant of the contract.
LEMMA ContractInvariant ==
  Spec => []ContractInv
BY ContractInit, ContractNext, PTL DEF Spec

\* Whoever keeps the contract runs one start at a time, the one it reports; streams only for a
\* running start; shows samples of that start only and a fault exactly while one is latched; and
\* rests only after it has reported an end.
THEOREM PromisesKept ==
  Spec => []Promises
BY ContractInvariant, PTL DEF ContractInv

\* Under the contract, the report of a start that has ended is final.
THEOREM EndsAreFinal ==
  Spec => EndIsFinal
<1> DEFINE Final == report.state \in {"Stopped", "Faulted"} /\ report'.start = report.start
                      => report' = report
<1>1. ContractInv /\ [Next]_contractVars => [Final]_contractVars
  <2> SUFFICES ASSUME ContractInv, Next, report.state \in {"Stopped", "Faulted"},
                      report'.start = report.start
               PROVE  report' = report
    BY DEF contractVars
  <2>1. CASE Open
    <3>1. Whole(report, fault)
      BY <2>1 DEF Open, ContractInv, Promises, ShownIsWhole
    <3> QED
      BY <2>1, <3>1 DEF Open, Whole
  <2>2. CASE Run \/ UndoFault \/ Stream \/ Leave
    BY <2>2 DEF Run, UndoFault, Stream, Leave
  <2>3. CASE UndoReport
    <3>1. before.report.start < report.start /\ Whole(before.report, before.fault)
          /\ Whole(report, fault)
      BY <2>3 DEF UndoReport, ContractInv, Promises, RollbackInv, ShownIsWhole
    <3> QED
      BY <2>3, <3>1 DEF UndoReport, Whole
  <2>4. CASE Progress \/ Deliver \/ Latch
    <3>1. Active
      BY <2>4 DEF Progress, Deliver, Latch
    <3> QED
      BY <3>1 DEF Active, ContractInv, Promises, OneStart, ShownIsWhole, Whole
  <2>5. CASE Settle
    <3>1. /\ phase = "settled" /\ fault = "None" /\ Whole(report, fault)
          /\ report' = [report EXCEPT !.state = "Stopped"]
      BY <2>5 DEF Settle, ContractInv, Promises, ShownIsWhole
    <3>2. report.state = "Stopped"
      BY <3>1 DEF Whole
    <3> QED
      BY <3>1, <3>2 DEF Whole
  <2> QED
    BY <2>1, <2>2, <2>3, <2>4, <2>5 DEF Next
<1> QED
  BY <1>1, ContractInvariant, PTL DEF Spec, EndIsFinal

\* The fault an application reads is the first one: nothing replaces or clears it but a start.
FirstFaultStays ==
  [][fault # "None" /\ fault' # fault => report'.start > report.start]_contractVars

\* Under the contract, fault_code() keeps the first fault of a start until the next one is
\* opened; a rollback only puts back what there was.
THEOREM FirstFaultIsKept ==
  Spec => FirstFaultStays
<1> DEFINE Kept == fault # "None" /\ fault' # fault => report'.start > report.start
<1>1. ContractInv /\ [Next]_contractVars => [Kept]_contractVars
  <2> SUFFICES ASSUME ContractInv, Next, fault # "None", fault' # fault
               PROVE  report'.start > report.start
    BY DEF contractVars
  <2>1. CASE Open
    BY <2>1 DEF Open
  <2>2. CASE UndoFault
    BY <2>2 DEF UndoFault, ContractInv, RollbackInv
  <2>3. CASE ~Open /\ ~UndoFault
    BY <2>3 DEF Next, Run, UndoReport, Progress, Deliver, Latch, Settle, Stream, Leave, Active
  <2> QED
    BY <2>1, <2>2, <2>3
<1> QED
  BY <1>1, ContractInvariant, PTL DEF Spec, FirstFaultStays

=============================================================================
