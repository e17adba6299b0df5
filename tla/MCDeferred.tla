------------------------------ MODULE MCDeferred -----------------------------
(***************************************************************************)
(* The client and its end for TLC's liveness checks.  Calls and spurious   *)
(* wake-ups are bounded by MaxEvents: after the last one nobody competes   *)
(* for lifecycle_mutex_ for ever, and weak fairness is enough.             *)
(***************************************************************************)
EXTENDS Deferred

CONSTANT MaxEvents

VARIABLE events

LiveInit == DeferredInit /\ events = 0

LiveNext ==
  \/ /\ events < MaxEvents /\ events' = events + 1
     /\ \E t \in Threads : Event(t)
  \/ (ClientStep \/ DestroyStep) /\ UNCHANGED events

LiveSpec ==
  /\ LiveInit /\ [][LiveNext]_<<deferredVars, events>>
  /\ Fairness /\ WF_deferredVars(DestroyStep)

=============================================================================
