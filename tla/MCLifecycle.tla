----------------------------- MODULE MCLifecycle -----------------------------
(***************************************************************************)
(* Lifecycle for TLC.  Application threads are interchangeable; worker     *)
(* threads are not, since they are numbered by the start that made them.   *)
(***************************************************************************)
EXTENDS Lifecycle, TLC

Symmetry == Permutations(Callers)

=============================================================================
