----------------------------- MODULE MCDiscovery -----------------------------
(***************************************************************************)
(* The instance of Discovery: one field of each kind but a force unit, and *)
(* an element whose name only begins like a field's.                       *)
(***************************************************************************)
EXTENDS Discovery

SampleKinds == [prodname |-> "name", cfgcpf |-> "count", scfgtu |-> "torque"]

=============================================================================
