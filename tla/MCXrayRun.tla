------------------------------- MODULE MCXrayRun -------------------------------
(* Small instances of XrayRun for TLC, and the inductive invariant as a run. *)
EXTENDS XrayRun, TLC

RunSymmetry == Permutations(Runs) \cup Permutations(Ports)
================================================================================
