------------------------------ MODULE MCAppWindow ------------------------------
(* Small instances of AppWindow for TLC. *)
EXTENDS AppWindow, TLC

WorkerSymmetry == Permutations(Workers)
================================================================================
