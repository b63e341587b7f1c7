---------------------------- MODULE MCBatchAnalysis ----------------------------
(* Small instances of BatchAnalysis for TLC. *)
EXTENDS BatchAnalysis, TLC
================================================================================
