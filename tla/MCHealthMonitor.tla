---------------------------- MODULE MCHealthMonitor ----------------------------
(* Small instances of HealthMonitor for TLC. *)
EXTENDS HealthMonitor, TLC

TimerSymmetry == Permutations(Timers)
================================================================================
