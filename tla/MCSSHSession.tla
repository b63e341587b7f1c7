------------------------------ MODULE MCSSHSession -----------------------------
(* Small instances of SSHSession for TLC. *)
EXTENDS SSHSession, TLC
================================================================================
