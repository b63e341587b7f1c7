------------------------------ MODULE MCSSHVault -------------------------------
(* Small instances of SSHVault for TLC. *)
EXTENDS SSHVault, TLC
================================================================================
