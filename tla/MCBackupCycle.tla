--------------------------- MODULE MCBackupCycle ---------------------------
(* Two captures, each of which can expire. *)
EXTENDS BackupCycle, TLC
=============================================================================
