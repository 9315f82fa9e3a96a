--------------------------- MODULE MCInstallation ---------------------------
(* Three services, of which two ask the gate at their entry point. *)
EXTENDS Installation, TLC
=============================================================================
