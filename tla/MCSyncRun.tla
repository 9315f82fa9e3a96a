----------------------------- MODULE MCSyncRun -----------------------------
(***************************************************************************)
(* Small instances of SyncRun for TLC: run names are model values, the     *)
(* windows overlap so that coverage of one day changes hands.              *)
(***************************************************************************)

EXTENDS SyncRun, TLC

CONSTANTS r1, r2

TwoWindows == r1 :> {1, 2} @@ r2 :> {2}
SameDay == [r \in Runs |-> {1}]
=============================================================================
