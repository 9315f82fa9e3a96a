----------------------------- MODULE MCCoverage -----------------------------
(* Three covering runs over six days: enough for an interval to be split   *)
(* on both sides, replaced and trimmed, and for an answer to be bounded.    *)
EXTENDS Coverage
=============================================================================
