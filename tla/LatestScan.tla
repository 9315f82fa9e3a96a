----------------------------- MODULE LatestScan -----------------------------
(***************************************************************************)
(* What coverage promises of each day on its own: the scan that last read  *)
(* it completely, or none.  The stored intervals of Coverage implement it. *)
(***************************************************************************)
EXTENDS Integers

CONSTANTS
    Days,    \* days that can be covered
    Scans,   \* what identifies a completed scan of an interval
    NoScan   \* a day never covered

VARIABLE scan   \* scan[d]: the latest scan of day d

LatestScanInit == scan = [d \in Days |-> NoScan]

CoverDays(s, from, to) ==
    scan' = [d \in Days |-> IF from <= d /\ d <= to THEN s ELSE scan[d]]

LatestScanNext == \E s \in Scans, from \in Days, to \in Days : CoverDays(s, from, to)

LatestScanSpec == LatestScanInit /\ [][LatestScanNext]_scan
=============================================================================
