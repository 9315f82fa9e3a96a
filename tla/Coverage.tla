------------------------------ MODULE Coverage ------------------------------
(***************************************************************************)
(* The stored coverage of one provider: the table                          *)
(* catalogue.synchronization_coverage, the four statements by which a      *)
(* completed run becomes the latest scan of its interval, and the two      *)
(* queries that read it back.                                              *)
(*                                                                         *)
(* A day is an integer.  cover() runs in the transaction that completes a  *)
(* fenced run, so it is one step; its statements are operators, because    *)
(* the primary key is checked by each of them and not at the commit.       *)
(***************************************************************************)
EXTENDS Integers, FiniteSets, Sequences, FiniteSetsExt, SequencesExt

CONSTANTS
    FirstDay, LastDay,     \* days that runs cover
    Revisions,             \* import policy revisions the deployed versions have
    MaxCovers,             \* bound: completed covering runs
    MaxCoveredIntervals,   \* SynchronizationCoverageService.MAX_COVERED_INTERVALS
    NoScan                 \* a day, or a period of an answer, never covered

ASSUME DaysAssumption == FirstDay \in Int /\ LastDay \in Int
ASSUME LimitsAssumption ==
    /\ Revisions # {}
    /\ MaxCovers \in Nat
    /\ MaxCoveredIntervals \in Nat \ {0}

Days == FirstDay..LastDay
Scans == [run : 1..MaxCovers, revision : Revisions]
ASSUME NoScanAssumption == NoScan \notin Scans

VARIABLES
    rows,      \* the stored intervals
    revision,  \* ImportPolicyRevision.CURRENT of the deployed version
    covers     \* how many runs have covered an interval; the last one's run id

vars == <<rows, revision, covers>>

Intervals == [from : Int, to : Int, scan : Scans]

Init ==
    /\ rows = {}
    /\ revision \in Revisions
    /\ covers = 0

Holds(i, d) == i.from <= d /\ d <= i.to

-----------------------------------------------------------------------------
(* cover(): the statements, in order.                                      *)

(* A bug: the part after the new interval is not kept. *)
SplitNothing(table, to) == table

(* An interval crossing the end of the new one keeps a remainder after it. *)
SplitAfter(table, to) ==
    table \union {[i EXCEPT !.from = to + 1] : i \in {j \in table : j.to > to /\ Holds(j, to)}}

(* The interval crossing its start ends before it. *)
TrimBefore(table, from) ==
    {IF i.from < from /\ Holds(i, from) THEN [i EXCEPT !.to = from - 1] ELSE i : i \in table}

(* Intervals that start inside it are replaced. *)
DropInside(table, from, to) == {i \in table : ~(from <= i.from /\ i.from <= to)}

Remainders(from, to) == DropInside(TrimBefore(SplitAfter(rows, to), from), from, to)

NewInterval(from, to) ==
    [from |-> from, to |-> to, scan |-> [run |-> covers + 1, revision |-> revision]]

Cover(from, to) ==
    /\ from <= to
    /\ covers < MaxCovers
    /\ rows' = Remainders(from, to) \union {NewInterval(from, to)}
    /\ covers' = covers + 1
    /\ UNCHANGED revision

(* Another version is deployed, an earlier one after a rollback included. *)
Deploy ==
    /\ revision' \in Revisions
    /\ UNCHANGED <<rows, covers>>

Next == Deploy \/ \E from \in Days, to \in Days : Cover(from, to)

Spec == Init /\ [][Next]_vars

-----------------------------------------------------------------------------
(* The queries.                                                            *)

Earliest(a, b) == IF a < b THEN a ELSE b
Latest(a, b) == IF a < b THEN b ELSE a

Overlaps(i, from, to) == i.from <= to /\ from <= i.to

SharedDays(i, from, to) == Earliest(i.to, to) - Latest(i.from, from) + 1

(* A bug: an interval scanned under another import policy counts. *)
CoveredUnderAnyPolicy(from, to) ==
    MapThenSumSet(LAMBDA i : SharedDays(i, from, to), {i \in rows : Overlaps(i, from, to)})
        = to - from + 1

(* covered(): the overlaps with intervals of the current policy add up to the range. *)
Covered(from, to) ==
    MapThenSumSet(LAMBDA i : SharedDays(i, from, to),
                  {i \in rows : i.scan.revision = revision /\ Overlaps(i, from, to)})
        = to - from + 1

(* ORDER BY the first day. *)
ByFirstDay(found) ==
    CHOOSE s \in [1..Cardinality(found) -> found] :
        \A m, n \in 1..Cardinality(found) : m < n => s[m].from < s[n].from

(* A bug: the interval that began before the range is not looked up. *)
StoredFromStart(from, to) == ByFirstDay({i \in rows : Overlaps(i, from, to) /\ from <= i.from})

(* coveredIntervals(), before its limit: intervals that overlap the range,  *)
(* from the last one that starts on or before its first day.                *)
StoredIntervals(from, to) ==
    LET before == {i.from : i \in {j \in rows : j.from <= from}}
        first == IF before = {} THEN from ELSE Max(before)
    IN ByFirstDay({i \in rows : Overlaps(i, from, to) /\ first <= i.from})

Period(from, to, scan) == [from |-> from, to |-> to, scan |-> scan]

(* One turn of the loop of coverage(): the gap before a stored interval, if *)
(* there is one, and the part of the interval inside the range.             *)
AddInterval(answer, i, from, to) ==
    LET start == Latest(i.from, from)
        end == Earliest(i.to, to)
        gap == IF start > answer.next
                 THEN <<Period(answer.next, start - 1, NoScan)>> ELSE <<>>
    IN [periods |-> answer.periods \o gap \o <<Period(start, end, i.scan)>>, next |-> end + 1]

(* The loop, over the stored intervals that are not cut off. *)
ReadIntervals(stored, from, to) ==
    FoldLeft(LAMBDA answer, i : AddInterval(answer, i, from, to),
             [periods |-> <<>>, next |-> from], stored)

(* coverage(): the periods, the day it continues from (or none) as `next`,  *)
(* and whether the answer is bounded.                                       *)
CoverageAnswer(from, to) ==
    LET stored == StoredIntervals(from, to)
        bounded == Len(stored) > MaxCoveredIntervals
        kept == IF bounded THEN SubSeq(stored, 1, MaxCoveredIntervals) ELSE stored
        read == ReadIntervals(kept, from, to)
        rest == IF ~bounded /\ read.next <= to
                  THEN <<Period(read.next, to, NoScan)>> ELSE <<>>
    IN [periods |-> read.periods \o rest, bounded |-> bounded, next |-> read.next]

-----------------------------------------------------------------------------
(* Properties.                                                             *)

TypeOK ==
    /\ rows \subseteq Intervals
    /\ revision \in Revisions
    /\ covers \in 0..MaxCovers

(* No interval is empty and no two overlap: the deferred exclusion          *)
(* constraint of the table never rejects the completion of a run.           *)
Disjoint ==
    /\ \A i \in rows : i.from <= i.to
    /\ \A i, j \in rows : i # j => i.to < j.from \/ j.to < i.from

(* The day-by-day reading of the stored intervals. *)
ScanOf(d) ==
    IF \E i \in rows : Holds(i, d) THEN (CHOOSE i \in rows : Holds(i, d)).scan ELSE NoScan

(* The intervals implement LatestScan: splitting, trimming and replacing    *)
(* them changes the days of the new interval and no other day.              *)
Latest_ == INSTANCE LatestScan WITH scan <- [d \in Days |-> ScanOf(d)]
ImplementsLatestScan == Latest_!LatestScanSpec

(* covered() says yes exactly when every day of the month was last scanned  *)
(* under the current import policy, however fragmented its coverage is: the *)
(* backfill skips a month on that answer.                                   *)
CoveredIsEveryDay ==
    \A from \in Days, to \in Days : from <= to =>
        (Covered(from, to) <=>
            \A d \in from..to : ScanOf(d) # NoScan /\ ScanOf(d).revision = revision)

(* A coverage answer is exact: its periods follow one another from the      *)
(* first day without gap or overlap, each day of a period has the period's  *)
(* latest scan, and the answer ends at the last day or says where it goes   *)
(* on, which is always further on, so reading the rest ends.                *)
AnswersAreExact ==
    \A from \in Days, to \in Days : from <= to =>
        LET answer == CoverageAnswer(from, to)
            p == answer.periods
        IN /\ p # <<>>
           /\ p[1].from = from
           /\ \A n \in 1..Len(p) :
                /\ p[n].from <= p[n].to
                /\ n > 1 => p[n].from = p[n - 1].to + 1
                /\ \A d \in p[n].from..p[n].to : ScanOf(d) = p[n].scan
           /\ p[Len(p)].to = IF answer.bounded THEN answer.next - 1 ELSE to
           /\ answer.bounded => from < answer.next /\ answer.next <= to
=============================================================================
