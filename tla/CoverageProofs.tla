---------------------------- MODULE CoverageProofs ----------------------------
(***************************************************************************)
(* Theorems about Coverage for every range of days and any number of       *)
(* completed runs: its types, the disjointness of the stored intervals,    *)
(* that they implement the day-by-day specification LatestScan, and that   *)
(* the two queries answer what that specification says of the days.        *)
(*                                                                         *)
(* The queries sum over a set, sort it and fold a loop over a sequence.    *)
(* What these compute is shown by looking at a smallest counterexample: a  *)
(* nonempty set of finite sets has a smallest member (SmallestSubset), and *)
(* a nonempty set of naturals a least one (LeastNatural).                  *)
(***************************************************************************)
EXTENDS Coverage, FiniteSetTheorems, SequenceTheorems, TLAPS

CoverageInv == TypeOK /\ Disjoint

(* Days are integers, so an interval of days is one of integers. *)
LEMMA DaysAreIntegers == Days \subseteq Int
  BY DaysAssumption DEF Days

(* A row that survives a completed run is part of an earlier row with the   *)
(* same scan, lies outside the new interval, and reaches the edge of that   *)
(* earlier row or of the new interval on each side.                         *)
LEMMA RemainderOrigin ==
  ASSUME CoverageInv, NEW from \in Days, NEW to \in Days, from <= to,
         NEW k \in Remainders(from, to)
  PROVE  /\ k \in Intervals
         /\ k.from <= k.to
         /\ k.to < from \/ to < k.from
         /\ \E i \in rows : /\ i.from <= k.from
                            /\ k.to <= i.to
                            /\ k.scan = i.scan
                            /\ k.from = i.from \/ k.from = to + 1
                            /\ k.to = i.to \/ k.to = from - 1
<1>1. from \in Int /\ to \in Int
  BY DaysAreIntegers
<1>2. PICK s \in SplitAfter(rows, to) :
        k = IF s.from < from /\ Holds(s, from) THEN [s EXCEPT !.to = from - 1] ELSE s
  BY DEF Remainders, DropInside, TrimBefore
<1>3. PICK i \in rows : \/ s = i
                        \/ i.to > to /\ Holds(i, to) /\ s = [i EXCEPT !.from = to + 1]
  BY <1>2 DEF SplitAfter
<1>4. i \in Intervals /\ i.from <= i.to
  BY DEF CoverageInv, TypeOK, Disjoint
<1>5. ~(from <= k.from /\ k.from <= to)
  BY DEF Remainders, DropInside
<1>6. CASE s = i
  <2>1. s \in Intervals
    BY <1>4, <1>6
  <2>2. CASE s.from < from /\ Holds(s, from)
    <3>1. k = [s EXCEPT !.to = from - 1]
      BY <1>2, <2>2
    <3>2. k \in Intervals /\ k.from = s.from /\ k.to = from - 1 /\ k.scan = s.scan
      BY <1>1, <2>1, <3>1 DEF Intervals
    <3> QED
      BY <1>1, <1>4, <1>6, <2>1, <2>2, <3>2 DEF Intervals, Holds
  <2>3. CASE ~(s.from < from /\ Holds(s, from))
    <3>1. k = i
      BY <1>2, <1>6, <2>3
    <3>2. k.to < from \/ to < k.from
      BY <1>1, <1>4, <1>5, <1>6, <2>3, <3>1 DEF Intervals, Holds
    <3> QED
      BY <1>1, <1>4, <3>1, <3>2 DEF Intervals
  <2> QED
    BY <2>2, <2>3
<1>7. CASE i.to > to /\ Holds(i, to) /\ s = [i EXCEPT !.from = to + 1]
  <2>1. s \in Intervals /\ s.from = to + 1 /\ s.to = i.to /\ s.scan = i.scan
    BY <1>1, <1>4, <1>7 DEF Intervals
  <2>2. k = s
    BY <1>1, <1>2, <2>1 DEF Intervals, Holds
  <2> QED
    BY <1>1, <1>4, <1>7, <2>1, <2>2 DEF Intervals, Holds
<1> QED
  BY <1>3, <1>6, <1>7

(* Conversely, a day outside the new interval keeps a row with its scan. *)
LEMMA RemainderCovers ==
  ASSUME CoverageInv, NEW from \in Days, NEW to \in Days, from <= to,
         NEW i \in rows, NEW d \in Days, Holds(i, d), d < from \/ to < d
  PROVE  \E k \in Remainders(from, to) : Holds(k, d) /\ k.scan = i.scan
<1>1. from \in Int /\ to \in Int /\ d \in Int
  BY DaysAreIntegers
<1>2. i \in Intervals /\ i.from <= i.to
  BY DEF CoverageInv, TypeOK, Disjoint
<1>3. CASE d < from
  <2>1. i \in SplitAfter(rows, to)
    BY DEF SplitAfter
  <2> DEFINE k == IF i.from < from /\ Holds(i, from) THEN [i EXCEPT !.to = from - 1] ELSE i
  <2>2. k \in TrimBefore(SplitAfter(rows, to), from)
    BY <2>1 DEF TrimBefore
  <2>3. k.from = i.from /\ k.scan = i.scan /\ Holds(k, d)
    BY <1>1, <1>2, <1>3 DEF Intervals, Holds
  <2>4. ~(from <= k.from /\ k.from <= to)
    BY <1>1, <1>2, <1>3, <2>3 DEF Intervals, Holds
  <2>5. k \in Remainders(from, to)
    BY <2>2, <2>4 DEF Remainders, DropInside
  <2> QED
    BY <2>3, <2>5
<1>4. CASE to < d
  <2> DEFINE k == IF Holds(i, to) THEN [i EXCEPT !.from = to + 1] ELSE i
  <2>1. k \in Intervals /\ k.to = i.to /\ k.scan = i.scan /\ to < k.from /\ Holds(k, d)
    BY <1>1, <1>2, <1>4 DEF Intervals, Holds
  <2>2. Holds(i, to) => i.to > to
    BY <1>1, <1>2, <1>4 DEF Intervals, Holds
  <2>3. k \in SplitAfter(rows, to)
    BY <2>2 DEF SplitAfter
  <2>4. ~(k.from < from)
    BY <1>1, <2>1 DEF Intervals
  <2>5. k \in TrimBefore(SplitAfter(rows, to), from)
    BY <2>3, <2>4 DEF TrimBefore
  <2>6. k \in Remainders(from, to)
    BY <1>1, <2>1, <2>5 DEF Remainders, DropInside, Intervals
  <2> QED
    BY <2>1, <2>6
<1> QED
  BY <1>1, <1>3, <1>4

-----------------------------------------------------------------------------
(* Two records of an interval with the same fields are the same row. *)
LEMMA SameInterval ==
  ASSUME NEW k \in Intervals, NEW l \in Intervals,
         k.from = l.from, k.to = l.to, k.scan = l.scan
  PROVE  k = l
  BY DEF Intervals

(* The row of the completed run is a stored interval. *)
LEMMA NewIntervalOK ==
  ASSUME CoverageInv, covers < MaxCovers, NEW from \in Days, NEW to \in Days
  PROVE  /\ NewInterval(from, to) \in Intervals
         /\ NewInterval(from, to).from = from
         /\ NewInterval(from, to).to = to
         /\ NewInterval(from, to).scan \in Scans
  BY DaysAreIntegers, LimitsAssumption DEF NewInterval, Intervals, Scans, CoverageInv, TypeOK

(* Completing a run keeps the stored intervals well typed and disjoint. *)
LEMMA CoverKeepsDisjoint ==
  ASSUME CoverageInv, NEW from \in Days, NEW to \in Days, Cover(from, to)
  PROVE  CoverageInv'
<1> DEFINE new == NewInterval(from, to)
<1>1. from \in Int /\ to \in Int /\ from <= to /\ covers < MaxCovers
  BY DaysAreIntegers DEF Cover
<1>2. rows' = Remainders(from, to) \union {new}
  BY DEF Cover
<1>3. new \in Intervals /\ new.from = from /\ new.to = to
  BY <1>1, NewIntervalOK
<1> HIDE DEF new
<1>4. TypeOK'
  <2>1. rows' \subseteq Intervals
    BY <1>1, <1>2, <1>3, RemainderOrigin
  <2>2. revision' \in Revisions /\ covers' \in 0..MaxCovers
    BY <1>1, LimitsAssumption DEF CoverageInv, TypeOK, Cover
  <2> QED
    BY <2>1, <2>2 DEF TypeOK
<1>5. \A k \in rows' : k.from <= k.to
  BY <1>1, <1>2, <1>3, RemainderOrigin
<1>6. ASSUME NEW k \in Remainders(from, to), NEW l \in Remainders(from, to), k # l
      PROVE  k.to < l.from \/ l.to < k.from
  <2>1. PICK i \in rows : /\ i.from <= k.from /\ k.to <= i.to /\ k.scan = i.scan
                          /\ k.from = i.from \/ k.from = to + 1
                          /\ k.to = i.to \/ k.to = from - 1
    BY <1>1, RemainderOrigin
  <2>2. PICK j \in rows : /\ j.from <= l.from /\ l.to <= j.to /\ l.scan = j.scan
                          /\ l.from = j.from \/ l.from = to + 1
                          /\ l.to = j.to \/ l.to = from - 1
    BY <1>1, RemainderOrigin
  <2>3. /\ k \in Intervals /\ k.from <= k.to /\ (k.to < from \/ to < k.from)
        /\ l \in Intervals /\ l.from <= l.to /\ (l.to < from \/ to < l.from)
    BY <1>1, RemainderOrigin
  <2>4. i \in Intervals /\ j \in Intervals
    BY DEF CoverageInv, TypeOK
  <2>5. CASE i # j
    <3>1. i.to < j.from \/ j.to < i.from
      BY <2>5 DEF CoverageInv, Disjoint
    <3> QED
      BY <2>1, <2>2, <2>3, <2>4, <3>1 DEF Intervals
  <2>6. CASE i = j
    <3>1. k.from # l.from \/ k.to # l.to
      BY <1>6, <2>1, <2>2, <2>3, <2>6, SameInterval
    <3> QED
      BY <1>1, <2>1, <2>2, <2>3, <2>4, <2>6, <3>1 DEF Intervals
  <2> QED
    BY <2>5, <2>6
<1>7. ASSUME NEW k \in Remainders(from, to)
      PROVE  k.to < new.from \/ new.to < k.from
  BY <1>1, <1>3, RemainderOrigin
<1>8. Disjoint'
  BY <1>2, <1>5, <1>6, <1>7 DEF Disjoint
<1> QED
  BY <1>4, <1>8 DEF CoverageInv

(* Completed runs and deployments keep the stored intervals disjoint: the   *)
(* exclusion constraint of synchronization_coverage holds at every commit.  *)
THEOREM CoverageInvariant == Spec => []CoverageInv
<1>1. Init => CoverageInv
  BY LimitsAssumption DEF Init, CoverageInv, TypeOK, Disjoint
<1>2. CoverageInv /\ [Next]_vars => CoverageInv'
  <2> SUFFICES ASSUME CoverageInv, [Next]_vars PROVE CoverageInv'
    OBVIOUS
  <2>1. ASSUME NEW from \in Days, NEW to \in Days, Cover(from, to) PROVE CoverageInv'
    BY <2>1, CoverKeepsDisjoint
  <2>2. CASE Deploy
    BY <2>2 DEF Deploy, CoverageInv, TypeOK, Disjoint
  <2>3. CASE UNCHANGED vars
    BY <2>3 DEF vars, CoverageInv, TypeOK, Disjoint
  <2> QED
    BY <2>1, <2>2, <2>3 DEF Next
<1> QED
  BY <1>1, <1>2, PTL DEF Spec

(* No two stored intervals overlap and none is empty. *)
THEOREM IntervalsDisjoint == Spec => []Disjoint
  BY CoverageInvariant, PTL DEF CoverageInv

-----------------------------------------------------------------------------
(* A day of a stored interval was last scanned by that interval's run. *)
LEMMA ScanOfRow ==
  ASSUME CoverageInv, NEW i \in rows, NEW d \in Days, Holds(i, d)
  PROVE  ScanOf(d) = i.scan
<1>1. \A j \in rows : Holds(j, d) => j = i
  BY DaysAreIntegers DEF CoverageInv, TypeOK, Disjoint, Intervals, Holds
<1> QED
  BY <1>1 DEF ScanOf

(* A day no stored interval holds was never scanned. *)
LEMMA ScanOfNone ==
  ASSUME NEW d \in Days, \A i \in rows : ~Holds(i, d)
  PROVE  ScanOf(d) = NoScan
  BY DEF ScanOf

(* The completion of a run changes the scan of the days of its interval, and *)
(* of no other day.                                                          *)
LEMMA CoverChangesItsDays ==
  ASSUME CoverageInv, CoverageInv', NEW from \in Days, NEW to \in Days, Cover(from, to),
         NEW d \in Days
  PROVE  ScanOf(d)' = IF from <= d /\ d <= to THEN NewInterval(from, to).scan ELSE ScanOf(d)
<1>1. d \in Int /\ from \in Int /\ to \in Int /\ from <= to /\ covers < MaxCovers
  BY DaysAreIntegers DEF Cover
<1>2. rows' = Remainders(from, to) \union {NewInterval(from, to)}
  BY DEF Cover
<1>3. ASSUME NEW k \in rows', Holds(k, d) PROVE ScanOf(d)' = k.scan
  <2>1. \A j \in rows' : Holds(j, d) => j = k
    BY <1>1, <1>3 DEF CoverageInv, TypeOK, Disjoint, Intervals, Holds
  <2> QED
    BY <1>3, <2>1 DEF ScanOf, Holds
<1>4. CASE from <= d /\ d <= to
  <2>1. Holds(NewInterval(from, to), d)
    BY <1>1, <1>4, NewIntervalOK DEF Holds
  <2> QED
    BY <1>2, <1>3, <1>4, <2>1
<1>5. CASE ~(from <= d /\ d <= to)
  <2>1. CASE \E i \in rows : Holds(i, d)
    <3>1. PICK i \in rows : Holds(i, d)
      BY <2>1
    <3>2. PICK k \in Remainders(from, to) : Holds(k, d) /\ k.scan = i.scan
      BY <1>1, <1>5, <3>1, RemainderCovers
    <3>3. ScanOf(d)' = i.scan /\ ScanOf(d) = i.scan
      BY <1>2, <1>3, <3>1, <3>2, ScanOfRow
    <3> QED
      BY <1>5, <3>3
  <2>2. CASE \A i \in rows : ~Holds(i, d)
    <3>1. ASSUME NEW k \in Remainders(from, to) PROVE ~Holds(k, d)
      <4>1. PICK i \in rows : i.from <= k.from /\ k.to <= i.to
        BY <1>1, <3>1, RemainderOrigin
      <4>2. k \in Intervals /\ i \in Intervals
        BY <1>1, RemainderOrigin DEF CoverageInv, TypeOK
      <4> QED
        BY <1>1, <2>2, <4>1, <4>2 DEF Intervals, Holds
    <3>2. ~Holds(NewInterval(from, to), d)
      BY <1>1, <1>5, NewIntervalOK DEF Holds
    <3>3. \A k \in rows' : ~Holds(k, d)
      BY <1>2, <3>1, <3>2
    <3>4. ScanOf(d)' = NoScan /\ ScanOf(d) = NoScan
      BY <2>2, <3>3 DEF ScanOf, Holds
    <3> QED
      BY <1>5, <3>4
  <2> QED
    BY <2>1, <2>2
<1> QED
  BY <1>4, <1>5

(* The stored intervals implement the day-by-day specification: what the    *)
(* four statements of cover() do to the table is, for each day, to replace  *)
(* its latest scan if the new interval holds it.                            *)
THEOREM CoverageImplementsLatestScan == Spec => ImplementsLatestScan
<1> DEFINE scans == [d \in Days |-> ScanOf(d)]
<1>1. Init => Latest_!LatestScanInit
  BY DEF Init, Latest_!LatestScanInit, ScanOf
<1>2. CoverageInv /\ CoverageInv' /\ [Next]_vars => [Latest_!LatestScanNext]_scans
  <2> SUFFICES ASSUME CoverageInv, CoverageInv', [Next]_vars
               PROVE  Latest_!LatestScanNext \/ UNCHANGED scans
    OBVIOUS
  <2>1. ASSUME NEW from \in Days, NEW to \in Days, Cover(from, to)
        PROVE  Latest_!LatestScanNext
    <3>1. covers < MaxCovers
      BY <2>1 DEF Cover
    <3>2. NewInterval(from, to).scan \in Scans
      BY <3>1, NewIntervalOK
    <3>3. Latest_!CoverDays(NewInterval(from, to).scan, from, to)
      <4>1. \A d \in Days : ScanOf(d)' = IF from <= d /\ d <= to
                                           THEN NewInterval(from, to).scan ELSE ScanOf(d)
        BY <2>1, CoverChangesItsDays
      <4> QED
        BY <4>1 DEF Latest_!CoverDays
    <3> QED
      BY <3>2, <3>3 DEF Latest_!LatestScanNext
  <2>2. CASE Deploy \/ UNCHANGED vars
    BY <2>2 DEF Deploy, vars, ScanOf
  <2> QED
    BY <2>1, <2>2 DEF Next
<1> QED
  BY <1>1, <1>2, CoverageInvariant, PTL DEF Spec, ImplementsLatestScan, Latest_!LatestScanSpec

-----------------------------------------------------------------------------
(* The induction the queries need: a nonempty set of naturals has a least   *)
(* element, a nonempty set of finite sets a smallest one.                   *)
LEMMA SmallestSubset ==
  ASSUME NEW S, IsFiniteSet(S), NEW T, T \subseteq SUBSET S, T # {}
  PROVE  \E m \in T : \A k \in T : k \subseteq m => k = m
<1>1. IsWellFoundedOn(StrictSubsetOrdering(S), SUBSET S)
  BY FS_StrictSubsetOrderingWellFounded, FS_FiniteSubsetsOfFinite
<1>2. \E m \in T : \A k \in T : ~(<<k, m>> \in StrictSubsetOrdering(S))
  BY <1>1, WFMin
<1> QED
  BY <1>2 DEF StrictSubsetOrdering

LEMMA LeastNatural ==
  ASSUME NEW T \in SUBSET Nat, T # {}
  PROVE  \E m \in T : \A k \in T : m <= k
<1>1. PICK n \in T : TRUE
  OBVIOUS
<1> DEFINE below == {1..k : k \in {j \in T : j <= n}}
<1>2. below \in SUBSET SUBSET (1..n) /\ below # {}
  BY <1>1
<1>3. PICK s \in below : \A t \in below : t \subseteq s => t = s
  <2> DEFINE all == 1..n
  <2>1. IsFiniteSet(all)
    BY FS_Interval
  <2>2. below \subseteq SUBSET all /\ below # {}
    BY <1>2
  <2> HIDE DEF below, all
  <2> QED
    BY <2>1, <2>2, SmallestSubset
<1>4. PICK m \in T : m <= n /\ s = 1..m
  BY <1>3
<1>5. ASSUME NEW k \in T PROVE m <= k
  <2>1. CASE k < m
    <3>1. 1..k \in below /\ 1..k \subseteq 1..m
      BY <1>4, <2>1
    <3>2. m \in 1..m /\ m \notin 1..k
      BY <2>1
    <3> QED
      BY <1>3, <1>4, <3>1, <3>2
  <2> QED
    BY <2>1
<1> QED
  BY <1>5

-----------------------------------------------------------------------------
(* Splitting and trimming leave finitely many stored intervals. *)
LEMMA RemaindersFinite ==
  ASSUME IsFiniteSet(rows), NEW from, NEW to
  PROVE  IsFiniteSet(Remainders(from, to))
<1> DEFINE crossing == {j \in rows : j.to > to /\ Holds(j, to)}
           after == [i \in crossing |-> [i EXCEPT !.from = to + 1]]
           split == SplitAfter(rows, to)
           trim == [i \in split |->
                      IF i.from < from /\ Holds(i, from) THEN [i EXCEPT !.to = from - 1] ELSE i]
<1>1. IsFiniteSet({after[i] : i \in crossing})
  <2>1. IsFiniteSet(crossing)
    BY FS_Subset
  <2>2. after \in Surjection(crossing, {after[i] : i \in crossing})
    BY DEF Surjection
  <2> QED
    BY <2>1, <2>2, FS_Surjection
<1>2. split = rows \union {after[i] : i \in crossing}
  BY DEF SplitAfter
<1>3. IsFiniteSet(split)
  <2> HIDE DEF crossing, after, split
  <2> QED
    BY <1>1, <1>2, FS_Union
<1>4. IsFiniteSet({trim[i] : i \in split})
  <2>1. trim \in Surjection(split, {trim[i] : i \in split})
    BY DEF Surjection
  <2> QED
    BY <1>3, <2>1, FS_Surjection
<1>5. Remainders(from, to) \subseteq {trim[i] : i \in split}
  BY DEF Remainders, DropInside, TrimBefore
<1> QED
  BY <1>4, <1>5, FS_Subset

FiniteRows == IsFiniteSet(rows)

LEMMA RowsStayFinite == Spec => []FiniteRows
<1>1. Init => FiniteRows
  BY FS_EmptySet DEF Init, FiniteRows
<1>2. FiniteRows /\ [Next]_vars => FiniteRows'
  <2> SUFFICES ASSUME FiniteRows, [Next]_vars PROVE FiniteRows'
    OBVIOUS
  <2>1. ASSUME NEW from \in Days, NEW to \in Days, Cover(from, to) PROVE FiniteRows'
    BY <2>1, RemaindersFinite, FS_AddElement DEF Cover, FiniteRows
  <2> QED
    BY <2>1 DEF Next, Deploy, vars, FiniteRows
<1> QED
  BY <1>1, <1>2, PTL DEF Spec

-----------------------------------------------------------------------------
(* Overlaps of disjoint intervals add up to the days they hold. *)
HeldDays(s, from, to) == {d \in from..to : \E i \in s : Holds(i, d)}

(* Taking one interval away takes away the days it shares with the range. *)
LEMMA HeldDaysStep ==
  ASSUME CoverageInv, NEW from \in Days, NEW to \in Days,
         from <= to, NEW s \in SUBSET {i \in rows : Overlaps(i, from, to)}, NEW x \in s
  PROVE  Cardinality(HeldDays(s, from, to)) =
           SharedDays(x, from, to) + Cardinality(HeldDays(s \ {x}, from, to))
<1> DEFINE first == Latest(x.from, from)
           last == Earliest(x.to, to)
           others == HeldDays(s \ {x}, from, to)
<1>1. from \in Int /\ to \in Int /\ x \in Intervals /\ x.from <= x.to
  BY DaysAreIntegers DEF CoverageInv, TypeOK, Disjoint
<1>2. first \in Int /\ last \in Int /\ first <= last
  <2>1. Overlaps(x, from, to)
    OBVIOUS
  <2> QED
    BY <1>1, <2>1 DEF Latest, Earliest, Overlaps, Intervals
<1>3. IsFiniteSet(first..last) /\ Cardinality(first..last) = SharedDays(x, from, to)
  BY <1>2, FS_Interval DEF SharedDays
<1>4. IsFiniteSet(others)
  BY <1>1, FS_Interval, FS_Subset DEF HeldDays
<1>5. HeldDays(s, from, to) = (first..last) \union others
  BY <1>1, <1>2 DEF HeldDays, Holds, Latest, Earliest, Intervals
<1>6. (first..last) \intersect others = {}
  <2> SUFFICES ASSUME NEW d \in first..last, d \in others PROVE FALSE
    OBVIOUS
  <2>1. PICK y \in s \ {x} : Holds(y, d)
    BY DEF HeldDays
  <2>2. Holds(x, d)
    BY <1>1, <1>2 DEF Holds, Latest, Earliest, Intervals
  <2>3. x.to < y.from \/ y.to < x.from
    BY <2>1 DEF CoverageInv, Disjoint
  <2>4. x \in Intervals /\ y \in Intervals /\ d \in Int
    BY <1>1, <1>2, <2>1 DEF CoverageInv, TypeOK
  <2> QED
    BY <2>1, <2>2, <2>3, <2>4, DaysAreIntegers DEF Holds, Intervals
<1>7. SharedDays(x, from, to) \in Int
  BY <1>2 DEF SharedDays
<1> HIDE DEF first, last, others
<1>8. Cardinality(HeldDays(s, from, to)) =
        Cardinality(first..last) + Cardinality(others) - Cardinality({})
  <2>1. Cardinality((first..last) \union others) =
          Cardinality(first..last) + Cardinality(others)
            - Cardinality((first..last) \intersect others)
    BY <1>3, <1>4, FS_Union
  <2> QED
    BY <1>5, <1>6, <2>1
<1>9. Cardinality(others) \in Int /\ Cardinality({}) = 0
  BY <1>4, FS_CardinalityType, FS_EmptySet
<1> QED
  BY <1>3, <1>7, <1>8, <1>9 DEF others
(* The query's sum over part of the overlapping intervals counts their days:  *)
(* the order in which a fold takes them does not matter.                      *)
LEMMA SumCountsHeldDays ==
  ASSUME CoverageInv, FiniteRows, NEW from \in Days, NEW to \in Days, from <= to,
         NEW s \in SUBSET {i \in rows : Overlaps(i, from, to)}
  PROVE  MapThenSumSet(LAMBDA i : SharedDays(i, from, to), s) = Cardinality(HeldDays(s, from, to))
<1> DEFINE Picked(t) == CHOOSE x \in t : TRUE
           Sums(g) == g = [t \in SUBSET s |->
                             IF t = {} THEN 0
                             ELSE SharedDays(Picked(t), from, to) + g[t \ {Picked(t)}]]
           sums == CHOOSE g : Sums(g)
           counts == [t \in SUBSET s |-> Cardinality(HeldDays(t, from, to))]
<1>1. MapThenSumSet(LAMBDA i : SharedDays(i, from, to), s) = sums[s]
  BY DEF MapThenSumSet, MapThenFoldSet
<1>2. \A t \in SUBSET s : t # {} => Picked(t) \in t
  OBVIOUS
<1>3. counts[{}] = 0
  BY FS_EmptySet DEF HeldDays
<1> HIDE DEF Picked
<1>4. \A t \in SUBSET s : t # {} =>
        counts[t] = SharedDays(Picked(t), from, to) + counts[t \ {Picked(t)}]
  BY <1>2, HeldDaysStep
<1>5. Sums(counts)
  <2> HIDE DEF counts
  <2>1. counts = [t \in SUBSET s |-> counts[t]]
    BY DEF counts
  <2> QED
    BY <1>3, <1>4, <2>1
<1>6. Sums(sums)
  <2> HIDE DEF Sums, counts
  <2> QED
    BY <1>5
<1> HIDE DEF sums, counts
<1>7. \A t \in SUBSET s : sums[t] = counts[t]
  <2> DEFINE wrong == {t \in SUBSET s : sums[t] # counts[t]}
  <2>1. SUFFICES ASSUME wrong # {} PROVE FALSE
    OBVIOUS
  <2>2. IsFiniteSet(s)
    BY FS_Subset DEF FiniteRows
  <2>3. wrong \subseteq SUBSET s
    OBVIOUS
  <2>4. PICK t \in wrong : \A u \in wrong : u \subseteq t => u = t
    <3> HIDE DEF wrong
    <3> QED
      BY <2>1, <2>2, <2>3, SmallestSubset
  <2>5. t # {}
    BY <1>3, <1>6, <2>4
  <2>6. t \ {Picked(t)} \notin wrong
    BY <1>2, <2>4, <2>5
  <2> QED
    BY <1>2, <1>4, <1>6, <2>4, <2>5, <2>6
<1> QED
  BY <1>1, <1>7 DEF counts

(* The day-by-day meaning of covered(), in every reachable state. *)
LEMMA CoveredMeansEveryDay ==
  ASSUME CoverageInv, FiniteRows, NEW from \in Days, NEW to \in Days, from <= to
  PROVE  Covered(from, to) <=>
           \A d \in from..to : ScanOf(d) # NoScan /\ ScanOf(d).revision = revision
<1> DEFINE current == {i \in rows : i.scan.revision = revision /\ Overlaps(i, from, to)}
<1>1. from \in Int /\ to \in Int /\ from..to \subseteq Days
  BY DaysAssumption DEF Days
<1>2. Covered(from, to) <=> Cardinality(HeldDays(current, from, to)) = to - from + 1
  BY SumCountsHeldDays DEF Covered
<1>3. IsFiniteSet(from..to) /\ Cardinality(from..to) = to - from + 1
  BY <1>1, FS_Interval
<1>4. HeldDays(current, from, to) \subseteq from..to
  BY DEF HeldDays
<1>5. Covered(from, to) <=> HeldDays(current, from, to) = from..to
  <2> DEFINE all == from..to
             held == HeldDays(current, from, to)
  <2>1. Cardinality(all) = Cardinality(held) => all = held
    <3>1. IsFiniteSet(all) /\ held \in SUBSET all
      BY <1>3, <1>4
    <3> HIDE DEF all, held
    <3> QED
      BY <3>1, FS_Subset
  <2> QED
    BY <1>2, <1>3, <2>1
<1>6. ASSUME NEW d \in from..to
      PROVE  d \in HeldDays(current, from, to)
               <=> ScanOf(d) # NoScan /\ ScanOf(d).revision = revision
  <2>1. d \in Days /\ d \in Int
    BY <1>1
  <2>2. CASE \E i \in rows : Holds(i, d)
    <3>1. PICK i \in rows : Holds(i, d)
      BY <2>2
    <3>2. ScanOf(d) = i.scan
      BY <2>1, <3>1, ScanOfRow
    <3>3. i \in Intervals /\ i.scan # NoScan /\ Overlaps(i, from, to)
      BY <1>1, <2>1, <3>1, NoScanAssumption DEF CoverageInv, TypeOK, Intervals, Holds, Overlaps
    <3>4. \A j \in rows : Holds(j, d) => j.scan = i.scan
      BY <2>1, <3>2, ScanOfRow
    <3> QED
      BY <3>1, <3>2, <3>3, <3>4 DEF HeldDays
  <2>3. CASE \A i \in rows : ~Holds(i, d)
    BY <2>1, <2>3, ScanOfNone DEF HeldDays
  <2> QED
    BY <2>2, <2>3
<1>7. \A d \in HeldDays(current, from, to) : d \in from..to
  BY <1>4
<1> HIDE DEF current
<1> QED
  BY <1>4, <1>5, <1>6

(* covered() answers yes exactly when every day of the range was last       *)
(* scanned under the current import policy, for any range and any number    *)
(* of runs: historical backfill skips no month that needs a scan, and scans *)
(* none twice.                                                              *)
THEOREM CoveredAnswersEveryDay == Spec => []CoveredIsEveryDay
<1>1. CoverageInv /\ FiniteRows => CoveredIsEveryDay
  BY CoveredMeansEveryDay DEF CoveredIsEveryDay
<1> QED
  BY <1>1, CoverageInvariant, RowsStayFinite, PTL
-----------------------------------------------------------------------------
(* The rows of a finite set, in the order of their first days: each of them *)
(* once, as long as no two begin on the same day.                           *)
LEMMA RankedByFirstDay ==
  ASSUME NEW found, IsFiniteSet(found),
         \A i \in found : i.from \in Int,
         \A i, j \in found : i.from = j.from => i = j
  PROVE  \E s \in [1..Cardinality(found) -> found] :
           \A m, n \in 1..Cardinality(found) : m < n => s[m].from < s[n].from
<1> DEFINE N == Cardinality(found)
           upTo(i) == {j \in found : j.from <= i.from}
           rank == [i \in found |-> Cardinality(upTo(i))]
<1>1. N \in Nat
  BY FS_CardinalityType
<1>2. \A i \in found : upTo(i) \in SUBSET found /\ i \in upTo(i)
  OBVIOUS
<1>3. \A i, j \in found : i.from < j.from => upTo(i) \in SUBSET upTo(j) /\ j \notin upTo(i)
  OBVIOUS
<1> HIDE DEF upTo
<1>4. \A i \in found : IsFiniteSet(upTo(i)) /\ Cardinality(upTo(i)) \in 1..N
  <2> SUFFICES ASSUME NEW i \in found
               PROVE  IsFiniteSet(upTo(i)) /\ Cardinality(upTo(i)) \in 1..N
    OBVIOUS
  <2>1. IsFiniteSet(upTo(i)) /\ Cardinality(upTo(i)) <= N
    BY <1>2, FS_Subset
  <2>2. Cardinality(upTo(i)) \in Nat /\ Cardinality(upTo(i)) # 0
    BY <1>2, <2>1, FS_CardinalityType, FS_EmptySet
  <2> QED
    BY <1>1, <2>1, <2>2
<1>5. \A i, j \in found : i.from < j.from => rank[i] < rank[j]
  <2> SUFFICES ASSUME NEW i \in found, NEW j \in found, i.from < j.from
               PROVE  Cardinality(upTo(i)) < Cardinality(upTo(j))
    OBVIOUS
  <2>1. /\ Cardinality(upTo(i)) <= Cardinality(upTo(j))
        /\ Cardinality(upTo(j)) = Cardinality(upTo(i)) => upTo(j) = upTo(i)
    BY <1>3, <1>4, FS_Subset
  <2> QED
    BY <1>2, <1>3, <1>4, <2>1
<1>6. rank \in [found -> 1..N]
  BY <1>4
<1>7. rank \in Surjection(found, 1..N)
  <2> DEFINE all == 1..N
  <2>1. rank \in Injection(found, all)
    BY <1>4, <1>5, <1>6 DEF Injection, IsInjective
  <2>2. IsFiniteSet(all) /\ Cardinality(all) = N
    BY <1>1, FS_Interval
  <2> HIDE DEF all, rank
  <2> QED
    BY <2>1, <2>2, FS_Injection DEF all
<1> HIDE DEF rank
<1> DEFINE s == [n \in 1..N |-> CHOOSE i \in found : rank[i] = n]
<1>8. \A n \in 1..N : s[n] \in found /\ rank[s[n]] = n
  BY <1>7 DEF Surjection
<1>9. s \in [1..N -> found]
  BY <1>8
<1>10. ASSUME NEW m \in 1..N, NEW n \in 1..N, m < n PROVE s[m].from < s[n].from
  <2>1. CASE s[n].from < s[m].from
    BY <1>5, <1>8, <1>10, <2>1
  <2>2. CASE s[n].from = s[m].from
    BY <1>8, <1>10, <2>2
  <2> QED
    BY <1>8, <2>1, <2>2
<1> QED
  BY <1>9, <1>10

LEMMA ByFirstDaySorts ==
  ASSUME NEW found, IsFiniteSet(found),
         \A i \in found : i.from \in Int,
         \A i, j \in found : i.from = j.from => i = j
  PROVE  /\ ByFirstDay(found) \in Seq(found)
         /\ \A m, n \in 1..Len(ByFirstDay(found)) :
              m < n => ByFirstDay(found)[m].from < ByFirstDay(found)[n].from
         /\ \A i \in found : \E n \in 1..Len(ByFirstDay(found)) : ByFirstDay(found)[n] = i
<1> DEFINE s == ByFirstDay(found)
           all == 1..Cardinality(found)
<1>1. Cardinality(found) \in Nat /\ IsFiniteSet(all) /\ Cardinality(all) = Cardinality(found)
  BY FS_CardinalityType, FS_Interval
<1>2. /\ s \in [all -> found]
      /\ \A m, n \in all : m < n => s[m].from < s[n].from
  BY RankedByFirstDay DEF ByFirstDay
<1>3. s \in Injection(all, found)
  <2>1. \A m, n \in all : s[m] = s[n] => m = n
    BY <1>1, <1>2
  <2> HIDE DEF s, all
  <2> QED
    BY <1>2, <2>1 DEF Injection, IsInjective
<1>4. s \in Surjection(all, found)
  <2> HIDE DEF s, all
  <2> QED
    BY <1>1, <1>3, FS_Injection
<1>5. \A i \in found : \E n \in all : s[n] = i
  BY <1>4 DEF Surjection
<1>6. s \in Seq(found) /\ Len(s) = Cardinality(found)
  BY <1>1, <1>2
<1> QED
  BY <1>2, <1>5, <1>6
-----------------------------------------------------------------------------
(* What the service reads: intervals that overlap the range, one after the  *)
(* other, and no overlapping interval is left out before the last of them.  *)
InOrder(s, from, to) ==
    /\ s \in Seq(rows)
    /\ \A n \in 1..Len(s) : Overlaps(s[n], from, to)
    /\ \A m, n \in 1..Len(s) : m < n => s[m].to < s[n].from
    /\ \A i \in rows : Overlaps(i, from, to) =>
         (\E n \in 1..Len(s) : s[n] = i) \/ (\A n \in 1..Len(s) : s[n].to < i.from)

(* A set of integers that has a bound has the maximum that max() returns. *)
LEMMA BoundedMaximum ==
  ASSUME NEW S \in SUBSET Int, S # {}, NEW b \in Int, \A x \in S : x <= b
  PROVE  Max(S) \in S /\ \A x \in S : x <= Max(S)
<1> DEFINE below == {b - x : x \in S}
<1>1. PICK k \in below : \A l \in below : k <= l
  <2>1. \A x \in S : b - x \in Nat
    OBVIOUS
  <2>2. below \in SUBSET Nat /\ below # {}
    BY <2>1
  <2> HIDE DEF below
  <2> QED
    BY <2>2, LeastNatural
<1>2. PICK m \in S : k = b - m
  OBVIOUS
<1>3. \A x \in S : m >= x
  BY <1>1, <1>2
<1> QED
  BY <1>2, <1>3 DEF Max

(* Starting at the last interval that begins on or before the first day     *)
(* loses no interval that overlaps the range.                               *)
LEMMA StoredInOrder ==
  ASSUME CoverageInv, FiniteRows, NEW from \in Days, NEW to \in Days, from <= to
  PROVE  /\ InOrder(StoredIntervals(from, to), from, to)
         /\ \A i \in rows : Overlaps(i, from, to) =>
              \E n \in 1..Len(StoredIntervals(from, to)) : StoredIntervals(from, to)[n] = i
<1> DEFINE before == {i.from : i \in {j \in rows : j.from <= from}}
           first == IF before = {} THEN from ELSE Max(before)
           found == {i \in rows : Overlaps(i, from, to) /\ first <= i.from}
           s == StoredIntervals(from, to)
<1>1. from \in Int /\ to \in Int
  BY DaysAreIntegers
<1>2. \A i \in rows : i \in Intervals /\ i.from \in Int /\ i.to \in Int /\ i.from <= i.to
  BY DEF CoverageInv, TypeOK, Disjoint, Intervals
<1>3. \A i \in rows : Overlaps(i, from, to) => first <= i.from
  <2> SUFFICES ASSUME NEW i \in rows, Overlaps(i, from, to), ~(first <= i.from)
               PROVE  FALSE
    OBVIOUS
  <2>1. CASE before = {}
    BY <1>1, <1>2, <2>1
  <2>2. CASE before # {}
    <3>1. first \in before /\ \A x \in before : x <= first
      <4>1. before \in SUBSET Int /\ \A x \in before : x <= from
        BY <1>2
      <4> HIDE DEF before
      <4> QED
        BY <1>1, <2>2, <4>1, BoundedMaximum
    <3>2. PICK j \in rows : j.from = first /\ j.from <= from
      BY <3>1
    <3> HIDE DEF first, before
    <3>3. i.from < j.from /\ j.from <= from /\ from <= i.to
      BY <1>2, <3>2 DEF Overlaps
    <3> QED
      BY <1>1, <1>2, <3>3 DEF CoverageInv, Disjoint
  <2> QED
    BY <2>1, <2>2
<1>4. s = ByFirstDay(found)
  BY DEF StoredIntervals
<1>5. found \in SUBSET rows /\ \A i \in found : Overlaps(i, from, to)
  OBVIOUS
<1>6. \A i \in rows : Overlaps(i, from, to) => i \in found
  BY <1>3
<1> HIDE DEF found, first, s
<1>7. /\ s \in Seq(found)
      /\ \A m, n \in 1..Len(s) : m < n => s[m].from < s[n].from
      /\ \A i \in found : \E n \in 1..Len(s) : s[n] = i
  <2>1. IsFiniteSet(found)
    BY <1>5, FS_Subset DEF FiniteRows
  <2>2. \A i, j \in found : i.from = j.from => i = j
    BY <1>2, <1>5 DEF CoverageInv, Disjoint
  <2> QED
    BY <1>2, <1>4, <1>5, <2>1, <2>2, ByFirstDaySorts
<1>8. \A n \in 1..Len(s) : s[n] \in rows /\ Overlaps(s[n], from, to)
  BY <1>5, <1>7
<1>9. s \in Seq(rows)
  BY <1>5, <1>7
<1>10. \A m, n \in 1..Len(s) : m < n => s[m].to < s[n].from
  <2> SUFFICES ASSUME NEW m \in 1..Len(s), NEW n \in 1..Len(s), m < n
               PROVE  s[m].to < s[n].from
    OBVIOUS
  <2>1. s[m].from < s[n].from /\ s[m] \in rows /\ s[n] \in rows
    BY <1>7, <1>8
  <2>2. s[m].to < s[n].from \/ s[n].to < s[m].from
    BY <1>2, <2>1 DEF CoverageInv, Disjoint
  <2> QED
    BY <1>2, <2>1, <2>2
<1>11. \A i \in rows : Overlaps(i, from, to) => \E n \in 1..Len(s) : s[n] = i
  BY <1>6, <1>7
<1> QED
  BY <1>8, <1>9, <1>10, <1>11 DEF InOrder, s

(* Cutting it off leaves a first part that is read in the same order. *)
LEMMA PrefixInOrder ==
  ASSUME NEW from, NEW to, NEW s, InOrder(s, from, to), NEW k \in 1..Len(s)
  PROVE  InOrder(SubSeq(s, 1, k), from, to)
<1> DEFINE p == SubSeq(s, 1, k)
<1>1. s \in Seq(rows) /\ Len(s) \in Nat
  BY DEF InOrder
<1>2. p \in Seq(rows) /\ Len(p) = k /\ \A n \in 1..k : p[n] = s[n]
  BY <1>1, SubSeqProperties, ElementOfSeq
<1> HIDE DEF p
<1>3. ASSUME NEW i \in rows, Overlaps(i, from, to)
      PROVE  (\E n \in 1..k : p[n] = i) \/ (\A n \in 1..k : p[n].to < i.from)
  <2>1. CASE \E n \in 1..Len(s) : s[n] = i
    <3>1. PICK n \in 1..Len(s) : s[n] = i
      BY <2>1
    <3>2. n > k => \A m \in 1..k : s[m].to < i.from
      BY <1>1, <3>1 DEF InOrder
    <3> QED
      BY <1>1, <1>2, <3>1, <3>2
  <2>2. CASE \A n \in 1..Len(s) : s[n].to < i.from
    BY <1>1, <1>2, <2>2
  <2> QED
    BY <1>3, <2>1, <2>2 DEF InOrder
<1>4. \A n \in 1..k : Overlaps(p[n], from, to)
  BY <1>1, <1>2 DEF InOrder
<1>5. \A m, n \in 1..k : m < n => p[m].to < p[n].from
  BY <1>1, <1>2 DEF InOrder
<1> QED
  BY <1>2, <1>3, <1>4, <1>5 DEF InOrder, p
-----------------------------------------------------------------------------
LEMMA MaximumIs ==
  ASSUME NEW t \in SUBSET Int, NEW k \in t, \A l \in t : l <= k
  PROVE  Max(t) = k
<1>1. \A l \in t : k >= l
  OBVIOUS
<1>2. \A x \in t : (\A l \in t : x >= l) => x = k
  OBVIOUS
<1> QED
  BY <1>1, <1>2 DEF Max

(* The fold is the loop: there are answers after each turn, the last one is *)
(* what it returns.                                                         *)
Turns(a, s, from, to) ==
    /\ a[0] = [periods |-> <<>>, next |-> from]
    /\ \A k \in 1..Len(s) : a[k] = AddInterval(a[k - 1], s[k], from, to)
    /\ ReadIntervals(s, from, to) = a[Len(s)]

LEMMA FoldIsLoop ==
  ASSUME NEW from, NEW to, NEW s \in Seq(rows)
  PROVE  \E a : Turns(a, s, from, to)
<1> DEFINE start == [periods |-> <<>>, next |-> from]
           Fold(g, k) == g = [t \in SUBSET (1..k) |->
                                IF t = {} THEN start
                                ELSE AddInterval(g[t \ {Max(t)}], s[Max(t)], from, to)]
           N == Len(s)
           answers == CHOOSE g : Fold(g, N)
<1>1. N \in Nat /\ DOMAIN s = 1..N
  OBVIOUS
<1>2. ReadIntervals(s, from, to) = answers[1..N]
  BY <1>1 DEF ReadIntervals, FoldLeft, MapThenFoldSet
<1>3. \A t \in SUBSET Nat, k \in Nat : k \in t /\ (\A l \in t : l <= k) => Max(t) = k
  BY MaximumIs
<1>4. ASSUME NEW k \in Nat, NEW g, Fold(g, k) PROVE \E h : Fold(h, k + 1)
  <2> DEFINE h == [t \in SUBSET (1..(k + 1)) |->
                     IF k + 1 \in t THEN AddInterval(g[t \ {k + 1}], s[k + 1], from, to) ELSE g[t]]
  <2>1. ASSUME NEW t \in SUBSET (1..(k + 1)), t # {}
        PROVE  h[t] = AddInterval(h[t \ {Max(t)}], s[Max(t)], from, to)
    <3>1. CASE k + 1 \in t
      <4>1. Max(t) = k + 1
        BY <1>3, <3>1
      <4>2. t \ {k + 1} \in SUBSET (1..(k + 1)) /\ k + 1 \notin t \ {k + 1}
        OBVIOUS
      <4>3. h[t \ {k + 1}] = g[t \ {k + 1}]
        BY <4>2
      <4> QED
        BY <3>1, <4>1, <4>3
    <3>2. CASE k + 1 \notin t
      <4>1. t \in SUBSET (1..k)
        BY <3>2
      <4>2. h[t] = g[t] /\ h[t \ {Max(t)}] = g[t \ {Max(t)}]
        BY <3>2
      <4>3. g[t] = AddInterval(g[t \ {Max(t)}], s[Max(t)], from, to)
        BY <1>4, <2>1, <4>1
      <4> QED
        BY <4>2, <4>3
    <3> QED
      BY <3>1, <3>2
  <2>2. h[{}] = start
    BY <1>4
  <2>3. h = [t \in SUBSET (1..(k + 1)) |-> h[t]]
    OBVIOUS
  <2> HIDE DEF h, start
  <2>4. Fold(h, k + 1)
    BY <2>1, <2>2, <2>3
  <2> QED
    BY <2>4
<1>5. \E g : Fold(g, 0)
  <2> DEFINE g == [t \in SUBSET (1..0) |-> start]
  <2>1. \A t \in SUBSET (1..0) : t = {}
    OBVIOUS
  <2> HIDE DEF start
  <2>2. Fold(g, 0)
    BY <2>1
  <2> QED
    BY <2>2
<1> HIDE DEF Fold, start, N
<1>6. \E g : Fold(g, N)
  <2> DEFINE wrong == {k \in Nat : ~\E g : Fold(g, k)}
  <2>1. SUFFICES ASSUME wrong # {} PROVE FALSE
    BY <1>1
  <2>2. PICK m \in wrong : \A k \in wrong : m <= k
    <3>1. wrong \in SUBSET Nat
      OBVIOUS
    <3> HIDE DEF wrong
    <3> QED
      BY <2>1, <3>1, LeastNatural
  <2>3. m - 1 \in Nat /\ m - 1 \notin wrong
    BY <1>5, <2>2
  <2> QED
    BY <1>4, <2>2, <2>3
<1>7. Fold(answers, N)
  BY <1>6
<1> HIDE DEF answers
<1> DEFINE a == [k \in 0..N |-> answers[1..k]]
<1>8. \A k \in 1..N : a[k] = AddInterval(a[k - 1], s[k], from, to)
  <2> SUFFICES ASSUME NEW k \in 1..N PROVE a[k] = AddInterval(a[k - 1], s[k], from, to)
    OBVIOUS
  <2>1. 1..k \in SUBSET (1..N) /\ k \in 1..k /\ (1..k) \ {k} = 1..(k - 1)
    BY <1>1
  <2>2. Max(1..k) = k
    <3> DEFINE t == 1..k
    <3>1. t \in SUBSET Nat /\ k \in t /\ \A l \in t : l <= k
      BY <1>1
    <3> HIDE DEF t
    <3> QED
      BY <1>3, <3>1 DEF t
  <2>3. answers[1..k] = AddInterval(answers[(1..k) \ {k}], s[k], from, to)
    BY <1>7, <2>1, <2>2 DEF Fold
  <2>4. a[k] = answers[1..k] /\ a[k - 1] = answers[1..(k - 1)]
    BY <1>1
  <2> QED
    BY <2>1, <2>3, <2>4
<1>9. a[0] = start
  <2>1. 1..0 = {} /\ {} \in SUBSET (1..N)
    OBVIOUS
  <2> QED
    BY <1>1, <1>7, <2>1 DEF Fold
<1>10. ReadIntervals(s, from, to) = a[N]
  BY <1>1, <1>2
<1> HIDE DEF a
<1> QED
  BY <1>8, <1>9, <1>10 DEF N, start, Turns
-----------------------------------------------------------------------------
(* Periods that follow one another from the first day up to the day before  *)
(* `next`, and tell each day's latest scan.                                 *)
Spans == [from : Int, to : Int, scan : Scans \union {NoScan}]

Tells(q) == q.from <= q.to /\ \A d \in q.from..q.to : ScanOf(d) = q.scan

Tiles(p, from, next) ==
    /\ p \in Seq(Spans)
    /\ p = <<>> => next = from
    /\ p # <<>> => p[1].from = from /\ p[Len(p)].to = next - 1
    /\ \A n \in 1..Len(p) : Tells(p[n]) /\ (n > 1 => p[n].from = p[n - 1].to + 1)

LEMMA NextTile ==
  ASSUME NEW from \in Int, NEW next \in Int, NEW p, Tiles(p, from, next),
         NEW end \in Int, NEW scan \in Scans \union {NoScan}, Tells(Period(next, end, scan))
  PROVE  /\ Tiles(p \o <<Period(next, end, scan)>>, from, end + 1)
         /\ p \o <<Period(next, end, scan)>> # <<>>
<1> DEFINE q == Period(next, end, scan)
           r == Append(p, q)
<1>1. q \in Spans /\ q.from = next /\ q.to = end
  BY DEF Period, Spans
<1>2. p \in Seq(Spans) /\ Len(p) \in Nat
  BY DEF Tiles
<1> HIDE DEF q
<1>3. p \o <<q>> = r
  BY <1>1, <1>2, AppendIsConcat
<1>4. /\ r \in Seq(Spans) /\ Len(r) = Len(p) + 1 /\ r # <<>>
      /\ \A n \in 1..Len(p) : r[n] = p[n]
      /\ r[Len(p) + 1] = q
  BY <1>1, <1>2, AppendProperties
<1> HIDE DEF r
<1>5. r[1].from = from /\ r[Len(r)].to = (end + 1) - 1
  <2>1. CASE p = <<>>
    BY <1>1, <1>4, <2>1 DEF Tiles
  <2>2. CASE p # <<>>
    <3>1. Len(p) >= 1
      BY <1>2, <2>2
    <3> QED
      BY <1>1, <1>2, <1>4, <2>2, <3>1 DEF Tiles
  <2> QED
    BY <2>1, <2>2
<1>6. ASSUME NEW n \in 1..Len(r)
      PROVE  Tells(r[n]) /\ (n > 1 => r[n].from = r[n - 1].to + 1)
  <2>1. CASE n <= Len(p)
    <3>1. r[n] = p[n] /\ (n > 1 => r[n - 1] = p[n - 1])
      BY <1>2, <1>4, <2>1
    <3> QED
      BY <1>2, <2>1, <3>1 DEF Tiles
  <2>2. CASE n = Len(p) + 1
    <3>1. r[n] = q /\ Tells(q)
      BY <1>4, <2>2 DEF q
    <3>2. ASSUME n > 1 PROVE r[n].from = r[n - 1].to + 1
      <4>1. p # <<>> /\ r[n - 1] = p[Len(p)]
        BY <1>2, <1>4, <2>2, <3>2
      <4> QED
        BY <1>1, <3>1, <4>1 DEF Tiles
    <3> QED
      BY <3>1, <3>2
  <2> QED
    BY <1>2, <1>4, <2>1, <2>2
<1>7. Tiles(r, from, end + 1)
  BY <1>4, <1>5, <1>6 DEF Tiles
<1> QED
  BY <1>3, <1>4, <1>7 DEF q

(* One turn of the loop: what was told up to the last interval goes on to   *)
(* the end of this one, the days in between belong to no interval.          *)
Told(answer, from, next) == Tiles(answer.periods, from, next) /\ answer.next = next

EndOf(s, from, to, k) == IF k = 0 THEN from ELSE Earliest(s[k].to, to) + 1

(* A day after the k-th interval and before the next one read is in none. *)
LEMMA DaysBetween ==
  ASSUME CoverageInv, NEW from \in Days, NEW to \in Days, from <= to,
         NEW s, InOrder(s, from, to), NEW k \in 0..(Len(s) - 1),
         NEW d \in Int, EndOf(s, from, to, k) <= d, d < Latest(s[k + 1].from, from)
  PROVE  ScanOf(d) = NoScan
<1>1. from \in Int /\ to \in Int /\ s \in Seq(rows) /\ Len(s) \in Nat
  BY DaysAreIntegers DEF InOrder
<1>2. \A i \in rows : i.from \in Int /\ i.to \in Int /\ i.from <= i.to
  BY DEF CoverageInv, TypeOK, Disjoint, Intervals
<1>3. \A n \in 1..Len(s) : s[n] \in rows /\ Overlaps(s[n], from, to)
  BY <1>1 DEF InOrder
<1>4. from <= d /\ d < s[k + 1].from /\ s[k + 1].from <= to
  <2>1. k + 1 \in 1..Len(s)
    BY <1>1
  <2>2. EndOf(s, from, to, k) >= from
    <3>1. CASE k = 0
      BY <1>1, <3>1 DEF EndOf
    <3>2. CASE k # 0
      <4>1. s[k] \in rows /\ from <= s[k].to
        BY <1>1, <1>3, <3>2 DEF Overlaps
      <4> QED
        BY <1>1, <1>2, <3>2, <4>1 DEF EndOf, Earliest
    <3> QED
      BY <3>1, <3>2
  <2>3. EndOf(s, from, to, k) \in Int
    <3>1. k # 0 => s[k] \in rows
      BY <1>1, <1>3
    <3> QED
      BY <1>1, <1>2, <3>1 DEF EndOf, Earliest
  <2>4. s[k + 1].from \in Int /\ s[k + 1].from <= to
    BY <1>2, <1>3, <2>1 DEF Overlaps
  <2> QED
    BY <1>1, <2>2, <2>3, <2>4 DEF Latest
<1>5. ASSUME NEW i \in rows, Holds(i, d) PROVE FALSE
  <2>1. i.from <= d /\ d <= i.to /\ Overlaps(i, from, to)
    BY <1>1, <1>2, <1>4, <1>5, <1>3 DEF Holds, Overlaps
  <2>2. k + 1 \in 1..Len(s) /\ s[k + 1].from \in Int /\ s[k + 1].to >= s[k + 1].from
    BY <1>1, <1>2, <1>3
  <2>3. ~(\A n \in 1..Len(s) : s[n].to < i.from)
    BY <1>2, <1>3, <1>4, <2>1, <2>2
  <2>4. PICK n \in 1..Len(s) : s[n] = i
    BY <2>1, <2>3 DEF InOrder
  <2>5. CASE n <= k
    <3>1. k \in 1..Len(s) /\ k # 0 /\ i.to <= s[k].to
      <4>1. k \in 1..Len(s) /\ k # 0
        BY <1>1, <2>5
      <4>2. n = k \/ s[n].to < s[k].from
        BY <1>1, <2>5, <4>1 DEF InOrder
      <4>3. s[k].from <= s[k].to /\ s[k].from \in Int /\ s[k].to \in Int /\ i.to \in Int
        BY <1>2, <1>3, <4>1
      <4> QED
        BY <2>4, <4>1, <4>2, <4>3
    <3>2. Earliest(s[k].to, to) + 1 <= d
      BY <3>1 DEF EndOf
    <3> QED
      BY <1>1, <1>2, <1>3, <1>4, <2>1, <3>1, <3>2 DEF Earliest
  <2>6. CASE n > k
    <3>1. n = k + 1 \/ s[k + 1].to < s[n].from
      BY <1>1, <2>2, <2>4, <2>6 DEF InOrder
    <3>2. s[k + 1].to \in Int /\ s[k + 1].from > d /\ i.from \in Int
      BY <1>2, <1>3, <1>4, <2>2
    <3> QED
      BY <2>1, <2>2, <2>4, <3>1, <3>2
  <2> QED
    BY <1>1, <2>5, <2>6
<1> QED
  BY <1>5 DEF ScanOf

LEMMA TurnTells ==
  ASSUME CoverageInv, NEW from \in Days, NEW to \in Days, from <= to,
         NEW s, InOrder(s, from, to), NEW k \in 1..Len(s),
         NEW answer, Told(answer, from, EndOf(s, from, to, k - 1))
  PROVE  /\ Told(AddInterval(answer, s[k], from, to), from, EndOf(s, from, to, k))
         /\ AddInterval(answer, s[k], from, to).periods # <<>>
<1> DEFINE next == EndOf(s, from, to, k - 1)
           start == Latest(s[k].from, from)
           end == Earliest(s[k].to, to)
           gap == IF start > next THEN <<Period(next, start - 1, NoScan)>> ELSE <<>>
           before == answer.periods \o gap
           last == Period(start, end, s[k].scan)
<1>1. from \in Int /\ to \in Int /\ s \in Seq(rows) /\ Len(s) \in Nat
  BY DaysAreIntegers DEF InOrder
<1>2. \A i \in rows : i.from \in Int /\ i.to \in Int /\ i.from <= i.to /\ i.scan \in Scans
  BY DEF CoverageInv, TypeOK, Disjoint, Intervals
<1>3. \A n \in 1..Len(s) : s[n] \in rows /\ Overlaps(s[n], from, to)
  BY <1>1 DEF InOrder
<1>4. next \in Int /\ next <= start
  <2>1. s[k].from \in Int
    BY <1>2, <1>3
  <2>2. CASE k = 1
    BY <1>1, <2>1, <2>2 DEF EndOf, Latest
  <2>3. CASE k # 1
    <3>1. k - 1 \in 1..Len(s) /\ k - 1 # 0 /\ s[k - 1].to < s[k].from
      BY <1>1, <2>3 DEF InOrder
    <3>2. s[k - 1].to \in Int /\ next = Earliest(s[k - 1].to, to) + 1
      BY <1>2, <1>3, <3>1 DEF EndOf
    <3> HIDE DEF next
    <3> QED
      BY <1>1, <2>1, <3>1, <3>2 DEF Earliest, Latest
  <2> QED
    BY <2>2, <2>3
<1>5. /\ start \in Int /\ end \in Int /\ start <= end /\ from <= start /\ end <= to
      /\ \A d \in start..end : Holds(s[k], d)
  BY <1>1, <1>2, <1>3 DEF Latest, Earliest, Overlaps, Holds
<1>6. Tiles(answer.periods, from, next) /\ answer.next = next
  BY DEF Told
<1>7. AddInterval(answer, s[k], from, to) = [periods |-> before \o <<last>>, next |-> end + 1]
  BY <1>6 DEF AddInterval
<1>8. EndOf(s, from, to, k) = end + 1
  BY DEF EndOf
<1>9. Tiles(before, from, start)
  <2>1. CASE start > next
    <3>1. Tells(Period(next, start - 1, NoScan))
      <4>1. next \in Int /\ start - 1 \in Int /\ next <= start - 1
        BY <1>4, <1>5, <2>1
      <4>2. ASSUME NEW d \in next..(start - 1) PROVE ScanOf(d) = NoScan
        <5>1. k - 1 \in 0..(Len(s) - 1) /\ (k - 1) + 1 = k
          BY <1>1
        <5>2. d \in Int /\ next <= d /\ d < start
          <6> HIDE DEF start, next
          <6> QED
            BY <4>1, <4>2, <1>5
        <5> QED
          BY <5>1, <5>2, DaysBetween
      <4> HIDE DEF start, next
      <4> QED
        BY <4>1, <4>2 DEF Tells, Period
    <3>2. gap = <<Period(next, start - 1, NoScan)>> /\ (start - 1) + 1 = start
      BY <1>5, <2>1
    <3> HIDE DEF start, next, gap
    <3> QED
      BY <1>1, <1>4, <1>5, <1>6, <3>1, <3>2, NextTile
  <2>2. CASE ~(start > next)
    <3>1. gap = <<>> /\ start = next
      BY <1>4, <1>5, <2>2
    <3>2. before = answer.periods
      BY <1>6, <3>1, ConcatEmptySeq DEF Tiles
    <3> HIDE DEF start, next, gap, before
    <3> QED
      BY <1>6, <3>1, <3>2
  <2> QED
    BY <2>1, <2>2
<1>10. Tells(last)
  <2>1. from..to \subseteq Days
    BY DaysAssumption DEF Days
  <2>2. ASSUME NEW d \in start..end PROVE ScanOf(d) = s[k].scan
    <3>1. d \in Days /\ Holds(s[k], d) /\ s[k] \in rows
      BY <1>1, <1>3, <1>5, <2>1
    <3> QED
      BY <3>1, ScanOfRow
  <2> HIDE DEF start, end
  <2> QED
    BY <1>5, <2>2 DEF Tells, Period, last
<1>11. s[k].scan \in Scans \union {NoScan}
  BY <1>2, <1>3
<1> HIDE DEF start, end, before, next
<1>12. Tiles(before \o <<last>>, from, end + 1) /\ before \o <<last>> # <<>>
  BY <1>1, <1>5, <1>9, <1>10, <1>11, NextTile
<1> QED
  BY <1>7, <1>8, <1>12 DEF Told

(* After the loop, everything up to the end of the last interval is told. *)
LEMMA LoopTells ==
  ASSUME CoverageInv, NEW from \in Days, NEW to \in Days, from <= to,
         NEW s, InOrder(s, from, to)
  PROVE  /\ Told(ReadIntervals(s, from, to), from, EndOf(s, from, to, Len(s)))
         /\ s # <<>> => ReadIntervals(s, from, to).periods # <<>>
<1>1. s \in Seq(rows) /\ Len(s) \in Nat /\ from \in Int
  BY DaysAreIntegers DEF InOrder
<1>2. PICK a : Turns(a, s, from, to)
  BY <1>1, FoldIsLoop
<1> DEFINE wrong == {k \in 0..Len(s) : ~Told(a[k], from, EndOf(s, from, to, k))}
<1>3. Told(a[0], from, EndOf(s, from, to, 0))
  BY <1>1, <1>2, EmptySeq DEF Turns, Told, Tiles, EndOf
<1>4. wrong = {}
  <2>1. SUFFICES ASSUME wrong # {} PROVE FALSE
    OBVIOUS
  <2>2. PICK k \in wrong : \A l \in wrong : k <= l
    <3>1. wrong \in SUBSET Nat
      BY <1>1
    <3> HIDE DEF wrong
    <3> QED
      BY <2>1, <3>1, LeastNatural
  <2>3. k \in 1..Len(s) /\ k - 1 \in 0..Len(s)
    BY <1>1, <1>3, <2>2
  <2>4. Told(a[k - 1], from, EndOf(s, from, to, k - 1))
    BY <2>2, <2>3
  <2>5. Told(a[k], from, EndOf(s, from, to, k))
    BY <1>2, <2>3, <2>4, TurnTells DEF Turns
  <2> QED
    BY <2>2, <2>5
<1>5. s # <<>> => a[Len(s)].periods # <<>>
  <2> SUFFICES ASSUME s # <<>> PROVE a[Len(s)].periods # <<>>
    OBVIOUS
  <2>1. Len(s) \in 1..Len(s) /\ Len(s) - 1 \in 0..Len(s)
    BY <1>1
  <2>2. Told(a[Len(s) - 1], from, EndOf(s, from, to, Len(s) - 1))
    BY <1>4, <2>1
  <2> QED
    BY <1>2, <2>1, <2>2, TurnTells DEF Turns
<1> QED
  BY <1>1, <1>2, <1>4, <1>5 DEF Turns

(* When nothing is cut off, the days after the last interval are in none. *)
LEMMA DaysAfter ==
  ASSUME CoverageInv, NEW from \in Days, NEW to \in Days, from <= to,
         NEW s, InOrder(s, from, to),
         \A i \in rows : Overlaps(i, from, to) => \E n \in 1..Len(s) : s[n] = i,
         NEW d \in from..to, EndOf(s, from, to, Len(s)) <= d
  PROVE  ScanOf(d) = NoScan
<1>1. from \in Int /\ to \in Int /\ s \in Seq(rows) /\ Len(s) \in Nat /\ d \in Int
  BY DaysAreIntegers DEF InOrder
<1>2. \A i \in rows : i.from \in Int /\ i.to \in Int /\ i.from <= i.to
  BY DEF CoverageInv, TypeOK, Disjoint, Intervals
<1>3. \A n \in 1..Len(s) : s[n] \in rows
  BY <1>1 DEF InOrder
<1>4. ASSUME NEW i \in rows, Holds(i, d) PROVE FALSE
  <2>1. i.from <= d /\ d <= i.to /\ Overlaps(i, from, to)
    BY <1>1, <1>2, <1>4 DEF Holds, Overlaps
  <2>2. PICK n \in 1..Len(s) : s[n] = i
    BY <2>1
  <2>3. Len(s) \in 1..Len(s) /\ Len(s) # 0
    BY <1>1
  <2>4. n = Len(s) \/ i.to < s[Len(s)].from
    BY <1>1, <2>2, <2>3 DEF InOrder
  <2>5. i.to <= s[Len(s)].to /\ s[Len(s)].to \in Int
    BY <1>2, <1>3, <2>2, <2>3, <2>4
  <2>6. Earliest(s[Len(s)].to, to) + 1 <= d
    BY <2>3 DEF EndOf
  <2> QED
    BY <1>1, <1>2, <2>1, <2>5, <2>6 DEF Earliest
<1> QED
  BY <1>4 DEF ScanOf

(* What a complete and a bounded answer tell. *)
LEMMA CompleteAnswer ==
  ASSUME CoverageInv, FiniteRows, NEW from \in Days, NEW to \in Days, from <= to,
         ~CoverageAnswer(from, to).bounded
  PROVE  /\ Tiles(CoverageAnswer(from, to).periods, from, to + 1)
         /\ CoverageAnswer(from, to).periods # <<>>
<1> DEFINE s == StoredIntervals(from, to)
           read == ReadIntervals(s, from, to)
           end == EndOf(s, from, to, Len(s))
           p == CoverageAnswer(from, to).periods
<1>1. InOrder(s, from, to) /\ \A i \in rows : Overlaps(i, from, to) => \E n \in 1..Len(s) : s[n] = i
  BY StoredInOrder
<1>2. ~(Len(s) > MaxCoveredIntervals)
  BY DEF CoverageAnswer
<1>3. p = read.periods \o (IF read.next <= to THEN <<Period(read.next, to, NoScan)>> ELSE <<>>)
  BY <1>2 DEF CoverageAnswer
<1> HIDE DEF s, p, read
<1>4. Told(read, from, end) /\ (s # <<>> => read.periods # <<>>)
  BY <1>1, LoopTells DEF read
<1>5. from \in Int /\ to \in Int /\ s \in Seq(rows) /\ Len(s) \in Nat
  BY <1>1, DaysAreIntegers DEF InOrder
<1>6. end \in Int /\ from <= end /\ end <= to + 1
  <2>1. CASE Len(s) = 0
    BY <1>5, <2>1 DEF EndOf
  <2>2. CASE Len(s) # 0
    <3>1. s[Len(s)] \in rows /\ Overlaps(s[Len(s)], from, to)
      BY <1>1, <1>5, <2>2 DEF InOrder
    <3>2. s[Len(s)].to \in Int /\ from <= s[Len(s)].to
      BY <3>1 DEF CoverageInv, TypeOK, Intervals, Overlaps
    <3> QED
      BY <1>5, <2>2, <3>2 DEF EndOf, Earliest
  <2> QED
    BY <2>1, <2>2
<1>7. \A d \in from..to : end <= d => ScanOf(d) = NoScan
  BY <1>1, DaysAfter
<1> HIDE DEF end
<1>8. Tiles(read.periods, from, end) /\ read.next = end
  BY <1>4 DEF Told
<1>9. CASE end <= to
  <2>1. p = read.periods \o <<Period(end, to, NoScan)>>
    BY <1>3, <1>8, <1>9
  <2>2. Tells(Period(end, to, NoScan))
    BY <1>5, <1>6, <1>7, <1>9 DEF Tells, Period
  <2> QED
    BY <1>5, <1>6, <1>8, <2>1, <2>2, NextTile DEF p
<1>10. CASE ~(end <= to)
  <2>1. p = read.periods
    BY <1>3, <1>8, <1>10, ConcatEmptySeq DEF Tiles
  <2>2. end = to + 1 /\ s # <<>>
    <3>1. Len(s) = 0 => end = from
      BY DEF end, EndOf
    <3> QED
      BY <1>5, <1>6, <1>10, <3>1
  <2> QED
    BY <1>4, <1>8, <2>1, <2>2 DEF p
<1> QED
  BY <1>9, <1>10

LEMMA BoundedAnswer ==
  ASSUME CoverageInv, FiniteRows, NEW from \in Days, NEW to \in Days, from <= to,
         CoverageAnswer(from, to).bounded
  PROVE  /\ Tiles(CoverageAnswer(from, to).periods, from, CoverageAnswer(from, to).next)
         /\ CoverageAnswer(from, to).periods # <<>>
         /\ from < CoverageAnswer(from, to).next /\ CoverageAnswer(from, to).next <= to
<1> DEFINE K == MaxCoveredIntervals
           all == StoredIntervals(from, to)
           s == SubSeq(all, 1, K)
           read == ReadIntervals(s, from, to)
<1>1. InOrder(all, from, to)
  BY StoredInOrder
<1>2. Len(all) > K
  BY DEF CoverageAnswer
<1>3. CoverageAnswer(from, to).periods = read.periods \o <<>>
      /\ CoverageAnswer(from, to).next = read.next
  BY <1>2 DEF CoverageAnswer
<1>4. from \in Int /\ to \in Int /\ all \in Seq(rows) /\ Len(all) \in Nat /\ K \in Nat \ {0}
  BY <1>1, DaysAreIntegers, LimitsAssumption DEF InOrder
<1> HIDE DEF all, K
<1>5. K \in 1..Len(all) /\ K + 1 \in 1..Len(all)
  BY <1>2, <1>4
<1>6. InOrder(s, from, to)
  BY <1>1, <1>5, PrefixInOrder
<1>7. Len(s) = K /\ s[K] = all[K]
  BY <1>4, <1>5, SubSeqProperties, ElementOfSeq
<1> HIDE DEF s, read
<1>8. Told(read, from, EndOf(s, from, to, K)) /\ read.periods # <<>>
  BY <1>4, <1>6, <1>7, LoopTells DEF read
<1>9. all[K].to < all[K + 1].from /\ all[K + 1].from <= to /\ from <= all[K].to
  BY <1>1, <1>4, <1>5 DEF InOrder, Overlaps
<1>10. all[K].to \in Int /\ all[K + 1].from \in Int
  <2>1. all[K] \in rows /\ all[K + 1] \in rows
    BY <1>4, <1>5
  <2> QED
    BY <2>1 DEF CoverageInv, TypeOK, Intervals
<1>11. EndOf(s, from, to, K) = all[K].to + 1
  BY <1>4, <1>7, <1>9, <1>10 DEF EndOf, Earliest
<1>12. read.periods \o <<>> = read.periods
  BY <1>8, ConcatEmptySeq DEF Told, Tiles
<1> QED
  BY <1>3, <1>4, <1>8, <1>9, <1>10, <1>11, <1>12 DEF Told

(* Every answer of coverage(), for any range, any number of stored          *)
(* intervals and any limit: its periods are consecutive, cover the range up *)
(* to where the answer says it goes on, and tell each day's latest scan.    *)
THEOREM CoverageAnswersExact == Spec => []AnswersAreExact
<1>1. CoverageInv /\ FiniteRows => AnswersAreExact
  <2> SUFFICES ASSUME CoverageInv, FiniteRows, NEW from \in Days, NEW to \in Days, from <= to
               PROVE  LET answer == CoverageAnswer(from, to)
                          p == answer.periods
                      IN /\ p # <<>>
                         /\ p[1].from = from
                         /\ \A n \in 1..Len(p) :
                              /\ p[n].from <= p[n].to
                              /\ n > 1 => p[n].from = p[n - 1].to + 1
                              /\ \A d \in p[n].from..p[n].to : ScanOf(d) = p[n].scan
                         /\ p[Len(p)].to = IF answer.bounded THEN answer.next - 1 ELSE to
                         /\ answer.bounded => from < answer.next /\ answer.next <= to
    BY DEF AnswersAreExact
  <2> DEFINE answer == CoverageAnswer(from, to)
             end == IF answer.bounded THEN answer.next ELSE to + 1
  <2>1. Tiles(answer.periods, from, end) /\ answer.periods # <<>>
    BY CompleteAnswer, BoundedAnswer
  <2>2. answer.bounded => from < answer.next /\ answer.next <= to
    BY BoundedAnswer
  <2>3. to \in Int
    BY DaysAreIntegers
  <2> HIDE DEF answer
  <2> QED
    BY <2>1, <2>2, <2>3 DEF Tiles, Tells, answer
<1> QED
  BY <1>1, CoverageInvariant, RowsStayFinite, PTL
=============================================================================
