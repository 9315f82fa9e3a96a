------------------------- MODULE LegalArchiveProofs -------------------------
(***************************************************************************)
(* Two results about the legal archive, for any number of years, reviews   *)
(* and interrupted operations, with one restored store.  (Each is false of *)
(* two restores: both stores may come back from before.)                   *)
(*                                                                         *)
(* A store that was never restored keeps what it holds: its whole source,  *)
(* or the signed record of the destruction, and no review but one that the *)
(* owner asked for or was answered.  While no store was restored this is   *)
(* true of both, afterwards it is true of one, and one is enough: a review *)
(* is in force only if both stores hold it, and a source is removed only   *)
(* once both hold the signed record.                                       *)
(***************************************************************************)
EXTENDS LegalArchive, TLAPS

-----------------------------------------------------------------------------
(* Types.                                                                  *)

FileStates == {"none", "torn", "whole"}
Reviews == [number : Nat, hold : BOOLEAN, reviewAt : Nat, expires : Nat]
Stores == [made : BOOLEAN,
           source : FileStates, manifest : FileStates, manifestSig : FileStates,
           review : Reviews, reviewSig : Reviews, pending : BOOLEAN,
           tomb : FileStates, tombSig : FileStates]

ArchiveTypes ==
    /\ copy \in [Copies -> Stores]
    /\ backup \in [Copies -> Stores]
    /\ work \in [op : {"idle", "seal", "review", "purge"}, review : Reviews]
    /\ time \in Nat /\ taken \in Nat
    /\ reviews \in Nat /\ faults \in Nat /\ restores \in Nat

-----------------------------------------------------------------------------
(* What a store that was not restored keeps.                               *)

KeepsSource(i) == erased => Sealed(i) \/ Signed(i)
KnowsReview(i) == copy[i].review \in owed \union {Absent}

Keeper(i) == KeepsSource(i) /\ KnowsReview(i)

(* Both stores, until one is restored; then one. *)
OneStore == \E i \in Copies : Keeper(i)
BothStores == restores = 0 => \A i \in Copies : Keeper(i)

(* The terms under which an operation goes on that has not written yet. *)
Permits(terms) == ~terms.hold /\ time >= terms.expires /\ time < terms.reviewAt
WorkIsOwed ==
    /\ work.op = "review" => work.review \in owed
    /\ work.op = "purge" /\ ~AnyTomb => \E terms \in owed : Permits(terms)

ArchiveInv == ArchiveTypes /\ OneStore /\ BothStores /\ WorkIsOwed

-----------------------------------------------------------------------------
(* What the writes do to a store.                                          *)

Files == {"source", "manifest", "manifestSig", "tomb", "tombSig"}

(* A file that was absent is written, whole or torn: nothing that a store  *)
(* held is lost (`write_exclusive` never overwrites).                      *)
LEMMA AbsentFilled ==
    ASSUME ArchiveTypes, NEW i \in Copies, NEW f \in Files, NEW v \in {"torn", "whole"},
           copy[i][f] = "none", copy' = [copy EXCEPT ![i][f] = v]
    PROVE  /\ copy' \in [Copies -> Stores]
           /\ \A k \in Copies : /\ Sealed(k) => Sealed(k)'
                                /\ Signed(k) => Signed(k)'
                                /\ Tombed(k) => Tombed(k)'
                                /\ copy'[k].review = copy[k].review
                                /\ f \notin {"tomb", "tombSig"} => Tombed(k)' = Tombed(k)
<1>1. copy \in [Copies -> Stores]
  BY DEF ArchiveTypes
<1>2. /\ copy' = [copy EXCEPT ![i] = copy'[i]]
      /\ copy'[i] = [copy[i] EXCEPT ![f] = v]
      /\ copy[i] \in Stores
  BY <1>1
<1>3. /\ copy'[i] \in Stores
      /\ Sealed(i) => Sealed(i)'
      /\ Signed(i) => Signed(i)'
      /\ Tombed(i) => Tombed(i)'
      /\ copy'[i].review = copy[i].review
      /\ f \notin {"tomb", "tombSig"} => Tombed(i)' = Tombed(i)
  <2>1. CASE f = "source"
    BY <1>2, <2>1 DEF Stores, FileStates, Sealed, Signed, Tombed
  <2>2. CASE f = "manifest"
    BY <1>2, <2>2 DEF Stores, FileStates, Sealed, Signed, Tombed
  <2>3. CASE f = "manifestSig"
    BY <1>2, <2>3 DEF Stores, FileStates, Sealed, Signed, Tombed
  <2>4. CASE f = "tomb"
    BY <1>2, <2>4 DEF Stores, FileStates, Sealed, Signed, Tombed
  <2>5. CASE f = "tombSig"
    BY <1>2, <2>5 DEF Stores, FileStates, Sealed, Signed, Tombed
  <2> QED BY <2>1, <2>2, <2>3, <2>4, <2>5 DEF Files
<1>4. \A k \in Copies \ {i} : copy'[k] = copy[k]
  BY <1>1, <1>2
<1>5. copy' \in [Copies -> Stores]
  BY <1>1, <1>2, <1>3
<1> QED BY <1>3, <1>4, <1>5 DEF Sealed, Signed, Tombed

(* A seal writes a file that was absent: whole, or torn where it dies.     *)
LEMMA SealFills ==
    ASSUME NEW v, NEW i \in Copies, NEW n \in DOMAIN SealOrder,
           First(SealOrder, i, n), copy' = [copy EXCEPT ![i][SealOrder[n]] = v]
    PROVE  \E f \in {"source", "manifest", "manifestSig"} :
               copy[i][f] = "none" /\ copy' = [copy EXCEPT ![i][f] = v]
<1>1. n \in 1..3
  BY DEF SealOrder
<1>2. SealOrder[n] \in {"source", "manifest", "manifestSig"}
  BY <1>1 DEF SealOrder
<1> QED BY <1>2 DEF First

(* A review is written in a store, its record or its signature.            *)
LEMMA ReviewWritten ==
    ASSUME ArchiveTypes, NEW i \in Copies, NEW f \in {"review", "reviewSig"},
           copy' = [copy EXCEPT ![i][f] = work.review]
    PROVE  /\ copy' \in [Copies -> Stores]
           /\ \A k \in Copies : /\ Sealed(k)' = Sealed(k)
                                /\ Signed(k)' = Signed(k)
                                /\ Tombed(k)' = Tombed(k)
                                /\ copy'[k].review \in {copy[k].review, work.review}
<1>1. copy \in [Copies -> Stores] /\ work.review \in Reviews
  BY DEF ArchiveTypes
<1>2. /\ copy' = [copy EXCEPT ![i] = copy'[i]]
      /\ copy'[i] = [copy[i] EXCEPT ![f] = work.review]
      /\ copy[i] \in Stores
  BY <1>1
<1>3. /\ copy'[i] \in Stores
      /\ Sealed(i)' = Sealed(i)
      /\ Signed(i)' = Signed(i)
      /\ Tombed(i)' = Tombed(i)
      /\ copy'[i].review \in {copy[i].review, work.review}
  <2>1. CASE f = "review"
    BY <1>1, <1>2, <2>1 DEF Stores, Sealed, Signed, Tombed
  <2>2. CASE f = "reviewSig"
    BY <1>1, <1>2, <2>2 DEF Stores, Sealed, Signed, Tombed
  <2> QED BY <2>1, <2>2
<1>4. \A k \in Copies \ {i} : copy'[k] = copy[k]
  BY <1>1, <1>2
<1>5. copy' \in [Copies -> Stores]
  BY <1>1, <1>2, <1>3
<1> QED BY <1>3, <1>4, <1>5 DEF Sealed, Signed, Tombed

(* A review that is staged and not renamed changes nothing else.           *)
LEMMA ReviewStaged ==
    ASSUME ArchiveTypes, NEW i \in Copies, copy' = [copy EXCEPT ![i].pending = TRUE]
    PROVE  /\ copy' \in [Copies -> Stores]
           /\ \A k \in Copies : /\ Sealed(k)' = Sealed(k)
                                /\ Signed(k)' = Signed(k)
                                /\ Tombed(k)' = Tombed(k)
                                /\ copy'[k].review = copy[k].review
<1>1. copy \in [Copies -> Stores]
  BY DEF ArchiveTypes
<1>2. /\ copy' = [copy EXCEPT ![i] = copy'[i]]
      /\ copy'[i] = [copy[i] EXCEPT !.pending = TRUE]
      /\ copy[i] \in Stores
  BY <1>1
<1>3. /\ copy'[i] \in Stores
      /\ Sealed(i)' = Sealed(i)
      /\ Signed(i)' = Signed(i)
      /\ Tombed(i)' = Tombed(i)
      /\ copy'[i].review = copy[i].review
  <2>1. \A g \in Files \union {"review", "reviewSig"} : copy'[i][g] = copy[i][g]
    BY <1>2 DEF Stores, Files
  <2>2. copy'[i] \in Stores
    <3>1. PICK b \in BOOLEAN : copy'[i] = [copy[i] EXCEPT !.pending = b]
      BY <1>2, Zenon
    <3> QED BY <1>2, <3>1 DEF Stores
  <2> QED BY <2>1, <2>2 DEF Files, Sealed, Signed, Tombed
<1>4. \A k \in Copies \ {i} : copy'[k] = copy[k]
  BY <1>1, <1>2
<1>5. copy' \in [Copies -> Stores]
  BY <1>1, <1>2, <1>3
<1> QED BY <1>3, <1>4, <1>5 DEF Sealed, Signed, Tombed

(* The directories that a seal makes change no file.                       *)
LEMMA DirectoriesMade ==
    ASSUME ArchiveTypes, MakesDirectories
    PROVE  /\ copy' \in [Copies -> Stores]
           /\ \A k \in Copies : /\ Sealed(k)' = Sealed(k)
                                /\ Signed(k)' = Signed(k)
                                /\ Tombed(k)' = Tombed(k)
                                /\ copy'[k].review = copy[k].review
<1>1. copy \in [Copies -> Stores]
  BY DEF ArchiveTypes
<1>2. \A k \in Copies : copy'[k] = [copy[k] EXCEPT !.made = TRUE]
  BY DEF MakesDirectories
<1>3. ASSUME NEW k \in Copies
      PROVE  /\ copy'[k] \in Stores
             /\ \A g \in Files \union {"review", "reviewSig"} : copy'[k][g] = copy[k][g]
  <2>1. copy[k] \in Stores
    BY <1>1
  <2>2. PICK b \in BOOLEAN : copy'[k] = [copy[k] EXCEPT !.made = b]
    BY <1>2, Zenon
  <2>3. copy'[k] \in Stores
    BY <2>1, <2>2 DEF Stores
  <2>4. \A g \in Files \union {"review", "reviewSig"} : copy'[k][g] = copy[k][g]
    BY <2>1, <2>2 DEF Stores, Files
  <2> QED BY <2>3, <2>4
<1>4. copy' \in [Copies -> Stores]
  BY <1>3 DEF MakesDirectories
<1> QED BY <1>3, <1>4 DEF Files, Sealed, Signed, Tombed

(* An operation that dies inside a write destroys nothing, and begins no   *)
(* destruction unless it was one.                                          *)
LEMMA DyingWrite ==
    ASSUME ArchiveTypes, DiesWriting
    PROVE  /\ copy' \in [Copies -> Stores]
           /\ \A k \in Copies : /\ Sealed(k) => Sealed(k)'
                                /\ Signed(k) => Signed(k)'
                                /\ copy'[k].review = copy[k].review
                                /\ work.op # "purge" => Tombed(k)' = Tombed(k)
<1>1. ASSUME work.op = "seal",
             NEW i \in Copies, NEW n \in DOMAIN SealOrder, First(SealOrder, i, n),
             copy' = [copy EXCEPT ![i][SealOrder[n]] = "torn"]
      PROVE  /\ copy' \in [Copies -> Stores]
             /\ \A k \in Copies : /\ Sealed(k) => Sealed(k)'
                                  /\ Signed(k) => Signed(k)'
                                  /\ copy'[k].review = copy[k].review
                                  /\ Tombed(k)' = Tombed(k)
  <2>1. PICK f \in {"source", "manifest", "manifestSig"} :
          copy[i][f] = "none" /\ copy' = [copy EXCEPT ![i][f] = "torn"]
    BY <1>1, SealFills
  <2>2. f \in Files /\ f \notin {"tomb", "tombSig"}
    BY DEF Files
  <2> QED BY <2>1, <2>2, AbsentFilled
<1>2. ASSUME work.op = "review", NEW i \in Copies, copy' = [copy EXCEPT ![i].pending = TRUE]
      PROVE  /\ copy' \in [Copies -> Stores]
             /\ \A k \in Copies : /\ Sealed(k) => Sealed(k)'
                                  /\ Signed(k) => Signed(k)'
                                  /\ copy'[k].review = copy[k].review
                                  /\ Tombed(k)' = Tombed(k)
  BY <1>2, ReviewStaged
<1>3. ASSUME work.op = "purge", NEW i \in Copies, NEW f \in {"tomb", "tombSig"},
             TombPlace(i, f), copy' = [copy EXCEPT ![i][f] = "torn"]
      PROVE  /\ copy' \in [Copies -> Stores]
             /\ \A k \in Copies : /\ Sealed(k) => Sealed(k)'
                                  /\ Signed(k) => Signed(k)'
                                  /\ copy'[k].review = copy[k].review
  BY <1>3, AbsentFilled DEF TombPlace, Files
<1>4. \/ /\ work.op = "seal"
         /\ \E i \in Copies, n \in DOMAIN SealOrder :
              First(SealOrder, i, n) /\ copy' = [copy EXCEPT ![i][SealOrder[n]] = "torn"]
      \/ work.op = "review" /\ \E i \in Copies : copy' = [copy EXCEPT ![i].pending = TRUE]
      \/ /\ work.op = "purge"
         /\ \E i \in Copies, f \in {"tomb", "tombSig"} :
              TombPlace(i, f) /\ copy' = [copy EXCEPT ![i][f] = "torn"]
  BY DEF DiesWriting
<1>5. CASE work.op = "seal"
  <2>1. PICK i \in Copies, n \in DOMAIN SealOrder :
          First(SealOrder, i, n) /\ copy' = [copy EXCEPT ![i][SealOrder[n]] = "torn"]
    BY <1>4, <1>5
  <2> QED BY <1>1, <1>5, <2>1
<1>6. CASE work.op = "review"
  <2>1. PICK i \in Copies : copy' = [copy EXCEPT ![i].pending = TRUE]
    BY <1>4, <1>6
  <2> QED BY <1>2, <1>6, <2>1
<1>7. CASE work.op = "purge"
  <2>1. PICK i \in Copies, f \in {"tomb", "tombSig"} :
          TombPlace(i, f) /\ copy' = [copy EXCEPT ![i][f] = "torn"]
    BY <1>4, <1>7
  <2> QED BY <1>3, <1>7, <2>1
<1> QED BY <1>4, <1>5, <1>6, <1>7

(* A destruction removes files only where both records are signed: both    *)
(* stores keep the record, and no review is left but one they had.         *)
LEMMA FilesUnlinked ==
    ASSUME ArchiveTypes, Unlink
    PROVE  /\ copy' \in [Copies -> Stores]
           /\ \A k \in Copies : /\ Signed(k) /\ Signed(k)'
                                /\ copy'[k].review \in {copy[k].review, Absent}
<1>1. copy \in [Copies -> Stores] /\ \A k \in Copies : Signed(k)
  BY DEF ArchiveTypes, Unlink
<1>2. PICK i \in Copies :
        copy' = [copy EXCEPT ![i] = IF copy[i].source = "none" THEN Destroyed
                                    ELSE [copy[i] EXCEPT !.source = "none"]]
  BY DEF Unlink
<1>3. copy'[i] \in {Destroyed, [copy[i] EXCEPT !.source = "none"]} /\ copy[i] \in Stores
  BY <1>1, <1>2
<1>4. /\ copy'[i] \in Stores
      /\ Signed(i)'
      /\ copy'[i].review \in {copy[i].review, Absent}
  <2>1. CASE copy'[i] = Destroyed
    <3>1. Absent \in Reviews
      BY DEF Absent, Reviews
    <3>2. Destroyed \in Stores /\ Destroyed.review = Absent
      BY <3>1 DEF Destroyed, Empty, Stores, FileStates
    <3>3. Destroyed.tomb = "whole" /\ Destroyed.tombSig = "whole"
      BY DEF Destroyed, Empty
    <3> QED BY <2>1, <3>2, <3>3 DEF Signed
  <2>2. CASE copy'[i] = [copy[i] EXCEPT !.source = "none"]
    BY <1>1, <1>3, <2>2 DEF Stores, FileStates, Signed
  <2> QED BY <1>3, <2>1, <2>2
<1>5. \A k \in Copies \ {i} : copy'[k] = copy[k]
  BY <1>1, <1>2
<1>6. copy' \in [Copies -> Stores]
  BY <1>1, <1>2, <1>4, <1>5
<1> QED BY <1>1, <1>4, <1>5, <1>6 DEF Signed

-----------------------------------------------------------------------------
(* The terms.                                                              *)

(* Every year and every review that is computed is a natural number, and   *)
(* the terms in force are a review.                                        *)
LEMMA TermsAreReviews ==
    ASSUME ArchiveAssumption, ArchiveTypes
    PROVE  FirstTerms \in Reviews /\ Terms \in Reviews
<1>1. FirstTerms \in Reviews
  BY DEF ArchiveTypes, FirstTerms, Reviews
<1>2. 1 \in Copies /\ copy[1].review \in Reviews
  BY DEF ArchiveAssumption, ArchiveTypes, Stores
<1> QED BY <1>1, <1>2 DEF Terms

(* A destruction begins under terms that are owed: the first terms never   *)
(* allow it, because their review falls due before they expire, and a      *)
(* review that is in force is in both stores, one of which knows it.       *)
LEMMA InForceIsOwed ==
    ASSUME ArchiveAssumption, ArchiveTypes, OneStore, Verified, MayDestroy
    PROVE  \E terms \in owed : Permits(terms)
<1>1. ASSUME \A i \in Copies : ~Reviewed(i)
      PROVE  FALSE
  <2>1. Terms = FirstTerms
    BY <1>1 DEF Terms
  <2>2. time < taken + 1 /\ time >= taken + 3
    BY <2>1 DEF MayDestroy, FirstTerms
  <2> QED BY <2>2 DEF ArchiveTypes
<1>2. PICK k \in Copies : Reviewed(k)
  BY <1>1
<1>3. SameReview /\ Terms = copy[1].review
  BY <1>2 DEF Verified, SettledReview, Terms
<1>4. PICK i \in Copies : copy[i].review \in owed \union {Absent}
  BY DEF OneStore, Keeper, KnowsReview
<1>5. 1 \in Copies
  BY DEF ArchiveAssumption
<1>6. copy[k].review # Absent /\ copy[k].review = copy[i].review /\ Terms = copy[i].review
  BY <1>2, <1>3, <1>5 DEF SameReview, Reviewed
<1>7. Terms \in owed
  BY <1>4, <1>6
<1> QED BY <1>7 DEF MayDestroy, Permits

-----------------------------------------------------------------------------
(* The types are kept.                                                     *)

(* Whatever an operation does, a store holds files and reviews, and the    *)
(* years and the reviews are counted.                                      *)
LEMMA TypesKept ==
    ASSUME ArchiveAssumption, ArchiveTypes, [Next]_vars
    PROVE  ArchiveTypes'
<1> USE DEF ArchiveTypes
<1>a. Absent \in Reviews
  BY DEF Absent, Reviews
<1>b. \A op \in {"idle", "seal", "review", "purge"} :
        [Idle EXCEPT !.op = op] \in [op : {"idle", "seal", "review", "purge"}, review : Reviews]
  BY <1>a DEF Idle
<1>c. Idle \in [op : {"idle", "seal", "review", "purge"}, review : Reviews]
  BY <1>a DEF Idle
<1>1. CASE UNCHANGED vars
  BY <1>1 DEF vars, bounds
<1>2. CASE BeginSeal
  <2>1. copy' \in [Copies -> Stores]
    BY <1>2, DirectoriesMade DEF BeginSeal
  <2> QED BY <1>2, <1>b, <2>1 DEF BeginSeal, bounds
<1>19. CASE SealTurnedAway
  <2>1. copy' \in [Copies -> Stores]
    BY <1>19, DirectoriesMade DEF SealTurnedAway
  <2> QED BY <1>19, <2>1 DEF SealTurnedAway, Keeps, bounds
<1>3. ASSUME NEW hold \in BOOLEAN, NEW extended \in BOOLEAN, BeginReview(hold, extended)
      PROVE  ArchiveTypes'
  <2>1. NextReview(hold, extended) \in Reviews
    <3>1. Terms.expires \in Nat
      BY TermsAreReviews DEF Reviews
    <3>2. Terms.expires + (IF hold /\ extended THEN 1 ELSE 0) \in Nat
      BY <3>1
    <3>3. reviews + 1 \in Nat /\ time + 1 \in Nat
      OBVIOUS
    <3> QED BY <3>2, <3>3 DEF NextReview, Reviews
  <2> QED BY <1>3, <2>1 DEF BeginReview
<1>4. CASE BeginPurge
  BY <1>4, <1>b DEF BeginPurge, Keeps, bounds
<1>5. CASE ResumePurge
  BY <1>5, <1>b DEF ResumePurge, Keeps, bounds
<1>6. CASE SealWrite
  <2>1. PICK i \in Copies, f \in {"source", "manifest", "manifestSig"} :
          copy[i][f] = "none" /\ copy' = [copy EXCEPT ![i][f] = "whole"]
    BY <1>6, SealFills DEF SealWrite, Writes
  <2>2. copy' \in [Copies -> Stores]
    BY <2>1, AbsentFilled DEF Files
  <2> QED BY <1>6, <2>2 DEF SealWrite, Keeps, bounds
<1>7. CASE SealEnds
  BY <1>7, <1>c DEF SealEnds, Ends, bounds
<1>8. CASE SealRefused
  BY <1>8, <1>c DEF SealRefused, Ends, Keeps, bounds
<1>9. CASE ReviewWrite
  <2>1. copy' \in [Copies -> Stores]
    BY <1>9, ReviewWritten DEF ReviewWrite
  <2> QED BY <1>9, <2>1 DEF ReviewWrite, Keeps, bounds
<1>10. CASE ReviewEnds
  BY <1>10, <1>c DEF ReviewEnds, Ends, bounds
<1>11. CASE TombWrite
  <2>1. copy' \in [Copies -> Stores]
    BY <1>11, AbsentFilled DEF TombWrite, TombPlace, Writes, Files
  <2> QED BY <1>11, <2>1 DEF TombWrite, Keeps, bounds
<1>12. CASE Unlink
  <2>1. copy' \in [Copies -> Stores]
    BY <1>12, FilesUnlinked
  <2> QED BY <1>12, <2>1 DEF Unlink, Keeps, bounds
<1>13. CASE PurgeEnds
  BY <1>13, <1>c DEF PurgeEnds, Ends, bounds
<1>14. CASE Dies
  BY <1>14, <1>c DEF Dies, Fault, Ends
<1>15. CASE DiesWriting
  <2>1. copy' \in [Copies -> Stores]
    BY <1>15, DyingWrite
  <2> QED BY <1>15, <1>c, <2>1 DEF DiesWriting, Fault, Ends
<1>16. ASSUME NEW i \in Copies, Save(i)
       PROVE  ArchiveTypes'
  BY <1>16 DEF Save, bounds
<1>17. ASSUME NEW i \in Copies, Restore(i)
       PROVE  ArchiveTypes'
  BY <1>17 DEF Restore, Fault
<1>18. CASE Tick
  BY <1>18 DEF Tick, bounds
<1> QED BY <1>1, <1>2, <1>3, <1>4, <1>5, <1>6, <1>7, <1>8, <1>9, <1>10, <1>11, <1>12,
           <1>13, <1>14, <1>15, <1>16, <1>17, <1>18, <1>19
        DEF Next, SealStep, ReviewStep, PurgeStep

-----------------------------------------------------------------------------
(* What a store knows is kept by every operation.                          *)

(* A store that is not restored goes on keeping the source, or the signed  *)
(* record, and no review but one that is owed or was.                      *)
LEMMA KeepersKept ==
    ASSUME ArchiveTypes, WorkIsOwed, [Next]_vars, ~\E i \in Copies : Restore(i),
           NEW k \in Copies, Keeper(k)
    PROVE  Keeper(k)'
<1>1. CASE UNCHANGED <<copy, erased, owed>>
  BY <1>1 DEF Keeper, KeepsSource, KnowsReview, Sealed, Signed
<1>2. CASE UNCHANGED vars
  BY <1>1, <1>2 DEF vars
<1>3. CASE BeginSeal \/ SealTurnedAway
  <2>1. UNCHANGED <<erased, owed>> /\ MakesDirectories
    BY <1>3 DEF BeginSeal, SealTurnedAway, Keeps
  <2>2. /\ Sealed(k)' = Sealed(k)
        /\ Signed(k)' = Signed(k)
        /\ copy'[k].review = copy[k].review
    BY <2>1, DirectoriesMade
  <2> QED BY <2>1, <2>2 DEF Keeper, KeepsSource, KnowsReview
<1>4. ASSUME NEW hold \in BOOLEAN, NEW extended \in BOOLEAN, BeginReview(hold, extended)
      PROVE  Keeper(k)'
  BY <1>4 DEF BeginReview, Keeper, KeepsSource, KnowsReview, Sealed, Signed
<1>5. CASE BeginPurge
  BY <1>1, <1>5 DEF BeginPurge, Keeps
<1>6. CASE ResumePurge
  BY <1>1, <1>6 DEF ResumePurge, Keeps
<1>7. CASE SealWrite
  <2>1. PICK i \in Copies, f \in {"source", "manifest", "manifestSig"} :
          copy[i][f] = "none" /\ copy' = [copy EXCEPT ![i][f] = "whole"]
    BY <1>7, SealFills DEF SealWrite, Writes
  <2>2. /\ Sealed(k) => Sealed(k)'
        /\ Signed(k) => Signed(k)'
        /\ copy'[k].review = copy[k].review
    BY <2>1, AbsentFilled DEF Files
  <2>3. UNCHANGED <<erased, owed>>
    BY <1>7 DEF SealWrite, Keeps
  <2> QED BY <2>2, <2>3 DEF Keeper, KeepsSource, KnowsReview
<1>8. CASE SealEnds
  <2>1. Sealed(k) /\ owed \subseteq owed' /\ UNCHANGED copy
    BY <1>8 DEF SealEnds, Verified
  <2> QED BY <2>1 DEF Keeper, KeepsSource, KnowsReview, Sealed
<1>9. CASE SealRefused
  BY <1>1, <1>9 DEF SealRefused, Keeps
<1>10. CASE ReviewWrite
  <2>1. /\ Sealed(k)' = Sealed(k)
        /\ Signed(k)' = Signed(k)
        /\ copy'[k].review \in {copy[k].review, work.review}
    BY <1>10, ReviewWritten DEF ReviewWrite
  <2>2. UNCHANGED <<erased, owed>> /\ work.review \in owed
    BY <1>10 DEF ReviewWrite, Keeps, WorkIsOwed
  <2> QED BY <2>1, <2>2 DEF Keeper, KeepsSource, KnowsReview
<1>11. CASE ReviewEnds
  <2>1. copy[k].review = work.review /\ owed' = {work.review} /\ UNCHANGED <<copy, erased>>
    BY <1>11 DEF ReviewEnds
  <2> QED BY <2>1 DEF Keeper, KeepsSource, KnowsReview, Sealed, Signed
<1>12. CASE TombWrite
  <2>1. PICK i \in Copies, f \in {"tomb", "tombSig"} :
          copy[i][f] = "none" /\ copy' = [copy EXCEPT ![i][f] = "whole"]
    BY <1>12 DEF TombWrite, TombPlace, Writes
  <2>2. /\ Sealed(k) => Sealed(k)'
        /\ Signed(k) => Signed(k)'
        /\ copy'[k].review = copy[k].review
    BY <2>1, AbsentFilled DEF Files
  <2>3. UNCHANGED <<erased, owed>>
    BY <1>12 DEF TombWrite, Keeps
  <2> QED BY <2>2, <2>3 DEF Keeper, KeepsSource, KnowsReview
<1>13. CASE Unlink
  <2>1. Signed(k)' /\ copy'[k].review \in {copy[k].review, Absent}
    BY <1>13, FilesUnlinked
  <2>2. UNCHANGED <<erased, owed>>
    BY <1>13 DEF Unlink, Keeps
  <2> QED BY <2>1, <2>2 DEF Keeper, KeepsSource, KnowsReview
<1>14. CASE PurgeEnds
  BY <1>1, <1>14 DEF PurgeEnds
<1>15. CASE Dies
  BY <1>1, <1>15 DEF Dies
<1>16. CASE DiesWriting
  <2>1. /\ Sealed(k) => Sealed(k)'
        /\ Signed(k) => Signed(k)'
        /\ copy'[k].review = copy[k].review
    BY <1>16, DyingWrite
  <2>2. UNCHANGED <<erased, owed>>
    BY <1>16 DEF DiesWriting
  <2> QED BY <2>1, <2>2 DEF Keeper, KeepsSource, KnowsReview
<1>17. ASSUME NEW i \in Copies, Save(i)
       PROVE  Keeper(k)'
  BY <1>1, <1>17 DEF Save
<1>18. CASE Tick
  BY <1>1, <1>18 DEF Tick
<1> QED BY <1>2, <1>3, <1>4, <1>5, <1>6, <1>7, <1>8, <1>9, <1>10, <1>11, <1>12, <1>13,
           <1>14, <1>15, <1>16, <1>17, <1>18
        DEF Next, SealStep, ReviewStep, PurgeStep

(* While no store was restored both keep what they hold; the first restore *)
(* leaves the other.                                                       *)
LEMMA StoresKept ==
    ASSUME ArchiveAssumption, MaxRestores <= 1, ArchiveInv, [Next]_vars
    PROVE  OneStore' /\ BothStores'
<1>1. CASE ~\E i \in Copies : Restore(i)
  <2>1. \A k \in Copies : Keeper(k) => Keeper(k)'
    BY <1>1, KeepersKept DEF ArchiveInv
  <2>2. restores' = restores
    BY <1>1 DEF Next, vars, bounds, SealStep, ReviewStep, PurgeStep, BeginSeal, SealTurnedAway,
                BeginReview, BeginPurge, ResumePurge, SealWrite, SealEnds, SealRefused, ReviewWrite,
                ReviewEnds, TombWrite, Unlink, PurgeEnds, Dies, DiesWriting, Save, Tick, Keeps
  <2>3. OneStore'
    BY <2>1 DEF ArchiveInv, OneStore
  <2>4. BothStores'
    BY <2>1, <2>2 DEF ArchiveInv, BothStores
  <2> QED BY <2>3, <2>4
<1>2. ASSUME NEW i \in Copies, Restore(i)
      PROVE  OneStore' /\ BothStores'
  <2>1. restores = 0 /\ restores' = 1
    BY <1>2 DEF ArchiveInv, ArchiveTypes, ArchiveAssumption, Restore
  <2>2. PICK k \in Copies : k # i
    BY DEF ArchiveAssumption
  <2>3. Keeper(k)
    BY <2>1 DEF ArchiveInv, BothStores
  <2>4. copy'[k] = copy[k] /\ UNCHANGED <<erased, owed>>
    BY <1>2, <2>2 DEF ArchiveInv, ArchiveTypes, Restore
  <2>5. Keeper(k)'
    BY <2>3, <2>4 DEF Keeper, KeepsSource, KnowsReview, Sealed, Signed
  <2>6. OneStore'
    BY <2>5 DEF OneStore
  <2>7. BothStores'
    BY <2>1 DEF BothStores
  <2> QED BY <2>6, <2>7
<1> QED BY <1>1, <1>2

(* An operation that has written nothing goes on under terms that are      *)
(* owed: nothing else moves the years or the terms while it runs.          *)
LEMMA WorkStaysOwed ==
    ASSUME ArchiveAssumption, ArchiveInv, [Next]_vars
    PROVE  WorkIsOwed'
<1> USE DEF ArchiveInv
<1>1. CASE UNCHANGED vars
  BY <1>1 DEF vars, WorkIsOwed, Permits, AnyTomb, Tombed
<1>2. CASE BeginSeal
  BY <1>2 DEF BeginSeal, Idle, WorkIsOwed
<1>3. ASSUME NEW hold \in BOOLEAN, NEW extended \in BOOLEAN, BeginReview(hold, extended)
      PROVE  WorkIsOwed'
  <2>1. work' = [op |-> "review", review |-> NextReview(hold, extended)]
        /\ NextReview(hold, extended) \in owed'
    BY <1>3 DEF BeginReview
  <2> QED BY <2>1 DEF WorkIsOwed
<1>4. CASE BeginPurge
  <2>1. \E terms \in owed : Permits(terms)
    BY <1>4, InForceIsOwed DEF BeginPurge
  <2>2. UNCHANGED <<time, owed>> /\ work'.op = "purge"
    BY <1>4 DEF BeginPurge, Keeps, Idle
  <2> QED BY <2>1, <2>2 DEF WorkIsOwed, Permits
<1>5. CASE ResumePurge
  <2>1. AnyTomb' /\ work'.op = "purge"
    BY <1>5 DEF ResumePurge, Idle, AnyTomb, Tombed
  <2> QED BY <2>1 DEF WorkIsOwed
<1>6. CASE work'.op \notin {"review", "purge"}
  BY <1>6 DEF WorkIsOwed
<1>7. CASE Ends
  BY <1>6, <1>7 DEF Ends, Idle
<1>8. CASE work' = work /\ work.op \in {"idle", "seal"}
  BY <1>6, <1>8
<1>9. CASE SealWrite
  BY <1>8, <1>9 DEF SealWrite
<1>10. CASE ReviewWrite
  BY <1>10 DEF ReviewWrite, Keeps, WorkIsOwed
<1>11. CASE TombWrite
  <2>1. \A k \in Copies : Tombed(k) => Tombed(k)'
    BY <1>11, AbsentFilled DEF TombWrite, TombPlace, Writes, Files
  <2>2. AnyTomb => AnyTomb'
    BY <2>1 DEF AnyTomb
  <2>3. UNCHANGED <<time, owed, work>> /\ work.op = "purge"
    BY <1>11 DEF TombWrite, Keeps
  <2> QED BY <2>2, <2>3 DEF WorkIsOwed, Permits
<1>12. CASE Unlink
  <2>1. AnyTomb'
    <3>1. \A k \in Copies : Signed(k)'
      BY <1>12, FilesUnlinked
    <3>2. 1 \in Copies
      BY DEF ArchiveAssumption
    <3> QED BY <3>1, <3>2 DEF AnyTomb, Tombed, Signed
  <2>2. UNCHANGED work /\ work.op = "purge"
    BY <1>12 DEF Unlink
  <2> QED BY <2>1, <2>2 DEF WorkIsOwed
<1>13. ASSUME NEW i \in Copies, Save(i) \/ Restore(i)
       PROVE  WorkIsOwed'
  BY <1>8, <1>13 DEF Save, Restore, Idle
<1>14. CASE Tick
  BY <1>8, <1>14 DEF Tick, Idle
<1>15. CASE SealTurnedAway
  BY <1>8, <1>15 DEF SealTurnedAway, Idle
<1> QED BY <1>1, <1>2, <1>3, <1>4, <1>5, <1>7, <1>9, <1>10, <1>11, <1>12, <1>13, <1>14,
           <1>15
        DEF Next, SealStep, ReviewStep, PurgeStep, SealEnds, SealRefused, ReviewEnds,
            PurgeEnds, Dies, DiesWriting

-----------------------------------------------------------------------------
(* The results.                                                            *)

(* Nothing is erased, owed or restored at first.                           *)
LEMMA InitArchiveInv ==
    ASSUME ArchiveAssumption, Init
    PROVE  ArchiveInv
<1>1. Absent \in Reviews
  BY DEF Absent, Reviews
<1>2. Empty \in Stores /\ Empty.review = Absent
  BY <1>1 DEF Empty, Stores, FileStates
<1>3. ArchiveTypes
  BY <1>1, <1>2 DEF Init, ArchiveTypes, Idle
<1>4. \A k \in Copies : Keeper(k)
  BY <1>2 DEF Init, Keeper, KeepsSource, KnowsReview
<1>5. OneStore /\ BothStores
  BY <1>4 DEF OneStore, BothStores, ArchiveAssumption
<1>6. WorkIsOwed
  BY DEF Init, Idle, WorkIsOwed
<1> QED BY <1>3, <1>5, <1>6 DEF ArchiveInv

(* With at most one restored store, one store always keeps the source of   *)
(* an erased account, or the signed record of its destruction, and knows   *)
(* no review that the owner does not.                                      *)
THEOREM ArchiveInvariant ==
    ASSUME MaxRestores <= 1
    PROVE  Spec => []ArchiveInv
<1>1. Init => ArchiveInv
  BY ArchiveAssumption, InitArchiveInv
<1>2. ArchiveInv /\ [Next]_vars => ArchiveInv'
  BY ArchiveAssumption, TypesKept, StoresKept, WorkStaysOwed DEF ArchiveInv
<1> QED BY <1>1, <1>2, PTL DEF Spec

(* A source outlives its account, whatever operation was interrupted and   *)
(* whichever store came back from a backup, until a signed record says     *)
(* that it was destroyed.                                                  *)
THEOREM SourceSurvives ==
    ASSUME MaxRestores <= 1
    PROVE  Spec => []SourceOrProof
<1>1. ArchiveInv => SourceOrProof
  BY DEF ArchiveInv, OneStore, Keeper, KeepsSource, SourceOrProof
<1> QED BY <1>1, ArchiveInvariant, PTL

(* No destruction begins but under terms that were answered to the owner,  *)
(* or asked for since, that expired, that are not held and whose review is *)
(* not due: an interrupted review or a restored store never brings back    *)
(* terms that were replaced.                                               *)
THEOREM HoldHonoured ==
    ASSUME MaxRestores <= 1
    PROVE  Spec => HoldIsHonoured
<1> DEFINE Begins == ~AnyTomb /\ (\E i \in Copies : copy'[i].tomb # "none")
                     /\ restores' = restores
<1>1. ASSUME ArchiveInv, [Next]_vars, Begins
      PROVE  \E terms \in owed : Permits(terms)
  <2>1. CASE work.op = "purge"
    BY <1>1, <2>1 DEF ArchiveInv, WorkIsOwed
  <2>2. CASE work.op # "purge"
    <3>1. \A k \in Copies : Tombed(k)' = Tombed(k)
      <4>1. CASE UNCHANGED copy
        BY <4>1 DEF Tombed
      <4>2. CASE SealWrite
        <5>1. PICK i \in Copies, f \in {"source", "manifest", "manifestSig"} :
                copy[i][f] = "none" /\ copy' = [copy EXCEPT ![i][f] = "whole"]
          BY <4>2, SealFills DEF SealWrite, Writes
        <5>2. ArchiveTypes /\ f \in Files /\ f \notin {"tomb", "tombSig"}
          BY <1>1 DEF ArchiveInv, Files
        <5> QED BY <5>1, <5>2, AbsentFilled
      <4>3. CASE ReviewWrite
        BY <1>1, <4>3, ReviewWritten DEF ReviewWrite, ArchiveInv
      <4>4. CASE DiesWriting
        BY <1>1, <2>2, <4>4, DyingWrite DEF ArchiveInv
      <4>5. ASSUME NEW i \in Copies, Restore(i)
            PROVE  FALSE
        BY <1>1, <4>5 DEF Restore, ArchiveInv, ArchiveTypes
      <4>6. Next \/ UNCHANGED vars
        BY <1>1
      <4>10. CASE MakesDirectories
        BY <1>1, <4>10, DirectoriesMade DEF ArchiveInv
      <4>7. CASE \/ SealWrite \/ ReviewWrite \/ DiesWriting \/ MakesDirectories
                 \/ \E i \in Copies : Restore(i)
        BY <4>2, <4>3, <4>4, <4>5, <4>7, <4>10
      <4> HIDE DEF Begins
      <4>8. ~Unlink
        <5>1. 1 \in Copies
          BY ArchiveAssumption DEF ArchiveAssumption
        <5> QED BY <1>1, <5>1, ArchiveAssumption DEF Unlink, Begins, AnyTomb, Tombed, Signed
      <4>9. \/ UNCHANGED copy \/ SealWrite \/ ReviewWrite \/ DiesWriting \/ MakesDirectories
            \/ \E i \in Copies : Restore(i)
        BY <2>2, <4>6, <4>8
              DEF Next, vars, SealStep, ReviewStep, PurgeStep, BeginSeal, SealTurnedAway,
                  BeginReview, BeginPurge, ResumePurge, SealEnds, SealRefused, ReviewEnds, TombWrite,
                  PurgeEnds, Dies, Save, Tick
      <4> QED BY <4>1, <4>7, <4>9
    <3> QED BY <1>1, <3>1 DEF AnyTomb, Tombed
  <2> QED BY <2>1, <2>2
<1>2. ArchiveInv /\ [Next]_vars =>
        [~AnyTomb /\ (\E i \in Copies : copy'[i].tomb # "none") /\ restores' = restores =>
           \E terms \in owed : ~terms.hold /\ time >= terms.expires /\ time < terms.reviewAt]_vars
  BY <1>1 DEF Permits
<1> QED BY <1>2, ArchiveInvariant, PTL DEF Spec, HoldIsHonoured
=============================================================================
