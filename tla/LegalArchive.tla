---------------------------- MODULE LegalArchive ----------------------------
(***************************************************************************)
(* The restricted legal archive of one erased account                      *)
(* (deploy/private-dev/lib/personal_data_archive.py): a source captured    *)
(* once, sealed in two independent stores before the account's data are    *)
(* deleted, reviewed every year, held or extended, and destroyed once it   *)
(* has expired, by a destruction record written ahead of the deletion.     *)
(*                                                                         *)
(* One operation at a time holds both stores' locks; what is hard is that  *)
(* it may die between any two of its writes or inside one, that a file     *)
(* written in place then stays torn, and that one store may be restored    *)
(* to an earlier state of its own, even to one without a directory for the *)
(* reference.  Years are counted from the first capture; a file is absent, *)
(* torn or whole, and a signature is a file.                               *)
(***************************************************************************)
EXTENDS Naturals

CONSTANTS
    Copies,      \* the stores, 1..2: the order in which they are written
    MaxTime,     \* bound: years
    MaxReviews,  \* bound: reviews
    MaxFaults,   \* bound: operations that die and stores restored, together
    MaxRestores  \* bound: stores restored from their own backup

ASSUME ArchiveAssumption ==
    /\ Copies = 1..2
    /\ MaxTime \in Nat /\ MaxReviews \in Nat /\ MaxFaults \in Nat /\ MaxRestores \in Nat

VARIABLES
    copy,      \* each store's directory for the reference, and the files in it
    backup,    \* an earlier state of each store
    work,      \* the operation that holds both locks
    time,
    erased,    \* the account's ratings and identity are deleted
    taken,     \* the year in which the source was captured
    owed,      \* the terms last answered to the owner, and those asked for since
    reviews, faults, restores

bounds == <<reviews, faults, restores>>
vars == <<copy, backup, work, time, erased, taken, owed, bounds>>

Absent == [number |-> 0, hold |-> FALSE, reviewAt |-> 0, expires |-> 0]
Empty == [made |-> FALSE,
          source |-> "none", manifest |-> "none", manifestSig |-> "none",
          review |-> Absent, reviewSig |-> Absent, pending |-> FALSE,
          tomb |-> "none", tombSig |-> "none"]
Destroyed == [Empty EXCEPT !.made = TRUE, !.tomb = "whole", !.tombSig = "whole"]
Idle == [op |-> "idle", review |-> Absent]

----------------------------------------------------------------------------
(* What the operations read. *)

\* One store's destruction record: written at all, and written with its signature.
Tombed(i) == copy[i].tomb # "none"
Signed(i) == copy[i].tomb = "whole" /\ copy[i].tombSig = "whole"

AnyTomb == \E i \in Copies : Tombed(i)
AnySigned == \E i \in Copies : Signed(i)

Reviewed(i) == copy[i].review # Absent \/ copy[i].reviewSig # Absent

\* signed_pair of review.json: both stores hold the same review under its signature.
SameReview ==
    \A i, j \in Copies : copy[i].review = copy[j].review /\ copy[i].reviewSig = copy[i].review

(* A bug: each store's review is verified, and the two are not compared. *)
SettledReviewApart ==
    \A i \in Copies : ~copy[i].pending /\ copy[i].reviewSig = copy[i].review

\* require_settled_review: nothing is staged, and a review anywhere is in both stores.
SettledReview ==
    /\ \A i \in Copies : ~copy[i].pending
    /\ (\E i \in Copies : Reviewed(i)) => SameReview

Sealed(i) ==
    /\ copy[i].source = "whole"
    /\ copy[i].manifest = "whole"
    /\ copy[i].manifestSig = "whole"

\* verify: settled, no trace of a destruction, and two whole signed copies.
Verified == SettledReview /\ ~AnyTomb /\ \A i \in Copies : Sealed(i)

\* The review in force, or the terms the source was sealed under.
FirstTerms == [number |-> 0, hold |-> FALSE, reviewAt |-> taken + 1, expires |-> taken + 3]
Terms == IF \E i \in Copies : Reviewed(i) THEN copy[1].review ELSE FirstTerms

----------------------------------------------------------------------------
(* Writing in order: a write is whole, or the operation dies in it or after it. *)

SealOrder == <<"source", "manifest", "manifestSig">>

Writes(i, file) == copy' = [copy EXCEPT ![i][file] = "whole"]
Ends == work' = Idle
Keeps == UNCHANGED <<backup, time, erased, taken, owed, bounds>>

\* The first place, in the order of the writes, that an operation still has to fill.
First(order, i, n) ==
    /\ copy[i][order[n]] = "none"
    /\ \A j \in Copies, m \in DOMAIN order :
         m < n \/ (m = n /\ j < i) => copy[j][order[m]] = "whole"

----------------------------------------------------------------------------
(* seal, in the erasure between the revocation of the account and its deletion. *)

(* A bug: a seal that finds a source does not complete it. *)
SealAdmittedAnew == ~AnyTomb /\ (\A i \in Copies : copy[i].source = "none") /\ ~erased

\* Never recreate a destroyed source; without one, the account must still be there to capture.
SealAdmitted ==
    /\ ~AnyTomb
    /\ \A i \in Copies : copy[i].source # "torn"
    /\ (\A i \in Copies : copy[i].source = "none") => ~erased

\* dirs(reference): a seal makes the directories first, whatever it finds in them.
MakesDirectories == copy' = [i \in Copies |-> [copy[i] EXCEPT !.made = TRUE]]

BeginSeal ==
    /\ work = Idle
    /\ SealAdmitted
    /\ work' = [Idle EXCEPT !.op = "seal"]
    /\ taken' = IF \A i \in Copies : copy[i].source = "none" THEN time ELSE taken
    /\ MakesDirectories
    /\ UNCHANGED <<backup, time, erased, owed, bounds>>

\* The erasure is retried in vain.
SealTurnedAway ==
    /\ work = Idle
    /\ ~erased
    /\ ~SealAdmitted
    /\ MakesDirectories
    /\ UNCHANGED work
    /\ Keeps

SealWrite ==
    /\ work.op = "seal"
    /\ \E i \in Copies, n \in DOMAIN SealOrder :
         First(SealOrder, i, n) /\ Writes(i, SealOrder[n])
    /\ UNCHANGED work
    /\ Keeps

(* A bug: the erasure goes on once one store is sealed. *)
SealEndsOnce ==
    /\ work.op = "seal"
    /\ SettledReview /\ ~AnyTomb /\ \E i \in Copies : Sealed(i)
    /\ owed' = owed \cup {FirstTerms}
    /\ erased' = TRUE
    /\ Ends
    /\ UNCHANGED <<copy, backup, time, taken, bounds>>

\* seal answers with a verification, and the erasure goes on to delete the account.
SealEnds ==
    /\ work.op = "seal"
    /\ Verified
    /\ owed' = owed \cup (IF \E i \in Copies : Reviewed(i) THEN {} ELSE {FirstTerms})
    /\ erased' = TRUE
    /\ Ends
    /\ UNCHANGED <<copy, backup, time, taken, bounds>>

\* A torn record is never overwritten, and an unsettled review stops the verification.
SealRefused ==
    /\ work.op = "seal"
    /\ ~\E i \in Copies, n \in DOMAIN SealOrder : First(SealOrder, i, n)
    /\ ~Verified
    /\ Ends
    /\ UNCHANGED copy
    /\ Keeps

----------------------------------------------------------------------------
(* review: staged and renamed, store by store, the record before its signature. *)

NextReview(hold, extended) ==
    [number |-> reviews + 1, hold |-> hold, reviewAt |-> time + 1,
     expires |-> Terms.expires + (IF hold /\ extended THEN 1 ELSE 0)]

BeginReview(hold, extended) ==
    /\ work = Idle
    /\ Verified
    /\ reviews < MaxReviews
    /\ reviews' = reviews + 1
    /\ work' = [op |-> "review", review |-> NextReview(hold, extended)]
    /\ owed' = owed \cup {NextReview(hold, extended)}
    /\ UNCHANGED <<copy, backup, time, erased, taken, faults, restores>>

ReviewPlace(i, file) ==
    /\ copy[i][file] # work.review
    /\ file = "reviewSig" => copy[i].review = work.review
    /\ \A j \in Copies : j < i => copy[j].reviewSig = work.review

ReviewWrite ==
    /\ work.op = "review"
    /\ \E i \in Copies, f \in {"review", "reviewSig"} :
         ReviewPlace(i, f) /\ copy' = [copy EXCEPT ![i][f] = work.review]
    /\ UNCHANGED work
    /\ Keeps

ReviewEnds ==
    /\ work.op = "review"
    /\ \A i \in Copies : copy[i].review = work.review /\ copy[i].reviewSig = work.review
    /\ owed' = {work.review}
    /\ Ends
    /\ UNCHANGED <<copy, backup, time, erased, taken, bounds>>

----------------------------------------------------------------------------
(* purge: a signed destruction record in both stores, then the files. *)

\* No hold, no review due, and expired.
MayDestroy == ~Terms.hold /\ time < Terms.reviewAt /\ time >= Terms.expires

BeginPurge ==
    /\ work = Idle
    /\ Verified
    /\ MayDestroy
    /\ work' = [Idle EXCEPT !.op = "purge"]
    /\ UNCHANGED copy
    /\ Keeps

(* A bug: a destruction is resumed only from two signed records. *)
ResumableInBoth == \A i \in Copies : Signed(i)

\* dirs(reference, create=False): both directories are there.  A signed record in one store
\* completes the other; a source or a record that differs refuses.
Resumable ==
    /\ \A i \in Copies : copy[i].made
    /\ AnySigned
    /\ \A i \in Copies :
         copy[i].source # "torn" /\ copy[i].tomb # "torn" /\ copy[i].tombSig # "torn"

ResumePurge ==
    /\ work = Idle
    /\ AnyTomb
    /\ Resumable
    /\ work' = [Idle EXCEPT !.op = "purge"]
    /\ UNCHANGED copy
    /\ Keeps

\* Both files in one store, then both in the other.
TombPlace(i, file) ==
    /\ copy[i][file] = "none"
    /\ file = "tombSig" => copy[i].tomb = "whole"
    /\ \A j \in Copies : j < i => Signed(j)

TombWrite ==
    /\ work.op = "purge"
    /\ \E i \in Copies, f \in {"tomb", "tombSig"} : TombPlace(i, f) /\ Writes(i, f)
    /\ UNCHANGED work
    /\ Keeps

\* The source goes first, then every other file of the store.
Unlink ==
    /\ work.op = "purge"
    /\ \A i \in Copies : Signed(i)
    /\ \E i \in Copies :
         /\ copy[i] # Destroyed
         /\ \A j \in Copies : j < i => copy[j] = Destroyed
         /\ copy' = [copy EXCEPT ![i] = IF copy[i].source = "none" THEN Destroyed
                                       ELSE [copy[i] EXCEPT !.source = "none"]]
    /\ UNCHANGED work
    /\ Keeps

PurgeEnds ==
    /\ work.op = "purge"
    /\ \A i \in Copies : copy[i] = Destroyed
    /\ Ends
    /\ UNCHANGED <<copy, backup, time, erased, taken, owed, bounds>>

----------------------------------------------------------------------------
(* What may happen to an operation, and to a store. *)

Fault == faults < MaxFaults /\ faults' = faults + 1

\* The operation dies between two writes.
Dies ==
    /\ work # Idle
    /\ Fault
    /\ Ends
    /\ UNCHANGED <<copy, backup, time, erased, taken, owed, reviews, restores>>

\* It dies inside one: a file written in place stays torn, a staged one stays pending.
DiesWriting ==
    /\ Fault
    /\ \/ /\ work.op = "seal"
          /\ \E i \in Copies, n \in DOMAIN SealOrder :
               First(SealOrder, i, n) /\ copy' = [copy EXCEPT ![i][SealOrder[n]] = "torn"]
       \/ /\ work.op = "review"
          /\ \E i \in Copies, f \in {"review", "reviewSig"} :
               ReviewPlace(i, f) /\ copy' = [copy EXCEPT ![i].pending = TRUE]
       \/ /\ work.op = "purge"
          /\ \E i \in Copies, f \in {"tomb", "tombSig"} :
               TombPlace(i, f) /\ copy' = [copy EXCEPT ![i][f] = "torn"]
    /\ Ends
    /\ UNCHANGED <<backup, time, erased, taken, owed, reviews, restores>>

\* A backup of a store is made; the store is restored to it.
Save(i) ==
    /\ work = Idle
    /\ restores < MaxRestores /\ faults < MaxFaults
    /\ backup[i] = Empty
    /\ copy[i] # Empty
    /\ backup' = [backup EXCEPT ![i] = copy[i]]
    /\ UNCHANGED <<copy, work, time, erased, taken, owed, bounds>>

Restore(i) ==
    /\ work = Idle
    /\ Fault
    /\ restores < MaxRestores
    /\ restores' = restores + 1
    /\ copy' = [copy EXCEPT ![i] = backup[i]]
    /\ UNCHANGED <<backup, work, time, erased, taken, owed, reviews>>

Tick ==
    /\ work = Idle
    /\ time < MaxTime
    /\ \E i \in Copies : copy[i].source # "none" \/ Tombed(i)
    /\ time' = time + 1
    /\ UNCHANGED <<copy, backup, work, erased, taken, owed, bounds>>

----------------------------------------------------------------------------
Init ==
    /\ copy = [i \in Copies |-> Empty]
    /\ backup = [i \in Copies |-> Empty]
    /\ work = Idle
    /\ time = 0
    /\ erased = FALSE
    /\ taken = 0
    /\ owed = {}
    /\ reviews = 0
    /\ faults = 0
    /\ restores = 0

SealStep == SealWrite \/ SealEnds \/ SealRefused
ReviewStep == ReviewWrite \/ ReviewEnds
PurgeStep == TombWrite \/ Unlink \/ PurgeEnds

Next ==
    \/ BeginSeal
    \/ SealTurnedAway
    \/ \E hold, extended \in BOOLEAN : BeginReview(hold, extended)
    \/ BeginPurge
    \/ ResumePurge
    \/ SealStep
    \/ ReviewStep
    \/ PurgeStep
    \/ Dies
    \/ DiesWriting
    \/ \E i \in Copies : Save(i) \/ Restore(i)
    \/ Tick

Spec == Init /\ [][Next]_vars

\* A running operation goes on, an erasure is retried until it has sealed its source, and the
\* owner completes a destruction already signed; nobody has to review or to begin one.
Fairness ==
    /\ WF_vars(SealStep) /\ WF_vars(ReviewStep) /\ WF_vars(PurgeStep)
    /\ SF_vars(BeginSeal /\ ~erased)
    /\ SF_vars(ResumePurge)

FairSpec == Spec /\ Fairness

----------------------------------------------------------------------------
(* Properties. *)

\* A destruction begins only under the terms the owner was last answered, or asked for since:
\* expired, reviewed within the year and not held, whatever review was interrupted and
\* whichever store was restored since.
HoldIsHonoured ==
    [][~AnyTomb /\ (\E i \in Copies : copy'[i].tomb # "none") /\ restores' = restores =>
         \E terms \in owed :
             ~terms.hold /\ time >= terms.expires /\ time < terms.reviewAt]_vars

\* Once the account is deleted its source survives in a store, or a signed record says that it
\* was destroyed: neither an interruption nor the loss of one store leaves neither.
SourceOrProof ==
    erased => \E i \in Copies : Sealed(i) \/ Signed(i)

\* What only a private reconciliation may repair.
Torn ==
    \E i \in Copies, f \in {"source", "manifest", "manifestSig", "tomb", "tombSig"} :
        copy[i][f] = "torn"

\* "Signed partial destruction can resume": it ends with no source left in either store, unless
\* a file is torn, the only store that had a signed record loses it, or a store comes back from
\* before the reference had a directory: purge makes none, and refuses for good.
DestructionResumes ==
    AnySigned ~> \/ \A i \in Copies : copy[i].source = "none"
                 \/ Torn
                 \/ ~AnySigned
                 \/ \E i \in Copies : ~copy[i].made

\* An interrupted seal is completed from what it left, and the erasure that waits for it goes
\* on, unless a file is torn or a review or a destruction of the source has begun meanwhile.
SealResumes ==
    work.op = "seal" ~> (erased \/ Torn \/ ~SettledReview \/ AnyTomb)
=============================================================================
