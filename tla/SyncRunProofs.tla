--------------------------- MODULE SyncRunProofs ---------------------------
(***************************************************************************)
(* Theorems about synchronization runs, for every set of runs, number of   *)
(* Games, page size and abandonment period: types; one owner at a time,    *)
(* finished rows that stay finished, and the implementation of             *)
(* RunOwnership by the runs table with its workers; and what a run counts, *)
(* which is what it did: recorded coverage is accounted for, what was      *)
(* counted as published is in the catalogue, and a stop lets one Game      *)
(* through at most.                                                        *)
(***************************************************************************)
EXTENDS SyncRun, FiniteSetTheorems, TLAPS

(* Ages never leave 0..AgeCap, which the constants make a range of naturals. *)
LEMMA AgeCapIsNat == AgeCap \in Nat /\ LastGame \in Nat /\ PageSize \in Nat \ {0}
  BY BoundsAssumption DEF AgeCap

(* Time passing keeps an age in that range. *)
LEMMA AgedInRange == ASSUME NEW n \in 0..AgeCap PROVE Aged(n) \in 0..AgeCap
  BY AgeCapIsNat DEF Aged

(* Counting Games keeps a tally well formed. *)
LEMMA TallyAdd ==
  ASSUME NEW t \in Tallies, NEW S \in SUBSET Games, NEW b \in BOOLEAN
  PROVE  /\ [t EXCEPT !.seen = @ \union S] \in Tallies
         /\ [t EXCEPT !.saved = @ \union S] \in Tallies
         /\ [t EXCEPT !.deferred = @ \union S] \in Tallies
         /\ [t EXCEPT !.failed = @ \union S] \in Tallies
         /\ [t EXCEPT !.broke = b] \in Tallies
         /\ [t EXCEPT !.read = b] \in Tallies
         /\ [t EXCEPT !.stopped = b] \in Tallies
         /\ [t EXCEPT !.broke = TRUE, !.stopped = FALSE] \in Tallies
         /\ \A Q \in SUBSET Games : [t EXCEPT !.failed = @ \union S, !.quality = Q] \in Tallies
  BY DEF Tallies

(* Every variable keeps its type: the rows and workers of Init have it. *)
LEMMA InitTypeOK == Init => TypeOK
  BY AgeCapIsNat DEF Init, TypeOK, Statuses, Codes, Places, Tallies, NoTally

(* Completing a run keeps the types, whatever the outcome and the code. *)
LEMMA OutcomeInOutcomes == ASSUME NEW t \in Tallies PROVE Outcome(t) \in Outcomes
  BY DEF Outcome, Outcomes

(* The result code completion stores is one of the codes the code names. *)
LEMMA ResultCodeInCodes == ASSUME NEW w \in Runs PROVE ResultCode(w) \in Codes
  BY DEF ResultCode, Codes

(* Recording a report, pruning included, keeps the types of what it changes. *)
LEMMA RecordTypeOK ==
  ASSUME TypeOK, NEW w \in Runs, Record(w)
  PROVE  /\ status' \in [Runs -> Statuses]
         /\ code' \in [Runs -> Codes]
         /\ beat' \in [Runs -> 0..AgeCap]
         /\ pc' \in [Runs -> Places]
         /\ todo' \in [Runs -> SUBSET Games]
         /\ UNCHANGED <<stopAsked, wrote, lag, older, cursor, tally, history>>
<1>1. Outcome(tally[w]) \in Outcomes
  BY OutcomeInOutcomes DEF TypeOK
<1> QED
  BY <1>1, ResultCodeInCodes, AgeCapIsNat DEF TypeOK, Record, Go, Statuses, Places

(* Recording coverage names a run for every day of the interval. *)
LEMMA CoverTypeOK ==
  ASSUME TypeOK, NEW w \in Runs, Cover(w) PROVE scan' \in [Days -> Runs \union {NoRun}]
  BY DEF TypeOK, Cover

(* No step of a worker, an operator or time breaks the type of a variable. *)
LEMMA TypeOKStep == TypeOK /\ [Next]_vars => TypeOK'
<1> SUFFICES ASSUME TypeOK, [Next]_vars PROVE TypeOK'
  OBVIOUS
<1> USE AgeCapIsNat DEF Go, rows, worker, history
<1>1. CASE Tick
  BY <1>1, AgedInRange DEF TypeOK, Tick
<1>2. ASSUME NEW w \in Runs, ReadClock(w) PROVE TypeOK'
  BY <1>2 DEF TypeOK, ReadClock, Places
<1>3. ASSUME NEW w \in Runs, Acquire(w) PROVE TypeOK'
  BY <1>3 DEF TypeOK, Acquire, AbandonStale, Statuses, Codes, Places
<1>4. ASSUME NEW w \in Runs, Refuse(w) PROVE TypeOK'
  BY <1>4 DEF TypeOK, Refuse, AbandonStale, Statuses, Codes, Places
<1>5. ASSUME NEW w \in Runs, RequestStop(w) PROVE TypeOK'
  BY <1>5 DEF TypeOK, RequestStop
<1>6. ASSUME NEW w \in Runs, AbandonByOperator(w) PROVE TypeOK'
  BY <1>6 DEF TypeOK, AbandonByOperator, Statuses, Codes
<1>7. ASSUME NEW w \in Runs, Execute(w) PROVE TypeOK'
  BY <1>7 DEF TypeOK, Execute, Places
<1>8. ASSUME NEW w \in Runs, Cancel(w) PROVE TypeOK'
  <2>1. tally' \in [Runs -> Tallies]
    BY <1>8, TallyAdd DEF TypeOK, Cancel
  <2> QED
    BY <1>8, <2>1 DEF TypeOK, Cancel, Places
<1>9. ASSUME NEW w \in Runs, Stop(w) PROVE TypeOK'
  <2>1. tally' \in [Runs -> Tallies]
    BY <1>9, TallyAdd DEF TypeOK, Stop
  <2> QED
    BY <1>9, <2>1 DEF TypeOK, Stop, Beats, Places
<1>10. ASSUME NEW w \in Runs, StartPage(w) PROVE TypeOK'
  BY <1>10 DEF TypeOK, StartPage, Beats, Places
<1>11. ASSUME NEW w \in Runs, FetchPage(w) PROVE TypeOK'
  <2>1. PageEnd(w) \in 0..LastGame
    BY DEF TypeOK, PageEnd
  <2>2. PICK page \in SUBSET Games :
          /\ todo' = [todo EXCEPT ![w] = page]
          /\ tally' = [tally EXCEPT ![w].seen = @ \union page]
    BY <1>11 DEF FetchPage
  <2>3. tally' \in [Runs -> Tallies]
    BY <2>2, TallyAdd DEF TypeOK
  <2> QED
    BY <1>11, <2>1, <2>2, <2>3 DEF TypeOK, FetchPage, Places
<1>12. ASSUME NEW w \in Runs, PageFails(w) PROVE TypeOK'
  <2>1. tally' \in [Runs -> Tallies]
    BY <1>12, TallyAdd DEF TypeOK, PageFails
  <2> QED
    BY <1>12, <2>1 DEF TypeOK, PageFails, Places
<1>13. ASSUME NEW w \in Runs, EndPage(w) PROVE TypeOK'
  <2>1. CASE cursor[w] = LastGame
    <3>1. tally' = [tally EXCEPT ![w].read = TRUE] /\ pc' = [pc EXCEPT ![w] = "completing"]
      BY <1>13, <2>1 DEF EndPage
    <3>2. tally' \in [Runs -> Tallies]
      BY <3>1, TallyAdd DEF TypeOK
    <3> QED
      BY <1>13, <3>1, <3>2 DEF TypeOK, EndPage, Beats, Places
  <2>2. CASE cursor[w] # LastGame
    <3>1. tally' = tally /\ pc' = [pc EXCEPT ![w] = "paging"]
      BY <1>13, <2>2 DEF EndPage
    <3> QED
      BY <1>13, <3>1 DEF TypeOK, EndPage, Beats, Places
  <2> QED
    BY <2>1, <2>2
<1>14. ASSUME NEW w \in Runs, EndRepair(w) PROVE TypeOK'
  BY <1>14 DEF TypeOK, EndRepair, Places
<1>15. ASSUME NEW w \in Runs, StartGame(w) PROVE TypeOK'
  BY <1>15 DEF TypeOK, StartGame, Beats, Places
<1>16. ASSUME NEW w \in Runs, NEW g \in Games, DeferGame(w, g) PROVE TypeOK'
  <2>1. tally' \in [Runs -> Tallies]
    BY <1>16, TallyAdd DEF TypeOK, DeferGame
  <2> QED
    BY <1>16, <2>1 DEF TypeOK, DeferGame, Places
<1>17. ASSUME NEW w \in Runs, NEW g \in Games, RejectGame(w, g) PROVE TypeOK'
  <2>1. tally' \in [Runs -> Tallies]
    <3>1. PICK known \in BOOLEAN :
            tally' = [tally EXCEPT ![w].failed = @ \union {g},
                                   ![w].quality = IF known THEN @ \union {g} ELSE @]
      BY <1>17 DEF RejectGame
    <3> DEFINE Q == IF known THEN tally[w].quality \union {g} ELSE tally[w].quality
    <3>2. tally[w] \in Tallies /\ Q \in SUBSET Games
      BY DEF TypeOK, Tallies
    <3>3. [tally[w] EXCEPT !.failed = @ \union {g}, !.quality = Q] \in Tallies
      BY <3>2, TallyAdd
    <3>4. tally' = [tally EXCEPT ![w] = [tally[w] EXCEPT !.failed = @ \union {g}, !.quality = Q]]
      BY <3>1, <3>2 DEF TypeOK, Tallies
    <3> QED
      BY <3>3, <3>4 DEF TypeOK
  <2> QED
    BY <1>17, <2>1 DEF TypeOK, RejectGame, Places
<1>18. ASSUME NEW w \in Runs, NEW g \in Games, BeginSave(w, g) PROVE TypeOK'
  BY <1>18 DEF TypeOK, BeginSave, Places
<1>19. ASSUME NEW w \in Runs, NEW g \in Games, CommitSave(w, g) PROVE TypeOK'
  BY <1>19 DEF TypeOK, CommitSave, Commit, Places
<1>20. ASSUME NEW w \in Runs, NEW g \in Games, CommitUnanswered(w, g) PROVE TypeOK'
  <2>1. tally' \in [Runs -> Tallies]
    BY <1>20, TallyAdd DEF TypeOK, CommitUnanswered
  <2> QED
    BY <1>20, <2>1 DEF TypeOK, CommitUnanswered, Commit, Places
<1>21. ASSUME NEW w \in Runs, NEW g \in Games, AbortSave(w, g) PROVE TypeOK'
  <2>1. tally' \in [Runs -> Tallies]
    BY <1>21, TallyAdd DEF TypeOK, AbortSave
  <2> QED
    BY <1>21, <2>1 DEF TypeOK, AbortSave, Places
<1>22. ASSUME NEW w \in Runs, LocalizationBeat(w) PROVE TypeOK'
  BY <1>22 DEF TypeOK, LocalizationBeat, Beats
<1>23. ASSUME NEW w \in Runs, NEW g \in Games, CountGame(w, g) PROVE TypeOK'
  <2>1. tally' \in [Runs -> Tallies]
    BY <1>23, TallyAdd DEF TypeOK, CountGame
  <2> QED
    BY <1>23, <2>1 DEF TypeOK, CountGame, Beats, Places
<1>24. ASSUME NEW w \in Runs, Complete(w) PROVE TypeOK'
  BY <1>24, RecordTypeOK, CoverTypeOK DEF TypeOK, Complete
<1>25. ASSUME NEW w \in Runs, Close(w) PROVE TypeOK'
  BY <1>25, RecordTypeOK, CoverTypeOK DEF TypeOK, Close
<1>26. ASSUME NEW w \in Runs, LoseOwnership(w) PROVE TypeOK'
  BY <1>26 DEF TypeOK, LoseOwnership, Forget, NoTally, Places, Tallies
<1>27. ASSUME NEW w \in Runs, FailRun(w) PROVE TypeOK'
  <2>1. tally' \in [Runs -> Tallies]
    BY <1>27, TallyAdd DEF TypeOK, FailRun
  <2> QED
    BY <1>27, <2>1 DEF TypeOK, FailRun, Places
<1>28. ASSUME NEW w \in Runs, FailClosing(w) PROVE TypeOK'
  BY <1>28 DEF TypeOK, FailClosing, Forget, NoTally, Places, Tallies
<1>29. ASSUME NEW w \in Runs, Crash(w) PROVE TypeOK'
  BY <1>29 DEF TypeOK, Crash, Forget, NoTally, Places, Tallies
<1>30. CASE UNCHANGED vars
  BY <1>30 DEF TypeOK, vars
<1> QED
  BY <1>1, <1>2, <1>3, <1>4, <1>5, <1>6, <1>7, <1>8, <1>9, <1>10, <1>11, <1>12, <1>13, <1>14,
     <1>15, <1>16, <1>17, <1>18, <1>19, <1>20, <1>21, <1>22, <1>23, <1>24, <1>25, <1>26, <1>27,
     <1>28, <1>29, <1>30 DEF Next, Progress, GameStep

(* The rows, the workers and the ages always have the values SyncRun names: *)
(* beginRun, the fenced writes and completeRun never leave a row in a       *)
(* status, or an age, the code does not know.                               *)
THEOREM TypeCorrect == Spec => []TypeOK
  BY InitTypeOK, TypeOKStep, PTL DEF Spec

-----------------------------------------------------------------------------
(* Ownership.                                                              *)

(* Steps after which no row, acquisition or open write differs. *)
LEMMA OwnershipInvUnchanged ==
  ASSUME OwnershipInv,
         UNCHANGED <<status, epoch, acquired>>,
         \A r \in Runs : pc'[r] = "saving" => pc[r] = "saving" \/ r \in Running,
         \A r \in Runs : pc'[r] \in {"idle", "starting", "refused"} =>
                            pc[r] \in {"idle", "starting", "refused"}
  PROVE  OwnershipInv'
  BY DEF OwnershipInv, OwnerIsLatest, WriterOwnsRun, Running, Locked

(* Before any call, nobody owns the provider and nobody ever did. *)
LEMMA InitOwnershipInv == Init => OwnershipInv
  BY DEF Init, OwnershipInv, OwnerIsLatest, WriterOwnsRun, Running, Locked

(* Completing a run it owns leaves nobody running. *)
LEMMA RecordOwnershipInv ==
  ASSUME TypeOK, OwnershipInv, NEW w \in Runs, Owns(w), Record(w),
         pc[w] \in {"completing", "closing"}
  PROVE  OwnershipInv'
<1>1. Outcome(tally[w]) # "running"
  BY OutcomeInOutcomes DEF TypeOK, Outcomes
<1>2. Outdated(Finished \union {w}) \subseteq Finished \union {w}
  BY DEF Outdated
<1>3. Finished \intersect Running = {}
  BY DEF Finished, Running, Outcomes
<1>4. /\ epoch' = epoch /\ acquired' = acquired
      /\ pc' = [pc EXCEPT ![w] = "done"]
      /\ \A r \in Runs \ {w} : status'[r] \in {status[r], "pruned"}
      /\ \A r \in Runs \ {w} : status[r] \in {"none", "running"} => status'[r] = status[r]
      /\ status'[w] # "running"
  BY <1>1, <1>2 DEF Record, Go, history, Finished, Outcomes, TypeOK
<1> QED
  BY <1>4 DEF OwnershipInv, OwnerIsLatest, WriterOwnsRun, Running, Locked, TypeOK, Owns

(* No step of a worker, an operator or time breaks the ownership invariant. *)
LEMMA OwnershipInvStep == TypeOK /\ OwnershipInv /\ [Next]_vars => OwnershipInv'
<1> SUFFICES ASSUME TypeOK, OwnershipInv, [Next]_vars PROVE OwnershipInv'
  OBVIOUS
<1>1. CASE Tick
  BY <1>1, OwnershipInvUnchanged DEF Tick, history
<1>2. ASSUME NEW w \in Runs, ReadClock(w) PROVE OwnershipInv'
  BY <1>2, OwnershipInvUnchanged DEF ReadClock, Go, rows, history, TypeOK
<1>3. ASSUME NEW w \in Runs, Acquire(w) PROVE OwnershipInv'
  <2>1. /\ epoch' = [epoch EXCEPT ![w] = acquired + 1]
        /\ acquired' = acquired + 1
        /\ pc' = [pc EXCEPT ![w] = "acquired"]
        /\ status' = [r \in Runs |-> IF r = w THEN "running"
                                     ELSE IF r \in Running THEN "abandoned" ELSE status[r]]
        /\ \A r \in Running : ~Locked(r)
    BY <1>3 DEF Acquire, AbandonStale, Stale, Go
  <2> QED
    BY <2>1 DEF TypeOK, OwnershipInv, OwnerIsLatest, WriterOwnsRun, Running, Locked
<1>4. ASSUME NEW w \in Runs, Refuse(w) PROVE OwnershipInv'
  <2>1. /\ UNCHANGED <<epoch, acquired>>
        /\ pc' = [pc EXCEPT ![w] = "refused"]
        /\ pc[w] = "starting"
        /\ \A r \in Runs : status'[r] = IF r \in Stale(lag[w]) THEN "abandoned" ELSE status[r]
        /\ \A r \in Stale(lag[w]) : r \in Running /\ ~Locked(r)
    BY <1>4 DEF Refuse, AbandonStale, Stale, Go, history
  <2> QED
    BY <2>1 DEF TypeOK, OwnershipInv, OwnerIsLatest, WriterOwnsRun, Running, Locked
<1>5. ASSUME NEW r \in Runs, AbandonByOperator(r) PROVE OwnershipInv'
  BY <1>5 DEF AbandonByOperator, Stale, history, TypeOK, OwnershipInv, OwnerIsLatest,
              WriterOwnsRun, Running, Locked
<1>6. ASSUME NEW r \in Runs, RequestStop(r) PROVE OwnershipInv'
  BY <1>6, OwnershipInvUnchanged DEF RequestStop, history
<1>7. ASSUME NEW w \in Runs, Execute(w) PROVE OwnershipInv'
  BY <1>7, OwnershipInvUnchanged DEF Execute, Go, rows, history, TypeOK
<1>8. ASSUME NEW w \in Runs, Cancel(w) PROVE OwnershipInv'
  BY <1>8, OwnershipInvUnchanged DEF Cancel, Go, rows, history, TypeOK
<1>9. ASSUME NEW w \in Runs, Stop(w) PROVE OwnershipInv'
  BY <1>9, OwnershipInvUnchanged DEF Stop, Go, history, TypeOK
<1>10. ASSUME NEW w \in Runs, StartPage(w) PROVE OwnershipInv'
  BY <1>10, OwnershipInvUnchanged DEF StartPage, Go, history, TypeOK
<1>11. ASSUME NEW w \in Runs, FetchPage(w) \/ PageFails(w) PROVE OwnershipInv'
  BY <1>11, OwnershipInvUnchanged DEF FetchPage, PageFails, Go, rows, history, TypeOK
<1>12. ASSUME NEW w \in Runs, EndPage(w) PROVE OwnershipInv'
  BY <1>12, OwnershipInvUnchanged DEF EndPage, Go, history, TypeOK
<1>13. ASSUME NEW w \in Runs, EndRepair(w) PROVE OwnershipInv'
  BY <1>13, OwnershipInvUnchanged DEF EndRepair, Go, rows, history, TypeOK
<1>14. ASSUME NEW w \in Runs, StartGame(w) PROVE OwnershipInv'
  BY <1>14, OwnershipInvUnchanged DEF StartGame, Go, history, TypeOK
<1>15. ASSUME NEW w \in Runs, NEW g \in Games, GameStep(w, g) PROVE OwnershipInv'
  <2>1. CASE DeferGame(w, g)
    BY <2>1, OwnershipInvUnchanged DEF DeferGame, Go, rows, history, TypeOK
  <2>2. CASE RejectGame(w, g)
    BY <2>2, OwnershipInvUnchanged DEF RejectGame, Go, rows, history, TypeOK
  <2>3. CASE BeginSave(w, g)
    BY <2>3, OwnershipInvUnchanged DEF BeginSave, Owns, Go, rows, history, TypeOK
  <2>4. CASE CommitSave(w, g)
    BY <2>4, OwnershipInvUnchanged DEF CommitSave, Go, TypeOK
  <2>5. CASE CommitUnanswered(w, g)
    BY <2>5, OwnershipInvUnchanged DEF CommitUnanswered, Go, TypeOK
  <2>6. CASE AbortSave(w, g)
    BY <2>6, OwnershipInvUnchanged DEF AbortSave, Go, rows, history, TypeOK
  <2>7. CASE CountGame(w, g)
    BY <2>7, OwnershipInvUnchanged DEF CountGame, Go, history, TypeOK
  <2> QED
    BY <1>15, <2>1, <2>2, <2>3, <2>4, <2>5, <2>6, <2>7 DEF GameStep
<1>16. ASSUME NEW w \in Runs, LocalizationBeat(w) PROVE OwnershipInv'
  BY <1>16, OwnershipInvUnchanged DEF LocalizationBeat, history
<1>17. ASSUME NEW w \in Runs, Complete(w) PROVE OwnershipInv'
  BY <1>17, RecordOwnershipInv DEF Complete
<1>18. ASSUME NEW w \in Runs, Close(w) PROVE OwnershipInv'
  BY <1>18, RecordOwnershipInv DEF Close
<1>19. ASSUME NEW w \in Runs, LoseOwnership(w) PROVE OwnershipInv'
  BY <1>19, OwnershipInvUnchanged DEF LoseOwnership, Go, rows, history, TypeOK
<1>20. ASSUME NEW w \in Runs, FailRun(w) PROVE OwnershipInv'
  BY <1>20, OwnershipInvUnchanged DEF FailRun, Go, rows, history, TypeOK
<1>21. ASSUME NEW w \in Runs, FailClosing(w) \/ Crash(w) PROVE OwnershipInv'
  BY <1>21, OwnershipInvUnchanged DEF FailClosing, Crash, Go, rows, history, TypeOK
<1>22. CASE UNCHANGED vars
  BY <1>22, OwnershipInvUnchanged DEF vars, rows, history
<1> QED
  BY <1>1, <1>2, <1>3, <1>4, <1>5, <1>6, <1>7, <1>8, <1>9, <1>10, <1>11, <1>12, <1>13, <1>14,
     <1>15, <1>16, <1>17, <1>18, <1>19, <1>20, <1>21, <1>22 DEF Next, Progress

(* OwnershipInv is inductive relative to the types. *)
THEOREM OwnershipInvariant == Spec => []OwnershipInv
<1>1. Init => OwnershipInv
  BY InitOwnershipInv
<1>2. TypeOK /\ OwnershipInv /\ [Next]_vars => OwnershipInv'
  BY OwnershipInvStep
<1> QED
  BY <1>1, <1>2, TypeCorrect, PTL DEF Spec

(* Only the run acquired last is ever running, whatever starts, takeovers   *)
(* and retries interleave (beginRun).                                       *)
THEOREM SingleOwner == Spec => []OwnerIsLatest
<1>1. OwnershipInv => OwnerIsLatest
  BY DEF OwnershipInv
<1> QED
  BY <1>1, OwnershipInvariant, PTL

(* Neither a new start nor an operator abandons a run during one of its     *)
(* Game writes (fence, beginRun, abandonRun).                               *)
THEOREM WriterKeepsRun == Spec => []WriterOwnsRun
<1>1. OwnershipInv => WriterOwnsRun
  BY DEF OwnershipInv
<1> QED
  BY <1>1, OwnershipInvariant, PTL

-----------------------------------------------------------------------------
(* Finished rows.                                                          *)

(* One step's part of FinishedIsFinal. *)
FinalStep ==
    \A r \in Runs :
        /\ status[r] \in Outcomes \union {"abandoned"} =>
            status'[r] \in {status[r], "pruned"} /\ code'[r] = code[r]
        /\ status[r] = "pruned" => status'[r] = "pruned"
        /\ \A d \in Days : scan'[d] = r /\ scan[d] # r => r \in Running

(* The steps that end runs; no other step touches a row's status or code. *)
LEMMA RowsChangeOnlyBy ==
  ASSUME TypeOK, [Next]_vars,
         \A w \in Runs : ~(Acquire(w) \/ Refuse(w) \/ AbandonByOperator(w)
                            \/ Complete(w) \/ Close(w))
  PROVE  UNCHANGED <<status, code, scan, epoch>>
<1>1. ASSUME NEW w \in Runs, NEW g \in Games, GameStep(w, g)
      PROVE UNCHANGED <<status, code, scan, epoch>>
  BY <1>1 DEF GameStep, DeferGame, RejectGame, BeginSave, CommitSave, CommitUnanswered,
              AbortSave, CountGame, rows, history
<1>2. ASSUME NEW w \in Runs,
             ReadClock(w) \/ LocalizationBeat(w) \/ RequestStop(w) \/ Crash(w)
      PROVE UNCHANGED <<status, code, scan, epoch>>
  BY <1>2 DEF ReadClock, LocalizationBeat, RequestStop, Crash, rows, history
<1>3. ASSUME NEW w \in Runs,
             Execute(w) \/ Cancel(w) \/ Stop(w) \/ StartPage(w) \/ FetchPage(w) \/ PageFails(w)
      PROVE UNCHANGED <<status, code, scan, epoch>>
  BY <1>3 DEF Execute, Cancel, Stop, StartPage, FetchPage, PageFails, rows, history
<1>4. ASSUME NEW w \in Runs,
             EndPage(w) \/ EndRepair(w) \/ StartGame(w) \/ LoseOwnership(w) \/ FailRun(w)
             \/ FailClosing(w)
      PROVE UNCHANGED <<status, code, scan, epoch>>
  BY <1>4 DEF EndPage, EndRepair, StartGame, LoseOwnership, FailRun, FailClosing, rows, history
<1>5. CASE Tick
  BY <1>5 DEF Tick, history
<1>6. CASE UNCHANGED vars
  BY <1>6 DEF vars, rows, history
<1> QED
  BY <1>1, <1>2, <1>3, <1>4, <1>5, <1>6 DEF Next, Progress

(* What completing a run does to the other rows. *)
LEMMA RecordEffect ==
  ASSUME TypeOK, NEW w \in Runs, Owns(w), Record(w)
  PROVE  /\ status'[w] # "running"
         /\ \A r \in Runs \ {w} : status'[r] \in {status[r], "pruned"}
         /\ \A r \in Runs \ {w} : status[r] \in {"none", "running", "pruned"} =>
                                    status'[r] = status[r]
         /\ \A r \in Runs \ {w} : code'[r] = code[r]
<1>1. Outcome(tally[w]) # "running"
  BY OutcomeInOutcomes DEF TypeOK, Outcomes
<1>2. Outdated(Finished \union {w}) \subseteq Finished \union {w}
  BY DEF Outdated
<1> QED
  BY <1>1, <1>2 DEF Record, Finished, Outcomes, TypeOK

(* Every step from a state with the invariant leaves finished rows alone. *)
LEMMA FinalStepHolds == TypeOK /\ OwnershipInv /\ [Next]_vars => FinalStep
<1> SUFFICES ASSUME TypeOK, OwnershipInv, [Next]_vars PROVE FinalStep
  OBVIOUS
<1>1. ASSUME NEW w \in Runs, Acquire(w) \/ Refuse(w) PROVE FinalStep
  <2>1. status[w] = "none"
    BY <1>1 DEF Acquire, Refuse, OwnershipInv
  <2>2. /\ scan' = scan
        /\ \A r \in Runs \ {w} : r \notin Running => status'[r] = status[r] /\ code'[r] = code[r]
    BY <1>1 DEF Acquire, Refuse, AbandonStale, Stale, TypeOK
  <2> QED
    BY <2>1, <2>2 DEF FinalStep, Running, Outcomes
<1>2. ASSUME NEW r \in Runs, AbandonByOperator(r) PROVE FinalStep
  BY <1>2 DEF AbandonByOperator, Stale, FinalStep, Running, Outcomes, TypeOK
<1>3. ASSUME NEW w \in Runs, Complete(w) \/ Close(w) PROVE FinalStep
  <2>1. Owns(w) /\ Record(w)
    BY <1>3 DEF Complete, Close
  <2>2. \A d \in Days : scan'[d] \in {scan[d], w}
    BY <1>3 DEF Complete, Close, Cover, TypeOK
  <2> QED
    BY <2>1, <2>2, RecordEffect DEF FinalStep, Owns, Running, Outcomes
<1>4. CASE UNCHANGED <<status, code, scan, epoch>>
  BY <1>4 DEF FinalStep
<1> QED
  BY <1>1, <1>2, <1>3, <1>4, RowsChangeOnlyBy

(* A worker that returns after its run was abandoned or completed changes   *)
(* neither that row nor coverage, and history never comes back.             *)
THEOREM FinishedStaysFinal == Spec => FinishedIsFinal
<1>1. TypeOK /\ OwnershipInv /\ [Next]_vars => [FinalStep]_vars
  BY FinalStepHolds
<1> QED
  BY <1>1, TypeCorrect, OwnershipInvariant, PTL DEF Spec, FinishedIsFinal, FinalStep

-----------------------------------------------------------------------------
(* Refinement.                                                             *)

(* A running run is the only one, hence the owner. *)
LEMMA OwnerIs ==
  ASSUME TypeOK, OwnershipInv, NEW w \in Running PROVE Owner = w /\ Running = {w}
<1>1. \A r \in Running : r = w
  BY DEF OwnershipInv, OwnerIsLatest, TypeOK, Running
<1> QED
  BY <1>1 DEF Owner, Running

(* With no row running, nobody owns the provider. *)
LEMMA NoOwner == ASSUME Running = {} PROVE Owner = NoRun
  BY DEF Owner

(* The run left alone running by a step is the owner after it. *)
LEMMA NextOwnerIs ==
  ASSUME NEW w \in Runs, Running' = {w} PROVE Owner' = w
<1>1. status'[w] = "running" /\ \A r \in Runs : status'[r] = "running" => r = w
  BY DEF Running
<1> QED
  BY <1>1 DEF Owner, Running

(* The initial rows grant nothing. *)
LEMMA RefinesInit == Init => Ownership!OwnershipInit
<1> SUFFICES ASSUME Init PROVE Ownership!OwnershipInit
  OBVIOUS
<1>1. Running = {} /\ {r \in Runs : epoch[r] # 0 /\ r \notin Running} = {}
  BY DEF Init, Running
<1> QED
  BY <1>1, NoOwner DEF Init, Ownership!OwnershipInit

(* Steps that leave status, epoch, coverage and Games alone are stutters. *)
LEMMA RefinesStutter ==
  ASSUME UNCHANGED <<status, epoch, scan, wrote>>
  PROVE  UNCHANGED Ownership!ownershipVars
  BY DEF Owner, Running, Ownership!ownershipVars

(* beginRun that inserts its row is TakeOwnership, a stale owner evicted. *)
LEMMA RefinesAcquire ==
  ASSUME TypeOK, OwnershipInv, NEW w \in Runs, Acquire(w)
  PROVE  Ownership!TakeOwnership(w)
<1>1. /\ status' = [r \in Runs |-> IF r = w THEN "running"
                                  ELSE IF r \in Running THEN "abandoned" ELSE status[r]]
      /\ epoch' = [epoch EXCEPT ![w] = acquired + 1]
      /\ UNCHANGED <<wrote, scan>>
      /\ status[w] = "none" /\ epoch[w] = 0
  BY DEF Acquire, AbandonStale, Stale, OwnershipInv
<1>2. Running' = {w} /\ Owner' = w
  BY <1>1, NextOwnerIs DEF Running
<1>3. Owner # w
  <2>1. CASE Running = {}
    BY <2>1, NoOwner, RunsAssumption
  <2>2. CASE Running # {}
    BY <2>2, <1>1, OwnerIs DEF Running
  <2> QED
    BY <2>1, <2>2
<1>4. {r \in Runs : epoch[r] # 0 /\ r \notin Running}'
        = {r \in Runs : epoch[r] # 0 /\ r \notin Running} \union ({Owner} \ {NoRun})
  <2>1. acquired + 1 # 0 /\ \A r \in Runs \ {w} : epoch'[r] = epoch[r]
    BY <1>1 DEF TypeOK
  <2>2. {r \in Runs : epoch[r] # 0 /\ r \notin Running}'
          = {r \in Runs : epoch[r] # 0 /\ r # w}
    BY <1>1, <1>2, <2>1
  <2>3. CASE Running = {}
    BY <1>1, <2>2, <2>3, NoOwner
  <2>4. CASE Running # {}
    <3>1. PICK o \in Running : TRUE
      BY <2>4
    <3>2. Owner = o /\ Running = {o} /\ epoch[o] # 0 /\ o \in Runs /\ o # w /\ o # NoRun
      BY <3>1, <1>1, OwnerIs, RunsAssumption DEF OwnershipInv, Running
    <3> QED
      BY <3>2, <2>2, <1>1
  <2> QED
    BY <2>3, <2>4
<1>5. w \notin {r \in Runs : epoch[r] # 0 /\ r \notin Running}
  BY <1>1
<1> QED
  BY <1>1, <1>2, <1>3, <1>4, <1>5 DEF Ownership!TakeOwnership

(* A refused start finds the one running row alive and abandons nothing. *)
LEMMA RefinesRefuse ==
  ASSUME TypeOK, OwnershipInv, NEW w \in Runs, Refuse(w)
  PROVE  UNCHANGED Ownership!ownershipVars
<1>1. Stale(lag[w]) = {}
  <2>1. PICK o \in Running : o \notin Stale(lag[w])
    BY DEF Refuse
  <2> QED
    BY <2>1, OwnerIs DEF Stale
<1>2. \A r \in Runs : status'[r] = status[r]
  BY <1>1 DEF Refuse, AbandonStale
<1>3. status' = status
  BY <1>2 DEF TypeOK, Refuse, AbandonStale
<1> QED
  BY <1>3, RefinesStutter DEF Refuse, history

(* The owner's row leaves "running": ownership ends. *)
LEMMA OwnerEnds ==
  ASSUME TypeOK, OwnershipInv, NEW w \in Running, UNCHANGED epoch,
         status'[w] # "running",
         \A r \in Runs \ {w} : status'[r] = "running" => status[r] = "running"
  PROVE  /\ Owner = w
         /\ Owner' = NoRun
         /\ {r \in Runs : epoch[r] # 0 /\ r \notin Running}'
               = {r \in Runs : epoch[r] # 0 /\ r \notin Running} \union {w}
<1>1. Owner = w /\ Running = {w}
  BY OwnerIs
<1>2. Running' = {}
  BY <1>1 DEF Running
<1>3. w \in Runs /\ epoch[w] # 0
  BY DEF OwnershipInv, Running
<1> QED
  BY <1>1, <1>2, <1>3 DEF Owner

(* abandonRun ends ownership and covers nothing. *)
LEMMA RefinesAbandon ==
  ASSUME TypeOK, OwnershipInv, NEW r \in Runs, AbandonByOperator(r)
  PROVE  Ownership!EndUncovered(r)
<1>1. /\ r \in Running
      /\ status' = [status EXCEPT ![r] = "abandoned"]
      /\ UNCHANGED <<epoch, wrote, scan>>
  BY DEF AbandonByOperator, Stale, history
<1>2. status'[r] # "running" /\ \A s \in Runs \ {r} : status'[s] = status[s]
  BY <1>1 DEF TypeOK
<1> QED
  BY <1>1, <1>2, OwnerEnds DEF Ownership!EndUncovered

(* completeRun and completeCoveredRun end ownership, and only the latter    *)
(* touches coverage, for the whole interval.                                *)
LEMMA RefinesComplete ==
  ASSUME TypeOK, OwnershipInv, NEW w \in Runs, Complete(w) \/ Close(w)
  PROVE  Ownership!EndCovered(w) \/ Ownership!EndUncovered(w)
<1>1. Owns(w) /\ Record(w)
  BY DEF Complete, Close
<1>2. UNCHANGED <<epoch, wrote>>
  BY <1>1 DEF Record, history
<1>3. /\ Owner = w /\ Owner' = NoRun
      /\ {r \in Runs : epoch[r] # 0 /\ r \notin Running}'
            = {r \in Runs : epoch[r] # 0 /\ r \notin Running} \union {w}
  BY <1>1, <1>2, RecordEffect, OwnerEnds DEF Owns
<1>4. scan' = scan \/ Cover(w)
  BY DEF Complete, Close
<1> QED
  BY <1>2, <1>3, <1>4 DEF Ownership!EndCovered, Ownership!EndUncovered, Cover

(* A Game commits only while its run owns the provider. *)
LEMMA RefinesGame ==
  ASSUME TypeOK, OwnershipInv, NEW w \in Runs, NEW g \in Games, GameStep(w, g)
  PROVE  Ownership!Publish(w, g) \/ UNCHANGED Ownership!ownershipVars
<1>1. CASE CommitSave(w, g) \/ CommitUnanswered(w, g)
  <2>1. /\ UNCHANGED <<status, epoch, scan>>
        /\ wrote' = [wrote EXCEPT ![w] = @ \union {g}]
        /\ Locked(w)
    BY <1>1 DEF CommitSave, CommitUnanswered, Commit, Locked
  <2>2. w \in Running
    BY <2>1 DEF OwnershipInv, WriterOwnsRun
  <2>3. Owner = w /\ Owner' = Owner /\ Running' = Running
    BY <2>1, <2>2, OwnerIs DEF Owner, Running
  <2> QED
    BY <2>1, <2>3 DEF Ownership!Publish
<1>2. CASE ~(CommitSave(w, g) \/ CommitUnanswered(w, g))
  <2>1. UNCHANGED <<status, epoch, scan, wrote>>
    BY <1>2 DEF GameStep, DeferGame, RejectGame, BeginSave, AbortSave, CountGame, rows, history
  <2> QED
    BY <2>1, RefinesStutter
<1> QED
  BY <1>1, <1>2

(* Every step is a step of RunOwnership or leaves what it sees unchanged. *)
LEMMA RefinesNext ==
  TypeOK /\ OwnershipInv /\ [Next]_vars => [Ownership!OwnershipNext]_(Ownership!ownershipVars)
<1> SUFFICES ASSUME TypeOK, OwnershipInv, [Next]_vars
             PROVE  [Ownership!OwnershipNext]_(Ownership!ownershipVars)
  OBVIOUS
<1>1. ASSUME NEW w \in Runs, NEW g \in Games, GameStep(w, g)
      PROVE [Ownership!OwnershipNext]_(Ownership!ownershipVars)
  BY <1>1, RefinesGame DEF Ownership!OwnershipNext
<1>2. ASSUME NEW w \in Runs, Acquire(w) PROVE [Ownership!OwnershipNext]_(Ownership!ownershipVars)
  BY <1>2, RefinesAcquire DEF Ownership!OwnershipNext
<1>3. ASSUME NEW w \in Runs, Refuse(w) PROVE [Ownership!OwnershipNext]_(Ownership!ownershipVars)
  BY <1>3, RefinesRefuse
<1>4. ASSUME NEW r \in Runs, AbandonByOperator(r)
      PROVE [Ownership!OwnershipNext]_(Ownership!ownershipVars)
  BY <1>4, RefinesAbandon DEF Ownership!OwnershipNext
<1>5. ASSUME NEW w \in Runs, Complete(w) \/ Close(w)
      PROVE [Ownership!OwnershipNext]_(Ownership!ownershipVars)
  BY <1>5, RefinesComplete DEF Ownership!OwnershipNext
<1>6. CASE /\ \A w \in Runs : ~(Acquire(w) \/ Refuse(w) \/ AbandonByOperator(w)
                                \/ Complete(w) \/ Close(w))
           /\ \A w \in Runs, g \in Games : ~GameStep(w, g)
  <2>1. UNCHANGED <<status, code, scan, epoch>>
    BY <1>6, RowsChangeOnlyBy
  <2>2. UNCHANGED wrote
    <3>1. ASSUME NEW w \in Runs,
                 ReadClock(w) \/ LocalizationBeat(w) \/ RequestStop(w) \/ Crash(w)
                 \/ Execute(w) \/ Cancel(w) \/ Stop(w) \/ StartPage(w) \/ FetchPage(w)
                 \/ PageFails(w)
          PROVE UNCHANGED wrote
      BY <3>1 DEF ReadClock, LocalizationBeat, RequestStop, Crash, Execute, Cancel, Stop,
                  StartPage, FetchPage, PageFails
    <3>2. ASSUME NEW w \in Runs,
                 EndPage(w) \/ EndRepair(w) \/ StartGame(w) \/ LoseOwnership(w) \/ FailRun(w)
                 \/ FailClosing(w)
          PROVE UNCHANGED wrote
      BY <3>2 DEF EndPage, EndRepair, StartGame, LoseOwnership, FailRun, FailClosing
    <3>3. CASE Tick \/ UNCHANGED vars
      BY <3>3 DEF Tick, vars
    <3> QED
      BY <1>6, <3>1, <3>2, <3>3 DEF Next, Progress
  <2> QED
    BY <2>1, <2>2, RefinesStutter
<1> QED
  BY <1>1, <1>2, <1>3, <1>4, <1>5, <1>6

(* The runs table, its heartbeats and its workers keep the promises of      *)
(* RunOwnership: evicted runs publish nothing and never own again.          *)
THEOREM RunsImplementOwnership == Spec => ImplementsOwnership
<1>1. Init => Ownership!OwnershipInit
  BY RefinesInit
<1>2. TypeOK /\ OwnershipInv /\ [Next]_vars
        => [Ownership!OwnershipNext]_(Ownership!ownershipVars)
  BY RefinesNext
<1> QED
  BY <1>1, <1>2, TypeCorrect, OwnershipInvariant, PTL
     DEF Spec, ImplementsOwnership, Ownership!OwnershipSpec

-----------------------------------------------------------------------------
(* What a run counts.                                                      *)

Counted(w) == tally[w].saved \union tally[w].deferred \union tally[w].failed

(* Places before the worker knows how its run ends. *)
Reading == {"acquired", "paging", "fetching", "choosing", "working", "saving", "saved"}

(* What the worker's memory says at each of its places.  Until the run's end *)
(* is known no flag is set and every Game seen is counted or still to do; a  *)
(* run completes because it read its interval, was stopped, or broke; and a  *)
(* run closed otherwise, unless it is a repair, broke.                       *)
Tallied(w) ==
    /\ pc[w] \in {"idle", "starting", "refused", "acquired"} => tally[w] = NoTally
    /\ pc[w] \in {"idle", "starting", "refused", "acquired", "paging", "fetching"} => todo[w] = {}
    /\ pc[w] \in {"paging", "fetching", "completing"} => w \notin Repairs
    /\ pc[w] \in Reading => ~tally[w].read /\ ~tally[w].stopped /\ ~tally[w].broke
    /\ pc[w] \in Reading \union {"completing"} /\ w \notin Repairs =>
         tally[w].seen = Counted(w) \union todo[w]
    /\ pc[w] = "completing" /\ tally[w].read =>
         cursor[w] = LastGame /\ todo[w] = {} /\ ~tally[w].stopped
    /\ pc[w] = "completing" /\ ~tally[w].read => tally[w].stopped \/ tally[w].broke
    /\ pc[w] = "closing" /\ w \notin Repairs => tally[w].broke
    /\ pc[w] = "done" /\ w \notin Repairs /\ Outcome(tally[w]) = "succeeded" =>
         tally[w].seen = tally[w].saved \union tally[w].deferred

(* A Game is in the catalogue before it is counted. *)
Published(w) ==
    /\ tally[w].saved \subseteq wrote[w]
    /\ pc[w] = "saved" => \A g \in Games : IsNext(w, g) => g \in wrote[w]

(* After a stop no Game is started, so only the one under way can be late. *)
Stopped(w) ==
    /\ ~stopAsked[w] => late[w] = {}
    /\ pc[w] \in {"working", "saving"} => late[w] = {}
    /\ late[w] = {} \/ \E g \in Games : late[w] = {g}

Accounted(w) == Tallied(w) /\ Published(w) /\ Stopped(w)

(* What coverage may rest on: a run that read its interval to the end. *)
Honest(r) ==
    /\ pc[r] = "done"
    /\ r \notin Repairs
    /\ cursor[r] = LastGame
    /\ ~tally[r].stopped
    /\ tally[r].seen = Counted(r)
    /\ tally[r].failed # {} => Succeeded(tally[r])

(* A row says succeeded, and a day names a run, only of a completed run. *)
Recorded ==
    /\ \A r \in Runs : status[r] = "succeeded" =>
         pc[r] = "done" /\ Outcome(tally[r]) = "succeeded"
    /\ \A d \in Days : scan[d] # NoRun => d \in Window[scan[d]] /\ Honest(scan[d])

AccountInv == TypeOK /\ (\A w \in Runs : Accounted(w)) /\ Recorded

-----------------------------------------------------------------------------
Memory(x) == <<pc[x], tally[x], cursor[x], todo[x], wrote[x], late[x], stopAsked[x]>>

(* A step that leaves a worker's memory alone leaves its account alone. *)
LEMMA AccountedUnchanged ==
  ASSUME NEW x \in Runs, Accounted(x), UNCHANGED Memory(x) PROVE Accounted(x)'
  BY DEF Memory, Accounted, Tallied, Published, Stopped, Counted, IsNext

(* A step of a worker that is not done leaves what is recorded, unless it    *)
(* records something itself.                                                 *)
LEMMA RecordedUnchanged ==
  ASSUME Recorded, UNCHANGED scan,
         \A r \in Runs : status'[r] = "succeeded" => status[r] = "succeeded",
         \A r \in Runs : pc[r] = "done" =>
            pc'[r] = "done" /\ tally'[r] = tally[r] /\ cursor'[r] = cursor[r],
         TypeOK
  PROVE  Recorded'
<1>1. \A d \in Days : scan[d] # NoRun => scan[d] \in Runs
  BY DEF TypeOK
<1> QED
  BY <1>1 DEF Recorded, Honest, Counted, Succeeded, Outcome

(* One worker's step: its own account, and nothing of the others. *)
LEMMA WorkerStep ==
  ASSUME AccountInv, TypeOK', NEW w \in Runs, pc[w] # "done", Accounted(w)',
         \A x \in Runs \ {w} : UNCHANGED Memory(x),
         \A r \in Runs : status'[r] = "succeeded" => status[r] = "succeeded",
         UNCHANGED scan
  PROVE  AccountInv'
<1>1. \A x \in Runs : Accounted(x)'
  BY AccountedUnchanged DEF AccountInv
<1>2. \A r \in Runs : pc[r] = "done" =>
         pc'[r] = "done" /\ tally'[r] = tally[r] /\ cursor'[r] = cursor[r]
  BY DEF Memory
<1>3. Recorded'
  BY <1>2, RecordedUnchanged DEF AccountInv
<1> QED
  BY <1>1, <1>3 DEF AccountInv

(* Before any call nothing is counted, recorded or late. *)
LEMMA InitAccountInv == Init => AccountInv
<1> SUFFICES ASSUME Init PROVE AccountInv
  OBVIOUS
<1>1. \A w \in Runs : Accounted(w)
  BY DEF Init, Accounted, Tallied, Published, Stopped, NoTally, Reading
<1>2. Recorded
  BY DEF Init, Recorded
<1> QED
  BY <1>1, <1>2, InitTypeOK DEF AccountInv

(* A thread that ends without a report leaves an empty account. *)
LEMMA Forgotten ==
  ASSUME AccountInv, NEW w \in Runs, Forget(w), Go(w, "lost") \/ Go(w, "threw") \/ Go(w, "crashed"),
         UNCHANGED <<rows, scan, wrote, history>>, TypeOK', pc[w] # "done"
  PROVE  AccountInv'
<1>1. pc'[w] \in {"lost", "threw", "crashed"} /\ tally'[w] = NoTally
  BY DEF Forget, Go, AccountInv, TypeOK
<1>2. Accounted(w)'
  BY <1>1 DEF AccountInv, Accounted, Tallied, Published, Stopped, NoTally, Reading, rows, history,
     Forget
<1>3. \A x \in Runs \ {w} : UNCHANGED Memory(x)
  BY DEF Memory, Forget, Go, AccountInv, TypeOK, rows, history
<1> QED
  BY <1>2, <1>3, WorkerStep DEF rows

(* A completed run's account. *)
LEMMA RecordAccounted ==
  ASSUME AccountInv, NEW w \in Runs, Record(w), pc[w] \in {"completing", "closing"}
  PROVE  /\ \A x \in Runs : Accounted(x)'
         /\ \A r \in Runs : status'[r] = "succeeded" =>
              pc'[r] = "done" /\ Outcome(tally'[r]) = "succeeded"
<1>1. /\ pc' = [pc EXCEPT ![w] = "done"]
      /\ todo' = [todo EXCEPT ![w] = {}]
      /\ UNCHANGED <<stopAsked, wrote, cursor, tally, late>>
  BY DEF Record, Go, history
<1>2. tally[w] \in Tallies
  BY DEF AccountInv, TypeOK
<1>3. Outcome(tally[w]) = "succeeded" =>
         ~tally[w].stopped /\ ~tally[w].broke /\ tally[w].failed = {}
  BY DEF Outcome
<1>4. Outcome(tally[w]) = "succeeded" /\ w \notin Repairs =>
         tally[w].seen = tally[w].saved \union tally[w].deferred
  BY <1>3 DEF AccountInv, Accounted, Tallied, Counted
<1>5. Tallied(w)'
  BY <1>1, <1>4 DEF AccountInv, TypeOK, Tallied, Reading
<1>6. Published(w)' /\ Stopped(w)'
  BY <1>1 DEF AccountInv, TypeOK, Accounted, Published, Stopped
<1>7. \A x \in Runs \ {w} : UNCHANGED Memory(x)
  BY <1>1 DEF Memory, AccountInv, TypeOK
<1>8. \A x \in Runs : Accounted(x)'
  BY <1>5, <1>6, <1>7, AccountedUnchanged DEF AccountInv, Accounted
<1>9. \A r \in Runs : status'[r] = "succeeded" =>
         IF r = w THEN Outcome(tally[w]) = "succeeded" ELSE status[r] = "succeeded"
  BY DEF Record, AccountInv, TypeOK
<1> QED
  BY <1>1, <1>8, <1>9 DEF AccountInv, Recorded, TypeOK

(* A run that covers its interval read it to the end and accounts for it. *)
LEMMA CoversHonestly ==
  ASSUME AccountInv, NEW w \in Runs, pc[w] = "completing", Covers(w)
  PROVE  /\ w \notin Repairs
         /\ cursor[w] = LastGame
         /\ ~tally[w].stopped
         /\ tally[w].seen = Counted(w)
         /\ tally[w].failed # {} => Succeeded(tally[w])
<1>1. /\ w \notin Repairs /\ cursor[w] = LastGame /\ todo[w] = {} /\ ~tally[w].stopped
      /\ tally[w].seen = Counted(w) \union todo[w]
  BY DEF AccountInv, Accounted, Tallied, Covers
<1>2. tally[w].failed # {} => Succeeded(tally[w])
  BY DEF Covers, Outcome
<1> QED
  BY <1>1, <1>2

-----------------------------------------------------------------------------
(* No step breaks the account of a worker or what is recorded of its run. *)
LEMMA AccountInvStep == AccountInv /\ [Next]_vars => AccountInv'
<1> SUFFICES ASSUME AccountInv, [Next]_vars PROVE AccountInv'
  OBVIOUS
<1>0. TypeOK /\ TypeOK' /\ \A w \in Runs : tally[w] \in Tallies
  BY TypeOKStep DEF AccountInv, TypeOK
<1> USE <1>0
<1>1. ASSUME \A r \in Runs : status'[r] = "succeeded" => status[r] = "succeeded",
             \A r \in Runs : pc'[r] # pc[r] =>
                /\ pc[r] \in {"idle", "starting", "refused"}
                /\ pc'[r] \in {"starting", "acquired", "refused"},
             \A r \in Runs : stopAsked[r] => stopAsked'[r],
             UNCHANGED <<scan, wrote, cursor, todo, tally, late>>
      PROVE  AccountInv'
  <2>1. ASSUME NEW x \in Runs PROVE Accounted(x)'
    <3>1. Tallied(x)'
      BY <1>1, <2>1 DEF AccountInv, Accounted, Tallied, Reading, Counted, NoTally, Outcome
    <3>2. Published(x)' /\ Stopped(x)'
      BY <1>1, <2>1 DEF AccountInv, Accounted, Published, Stopped, IsNext
    <3> QED
      BY <3>1, <3>2 DEF Accounted
  <2>2. Recorded'
    BY <1>1, RecordedUnchanged DEF AccountInv
  <2> QED
    BY <2>1, <2>2 DEF AccountInv
<1>2. CASE Tick
  BY <1>2, <1>1 DEF Tick, history
<1>3. ASSUME NEW w \in Runs, ReadClock(w) PROVE AccountInv'
  BY <1>3, <1>1 DEF TypeOK, ReadClock, Go, rows, worker, history
<1>4. ASSUME NEW w \in Runs, Acquire(w) PROVE AccountInv'
  BY <1>4, <1>1 DEF TypeOK, Acquire, Go, rows, worker, history, AbandonStale
<1>5. ASSUME NEW w \in Runs, Refuse(w) PROVE AccountInv'
  BY <1>5, <1>1 DEF TypeOK, Refuse, Go, rows, worker, history, AbandonStale
<1>6. ASSUME NEW w \in Runs, RequestStop(w) PROVE AccountInv'
  BY <1>6, <1>1 DEF TypeOK, RequestStop, Go, rows, worker, history
<1>7. ASSUME NEW w \in Runs, AbandonByOperator(w) PROVE AccountInv'
  BY <1>7, <1>1 DEF TypeOK, AbandonByOperator, Go, rows, worker, history
<1>8. ASSUME NEW w \in Runs, LocalizationBeat(w) PROVE AccountInv'
  BY <1>8, <1>1 DEF TypeOK, LocalizationBeat, Go, rows, worker, history, Beats
<1>9. ASSUME NEW w \in Runs, Execute(w) PROVE AccountInv'
  <2>1. pc[w] # "done" /\ UNCHANGED <<scan, status>> /\ \A x \in Runs \ {w} : UNCHANGED Memory(x)
    BY <1>9 DEF TypeOK, Memory, Execute, Go, rows, worker, history
  <2>2. Tallied(w)'
    BY <1>9 DEF AccountInv, Accounted, Tallied, Counted, Reading, TypeOK, Tallies,
       Execute, Go
  <2>3. Published(w)'
    BY <1>9 DEF AccountInv, Accounted, Published, IsNext, TypeOK, Tallies,
       Execute, Go
  <2>4. Stopped(w)'
    BY <1>9 DEF AccountInv, Accounted, Stopped, TypeOK, rows, worker, history, Execute, Go
  <2> QED
    BY <2>1, <2>2, <2>3, <2>4, WorkerStep DEF Accounted
<1>10. ASSUME NEW w \in Runs, Cancel(w) PROVE AccountInv'
  <2>1. pc[w] # "done" /\ UNCHANGED <<scan, status>> /\ \A x \in Runs \ {w} : UNCHANGED Memory(x)
    BY <1>10 DEF TypeOK, Memory, Cancel, Go, rows, worker, history
  <2>2. Tallied(w)'
    BY <1>10 DEF AccountInv, Accounted, Tallied, Counted, Reading, TypeOK, Tallies,
       Cancel, Go
  <2>3. Published(w)'
    BY <1>10 DEF AccountInv, Accounted, Published, IsNext, TypeOK, Tallies,
       Cancel, Go
  <2>4. Stopped(w)'
    BY <1>10 DEF AccountInv, Accounted, Stopped, TypeOK, rows, worker, history, Cancel, Go
  <2> QED
    BY <2>1, <2>2, <2>3, <2>4, WorkerStep DEF Accounted
<1>11. ASSUME NEW w \in Runs, Stop(w) PROVE AccountInv'
  <2>1. pc[w] # "done" /\ UNCHANGED <<scan, status>> /\ \A x \in Runs \ {w} : UNCHANGED Memory(x)
    BY <1>11 DEF TypeOK, Memory, Stop, Go, Beats, rows, worker, history
  <2>2. Tallied(w)'
    BY <1>11 DEF AccountInv, Accounted, Tallied, Counted, Reading, TypeOK, Tallies,
       Stop, Go, Beats
  <2>3. Published(w)'
    BY <1>11 DEF AccountInv, Accounted, Published, IsNext, TypeOK, Tallies,
       Stop, Go, Beats
  <2>4. Stopped(w)'
    BY <1>11 DEF AccountInv, Accounted, Stopped, TypeOK, rows, worker, history, Stop, Go, Beats
  <2> QED
    BY <2>1, <2>2, <2>3, <2>4, WorkerStep DEF Accounted
<1>12. ASSUME NEW w \in Runs, StartPage(w) PROVE AccountInv'
  <2>1. pc[w] # "done" /\ UNCHANGED <<scan, status>> /\ \A x \in Runs \ {w} : UNCHANGED Memory(x)
    BY <1>12 DEF TypeOK, Memory, StartPage, Go, Beats, rows, worker, history
  <2>2. Tallied(w)'
    BY <1>12 DEF AccountInv, Accounted, Tallied, Counted, Reading, TypeOK, Tallies,
       rows, worker, history, StartPage, Go, Beats
  <2>3. Published(w)'
    BY <1>12 DEF AccountInv, Accounted, Published, IsNext, TypeOK, Tallies,
       rows, worker, history, StartPage, Go, Beats
  <2>4. Stopped(w)'
    BY <1>12 DEF AccountInv, Accounted, Stopped, TypeOK, rows, worker, history, StartPage, Go, Beats
  <2> QED
    BY <2>1, <2>2, <2>3, <2>4, WorkerStep DEF Accounted
<1>13. ASSUME NEW w \in Runs, FetchPage(w) PROVE AccountInv'
  <2>1. pc[w] # "done" /\ UNCHANGED <<scan, status>> /\ \A x \in Runs \ {w} : UNCHANGED Memory(x)
    BY <1>13 DEF TypeOK, Memory, FetchPage, Go, rows, worker, history
  <2>2. Tallied(w)'
    BY <1>13 DEF AccountInv, Accounted, Tallied, Counted, Reading, TypeOK, Tallies,
       FetchPage, Go
  <2>3. Published(w)'
    BY <1>13 DEF AccountInv, Accounted, Published, IsNext, TypeOK, Tallies,
       FetchPage, Go
  <2>4. Stopped(w)'
    BY <1>13 DEF AccountInv, Accounted, Stopped, TypeOK, rows, worker, history, FetchPage, Go
  <2> QED
    BY <2>1, <2>2, <2>3, <2>4, WorkerStep DEF Accounted
<1>14. ASSUME NEW w \in Runs, PageFails(w) PROVE AccountInv'
  <2>1. pc[w] # "done" /\ UNCHANGED <<scan, status>> /\ \A x \in Runs \ {w} : UNCHANGED Memory(x)
    BY <1>14 DEF TypeOK, Memory, PageFails, Go, rows, worker, history
  <2>2. Tallied(w)'
    BY <1>14 DEF AccountInv, Accounted, Tallied, Counted, Reading, TypeOK, Tallies,
       PageFails, Go
  <2>3. Published(w)'
    BY <1>14 DEF AccountInv, Accounted, Published, IsNext, TypeOK, Tallies,
       PageFails, Go
  <2>4. Stopped(w)'
    BY <1>14 DEF AccountInv, Accounted, Stopped, TypeOK, rows, worker, history, PageFails, Go
  <2> QED
    BY <2>1, <2>2, <2>3, <2>4, WorkerStep DEF Accounted
<1>15. ASSUME NEW w \in Runs, EndPage(w) PROVE AccountInv'
  <2>1. pc[w] # "done" /\ UNCHANGED <<scan, status>> /\ \A x \in Runs \ {w} : UNCHANGED Memory(x)
    BY <1>15 DEF TypeOK, Memory, EndPage, Go, Beats, rows, worker, history
  <2>2. Tallied(w)'
    <3>1. CASE cursor[w] = LastGame
      <4>1. /\ tally'[w] = [tally[w] EXCEPT !.read = TRUE] /\ pc'[w] = "completing"
            /\ UNCHANGED <<cursor, todo>>
        BY <1>15, <3>1 DEF EndPage, Go, TypeOK
      <4> QED
        BY <1>15, <4>1, <3>1 DEF AccountInv, Accounted, Tallied, Counted, Reading, Tallies, EndPage
    <3>2. CASE cursor[w] # LastGame
      <4>1. UNCHANGED <<tally, cursor, todo>> /\ pc'[w] = "paging"
        BY <1>15, <3>2 DEF EndPage, Go, TypeOK
      <4> QED
        BY <1>15, <4>1 DEF AccountInv, Accounted, Tallied, Counted, Reading, EndPage
    <3> QED
      BY <3>1, <3>2
  <2>3. Published(w)'
    <3>1. pc'[w] # "saved" /\ tally'[w].saved = tally[w].saved /\ wrote' = wrote
      BY <1>15 DEF EndPage, Go, TypeOK, Tallies
    <3> QED
      BY <3>1 DEF AccountInv, Accounted, Published
  <2>4. Stopped(w)'
    BY <1>15 DEF AccountInv, Accounted, Stopped, TypeOK, rows, worker, history, EndPage, Go, Beats
  <2> QED
    BY <2>1, <2>2, <2>3, <2>4, WorkerStep DEF Accounted
<1>16. ASSUME NEW w \in Runs, EndRepair(w) PROVE AccountInv'
  <2>1. pc[w] # "done" /\ UNCHANGED <<scan, status>> /\ \A x \in Runs \ {w} : UNCHANGED Memory(x)
    BY <1>16 DEF TypeOK, Memory, EndRepair, Go, rows, worker, history
  <2>2. Tallied(w)'
    BY <1>16 DEF AccountInv, Accounted, Tallied, Counted, Reading, TypeOK, Tallies,
       rows, worker, history, EndRepair, Go
  <2>3. Published(w)'
    BY <1>16 DEF AccountInv, Accounted, Published, IsNext, TypeOK, Tallies,
       rows, worker, history, EndRepair, Go
  <2>4. Stopped(w)'
    BY <1>16 DEF AccountInv, Accounted, Stopped, TypeOK, rows, worker, history, EndRepair, Go
  <2> QED
    BY <2>1, <2>2, <2>3, <2>4, WorkerStep DEF Accounted
<1>17. ASSUME NEW w \in Runs, StartGame(w) PROVE AccountInv'
  <2>1. pc[w] # "done" /\ UNCHANGED <<scan, status>> /\ \A x \in Runs \ {w} : UNCHANGED Memory(x)
    BY <1>17 DEF TypeOK, Memory, StartGame, Go, Beats, rows, worker, history
  <2>2. Tallied(w)'
    BY <1>17 DEF AccountInv, Accounted, Tallied, Counted, Reading, TypeOK, Tallies,
       rows, worker, history, StartGame, Go, Beats
  <2>3. Published(w)'
    BY <1>17 DEF AccountInv, Accounted, Published, IsNext, TypeOK, Tallies,
       rows, worker, history, StartGame, Go, Beats
  <2>4. Stopped(w)'
    BY <1>17 DEF AccountInv, Accounted, Stopped, TypeOK, rows, worker, history, StartGame, Go, Beats
  <2> QED
    BY <2>1, <2>2, <2>3, <2>4, WorkerStep DEF Accounted
<1>18. ASSUME NEW w \in Runs, NEW g \in Games, DeferGame(w, g) PROVE AccountInv'
  <2>1. pc[w] # "done" /\ UNCHANGED <<scan, status>> /\ \A x \in Runs \ {w} : UNCHANGED Memory(x)
    BY <1>18 DEF TypeOK, Memory, DeferGame, Go, IsNext, Games, rows, worker, history
  <2>2. Tallied(w)'
    BY <1>18 DEF AccountInv, Accounted, Tallied, Counted, Reading, TypeOK, Tallies,
       DeferGame, Go, IsNext, Games
  <2>3. Published(w)'
    BY <1>18 DEF AccountInv, Accounted, Published, IsNext, TypeOK, Tallies,
       DeferGame, Go, IsNext, Games
  <2>4. Stopped(w)'
    BY <1>18 DEF AccountInv, Accounted, Stopped, TypeOK, rows, worker, history, DeferGame, Go
  <2> QED
    BY <2>1, <2>2, <2>3, <2>4, WorkerStep DEF Accounted
<1>19. ASSUME NEW w \in Runs, NEW g \in Games, RejectGame(w, g) PROVE AccountInv'
  <2>1. pc[w] # "done" /\ UNCHANGED <<scan, status>> /\ \A x \in Runs \ {w} : UNCHANGED Memory(x)
    BY <1>19 DEF TypeOK, Memory, RejectGame, Go, IsNext, Games, rows, worker, history
  <2>2. Tallied(w)'
    BY <1>19 DEF AccountInv, Accounted, Tallied, Counted, Reading, TypeOK, Tallies,
       RejectGame, Go, IsNext, Games
  <2>3. Published(w)'
    BY <1>19 DEF AccountInv, Accounted, Published, IsNext, TypeOK, Tallies,
       RejectGame, Go, IsNext, Games
  <2>4. Stopped(w)'
    BY <1>19 DEF AccountInv, Accounted, Stopped, TypeOK, rows, worker, history, RejectGame, Go
  <2> QED
    BY <2>1, <2>2, <2>3, <2>4, WorkerStep DEF Accounted
<1>20. ASSUME NEW w \in Runs, NEW g \in Games, BeginSave(w, g) PROVE AccountInv'
  <2>1. pc[w] # "done" /\ UNCHANGED <<scan, status>> /\ \A x \in Runs \ {w} : UNCHANGED Memory(x)
    BY <1>20 DEF TypeOK, Memory, BeginSave, Go, IsNext, Games, rows, worker, history
  <2>2. Tallied(w)'
    BY <1>20 DEF AccountInv, Accounted, Tallied, Counted, Reading, TypeOK, Tallies,
       BeginSave, Go, IsNext, Games
  <2>3. Published(w)'
    BY <1>20 DEF AccountInv, Accounted, Published, IsNext, TypeOK, Tallies,
       BeginSave, Go, IsNext, Games
  <2>4. Stopped(w)'
    BY <1>20 DEF AccountInv, Accounted, Stopped, TypeOK, rows, worker, history, BeginSave, Go
  <2> QED
    BY <2>1, <2>2, <2>3, <2>4, WorkerStep DEF Accounted
<1>21. ASSUME NEW w \in Runs, NEW g \in Games, CommitSave(w, g) PROVE AccountInv'
  <2>1. pc[w] # "done" /\ UNCHANGED <<scan, status>> /\ \A x \in Runs \ {w} : UNCHANGED Memory(x)
    BY <1>21 DEF TypeOK, Memory, CommitSave, Go, Commit, IsNext, Games, rows, worker, history
  <2>2. Tallied(w)'
    BY <1>21 DEF AccountInv, Accounted, Tallied, Counted, Reading, TypeOK, Tallies,
       CommitSave, Go, Commit, IsNext, Games
  <2>3. Published(w)'
    BY <1>21 DEF AccountInv, Accounted, Published, IsNext, TypeOK, Tallies,
       CommitSave, Go, Commit, IsNext, Games
  <2>4. Stopped(w)'
    BY <1>21 DEF AccountInv, Accounted, Stopped, TypeOK, rows, worker, history, CommitSave, Go,
       Commit
  <2> QED
    BY <2>1, <2>2, <2>3, <2>4, WorkerStep DEF Accounted
<1>22. ASSUME NEW w \in Runs, NEW g \in Games, CommitUnanswered(w, g) PROVE AccountInv'
  <2>1. pc[w] # "done" /\ UNCHANGED <<scan, status>> /\ \A x \in Runs \ {w} : UNCHANGED Memory(x)
    BY <1>22 DEF TypeOK, Memory, CommitUnanswered, Go, Commit, IsNext, Games, rows, worker, history
  <2>2. Tallied(w)'
    BY <1>22 DEF AccountInv, Accounted, Tallied, Counted, Reading, TypeOK, Tallies,
       CommitUnanswered, Go, Commit, IsNext, Games
  <2>3. Published(w)'
    BY <1>22 DEF AccountInv, Accounted, Published, IsNext, TypeOK, Tallies,
       CommitUnanswered, Go, Commit, IsNext, Games
  <2>4. Stopped(w)'
    BY <1>22 DEF AccountInv, Accounted, Stopped, TypeOK, rows, worker, history, CommitUnanswered,
       Go, Commit
  <2> QED
    BY <2>1, <2>2, <2>3, <2>4, WorkerStep DEF Accounted
<1>23. ASSUME NEW w \in Runs, NEW g \in Games, AbortSave(w, g) PROVE AccountInv'
  <2>1. pc[w] # "done" /\ UNCHANGED <<scan, status>> /\ \A x \in Runs \ {w} : UNCHANGED Memory(x)
    BY <1>23 DEF TypeOK, Memory, AbortSave, Go, IsNext, Games, rows, worker, history
  <2>2. Tallied(w)'
    BY <1>23 DEF AccountInv, Accounted, Tallied, Counted, Reading, TypeOK, Tallies,
       AbortSave, Go, IsNext, Games
  <2>3. Published(w)'
    BY <1>23 DEF AccountInv, Accounted, Published, IsNext, TypeOK, Tallies,
       AbortSave, Go, IsNext, Games
  <2>4. Stopped(w)'
    BY <1>23 DEF AccountInv, Accounted, Stopped, TypeOK, rows, worker, history, AbortSave, Go
  <2> QED
    BY <2>1, <2>2, <2>3, <2>4, WorkerStep DEF Accounted
<1>24. ASSUME NEW w \in Runs, NEW g \in Games, CountGame(w, g) PROVE AccountInv'
  <2>1. pc[w] # "done" /\ UNCHANGED <<scan, status>> /\ \A x \in Runs \ {w} : UNCHANGED Memory(x)
    BY <1>24 DEF TypeOK, Memory, CountGame, Go, Beats, IsNext, Games, rows, worker, history
  <2>2. Tallied(w)'
    BY <1>24 DEF AccountInv, Accounted, Tallied, Counted, Reading, TypeOK, Tallies,
       CountGame, Go, Beats, IsNext, Games
  <2>3. Published(w)'
    BY <1>24 DEF AccountInv, Accounted, Published, IsNext, TypeOK, Tallies,
       CountGame, Go, Beats, IsNext, Games
  <2>4. Stopped(w)'
    BY <1>24 DEF AccountInv, Accounted, Stopped, TypeOK, rows, worker, history, CountGame, Go, Beats
  <2> QED
    BY <2>1, <2>2, <2>3, <2>4, WorkerStep DEF Accounted
<1>25. ASSUME NEW w \in Runs, FailRun(w) PROVE AccountInv'
  <2>1. pc[w] # "done" /\ UNCHANGED <<scan, status>> /\ \A x \in Runs \ {w} : UNCHANGED Memory(x)
    BY <1>25 DEF TypeOK, Memory, FailRun, Go, rows, worker, history
  <2>2. Tallied(w)'
    BY <1>25 DEF AccountInv, Accounted, Tallied, Counted, Reading, TypeOK, Tallies,
       FailRun, Go
  <2>3. Published(w)'
    BY <1>25 DEF AccountInv, Accounted, Published, IsNext, TypeOK, Tallies,
       FailRun, Go
  <2>4. Stopped(w)'
    BY <1>25 DEF AccountInv, Accounted, Stopped, TypeOK, rows, worker, history, FailRun, Go
  <2> QED
    BY <2>1, <2>2, <2>3, <2>4, WorkerStep DEF Accounted
<1>26. ASSUME NEW w \in Runs, LoseOwnership(w) PROVE AccountInv'
  <2>1. pc[w] # "done" /\ (Go(w, "lost") \/ Go(w, "threw") \/ Go(w, "crashed"))
    BY <1>26 DEF LoseOwnership
  <2> QED
    BY <1>26, <2>1, Forgotten DEF LoseOwnership
<1>27. ASSUME NEW w \in Runs, FailClosing(w) PROVE AccountInv'
  <2>1. pc[w] # "done" /\ (Go(w, "lost") \/ Go(w, "threw") \/ Go(w, "crashed"))
    BY <1>27 DEF FailClosing
  <2> QED
    BY <1>27, <2>1, Forgotten DEF FailClosing
<1>28. ASSUME NEW w \in Runs, Crash(w) PROVE AccountInv'
  <2>1. pc[w] # "done" /\ (Go(w, "lost") \/ Go(w, "threw") \/ Go(w, "crashed"))
    BY <1>28 DEF Crash
  <2> QED
    BY <1>28, <2>1, Forgotten DEF Crash
<1>29. ASSUME NEW w \in Runs, Close(w) PROVE AccountInv'
  <2>1. /\ pc' = [pc EXCEPT ![w] = "done"] /\ pc[w] = "closing"
        /\ UNCHANGED <<scan, cursor, tally>>
    BY <1>29 DEF Close, Record, Go
  <2>2. \A r \in Runs : Honest(r) => Honest(r)'
    BY <2>1 DEF Honest, Counted, Succeeded, TypeOK
  <2>3. Recorded'
    BY <1>29, <2>1, <2>2, RecordAccounted DEF Close, AccountInv, Recorded, TypeOK
  <2> QED
    BY <1>29, <2>3, RecordAccounted DEF Close, AccountInv
<1>30. ASSUME NEW w \in Runs, Complete(w) PROVE AccountInv'
  <2>1. /\ pc' = [pc EXCEPT ![w] = "done"] /\ pc[w] = "completing"
        /\ UNCHANGED <<cursor, tally>>
    BY <1>30 DEF Complete, Record, Go
  <2>2. \A r \in Runs : Honest(r) => Honest(r)'
    BY <2>1 DEF Honest, Counted, Succeeded, TypeOK
  <2>3. Covers(w) => Honest(w)'
    BY <2>1, CoversHonestly DEF Honest, Counted, Succeeded, TypeOK
  <2>4. \A d \in Days : scan'[d] = scan[d] \/ (scan'[d] = w /\ d \in Window[w] /\ Covers(w))
    BY <1>30 DEF Complete, Cover, TypeOK
  <2>5. Recorded'
    BY <1>30, <2>1, <2>2, <2>3, <2>4, RecordAccounted DEF Complete, AccountInv, Recorded, TypeOK
  <2> QED
    BY <1>30, <2>5, RecordAccounted DEF Complete, AccountInv
<1>31. CASE UNCHANGED vars
  BY <1>31, <1>1 DEF vars, rows, worker, history
<1> QED
  BY <1>2, <1>3, <1>4, <1>5, <1>6, <1>7, <1>8, <1>9, <1>10, <1>11, <1>12, <1>13, <1>14,
     <1>15, <1>16, <1>17, <1>18, <1>19, <1>20, <1>21, <1>22, <1>23, <1>24, <1>25, <1>26,
     <1>27, <1>28, <1>29, <1>30, <1>31 DEF Next, Progress, GameStep

(* The account invariant holds in every reachable state. *)
THEOREM AccountInvariant == Spec => []AccountInv
  BY InitAccountInv, AccountInvStep, PTL DEF Spec

(* Coverage: the run a day names read its interval to the last page, was not *)
(* stopped, and counted every Game the provider returned.                   *)
THEOREM CoverageAccounted == Spec => []CoverageIsAccounted
<1>1. AccountInv => CoverageIsAccounted
  BY DEF AccountInv, Recorded, Honest, Counted, CoverageIsAccounted
<1> QED
  BY <1>1, AccountInvariant, PTL

(* Counts: a Game counted as published was committed, and a run recorded as *)
(* succeeded published or deferred every Game it saw.                       *)
THEOREM CountedPublished == Spec => []CountedIsPublished
<1>1. AccountInv => CountedIsPublished
  BY DEF AccountInv, Recorded, Accounted, Tallied, Published, CountedIsPublished
<1> QED
  BY <1>1, AccountInvariant, PTL

(* A stop: at most the Game already under way is committed after it.        *)
THEOREM StopLetsOneThrough == Spec => []AtMostOneGameAfterStop
<1>1. ASSUME AccountInv, NEW r \in Runs PROVE Cardinality(late[r]) <= 1
  <2>1. CASE late[r] = {}
    BY <2>1, FS_EmptySet
  <2>2. CASE \E g \in Games : late[r] = {g}
    <3>1. PICK g \in Games : late[r] = {g}
      BY <2>2
    <3> QED
      BY <3>1, FS_Singleton
  <2> QED
    BY <1>1, <2>1, <2>2 DEF AccountInv, Accounted, Stopped
<1>2. AccountInv => AtMostOneGameAfterStop
  BY <1>1 DEF AtMostOneGameAfterStop
<1> QED
  BY <1>2, AccountInvariant, PTL
=============================================================================
