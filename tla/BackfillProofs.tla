--------------------------- MODULE BackfillProofs ---------------------------
(***************************************************************************)
(* Five results about the scheduler and the historical backfill, for any   *)
(* instances, policies, settings, calls, stops, faults and lost sessions.  *)
(*                                                                         *)
(* The latest request of a policy stays in its slot until it was served.   *)
(* By itself that is not inductive: a request that is recorded late could  *)
(* replace the latest one.  It cannot because the slot then holds the      *)
(* latest request itself, with its own time, and not only its id.          *)
(*                                                                         *)
(* What both do to runs is what RunOwnership allows: a step begins one,    *)
(* ends one that was started, evicts one, or leaves them as they are.      *)
(*                                                                         *)
(* The checkpoint of a backfill passes over covered months only.  Two      *)
(* workers may work on one target once a session is lost, so the           *)
(* argument cannot rest on the lock: it follows what each worker read of   *)
(* the target that it still names, and that coverage is only ever replaced *)
(* by that of a later run.                                                 *)
(*                                                                         *)
(* A stop reaches the run in progress, as long as no session was lost and  *)
(* no other stop was asked for.  Then the lock does say who works, so that *)
(* one call carries the token of the execution that was stopped: the       *)
(* target is being stopped until that call ends, and at each place it will *)
(* find that out, or the stop finds its run.                               *)
(*                                                                         *)
(* For the same reason a worker writes over its own execution only, even   *)
(* its failure, which it writes after it gave the lock up.                 *)
(***************************************************************************)
EXTENDS Backfill, FiniteSetTheorems, TLAPS

-----------------------------------------------------------------------------
(* The slots.                                                              *)

Request == [id : Nat, window : Nat, at : Nat]

(* The job of a thread that is about to record a request. *)
NewRequest == [policy : Policies, id : {0}, window : Nat, at : Nat, run : {NoRun}]

SlotsTypeInv ==
    /\ slot \in [Policies -> Request \union {NoOne}]
    /\ due \in [Policies -> Request]
    /\ DOMAIN thread = Instances
    /\ DOMAIN job = Instances
    /\ \A i \in Instances : thread[i] \in {"timing", "deferring"} => job[i] \in NewRequest
    /\ day \in Nat
    /\ ids \in Nat

EnabledEverywhere(p) == \A i \in Instances : p \in Enabled[i]

(* A drain deletes a slot only for a request it has served. *)
CompletesServed == \A i \in Instances : thread[i] = "completing" => job[i].id \in served

(* What was recorded last, and not served yet, is what the slot holds. *)
HoldsLatest ==
    \A p \in Policies : EnabledEverywhere(p) /\ due[p].id \notin served => slot[p] = due[p]

SlotsInv == SlotsTypeInv /\ CompletesServed /\ HoldsLatest

-----------------------------------------------------------------------------
(* What is left over at the start is nobody's latest request. *)
LEMMA InitSlotsInv == SlotsInit => SlotsInv
  BY DEF SlotsInit, SlotsInv, SlotsTypeInv, CompletesServed, HoldsLatest, Request, Earlier

(* A step that records and deletes nothing, and whose threads that are about *)
(* to record or to delete were so before.                                    *)
LEMMA QuietStep ==
  ASSUME SlotsInv, UNCHANGED <<slot, due>>, served \subseteq served', day' \in Nat, ids' \in Nat,
         DOMAIN thread' = Instances, DOMAIN job' = Instances,
         \A i \in Instances : thread'[i] \in {"timing", "deferring"} => job'[i] \in NewRequest,
         \A i \in Instances : thread'[i] = "completing" => job'[i].id \in served'
  PROVE  SlotsInv'
<1>1. SlotsTypeInv' /\ CompletesServed'
  BY DEF SlotsInv, SlotsTypeInv, CompletesServed
<1>2. HoldsLatest'
  BY DEF SlotsInv, HoldsLatest, EnabledEverywhere
<1> QED
  BY <1>1, <1>2 DEF SlotsInv

(* Cancelling the policies an instance disables leaves the others. *)
LEMMA CancelStep ==
  ASSUME SlotsInv, NEW i \in Instances,
         slot' = [p \in Policies |-> IF p \in Enabled[i] THEN slot[p] ELSE NoOne],
         UNCHANGED <<due, served, job, day, ids>>, DOMAIN thread' = Instances,
         \A j \in Instances : thread'[j] \in {"timing", "deferring", "completing"} =>
                              thread'[j] = thread[j]
  PROVE  SlotsInv'
<1>1. SlotsTypeInv' /\ CompletesServed'
  BY DEF SlotsInv, SlotsTypeInv, CompletesServed
<1>2. HoldsLatest'
  BY DEF SlotsInv, HoldsLatest, EnabledEverywhere
<1> QED
  BY <1>1, <1>2 DEF SlotsInv

(* A request is recorded: it is the latest, or the slot keeps the latest. *)
LEMMA DeferStep == ASSUME SlotsInv, NEW i \in Instances, DeferWindow(i) PROVE SlotsInv'
<1> DEFINE p == job[i].policy
           later == slot[p] # NoOne /\ slot[p].at > job[i].at
           same == slot[p] # NoOne /\ slot[p].window = job[i].window
           request == [id |-> IF same THEN slot[p].id ELSE ids + 1,
                       window |-> job[i].window, at |-> job[i].at]
<1>1. /\ job[i] \in NewRequest
      /\ thread' = [thread EXCEPT ![i] = "idle"]
      /\ job' = [job EXCEPT ![i] = NoJob]
      /\ UNCHANGED <<day, served>>
  BY DEF DeferWindow, To, SlotsInv, SlotsTypeInv
<1>2. CompletesServed'
  BY <1>1 DEF SlotsInv, SlotsTypeInv, CompletesServed
<1>3. CASE later
  <2>1. UNCHANGED <<slot, due, ids>>
    BY <1>3 DEF DeferWindow
  <2> QED
    BY <1>1, <1>2, <2>1 DEF SlotsInv, SlotsTypeInv, HoldsLatest, EnabledEverywhere
<1>4. CASE ~later
  <2>1. /\ ids' = IF same THEN ids ELSE ids + 1
        /\ slot' = [slot EXCEPT ![p] = request]
        /\ due' = [due EXCEPT ![p] = IF request.at >= @.at THEN request ELSE @]
    BY <1>4 DEF DeferWindow
  <2>2. p \in Policies /\ job[i].at \in Nat /\ job[i].window \in Nat
    BY <1>1 DEF NewRequest
  <2>3. slot[p] \in Request \union {NoOne} /\ due[p] \in Request
    BY <2>2 DEF SlotsInv, SlotsTypeInv
  <2>4. request \in Request
    BY <2>2, <2>3 DEF Request, SlotsInv, SlotsTypeInv
  <2> HIDE DEF request
  <2>5. SlotsTypeInv'
    BY <1>1, <2>1, <2>2, <2>4 DEF SlotsInv, SlotsTypeInv
  <2>6. ASSUME EnabledEverywhere(p), due[p].id \notin served, ~(request.at >= due[p].at)
        PROVE  FALSE
    <3>1. slot[p] = due[p] /\ slot[p] # NoOne
      BY <2>2, <2>3, <2>6, SlotsAssumption DEF SlotsInv, HoldsLatest, Request
    <3>2. request.at = job[i].at
      BY DEF request
    <3>3. due[p].at > job[i].at
      BY <2>2, <2>3, <2>6, <3>2 DEF Request
    <3> QED
      BY <1>4, <3>1, <3>3
  <2>7. HoldsLatest'
    <3> SUFFICES ASSUME NEW q \in Policies, EnabledEverywhere(q), due'[q].id \notin served
                 PROVE  slot'[q] = due'[q]
      BY <1>1 DEF HoldsLatest, EnabledEverywhere
    <3>1. CASE q # p
      BY <2>1, <3>1 DEF SlotsInv, SlotsTypeInv, HoldsLatest
    <3>2. CASE q = p
      <4>1. CASE request.at >= due[p].at
        BY <2>1, <2>2, <3>2, <4>1 DEF SlotsInv, SlotsTypeInv
      <4>2. CASE ~(request.at >= due[p].at)
        <5>1. due'[p] = due[p]
          BY <2>1, <2>2, <4>2 DEF SlotsInv, SlotsTypeInv
        <5> QED
          BY <2>6, <3>2, <4>2, <5>1
      <4> QED
        BY <4>1, <4>2
    <3> QED
      BY <3>1, <3>2
  <2> QED
    BY <1>2, <2>5, <2>7 DEF SlotsInv
<1> QED
  BY <1>3, <1>4

(* A slot is deleted of a request that was served. *)
LEMMA CompleteStep == ASSUME SlotsInv, NEW i \in Instances, CompleteWindow(i) PROVE SlotsInv'
<1>1. /\ thread' = [thread EXCEPT ![i] = "draining"]
      /\ job' = [job EXCEPT ![i] = NoJob]
      /\ UNCHANGED <<day, ids, due, served>>
      /\ job[i].id \in served
      /\ slot' = [slot EXCEPT ![job[i].policy] =
                     IF @ # NoOne /\ @.id = job[i].id THEN NoOne ELSE @]
  BY DEF CompleteWindow, To, SlotsInv, CompletesServed
<1>2. SlotsTypeInv' /\ CompletesServed'
  BY <1>1 DEF SlotsInv, SlotsTypeInv, CompletesServed
<1>3. \A p \in Policies : slot'[p] # slot[p] => slot[p].id \in served
  BY <1>1 DEF SlotsInv, SlotsTypeInv
<1>4. HoldsLatest'
  BY <1>1, <1>3 DEF SlotsInv, HoldsLatest, EnabledEverywhere
<1> QED
  BY <1>2, <1>4 DEF SlotsInv

(* No step loses the latest request. *)
LEMMA SlotsInvStep == SlotsInv /\ [SlotsNext]_allSlotVars => SlotsInv'
<1> SUFFICES ASSUME SlotsInv, [SlotsNext]_allSlotVars PROVE SlotsInv'
  OBVIOUS
<1>0. SlotsTypeInv /\ CompletesServed
  BY DEF SlotsInv
<1>1. CASE DayPasses
  BY <1>0, <1>1, QuietStep DEF DayPasses, slotVars, SlotsTypeInv, CompletesServed
<1>2. CASE OtherBegins
  BY <1>0, <1>2, QuietStep DEF OtherBegins, slotVars, SlotsTypeInv, CompletesServed
<1>3. CASE OtherEnds
  BY <1>0, <1>3, QuietStep DEF OtherEnds, slotVars, SlotsTypeInv, CompletesServed
<1>4. CASE AbandonDead
  BY <1>0, <1>4, QuietStep DEF AbandonDead, slotVars, SlotsTypeInv, CompletesServed
<1>5. CASE OwnerStalls
  BY <1>0, <1>5, QuietStep DEF OwnerStalls, slotVars, SlotsTypeInv, CompletesServed
<1>6. CASE LoseTurn
  BY <1>0, <1>6, QuietStep DEF LoseTurn, slotVars, SlotsTypeInv, CompletesServed
<1>7. ASSUME NEW i \in Instances, NEW p \in Policies, FireCron(i, p) PROVE SlotsInv'
  BY <1>0, <1>7, QuietStep DEF FireCron, To, NoJob, NewRequest, SlotsTypeInv, CompletesServed
<1>8. ASSUME NEW i \in Instances, Boot(i) PROVE SlotsInv'
  BY <1>0, <1>8, CancelStep DEF Boot, SlotsTypeInv
<1>9. ASSUME NEW i \in Instances, ListPending(i) PROVE SlotsInv'
  BY <1>0, <1>9, CancelStep DEF ListPending, To, SlotsTypeInv
<1>10. ASSUME NEW i \in Instances, DeferWindow(i) PROVE SlotsInv'
  BY <1>10, DeferStep
<1>11. ASSUME NEW i \in Instances, CompleteWindow(i) PROVE SlotsInv'
  BY <1>11, CompleteStep
<1>12. ASSUME NEW i \in Instances, TimeRequest(i) PROVE SlotsInv'
  BY <1>0, <1>12, QuietStep DEF TimeRequest, To, NewRequest, SlotsTypeInv, CompletesServed
<1>13. ASSUME NEW i \in Instances, BeginDrain(i) PROVE SlotsInv'
  BY <1>0, <1>13, QuietStep DEF BeginDrain, To, NewRequest, SlotsTypeInv, CompletesServed
<1>14. ASSUME NEW i \in Instances, Reserve(i) PROVE SlotsInv'
  BY <1>0, <1>14, QuietStep DEF Reserve, To, NewRequest, SlotsTypeInv, CompletesServed
<1>15. ASSUME NEW i \in Instances, TakeNext(i) PROVE SlotsInv'
  BY <1>0, <1>15, QuietStep DEF TakeNext, To, NewRequest, SlotsTypeInv, CompletesServed
<1>16. ASSUME NEW i \in Instances, StartWindow(i) PROVE SlotsInv'
  BY <1>0, <1>16, QuietStep DEF StartWindow, To, NewRequest, SlotsTypeInv, CompletesServed
<1>17. ASSUME NEW i \in Instances, EndDrain(i) PROVE SlotsInv'
  BY <1>0, <1>17, QuietStep DEF EndDrain, GiveUpTurn, To, SlotsTypeInv, CompletesServed
<1>18. ASSUME NEW i \in Instances, WindowRefused(i) PROVE SlotsInv'
  BY <1>0, <1>18, QuietStep DEF WindowRefused, GiveUpTurn, To, SlotsTypeInv, CompletesServed
<1>19. ASSUME NEW i \in Instances, DrainFails(i) PROVE SlotsInv'
  BY <1>0, <1>19, QuietStep DEF DrainFails, GiveUpTurn, To, SlotsTypeInv, CompletesServed
<1>20. ASSUME NEW i \in Instances, Restart(i) PROVE SlotsInv'
  BY <1>0, <1>20, QuietStep DEF Restart, GiveUpTurn, To, SlotsTypeInv, CompletesServed
<1>21. ASSUME NEW i \in Instances, EndWindow(i) PROVE SlotsInv'
  BY <1>0, <1>21, QuietStep DEF EndWindow, Serve, To, SlotsTypeInv, CompletesServed
<1>22. ASSUME NEW i \in Instances, WindowFails(i) PROVE SlotsInv'
  BY <1>0, <1>22, QuietStep DEF WindowFails, Serve, To, SlotsTypeInv, CompletesServed
<1>23. CASE UNCHANGED allSlotVars
  BY <1>0, <1>23, QuietStep DEF allSlotVars, slotVars, SlotsTypeInv, CompletesServed
<1> QED
  BY <1>1, <1>2, <1>3, <1>4, <1>5, <1>6, <1>7, <1>8, <1>9, <1>10, <1>11, <1>12, <1>13,
     <1>14, <1>15, <1>16, <1>17, <1>18, <1>19, <1>20, <1>21, <1>22, <1>23 DEF SlotsNext,
     ThreadStep

(* The invariant of the scheduler's slots. *)
THEOREM SlotsInvariant == SlotsSpec => []SlotsInv
  BY InitSlotsInv, SlotsInvStep, PTL DEF SlotsSpec

(* deferred_synchronization_policy: neither the late completion of another   *)
(* request, nor a restart, nor a lost turn, nor a request recorded late by   *)
(* another instance erases the latest request of an enabled policy.         *)
THEOREM LatestStays == SlotsSpec => []LatestWindowKept
<1>1. SlotsInv => LatestWindowKept
  <2> SUFFICES ASSUME SlotsInv, NEW p \in Policies, EnabledEverywhere(p), due[p].id \notin served
               PROVE  slot[p] # NoOne /\ slot[p].id = due[p].id
    BY DEF LatestWindowKept, EnabledEverywhere
  <2>1. slot[p] = due[p] /\ due[p] \in Request
    BY DEF SlotsInv, SlotsTypeInv, HoldsLatest
  <2> QED
    BY <2>1, SlotsAssumption DEF Request
<1> QED
  BY <1>1, SlotsInvariant, PTL

-----------------------------------------------------------------------------
(* The moves on runs.                                                      *)

RunsInv ==
    /\ IsFiniteSet(started)
    /\ started \subseteq Runs
    /\ \A r \in started : r.n <= Cardinality(started)
    /\ owner \in started \union {NoRun}
    /\ owner # NoRun => owner.n = Cardinality(started)
    /\ scan \in [Days -> started \union {NoRun}]

(* What a caller may do to runs. *)
RunsMove ==
    \/ \E days \in SUBSET Days : BeginRun(days)
    \/ \E r \in started, assessment \in Assessments : EndRun(r, assessment)
    \/ Evict
    \/ UNCHANGED <<owner, started, scan>>

(* Coverage is only replaced by that of a run which is not older. *)
RunsGrow ==
    /\ started \subseteq started'
    /\ Cardinality(started) <= Cardinality(started')
    /\ \A d \in Days : scan[d] # NoRun => scan'[d] # NoRun /\ scan'[d].n >= scan[d].n

(* A run is what its number and its days are. *)
LEMMA RunShape == ASSUME NEW r \in Runs PROVE r.n \in Nat /\ r.days \in SUBSET Days /\ r # NoRun
  BY RunsAssumption DEF Runs

\* At first no run was started.
LEMMA InitRunsInv == RunsInit => RunsInv
  BY FS_EmptySet DEF RunsInit, RunsInv

(* A new run has a number of its own. *)
LEMMA BeginRunEffect ==
  ASSUME RunsInv, NEW days \in SUBSET Days, BeginRun(days)
  PROVE  /\ NewRun(days) \in Runs
         /\ NewRun(days) \notin started
         /\ IsFiniteSet(started')
         /\ Cardinality(started) \in Nat
         /\ Cardinality(started') = Cardinality(started) + 1
<1>1. Cardinality(started) \in Nat
  BY FS_CardinalityType DEF RunsInv
<1>2. NewRun(days) \in Runs
  BY <1>1, RunsAssumption DEF BeginRun, NewRun, Runs
<1>3. NewRun(days) \notin started
  BY <1>1 DEF RunsInv, NewRun
<1>4. started' = started \union {NewRun(days)} /\ IsFiniteSet(started)
  BY DEF BeginRun, RunsInv
<1> HIDE DEF NewRun
<1> QED
  BY <1>1, <1>2, <1>3, <1>4, FS_AddElement

(* Every move keeps the invariant of runs, and coverage never grows older. *)
LEMMA RunsStep == ASSUME RunsInv, RunsMove PROVE RunsInv' /\ RunsGrow
<1>0. Cardinality(started) \in Nat /\ started \subseteq Runs
  BY FS_CardinalityType DEF RunsInv
<1>1. ASSUME NEW days \in SUBSET Days, BeginRun(days) PROVE RunsInv' /\ RunsGrow
  <2>1. started' = started \union {NewRun(days)} /\ owner' = NewRun(days) /\ scan' = scan
    BY <1>1 DEF BeginRun
  <2>2. NewRun(days).n = Cardinality(started) + 1
    BY DEF NewRun
  <2>3. /\ NewRun(days) \in Runs
        /\ IsFiniteSet(started')
        /\ Cardinality(started') = Cardinality(started) + 1
    BY <1>1, BeginRunEffect
  <2> HIDE DEF NewRun
  <2>4. \A r \in started' : r.n <= Cardinality(started')
    BY <1>0, <2>1, <2>2, <2>3, RunShape DEF RunsInv
  <2>5. RunsInv'
    BY <2>1, <2>2, <2>3, <2>4, RunShape DEF RunsInv
  <2>6. \A d \in Days : scan[d] # NoRun => scan[d].n \in Nat
    BY <1>0, RunShape DEF RunsInv
  <2> QED
    BY <1>0, <2>1, <2>3, <2>5, <2>6 DEF RunsGrow
<1>2. ASSUME NEW r \in started, NEW assessment \in Assessments, EndRun(r, assessment)
      PROVE RunsInv' /\ RunsGrow
  <2>1. owner = r /\ owner' = NoRun /\ started' = started
    BY <1>2 DEF EndRun
  <2>2. r # NoRun /\ r.n = Cardinality(started) /\ r.n \in Nat
    BY <1>0, <2>1, RunShape DEF RunsInv
  <2>3. \A d \in Days : scan'[d] \in {scan[d], r}
    BY <1>2 DEF EndRun, RunsInv
  <2>4. scan' \in [Days -> started \union {NoRun}]
    BY <1>2 DEF EndRun, RunsInv
  <2>5. \A d \in Days : scan[d] # NoRun => scan[d].n \in Nat /\ scan[d].n <= r.n
    BY <1>0, <2>2, RunShape DEF RunsInv
  <2> QED
    BY <1>0, <2>1, <2>2, <2>3, <2>4, <2>5 DEF RunsInv, RunsGrow
<1>3. \A d \in Days : scan[d] # NoRun => scan[d].n \in Nat
  BY <1>0, RunShape DEF RunsInv
<1>4. CASE Evict
  BY <1>0, <1>3, <1>4 DEF Evict, RunsInv, RunsGrow
<1>5. CASE UNCHANGED <<owner, started, scan>>
  BY <1>0, <1>3, <1>5 DEF RunsInv, RunsGrow
<1> QED
  BY <1>1, <1>2, <1>4, <1>5 DEF RunsMove

(* Every move is a step of RunOwnership, or leaves what it sees unchanged. *)
LEMMA RunsStepRefines ==
  ASSUME RunsInv, RunsMove
  PROVE  [Ownership!OwnershipNext]_(Ownership!ownershipVars)
<1> USE DEF Ownership!OwnershipNext, Ownership!ownershipVars
<1>0. NoRun \notin started
  BY RunShape DEF RunsInv
<1>1. ASSUME NEW days \in SUBSET Days, BeginRun(days)
      PROVE  Ownership!TakeOwnership(NewRun(days))
  <2>1. /\ owner = NoRun /\ owner' = NewRun(days)
        /\ started' = started \union {NewRun(days)} /\ scan' = scan
    BY <1>1 DEF BeginRun
  <2>2. NewRun(days) \in Runs /\ NewRun(days) \notin started
    BY <1>1, BeginRunEffect
  <2> HIDE DEF NewRun
  <2> QED
    BY <1>0, <2>1, <2>2, RunShape DEF Ownership!TakeOwnership
<1>2. ASSUME NEW r \in started, NEW assessment \in Assessments, EndRun(r, assessment)
      PROVE  Ownership!EndCovered(r) \/ Ownership!EndUncovered(r)
  <2>1. r \in Runs /\ started \ {NoRun} = (started \ {r}) \union {r}
    BY <1>0 DEF RunsInv
  <2> QED
    BY <1>2, <2>1 DEF EndRun, Ownership!EndCovered, Ownership!EndUncovered
<1>3. CASE Evict
  <2>1. owner \in started /\ started \ {NoRun} = (started \ {owner}) \union {owner}
    BY <1>0, <1>3 DEF Evict, RunsInv
  <2>2. Ownership!EndUncovered(owner)
    BY <1>3, <2>1 DEF Evict, Ownership!EndUncovered
  <2> QED
    BY <2>1, <2>2 DEF RunsInv
<1>4. CASE UNCHANGED <<owner, started, scan>>
  BY <1>4
<1>5. ASSUME NEW days \in SUBSET Days, BeginRun(days)
      PROVE  NewRun(days) \in Runs
  BY <1>5, BeginRunEffect
<1> QED
  BY <1>1, <1>2, <1>3, <1>4, <1>5 DEF RunsMove, RunsInv

(* What a thread of the scheduler knows: the policy of a window it is about *)
(* to run, and the run it executes.                                         *)
JobsInv ==
    /\ DOMAIN thread = Instances /\ DOMAIN job = Instances /\ DOMAIN queue = Instances
    /\ \A i \in Instances :
        /\ \A row \in queue[i] : row.policy \in Policies
        /\ thread[i] = "starting" => job[i].policy \in Policies
        /\ thread[i] = "running" => job[i].run \in started

\* At first no call has started a run.
LEMMA InitJobsInv == SlotsInit => JobsInv
  BY DEF SlotsInit, JobsInv

(* The scheduler, operators and time make the moves of runs. *)
LEMMA SlotsMoves == ASSUME RunsInv, JobsInv, SlotsNext PROVE RunsMove
<1> USE DEF RunsMove, runVars
<1>1. CASE DayPasses \/ LoseTurn
  BY <1>1 DEF DayPasses, LoseTurn
<1>2. CASE OtherBegins \/ OtherEnds \/ AbandonDead \/ OwnerStalls
  BY <1>2 DEF OtherBegins, OtherEnds, AbandonDead, Abandon, OwnerStalls, Assessments, RunsInv
<1>3. ASSUME NEW i \in Instances,
             Boot(i) \/ TimeRequest(i) \/ DeferWindow(i) \/ BeginDrain(i) \/ Reserve(i)
             \/ ListPending(i) \/ TakeNext(i) \/ EndDrain(i) \/ CompleteWindow(i)
             \/ DrainFails(i) \/ Restart(i) \/ WindowFails(i) \/ WindowRefused(i)
             \/ \E p \in Policies : FireCron(i, p)
      PROVE  UNCHANGED <<owner, started, scan>>
  BY <1>3 DEF Boot, TimeRequest, DeferWindow, BeginDrain, Reserve, ListPending, TakeNext,
              EndDrain, CompleteWindow, DrainFails, Restart, WindowFails, WindowRefused,
              FireCron, Orphan, Busy
<1>4. ASSUME NEW i \in Instances, StartWindow(i) PROVE RunsMove
  BY <1>4, SlotsAssumption DEF StartWindow, JobsInv
<1>5. ASSUME NEW i \in Instances, EndWindow(i) PROVE RunsMove
  BY <1>5 DEF EndWindow, JobsInv
<1> QED
  BY <1>1, <1>2, <1>3, <1>4, <1>5 DEF SlotsNext, ThreadStep

(* No step of the scheduler loses what its threads know. *)
LEMMA JobsStep == ASSUME JobsInv, SlotsNext, started \subseteq started' PROVE JobsInv'
<1> USE DEF JobsInv
<1>1. CASE DayPasses \/ LoseTurn \/ OtherBegins \/ OtherEnds \/ AbandonDead \/ OwnerStalls
  BY <1>1 DEF DayPasses, LoseTurn, OtherBegins, OtherEnds, AbandonDead, OwnerStalls, slotVars
<1>2. ASSUME NEW i \in Instances, Boot(i) PROVE JobsInv'
  BY <1>2 DEF Boot
<1>3. ASSUME NEW i \in Instances,
             TimeRequest(i) \/ DeferWindow(i) \/ BeginDrain(i) \/ Reserve(i)
             \/ CompleteWindow(i) \/ \E p \in Policies : FireCron(i, p)
      PROVE  JobsInv'
  BY <1>3 DEF TimeRequest, DeferWindow, BeginDrain, Reserve, CompleteWindow, FireCron, To
<1>4. ASSUME NEW i \in Instances, ListPending(i) PROVE JobsInv'
  BY <1>4 DEF ListPending, To, RowOf, Pending
<1>5. ASSUME NEW i \in Instances, TakeNext(i) PROVE JobsInv'
  BY <1>5 DEF TakeNext, To
<1>6. ASSUME NEW i \in Instances, EndDrain(i) \/ DrainFails(i) \/ Restart(i) \/ WindowRefused(i)
      PROVE  JobsInv'
  BY <1>6 DEF EndDrain, DrainFails, Restart, WindowRefused, GiveUpTurn, To
<1>7. ASSUME NEW i \in Instances, StartWindow(i) PROVE JobsInv'
  BY <1>7 DEF StartWindow, BeginRun, To
<1>8. ASSUME NEW i \in Instances, EndWindow(i) \/ WindowFails(i) PROVE JobsInv'
  BY <1>8 DEF EndWindow, WindowFails, To
<1> QED
  BY <1>1, <1>2, <1>3, <1>4, <1>5, <1>6, <1>7, <1>8 DEF SlotsNext, ThreadStep

-----------------------------------------------------------------------------
(* The backfill.                                                           *)

(* Places of a call before it wrote its target. *)
Early == {"idle", "asked", "leased", "writing"}

(* Places of a worker that has read the month it works on, and the run of   *)
(* that month.                                                              *)
WithRun == {"owning", "attaching", "rechecking", "asking", "executing", "cancelling", "reported",
            "advancing"}
WithMonth == {"deciding", "skipping", "reserved", "pending", "starting"} \union WithRun

TargetTypes ==
    [id : Calls \union {NoCall}, exec : Calls \union {NoCall},
     state : {"not_started", "running", "waiting", "stopping", "stopped", "interrupted",
              "attention", "completed"},
     from : Months, next : 1..(LastMonth + 1), skip : BOOLEAN, run : Runs \union {NoRun},
     base : Nat]
WorkTypes ==
    [id : Calls \union {NoCall}, exec : Calls \union {NoCall}, month : 0..LastMonth,
     run : Runs \union {NoRun}, result : Assessments \union {"none"}]

BackfillTypes ==
    /\ target \in TargetTypes
    /\ DOMAIN pc = Calls
    /\ work \in [Calls -> WorkTypes]

(* A target is named by the start that wrote it, so none comes back. *)
Written(id) == id \in Starts /\ pc[id] \notin Early
Named ==
    /\ target.id # NoCall => Written(target.id)
    /\ target.base <= Cardinality(started)
    /\ \A c \in Calls : work[c].id \notin {NoCall, c} => Written(work[c].id)

(* What a worker knows of its month, its run and the target it still names. *)
Knows(c) ==
    LET month == work[c].month
        run == work[c].run
        its == target.id = work[c].id
    IN /\ pc[c] \in WithMonth => month \in Months /\ (its => month <= target.next)
       /\ pc[c] = "skipping" => scan[month] # NoRun /\ (its => target.skip)
       /\ pc[c] \in WithRun =>
            run \in started /\ run.days = {month} /\ (its => run.n > target.base)
       /\ pc[c] = "advancing" \/ (pc[c] = "reported" /\ work[c].result = "clean") =>
            scan[month] # NoRun /\ scan[month].n >= run.n

BackfillInv ==
    /\ RunsInv
    /\ JobsInv
    /\ BackfillTypes
    /\ Named
    /\ \A c \in Calls : Knows(c)
    /\ CheckpointsCovered

\* At first there is no target, no worker and no operator's call under way.
LEMMA InitBackfillInv == BackfillInit => BackfillInv
<1> SUFFICES ASSUME BackfillInit PROVE BackfillInv
  OBVIOUS
<1>1. RunsInv /\ JobsInv
  BY InitRunsInv, InitJobsInv DEF BackfillInit, SlotsInit
<1>2. started = {} /\ Cardinality(started) = 0
  BY FS_EmptySet DEF BackfillInit, SlotsInit, RunsInit
<1>3. BackfillTypes
  BY CallsAssumption DEF BackfillInit, BackfillTypes, NoTarget, NoWork, TargetTypes, WorkTypes,
     Months
<1>4. Named /\ (\A c \in Calls : Knows(c)) /\ CheckpointsCovered
  BY <1>2 DEF BackfillInit, Named, Knows, CheckpointsCovered, NoTarget, NoWork, WithMonth,
     WithRun
<1> QED
  BY <1>1, <1>3, <1>4 DEF BackfillInv

-----------------------------------------------------------------------------
(* What steps have in common.                                              *)

(* The target is still the same one, with the same months behind it. *)
SameTarget ==
    /\ target'.id = target.id
    /\ target'.from = target.from
    /\ target'.next = target.next
    /\ target'.skip = target.skip
    /\ target'.base = target.base

Stays(c) == pc'[c] = pc[c] /\ work'[c] = work[c]

(* A worker knows the rest of a target that it still names. *)
TargetKeptFor(c) ==
    target'.id = work[c].id =>
        /\ target.id = work[c].id
        /\ target.next <= target'.next
        /\ target'.skip = target.skip
        /\ target'.base = target.base

(* Numbers that are compared are numbers, and months are covered periods. *)
LEMMA Comparable ==
  ASSUME BackfillInv
  PROVE  /\ Cardinality(started) \in Nat
         /\ LastMonth \in Nat
         /\ target.from \in Nat /\ target.next \in Nat /\ target.base \in Nat
         /\ \A r \in started : r.n \in Nat /\ r # NoRun
         /\ \A m \in Months : m \in Days /\ m \in Nat
         /\ \A m \in Months : scan[m] # NoRun => scan[m].n \in Nat
<1>1. /\ Cardinality(started) \in Nat
      /\ LastMonth \in Nat
      /\ \A r \in started : r.n \in Nat /\ r # NoRun
  BY FS_CardinalityType, RunShape, CallsAssumption DEF BackfillInv, RunsInv
<1>2. target.from \in Nat /\ target.next \in Nat /\ target.base \in Nat
  BY <1>1 DEF BackfillInv, BackfillTypes, TargetTypes, Months
<1>3. \A m \in Months : m \in Days /\ m \in Nat
  BY CallsAssumption DEF Months
<1>4. \A d \in Days : scan[d] # NoRun => scan[d] \in started
  BY DEF BackfillInv, RunsInv
<1> QED
  BY <1>1, <1>2, <1>3, <1>4

(* What a call knows that does not move stays true. *)
LEMMA KnowsKept ==
  ASSUME BackfillInv, RunsInv', RunsGrow, target' \in TargetTypes, NEW c \in Calls, Stays(c),
         TargetKeptFor(c)
  PROVE  Knows(c)'
<1> DEFINE month == work[c].month
           run == work[c].run
<1>1. Knows(c) /\ work'[c] = work[c] /\ pc'[c] = pc[c]
  BY DEF BackfillInv, Stays
<1>2. ASSUME pc[c] \in WithMonth PROVE month \in Months /\ month \in Days
  BY <1>1, <1>2, Comparable DEF Knows
<1>3. ASSUME pc[c] \in WithMonth, target'.id = work[c].id PROVE month <= target'.next
  <2>1. month <= target.next /\ target.next <= target'.next /\ month \in Nat
    BY <1>1, <1>2, <1>3, Comparable DEF Knows, TargetKeptFor
  <2>2. target.next \in Nat /\ target'.next \in Nat
    BY Comparable DEF TargetTypes
  <2> QED
    BY <2>1, <2>2
<1>4. ASSUME pc[c] = "skipping"
      PROVE  scan'[month] # NoRun /\ (target'.id = work[c].id => target'.skip)
  BY <1>1, <1>2, <1>4 DEF Knows, WithMonth, RunsGrow, TargetKeptFor
<1>5. ASSUME pc[c] \in WithRun
      PROVE  run \in started' /\ run.days = {month}
             /\ (target'.id = work[c].id => run.n > target'.base)
  BY <1>1, <1>5 DEF Knows, RunsGrow, TargetKeptFor
<1>6. ASSUME pc[c] = "advancing" \/ (pc[c] = "reported" /\ work[c].result = "clean")
      PROVE  scan'[month] # NoRun /\ scan'[month].n >= run.n
  <2>1. run \in started /\ scan[month] # NoRun /\ scan[month].n >= run.n /\ month \in Days
    BY <1>1, <1>2, <1>6 DEF Knows, WithMonth, WithRun
  <2>2. scan'[month] # NoRun /\ scan'[month].n >= scan[month].n
    BY <2>1 DEF RunsGrow
  <2>3. scan'[month] \in started' /\ scan[month] \in started
    BY <2>1, <2>2 DEF RunsInv, BackfillInv
  <2>4. run.n \in Nat /\ scan[month].n \in Nat /\ scan'[month].n \in Nat
    BY <2>1, <2>3, RunShape DEF RunsInv, BackfillInv
  <2> QED
    BY <2>1, <2>2, <2>4
<1> QED
  BY <1>1, <1>2, <1>3, <1>4, <1>5, <1>6 DEF Knows

(* Runs that come and go do not uncover the months behind a checkpoint. *)
LEMMA CheckpointsKept ==
  ASSUME BackfillInv, RunsInv', RunsGrow, SameTarget
  PROVE  CheckpointsCovered'
<1> SUFFICES ASSUME NEW m \in target.from..(target.next - 1)
             PROVE  scan'[m] # NoRun /\ (~target.skip => scan'[m].n > target.base)
  BY DEF CheckpointsCovered, SameTarget
<1>1. m \in Months
  BY Comparable DEF BackfillInv, BackfillTypes, TargetTypes, Months
<1>2. scan[m] # NoRun /\ (~target.skip => scan[m].n > target.base)
  BY DEF BackfillInv, CheckpointsCovered
<1>3. scan'[m] # NoRun /\ scan'[m].n >= scan[m].n
  BY <1>1, <1>2, Comparable DEF RunsGrow
<1>4. scan'[m] \in started'
  BY <1>1, <1>3, Comparable DEF RunsInv
<1>5. scan'[m].n \in Nat /\ scan[m].n \in Nat /\ target.base \in Nat
  BY <1>1, <1>2, <1>4, RunShape, Comparable DEF RunsInv
<1> QED
  BY <1>2, <1>3, <1>5

(* Calls come to name only themselves or the target they saw. *)
LEMMA NamedKept ==
  ASSUME BackfillInv, RunsInv', RunsGrow, SameTarget,
         \A c \in Calls : pc[c] \notin Early => pc'[c] \notin Early,
         \A c \in Calls : work'[c].id \in {NoCall, c, work[c].id, target.id}
  PROVE  Named'
<1>1. Cardinality(started') \in Nat
  BY FS_CardinalityType DEF RunsInv
<1>2. target.base <= Cardinality(started')
  BY <1>1, Comparable DEF BackfillInv, Named, RunsGrow
<1>3. \A id : Written(id) => Written(id)'
  BY CallsAssumption DEF Written
<1> QED
  BY <1>2, <1>3 DEF BackfillInv, Named, SameTarget

(* A step of the runs, and of the calls that move, on the same target. *)
LEMMA MoveStep ==
  ASSUME BackfillInv, RunsMove, JobsInv', target' \in TargetTypes, SameTarget,
         DOMAIN pc' = Calls, work' \in [Calls -> WorkTypes],
         NEW moved \in SUBSET Calls,
         \A c \in Calls \ moved : Stays(c),
         \A c \in moved :
            /\ Knows(c)'
            /\ pc[c] \notin Early => pc'[c] \notin Early
            /\ work'[c].id \in {NoCall, c, work[c].id, target.id}
  PROVE  BackfillInv'
<1>1. RunsInv' /\ RunsGrow
  BY RunsStep DEF BackfillInv
<1>2. BackfillTypes'
  BY DEF BackfillTypes
<1>3. \A c \in Calls \ moved : Knows(c)'
  <2> SUFFICES ASSUME NEW c \in Calls \ moved PROVE Knows(c)'
    OBVIOUS
  <2>1. TargetKeptFor(c)
    BY Comparable DEF SameTarget, TargetKeptFor
  <2> QED
    BY <1>1, <2>1, KnowsKept
<1>4. Named'
  BY <1>1, NamedKept DEF Stays
<1>5. CheckpointsCovered'
  BY <1>1, CheckpointsKept
<1> QED
  BY <1>1, <1>2, <1>3, <1>4, <1>5 DEF BackfillInv

(* Steps that are not of the scheduler leave its threads alone. *)
LEMMA JobsKept ==
  ASSUME BackfillInv, RunsMove, UNCHANGED <<thread, job, queue>> PROVE JobsInv'
<1>1. started \subseteq started'
  BY RunsStep DEF BackfillInv, RunsGrow
<1> QED
  BY <1>1 DEF BackfillInv, JobsInv

(* A step in which no call moves. *)
LEMMA NobodyMoves ==
  ASSUME BackfillInv, RunsMove, JobsInv', target' \in TargetTypes, SameTarget,
         UNCHANGED <<pc, work>>
  PROVE  BackfillInv'
<1>1. DOMAIN pc' = Calls /\ work' \in [Calls -> WorkTypes]
  BY DEF BackfillInv, BackfillTypes
<1>2. {} \in SUBSET Calls /\ \A c \in Calls \ {} : Stays(c)
  BY DEF Stays
<1> QED
  BY <1>1, <1>2, MoveStep

(* The scheduler's steps, lost sessions, and the stop commands. *)
LEMMA OutsideStep ==
  ASSUME BackfillInv, SlotsStep \/ LoseLease \/ \E s \in Stops : StopStep(s)
  PROVE  BackfillInv'
<1> USE DEF World, runVars, slotVars
<1>1. CASE SlotsStep
  <2>1. RunsMove
    BY <1>1, SlotsMoves DEF SlotsStep, BackfillInv
  <2>2. JobsInv'
    BY <1>1, <2>1, RunsStep, JobsStep DEF SlotsStep, BackfillInv, RunsGrow
  <2>3. UNCHANGED <<target, pc, work>>
    BY <1>1 DEF SlotsStep
  <2>4. target' \in TargetTypes /\ SameTarget
    BY <2>3 DEF BackfillInv, BackfillTypes, SameTarget
  <2> QED
    BY <2>1, <2>2, <2>3, <2>4, NobodyMoves
<1>2. CASE LoseLease
  <2>1. RunsMove
    BY <1>2 DEF LoseLease, RunsMove
  <2>2. UNCHANGED <<target, pc, work>> /\ JobsInv'
    BY <1>2, <2>1, JobsKept DEF LoseLease
  <2>3. target' \in TargetTypes /\ SameTarget
    BY <2>2 DEF BackfillInv, BackfillTypes, SameTarget
  <2> QED
    BY <2>1, <2>2, <2>3, NobodyMoves
<1>3. ASSUME NEW s \in Stops, StopStep(s) PROVE BackfillInv'
  <2>1. UNCHANGED <<owner, started, scan, thread, job, queue, pc, work>>
    BY <1>3 DEF StopStep, StopReads, StopMarks, StopLooks, StopSettles, StopRereads,
                StopRequests, AskStop, Rest
  <2>2. target' = target \/ \E state \in {"stopping", "stopped"} :
                                target' = [target EXCEPT !.state = state]
    BY <1>3 DEF StopStep, StopReads, StopMarks, StopLooks, StopSettles, StopRereads,
                StopRequests
  <2>3. target' \in TargetTypes /\ SameTarget
    BY <2>2 DEF BackfillInv, BackfillTypes, TargetTypes, SameTarget
  <2>4. RunsMove /\ JobsInv'
    BY <2>1, JobsKept DEF RunsMove
  <2> QED
    BY <2>1, <2>3, <2>4, NobodyMoves
<1> QED
  BY <1>1, <1>2, <1>3

(* A call moves alone. *)
Alone(c) ==
    /\ pc' = [pc EXCEPT ![c] = pc'[c]]
    /\ work' = [work EXCEPT ![c] = work'[c]]
    /\ work'[c] \in WorkTypes
    /\ work'[c].id \in {NoCall, c, work[c].id, target.id}
    /\ pc[c] \notin Early => pc'[c] \notin Early

(* A call that moves alone on the same target, and what it knows then. *)
LEMMA OneMoves ==
  ASSUME BackfillInv, RunsMove, UNCHANGED <<thread, job, queue>>, target' \in TargetTypes,
         SameTarget, NEW c \in Calls, Alone(c), Knows(c)'
  PROVE  BackfillInv'
<1>1. DOMAIN pc = Calls /\ work \in [Calls -> WorkTypes]
  BY DEF BackfillInv, BackfillTypes
<1>2. DOMAIN pc' = Calls /\ work' \in [Calls -> WorkTypes] /\ JobsInv'
  BY <1>1, JobsKept DEF Alone
<1>3. \A d \in Calls \ {c} : Stays(d)
  BY <1>1 DEF Alone, Stays
<1>4. \A d \in {c} : /\ Knows(d)'
                     /\ pc[d] \notin Early => pc'[d] \notin Early
                     /\ work'[d].id \in {NoCall, d, work[d].id, target.id}
  BY DEF Alone
<1>5. {c} \in SUBSET Calls
  OBVIOUS
<1> QED
  BY <1>2, <1>3, <1>4, <1>5, MoveStep

(* A call that works on no month after its step knows what it has to. *)
LEMMA IdleMoves ==
  ASSUME BackfillInv, RunsMove, UNCHANGED <<thread, job, queue>>, target' \in TargetTypes,
         SameTarget, NEW c \in Calls, Alone(c), pc'[c] \notin WithMonth
  PROVE  BackfillInv'
<1>1. Knows(c)'
  BY DEF Knows, WithMonth, WithRun
<1> QED
  BY <1>1, OneMoves

(* state() changes the state of the target at most. *)
LEMMA WriteStateKeeps ==
  ASSUME BackfillInv, NEW c \in Calls,
         NEW state \in {"waiting", "stopped", "interrupted", "attention", "completed"},
         WriteState(c, state)
  PROVE  target' \in TargetTypes /\ SameTarget
  BY DEF WriteState, BackfillInv, BackfillTypes, TargetTypes, SameTarget

(* An unchanged target is the same one. *)
LEMMA UnchangedTarget ==
  ASSUME BackfillInv, UNCHANGED target PROVE target' \in TargetTypes /\ SameTarget
  BY DEF BackfillInv, BackfillTypes, SameTarget

(* The types of a call's locals, for the steps below. *)
LEMMA WorkShape ==
  ASSUME BackfillInv, NEW c \in Calls
  PROVE  /\ DOMAIN pc = Calls /\ work \in [Calls -> WorkTypes]
         /\ work[c] \in WorkTypes /\ NoWork \in WorkTypes
         /\ target.exec \in Calls \union {NoCall} /\ target.id \in Calls \union {NoCall}
  BY CallsAssumption DEF BackfillInv, BackfillTypes, WorkTypes, NoWork, TargetTypes

-----------------------------------------------------------------------------
(* The steps of a call.                                                    *)

(* Those of commands before and after their worker runs. *)
LEMMA CommandStep ==
  ASSUME BackfillInv, NEW c \in Calls,
         AskFor(c) \/ Lease(c) \/ Check(c) \/ Resume(c) \/ Dispatch(c) \/ DispatchFails(c)
         \/ CallCrashes(c) \/ Close(c)
  PROVE  BackfillInv'
<1> USE DEF Goto, Set, At
<1>1. RunsMove /\ UNCHANGED <<thread, job, queue>>
  BY DEF AskFor, Lease, Check, Resume, Dispatch, DispatchFails, CallCrashes, Close, Orphan,
         World, runVars, slotVars, RunsMove
<1>2. target' \in TargetTypes /\ SameTarget
  <2>1. CASE UNCHANGED target
    BY <2>1, UnchangedTarget
  <2>2. CASE Resume(c)
    BY <2>2 DEF Resume, BackfillInv, BackfillTypes, TargetTypes, SameTarget
  <2> QED
    BY <2>1, <2>2 DEF AskFor, Lease, Check, Dispatch, DispatchFails, CallCrashes, Close
<1>3. Alone(c) /\ pc'[c] \notin WithMonth
  <2> USE WorkShape DEF Alone, Early, WithMonth, WithRun
  <2>1. CASE AskFor(c)
    <3>1. \A id \in Calls \union {NoCall} :
             [NoWork EXCEPT !.id = id] \in WorkTypes /\ [NoWork EXCEPT !.id = id].id = id
      BY CallsAssumption DEF NoWork, WorkTypes
    <3>2. PICK id \in {c, target.id} : work' = [work EXCEPT ![c] = [NoWork EXCEPT !.id = id]]
      BY <2>1 DEF AskFor
    <3>3. work'[c] \in WorkTypes /\ work'[c].id \in {c, target.id}
      BY <3>1, <3>2
    <3> QED
      BY <2>1, <3>2, <3>3 DEF AskFor
  <2>2. CASE Lease(c) \/ Check(c) \/ Resume(c)
    BY <2>2 DEF Lease, Check, Resume
  <2>3. CASE Dispatch(c) \/ DispatchFails(c)
    BY <2>3 DEF Dispatch, DispatchFails, WorkTypes
  <2>4. CASE CallCrashes(c) \/ Close(c)
    BY <2>4 DEF CallCrashes, Close, NoWork
  <2> QED
    BY <2>1, <2>2, <2>3, <2>4
<1> QED
  BY <1>1, <1>2, <1>3, IdleMoves

(* Those of a worker between two months. *)
LEMMA LoopStep ==
  ASSUME BackfillInv, NEW c \in Calls,
         CheckLease(c) \/ ReadEnd(c) \/ WriteEnd(c) \/ Wait(c) \/ WakeUp(c) \/ MonthRefused(c)
         \/ CloseFailing(c) \/ WriteFailure(c) \/ Interrupted(c)
  PROVE  BackfillInv'
<1> USE DEF Goto, Set, At
<1>1. RunsMove /\ UNCHANGED <<thread, job, queue>>
  BY DEF CheckLease, ReadEnd, WriteEnd, Wait, WakeUp, MonthRefused, CloseFailing, WriteFailure,
         Interrupted, Busy, World, runVars, slotVars, RunsMove
<1>2. target' \in TargetTypes /\ SameTarget
  BY UnchangedTarget, WriteStateKeeps
     DEF CheckLease, ReadEnd, WriteEnd, Wait, WakeUp, MonthRefused, CloseFailing, WriteFailure,
         Interrupted
<1>3. Alone(c) /\ pc'[c] \notin WithMonth
  <2> USE WorkShape DEF Alone, Early, WithMonth, WithRun
  <2>1. CASE CheckLease(c) \/ ReadEnd(c) \/ WriteEnd(c) \/ Wait(c) \/ WakeUp(c)
             \/ MonthRefused(c) \/ CloseFailing(c) \/ Interrupted(c)
    BY <2>1 DEF CheckLease, ReadEnd, WriteEnd, Wait, WakeUp, MonthRefused, CloseFailing,
                Interrupted
  <2>2. CASE WriteFailure(c)
    BY <2>2 DEF WriteFailure, NoWork
  <2> QED
    BY <2>1, <2>2
<1> QED
  BY <1>1, <1>2, <1>3, IdleMoves

(* Those of a worker that reads the month it works on and decides to skip it. *)
LEMMA MonthStep ==
  ASSUME BackfillInv, NEW c \in Calls, ReadMonth(c) \/ Decide(c) \/ CheckTurn(c)
  PROVE  BackfillInv'
<1> USE DEF Goto, Set, At
<1>1. UNCHANGED <<owner, started, scan, thread, job, queue, target>>
  BY DEF ReadMonth, Decide, CheckTurn, World, runVars, slotVars
<1>2. target' \in TargetTypes /\ SameTarget
  BY <1>1, UnchangedTarget
<1>3. Knows(c) /\ target.next \in Nat
  BY Comparable DEF BackfillInv
<1>4. CASE ReadMonth(c)
  <2>1. /\ work' = [work EXCEPT ![c] = [work[c] EXCEPT !.month = target.next]]
        /\ pc[c] = "reading" /\ pc' = [pc EXCEPT ![c] = "deciding"]
        /\ target.next \in Months
    BY <1>4 DEF ReadMonth, BackfillInv, BackfillTypes, TargetTypes, Months
  <2>2. [work[c] EXCEPT !.month = target.next] \in WorkTypes
    BY <2>1, WorkShape, CallsAssumption DEF WorkTypes, Months
  <2>3. /\ work'[c] \in WorkTypes /\ work'[c].id = work[c].id /\ work'[c].month = target.next
        /\ pc'[c] = "deciding"
    BY <2>1, <2>2, WorkShape DEF WorkTypes
  <2>4. Alone(c)
    BY <2>1, <2>3, WorkShape DEF Alone, Early
  <2>5. Knows(c)'
    BY <1>1, <1>3, <2>1, <2>3 DEF Knows, WithMonth, WithRun
  <2> QED
    BY <1>1, <1>2, <2>4, <2>5, OneMoves DEF RunsMove
<1>5. CASE Decide(c) \/ CheckTurn(c)
  <2>1. /\ UNCHANGED work
        /\ \E place \in {"skipping", "reserved", "pending", "starting", "waiting"} :
              pc' = [pc EXCEPT ![c] = place]
        /\ pc[c] \in {"deciding", "reserved", "pending"}
    BY <1>5 DEF Decide, CheckTurn
  <2>2. pc'[c] = "skipping" => pc[c] = "deciding" /\ target.skip /\ scan[work[c].month] # NoRun
    BY <1>5, WorkShape DEF Decide, CheckTurn
  <2>3. Alone(c) /\ pc'[c] \in {"skipping", "reserved", "pending", "starting", "waiting"}
    BY <2>1, WorkShape DEF Alone, Early
  <2>4. Knows(c)'
    BY <1>1, <1>3, <2>1, <2>2, <2>3 DEF Knows, WithMonth, WithRun
  <2> QED
    BY <1>1, <1>2, <2>3, <2>4, OneMoves DEF RunsMove
<1> QED
  BY <1>4, <1>5

(* The run of a month is newer than its target. *)
LEMMA StartMonthStep ==
  ASSUME BackfillInv, NEW c \in Calls, StartMonth(c) PROVE BackfillInv'
<1> DEFINE month == work[c].month
           new == [work[c] EXCEPT !.run = owner']
<1>1. /\ BeginRun({month})
      /\ pc[c] = "starting" /\ pc' = [pc EXCEPT ![c] = "owning"]
      /\ work' = [work EXCEPT ![c] = new]
      /\ UNCHANGED <<slotVars, target>>
  BY DEF StartMonth, Goto, Set, At
<1>2. Knows(c) /\ month \in Months /\ {month} \in SUBSET Days
  BY <1>1, Comparable DEF BackfillInv, Knows, WithMonth
<1>3. RunsMove /\ UNCHANGED <<thread, job, queue>>
  BY <1>1, <1>2 DEF RunsMove, slotVars
<1>4. /\ owner' = NewRun({month}) /\ owner' \in started' /\ owner' \in Runs
      /\ owner'.n = Cardinality(started) + 1 /\ owner'.days = {month}
  <2>1. owner' = NewRun({month}) /\ owner' \in started'
    BY <1>1 DEF BeginRun
  <2>2. NewRun({month}) \in Runs
    BY <1>1, <1>2, BeginRunEffect DEF BackfillInv
  <2> QED
    BY <2>1, <2>2 DEF NewRun
<1>5. target.base <= Cardinality(started) /\ target.base \in Nat
      /\ Cardinality(started) \in Nat
  BY Comparable DEF BackfillInv, Named
<1>6. new \in WorkTypes /\ new.id = work[c].id /\ new.month = month /\ new.run = owner'
  BY <1>4, WorkShape DEF WorkTypes
<1>7. pc'[c] = "owning" /\ work'[c] = new
  BY <1>1, WorkShape
<1>8. Alone(c)
  BY <1>1, <1>6, <1>7 DEF Alone, Early
<1>9. target' \in TargetTypes /\ SameTarget
  BY <1>1, UnchangedTarget
<1>10. target' = target
  BY <1>1
<1>11. target.base < owner'.n
  BY <1>4, <1>5
<1> HIDE DEF new
<1>12. Knows(c)'
  BY <1>1, <1>2, <1>4, <1>6, <1>7, <1>10, <1>11, <1>5 DEF Knows, WithMonth, WithRun
<1> QED
  BY <1>3, <1>8, <1>9, <1>12, OneMoves

(* Those of a worker from the start of its run to the assessment, which     *)
(* leave the runs alone.                                                    *)
LEMMA AttachStep ==
  ASSUME BackfillInv, NEW c \in Calls,
         CheckOwned(c) \/ Attach(c) \/ Recheck(c) \/ AskOwnRun(c) \/ Judge(c)
  PROVE  BackfillInv'
<1> USE DEF Goto, At
<1>1. UNCHANGED <<owner, started, scan, thread, job, queue, work>>
  BY DEF CheckOwned, Attach, Recheck, AskOwnRun, Judge, AskStop, World, runVars, slotVars
<1>2. pc[c] \in {"owning", "attaching", "rechecking", "asking", "reported"}
  BY DEF CheckOwned, Attach, Recheck, AskOwnRun, Judge
<1>3. /\ pc' = [pc EXCEPT ![c] = pc'[c]]
      /\ pc'[c] \in {"attaching", "cancelling", "rechecking", "asking", "executing", "failing",
                     "advancing", "ending", "troubled"}
      /\ pc'[c] = "advancing" => pc[c] = "reported" /\ work[c].result = "clean"
  <2>1. CASE CheckOwned(c)
    BY <2>1, WorkShape DEF CheckOwned
  <2>2. CASE Attach(c) \/ AskOwnRun(c)
    BY <2>2, WorkShape DEF Attach, AskOwnRun
  <2>3. CASE Recheck(c)
    BY <2>3, WorkShape DEF Recheck
  <2>4. CASE Judge(c)
    BY <2>4, WorkShape DEF Judge
  <2> QED
    BY <2>1, <2>2, <2>3, <2>4
<1>4. Knows(c) /\ work[c].run \in Runs
  BY <1>2 DEF BackfillInv, Knows, WithRun, RunsInv
<1>5. target' \in TargetTypes /\ SameTarget
  <2>1. CASE Attach(c)
    BY <1>4, <2>1 DEF Attach, BackfillInv, BackfillTypes, TargetTypes, SameTarget
  <2> QED
    BY <2>1, UnchangedTarget DEF CheckOwned, Recheck, AskOwnRun, Judge
<1>6. Alone(c)
  BY <1>1, <1>3, WorkShape DEF Alone, Early
<1>7. Knows(c)'
  BY <1>1, <1>2, <1>3, <1>4, <1>5 DEF Knows, WithMonth, WithRun, SameTarget
<1> QED
  BY <1>1, <1>5, <1>6, <1>7, OneMoves DEF RunsMove

(* A run that is cancelled covers nothing that its worker counts on. *)
LEMMA CancelRunStep ==
  ASSUME BackfillInv, NEW c \in Calls, CancelRun(c) PROVE BackfillInv'
<1>1. /\ pc[c] = "cancelling" /\ pc' = [pc EXCEPT ![c] = "failing"]
      /\ UNCHANGED <<thread, job, queue, target, work>>
  BY DEF CancelRun, Goto, At, slotVars
<1>2. work[c].run \in started
  BY <1>1 DEF BackfillInv, Knows, WithRun
<1>3. RunsMove
  BY <1>2 DEF CancelRun, RunsMove, Assessments, runVars
<1>4. Alone(c) /\ pc'[c] \notin WithMonth
  BY <1>1, WorkShape DEF Alone, Early, WithMonth, WithRun
<1> QED
  BY <1>1, <1>3, <1>4, UnchangedTarget, IdleMoves

(* A run that ends clean has covered its month, which no older run replaces. *)
LEMMA ExecuteRunStep ==
  ASSUME BackfillInv, NEW c \in Calls, ExecuteRun(c) PROVE BackfillInv'
<1> DEFINE month == work[c].month
           run == work[c].run
<1>1. /\ pc[c] = "executing"
      /\ UNCHANGED <<thread, job, queue, target>>
  BY DEF ExecuteRun, At, slotVars
<1>2. Knows(c) /\ run \in started /\ run.days = {month} /\ month \in Months /\ month \in Days
  BY <1>1, Comparable DEF BackfillInv, Knows, WithMonth, WithRun
<1>3. target' \in TargetTypes /\ SameTarget
  BY <1>1, UnchangedTarget
<1>4. ASSUME NEW assessment \in Assessments, EndRun(run, assessment),
             work' = [work EXCEPT ![c] = [work[c] EXCEPT !.result = assessment]],
             pc' = [pc EXCEPT ![c] = "reported"]
      PROVE  BackfillInv'
  <2> DEFINE new == [work[c] EXCEPT !.result = assessment]
  <2>1. RunsMove
    BY <1>2, <1>4 DEF RunsMove
  <2>2. /\ new \in WorkTypes /\ new.id = work[c].id /\ new.month = month
        /\ new.run = run /\ new.result = assessment
    BY WorkShape DEF WorkTypes
  <2>3. work'[c] = new /\ pc'[c] = "reported"
    BY <1>4, WorkShape
  <2> HIDE DEF new
  <2>4. Alone(c)
    BY <1>1, <1>4, <2>2, <2>3 DEF Alone, Early
  <2>5. assessment = "clean" => scan'[month] = run
    BY <1>2, <1>4 DEF EndRun, Assessments
  <2>6. run.n \in Nat /\ run # NoRun /\ run \in started'
    BY <1>2, <1>4, Comparable DEF EndRun
  <2>7. Knows(c)'
    BY <1>1, <1>2, <2>2, <2>3, <2>5, <2>6 DEF Knows, WithMonth, WithRun
  <2> QED
    BY <1>1, <1>3, <2>1, <2>4, <2>7, OneMoves
<1>5. CASE pc' = [pc EXCEPT ![c] = "failing"] /\ UNCHANGED <<runVars, work>>
  <2>1. RunsMove
    BY <1>5 DEF RunsMove, runVars
  <2>2. Alone(c) /\ pc'[c] \notin WithMonth
    BY <1>1, <1>5, WorkShape DEF Alone, Early, WithMonth, WithRun
  <2> QED
    BY <1>1, <1>3, <2>1, <2>2, IdleMoves
<1> QED
  BY <1>4, <1>5 DEF ExecuteRun, Goto, Set

(* A failure leaves a run to be cancelled, or nothing to know. *)
LEMMA WorkFailsStep ==
  ASSUME BackfillInv, NEW c \in Calls, WorkFails(c) PROVE BackfillInv'
<1>1. /\ UNCHANGED <<owner, started, scan, thread, job, queue, target, work>>
      /\ pc' = [pc EXCEPT ![c] = AfterFailure(pc[c])]
      /\ pc[c] \notin {"idle", "asked"}
  BY DEF WorkFails, Goto, Orphan, runVars
<1>2. /\ AfterFailure(pc[c]) \in {"closing", "done", "cancelling", "failing"}
      /\ AfterFailure(pc[c]) = "cancelling" => pc[c] \in {"attaching", "rechecking", "asking"}
  BY DEF AfterFailure
<1>3. pc'[c] = AfterFailure(pc[c])
  BY <1>1, WorkShape
<1>4. Alone(c)
  BY <1>1, <1>2, <1>3, WorkShape DEF Alone, Early
<1>5. Knows(c)
  BY DEF BackfillInv
<1>6. Knows(c)'
  BY <1>1, <1>2, <1>3, <1>5 DEF Knows, WithMonth, WithRun
<1> QED
  BY <1>1, <1>4, <1>6, UnchangedTarget, OneMoves DEF RunsMove

(* A new target has no months behind it, and nobody names it yet. *)
LEMMA CreateStep == ASSUME BackfillInv, NEW c \in Calls, Create(c) PROVE BackfillInv'
<1>1. /\ pc[c] = "writing" /\ c \in Starts /\ pc' = [pc EXCEPT ![c] = "dispatching"]
      /\ UNCHANGED <<owner, started, scan, thread, job, queue, work>>
  BY DEF Create, At, Goto, World, runVars, slotVars
<1>2. RunsMove
  BY <1>1 DEF RunsMove
<1>3. pc'[c] = "dispatching" /\ \A d \in Calls \ {c} : Stays(d)
  BY <1>1, WorkShape DEF Stays
<1>4. Alone(c) /\ pc'[c] \notin WithMonth
  BY <1>1, WorkShape DEF Alone, Early, WithMonth, WithRun
<1>5. CASE UNCHANGED target
  BY <1>1, <1>2, <1>4, <1>5, UnchangedTarget, IdleMoves
<1>6. ASSUME NEW from \in Months, NEW skip \in BOOLEAN,
             target' = [id |-> c, exec |-> c, state |-> "running", from |-> from, next |-> from,
                        skip |-> skip, run |-> NoRun, base |-> Cardinality(started)]
      PROVE  BackfillInv'
  <2>1. RunsInv' /\ RunsGrow /\ JobsInv'
    BY <1>1, <1>2, RunsStep, JobsKept DEF BackfillInv
  <2>2. from \in Nat /\ from \in 1..(LastMonth + 1) /\ Cardinality(started) \in Nat
    BY Comparable DEF Months
  <2>3. target' \in TargetTypes
    BY <1>6, <2>2 DEF TargetTypes
  <2>4. BackfillTypes'
    BY <1>1, <2>3, WorkShape DEF BackfillTypes
  <2>5. \A d \in Calls \ {c} : work[d].id # c
    BY <1>1, CallsAssumption DEF BackfillInv, Named, Written, Early
  <2>6. \A d \in Calls : Knows(d)'
    <3>1. Knows(c)'
      BY <1>4 DEF Knows, WithMonth, WithRun
    <3>2. ASSUME NEW d \in Calls \ {c} PROVE Knows(d)'
      <4>1. TargetKeptFor(d) /\ Stays(d)
        BY <1>3, <1>6, <2>5 DEF TargetKeptFor
      <4> QED
        BY <2>1, <2>3, <4>1, KnowsKept
    <3> QED
      BY <3>1, <3>2
  <2>7. Named'
    <3>1. Written(c)' /\ \A id : Written(id) => Written(id)'
      BY <1>1, CallsAssumption, WorkShape DEF Written, Early
    <3>2. target'.base <= Cardinality(started')
      BY <1>1, <1>6, <2>2
    <3> QED
      BY <1>1, <1>6, <3>1, <3>2 DEF BackfillInv, Named
  <2>8. CheckpointsCovered'
    BY <1>6, <2>2 DEF CheckpointsCovered
  <2> QED
    BY <2>1, <2>4, <2>6, <2>7, <2>8 DEF BackfillInv
<1> QED
  BY <1>5, <1>6 DEF Create

(* The checkpoint passes over one month, which its worker knows is covered. *)
LEMMA AdvanceStep == ASSUME BackfillInv, NEW c \in Calls, Advance(c) PROVE BackfillInv'
<1> DEFINE month == work[c].month
<1>1. /\ pc[c] \in {"skipping", "advancing"} /\ pc' = [pc EXCEPT ![c] = "looping"]
      /\ UNCHANGED <<owner, started, scan, thread, job, queue, work>>
  BY DEF Advance, At, Goto, World, runVars, slotVars
<1>2. RunsMove
  BY <1>1 DEF RunsMove
<1>3. pc'[c] = "looping" /\ \A d \in Calls \ {c} : Stays(d)
  BY <1>1, WorkShape DEF Stays
<1>4. Alone(c) /\ pc'[c] \notin WithMonth
  BY <1>1, WorkShape DEF Alone, Early, WithMonth, WithRun
<1>5. CASE UNCHANGED target
  BY <1>1, <1>2, <1>4, <1>5, UnchangedTarget, IdleMoves
<1>6. CASE /\ Mine(c) /\ target.next < month + 1
           /\ target' = [target EXCEPT !.next = month + 1, !.run = NoRun]
  <2>1. RunsInv' /\ RunsGrow /\ JobsInv'
    BY <1>1, <1>2, RunsStep, JobsKept DEF BackfillInv
  <2>2. Knows(c) /\ month \in Months /\ month <= target.next /\ target.id = work[c].id
    BY <1>1, <1>6 DEF BackfillInv, Knows, Mine, WithMonth, WithRun
  <2>3. month = target.next /\ month + 1 \in 1..(LastMonth + 1)
    BY <1>6, <2>2, Comparable DEF Months
  <2>4. target' \in TargetTypes
    BY <1>6, <2>3 DEF BackfillInv, BackfillTypes, TargetTypes
  <2>5. /\ target'.id = target.id /\ target'.from = target.from /\ target'.next = month + 1
        /\ target'.skip = target.skip /\ target'.base = target.base
    BY <1>6 DEF BackfillInv, BackfillTypes, TargetTypes
  <2>6. BackfillTypes'
    BY <1>1, <2>4, WorkShape DEF BackfillTypes
  <2>7. \A d \in Calls : Knows(d)'
    <3>1. Knows(c)'
      BY <1>4 DEF Knows, WithMonth, WithRun
    <3>2. ASSUME NEW d \in Calls \ {c} PROVE Knows(d)'
      <4>1. target.next <= target'.next
        BY <2>3, <2>5, Comparable
      <4>2. TargetKeptFor(d) /\ Stays(d)
        BY <1>3, <2>5, <4>1 DEF TargetKeptFor
      <4> QED
        BY <2>1, <2>4, <4>2, KnowsKept
    <3> QED
      BY <3>1, <3>2
  <2>8. Named'
    <3>1. \A id : Written(id) => Written(id)'
      BY <1>1, CallsAssumption, WorkShape DEF Written, Early
    <3> QED
      BY <1>1, <2>5, <3>1 DEF BackfillInv, Named
  <2>9. scan[month] # NoRun /\ (~target.skip => scan[month].n > target.base)
    <3>1. CASE pc[c] = "skipping"
      BY <2>2, <3>1 DEF Knows
    <3>2. CASE pc[c] = "advancing"
      <4>1. /\ scan[month] # NoRun /\ scan[month].n >= work[c].run.n
            /\ work[c].run \in started /\ work[c].run.n > target.base
        BY <2>2, <3>2 DEF Knows, WithRun
      <4> QED
        BY <2>2, <4>1, Comparable
    <3> QED
      BY <1>1, <3>1, <3>2
  <2>10. CheckpointsCovered'
    <3> SUFFICES ASSUME NEW m \in target.from..month
                 PROVE  scan[m] # NoRun /\ (~target.skip => scan[m].n > target.base)
      BY <1>1, <2>2, <2>5, Comparable DEF CheckpointsCovered
    <3>1. CASE m = month
      BY <2>9, <3>1
    <3>2. CASE m # month
      <4>1. m \in target.from..(target.next - 1)
        BY <2>2, <2>3, <3>2, Comparable
      <4> QED
        BY <4>1 DEF BackfillInv, CheckpointsCovered
    <3> QED
      BY <3>1, <3>2
  <2> QED
    BY <2>1, <2>6, <2>7, <2>8, <2>10 DEF BackfillInv
<1> QED
  BY <1>5, <1>6 DEF Advance

(* Every step keeps the invariant. *)
LEMMA BackfillInvStep == BackfillInv /\ [BackfillNext]_allVars => BackfillInv'
<1> SUFFICES ASSUME BackfillInv, [BackfillNext]_allVars PROVE BackfillInv'
  OBVIOUS
<1>1. CASE SlotsStep \/ LoseLease \/ \E s \in Stops : StopStep(s)
  BY <1>1, OutsideStep
<1>2. ASSUME NEW c \in Calls, CallStep(c) PROVE BackfillInv'
  BY <1>2, CommandStep, LoopStep, MonthStep, StartMonthStep, AttachStep, CancelRunStep,
     ExecuteRunStep, CreateStep, AdvanceStep DEF CallStep
<1>3. ASSUME NEW c \in Calls,
             AskFor(c) \/ DispatchFails(c) \/ WorkFails(c) \/ Interrupted(c) \/ CallCrashes(c)
      PROVE  BackfillInv'
  BY <1>3, CommandStep, LoopStep, WorkFailsStep
<1>4. CASE UNCHANGED allVars
  <2>1. UNCHANGED <<owner, started, scan, thread, job, queue, target, pc, work>>
    BY <1>4 DEF allVars, runVars, slotVars, backfillVars
  <2>2. RunsMove /\ JobsInv'
    BY <2>1, JobsKept DEF RunsMove
  <2> QED
    BY <2>1, <2>2, UnchangedTarget, NobodyMoves
<1> QED
  BY <1>1, <1>2, <1>3, <1>4 DEF BackfillNext

(* The invariant of the backfill and the scheduler together. *)
THEOREM BackfillInvariant == BackfillSpec => []BackfillInv
  BY InitBackfillInv, BackfillInvStep, PTL DEF BackfillSpec

(* HistoricalBackfillService: neither a stop, a failure, a crash, the        *)
(* takeover of a run, another target nor a session lost while its worker     *)
(* goes on lets the checkpoint pass over a month that no run has covered, or, *)
(* when covered months are asked for again, none since the target began.     *)
THEOREM CheckpointsAreCovered == BackfillSpec => []CheckpointsCovered
<1>1. BackfillInv => CheckpointsCovered
  BY DEF BackfillInv
<1> QED
  BY <1>1, BackfillInvariant, PTL

(* What a call does to runs is a move on the run it started. *)
LEMMA CallMovesRuns ==
  ASSUME BackfillInv, NEW c \in Calls, CallStep(c)
  PROVE  RunsMove
<1> USE DEF RunsMove
<1>1. CASE StartMonth(c)
  <2>1. work[c].month \in Months
    BY <1>1 DEF BackfillInv, Knows, StartMonth, At, WithMonth
  <2> QED
    BY <1>1, <2>1, CallsAssumption DEF StartMonth
<1>2. CASE ExecuteRun(c) \/ CancelRun(c)
  <2>1. work[c].run \in started
    BY <1>2 DEF BackfillInv, Knows, ExecuteRun, CancelRun, At, WithRun
  <2> QED
    BY <1>2, <2>1 DEF ExecuteRun, CancelRun, Assessments, runVars
<1>3. CASE Lease(c) \/ Check(c) \/ Create(c) \/ Resume(c) \/ Dispatch(c) \/ CheckLease(c)
           \/ ReadEnd(c) \/ ReadMonth(c) \/ WriteEnd(c) \/ Decide(c) \/ Advance(c)
  BY <1>3 DEF Lease, Check, Create, Resume, Dispatch, CheckLease, ReadEnd, ReadMonth, WriteEnd,
     Decide, Advance, World, runVars
<1>4. CASE CheckTurn(c) \/ Wait(c) \/ WakeUp(c) \/ MonthRefused(c) \/ CheckOwned(c) \/ Attach(c)
           \/ Recheck(c) \/ AskOwnRun(c) \/ Judge(c) \/ CloseFailing(c) \/ WriteFailure(c)
           \/ Close(c)
  BY <1>4 DEF CheckTurn, Wait, WakeUp, MonthRefused, CheckOwned, Attach, Recheck, AskOwnRun,
     Judge, CloseFailing, WriteFailure, Close, Busy, AskStop, World, runVars
<1> QED
  BY <1>1, <1>2, <1>3, <1>4 DEF CallStep

(* Every step of the backfill and of the scheduler moves runs or leaves them. *)
LEMMA BackfillMoves == BackfillInv /\ [BackfillNext]_allVars => RunsMove
<1> SUFFICES ASSUME BackfillInv, [BackfillNext]_allVars PROVE RunsMove
  OBVIOUS
<1>1. CASE SlotsStep
  BY <1>1, SlotsMoves DEF SlotsStep, BackfillInv
<1>2. CASE LoseLease \/ UNCHANGED allVars
  BY <1>2 DEF LoseLease, World, allVars, runVars, RunsMove
<1>3. ASSUME NEW c \in Calls, CallStep(c) PROVE RunsMove
  BY <1>3, CallMovesRuns
<1>4. ASSUME NEW c \in Calls,
             AskFor(c) \/ DispatchFails(c) \/ WorkFails(c) \/ Interrupted(c) \/ CallCrashes(c)
      PROVE  RunsMove
  BY <1>4 DEF AskFor, DispatchFails, WorkFails, Interrupted, CallCrashes, Orphan, World, runVars,
     RunsMove
<1>5. ASSUME NEW s \in Stops, StopStep(s) PROVE RunsMove
  BY <1>5 DEF StopStep, StopReads, StopMarks, StopLooks, StopSettles, StopRereads, StopRequests,
     AskStop, World, runVars, RunsMove
<1> QED
  BY <1>1, <1>2, <1>3, <1>4, <1>5 DEF BackfillNext

(* CatalogueSynchronizationService: the backfill's workers and the           *)
(* scheduler's threads, as many as there are and whatever fails, never run    *)
(* two runs at once, never begin a run again, and a run covers its own days   *)
(* only, once.                                                               *)
THEOREM BackfillOwnsRuns == BackfillSpec => BackfillImplementsOwnership
<1>1. BackfillInit => Ownership!OwnershipInit
  BY DEF BackfillInit, SlotsInit, RunsInit, Ownership!OwnershipInit
<1>2. BackfillInv /\ [BackfillNext]_allVars
        => [Ownership!OwnershipNext]_(Ownership!ownershipVars)
  BY BackfillMoves, RunsStepRefines DEF BackfillInv
<1> QED
  BY <1>1, <1>2, BackfillInvariant, PTL
     DEF BackfillSpec, BackfillImplementsOwnership, Ownership!OwnershipSpec

-----------------------------------------------------------------------------
(* A stop reaches the run in progress.                                     *)

(* Places of a call that has no session, or none any more. *)
Over == {"done", "crashed", "failed", "interrupted"}
Leased(c) == pc[c] \notin {"idle", "asked"} \union Over

(* Places of a worker that may still execute a run, and the last ones before it does. *)
Reaching == {"rechecking", "asking", "executing"}
Going == Reaching \union {"looping", "reading", "deciding", "skipping", "reserved", "pending",
                          "waiting", "pausing", "starting", "owning", "attaching", "reported",
                          "advancing"}

(* While no session is lost, the lock is held by the only call at work. *)
LeasesInv == \A c \in Calls : lock = c <=> Leased(c)

(* An execution is carried out by the call that wrote its token: whoever reads the token of     *)
(* another reads another target, too.                                                           *)
TokenOf(c) ==
    /\ c \in Starts /\ pc[c] \in {"asked", "leased", "writing"} => work[c].id = c
    /\ work[c].exec # NoCall => pc[work[c].exec] \notin Early /\ pc[c] \notin Early
    /\ pc[c] = "dispatching" => work[c].exec = NoCall /\ (target.exec = c \/ target.id # work[c].id)
    /\ Mine(c) /\ work[c].exec # NoCall => target.exec = c
    /\ pc[c] \in Going => work[c].exec = target.exec
    /\ target.exec = c /\ Leased(c) => work[c].id = target.id
    /\ target.exec = c /\ pc[c] \in Reaching => target.run = work[c].run
TokensInv ==
    /\ target.exec # NoCall => pc[target.exec] \notin Early
    /\ \A c \in Calls : TokenOf(c)

(* The only stop of the execution that the target still names: the target is being stopped      *)
(* until its worker ends, and the run that the worker executes is asked to stop, or will be.    *)
Reaches(s) ==
    LET c == target.exec
    IN  /\ asked[s].id = target.id
        /\ stopping[s] # "rejected"
        /\ stopping[s] = "settling" => pc[c] \in Over
        /\ pc[c] \in Going \union {"dispatching"} => target.state = "stopping"
        /\ pc[c] = "executing" /\ owner = work[c].run =>
            \/ stopAsked
            \/ stopping[s] \in {"looking", "rereading"}
            \/ stopping[s] = "requesting" /\ asked[s].run = work[c].run
StopOf(s) ==
    /\ asked[s].exec # NoCall => stopping[s] \notin {"idle", "marking"}
    /\ asked[s].exec # NoCall => pc[asked[s].exec] \notin Early
    /\ asked[s].exec # NoCall /\ asked[s].exec = target.exec /\ OnlyStop(s) => Reaches(s)

StopTypes ==
    /\ losses \in Nat
    /\ DOMAIN stopping = Stops
    /\ asked \in [Stops -> [id : Calls \union {NoCall}, exec : Calls \union {NoCall},
                            run : Runs \union {NoRun}]]

StopInv == StopTypes /\ (losses = 0 => LeasesInv /\ TokensInv /\ \A s \in Stops : StopOf(s))

(* At first there is no lease, no execution and no stop. *)
LEMMA InitStopInv == BackfillInit => StopInv
<1> SUFFICES ASSUME BackfillInit PROVE StopInv
  OBVIOUS
<1>1. StopTypes
  BY DEF BackfillInit, StopTypes, NotAsked
<1>2. LeasesInv
  BY CallsAssumption DEF BackfillInit, LeasesInv, Leased
<1>3. TokensInv
  BY CallsAssumption DEF BackfillInit, TokensInv, TokenOf, NoTarget, NoWork, Early, Leased, Over,
     Going, Reaching, Mine
<1>4. \A s \in Stops : StopOf(s)
  BY DEF BackfillInit, StopOf, NotAsked
<1> QED
  BY <1>1, <1>2, <1>3, <1>4 DEF StopInv

(* state() leaves the execution alone; a stop gives way only to the end of its worker. *)
LEMMA WriteStateEffect ==
  ASSUME BackfillInv, NEW c \in Calls,
         NEW state \in {"waiting", "stopped", "interrupted", "attention", "completed"},
         WriteState(c, state)
  PROVE  /\ target'.id = target.id /\ target'.exec = target.exec /\ target'.run = target.run
         /\ target.state = "stopping" /\ target'.state # "stopping" =>
              Mine(c) /\ state \in {"stopped", "interrupted", "attention"}
  BY DEF WriteState, BackfillInv, BackfillTypes, TargetTypes

(* A call that works, or ends, on the execution that the target names. *)
Works(c) ==
    /\ pc' = [pc EXCEPT ![c] = pc'[c]]
    /\ work' = [work EXCEPT ![c] = work'[c]]
    /\ UNCHANGED <<stopping, asked, losses>>
    /\ target'.id = target.id /\ target'.exec = target.exec
    /\ pc[c] \notin Early => pc'[c] \notin Early
    /\ pc[c] \in Over => pc'[c] \in Over
    /\ pc'[c] # "dispatching"
    /\ pc'[c] \in Going => pc[c] \in Going
    /\ pc'[c] \in {"asked", "leased", "writing"} => pc[c] \in {"asked", "leased"}
    /\ Leased(c)' => Leased(c) \/ pc[c] = "asked"
    /\ \/ work'[c] = NoWork /\ pc'[c] \in Over
       \/ work'[c].id = work[c].id /\ work'[c].exec = work[c].exec
    /\ pc'[c] \in Reaching =>
        /\ work'[c].run = work[c].run
        /\ pc[c] \in Reaching \/ (pc[c] = "attaching" /\ (Mine(c) => target'.run = work[c].run))
    /\ target'.run # target.run => Leased(c) /\ (pc'[c] \notin Reaching \/ pc[c] = "attaching")
    /\ target.state = "stopping" /\ target'.state # "stopping" =>
        Mine(c) /\ pc'[c] \notin Going
    /\ pc'[c] = "executing" =>
        \/ pc[c] = "rechecking" /\ State # "stopping"
        \/ pc[c] = "asking" /\ (owner' = work[c].run => stopAsked')

(* The steps of a command, besides those that write the target or read it back. *)
LEMMA CommandWorks ==
  ASSUME BackfillInv, NEW c \in Calls,
         Lease(c) \/ Check(c) \/ CloseFailing(c) \/ WriteFailure(c) \/ Close(c) \/ CallCrashes(c)
  PROVE  Works(c)
<1> USE WorkShape DEF Goto, Set, At, Early, Over, Leased, Going, Reaching, Unmoved
<1>1. CASE Lease(c) \/ Check(c)
  BY <1>1 DEF Works, Lease, Check
<1>2. CASE CloseFailing(c) \/ Close(c) \/ CallCrashes(c)
  BY <1>2 DEF Works, CloseFailing, Close, CallCrashes
<1>3. CASE WriteFailure(c)
  BY <1>3, WriteStateEffect DEF Works, WriteFailure
<1> QED
  BY <1>1, <1>2, <1>3

(* The steps of a worker between two months. *)
LEMMA LoopWorks ==
  ASSUME BackfillInv, NEW c \in Calls,
         CheckLease(c) \/ ReadEnd(c) \/ ReadMonth(c) \/ WriteEnd(c) \/ Decide(c) \/ CheckTurn(c)
         \/ Wait(c) \/ WakeUp(c) \/ MonthRefused(c) \/ Interrupted(c)
  PROVE  Works(c)
<1> USE WorkShape DEF Goto, Set, At, Early, Over, Leased, Going, Reaching, Unmoved
<1>1. CASE CheckLease(c) \/ ReadEnd(c) \/ Decide(c) \/ CheckTurn(c) \/ WakeUp(c) \/ MonthRefused(c)
  BY <1>1 DEF Works, CheckLease, ReadEnd, Decide, CheckTurn, WakeUp, MonthRefused
<1>2. CASE ReadMonth(c)
  BY <1>2 DEF Works, ReadMonth, WorkTypes
<1>3. CASE WriteEnd(c)
  BY <1>3, WriteStateEffect DEF Works, WriteEnd
<1>4. CASE Wait(c)
  BY <1>4, WriteStateEffect DEF Works, Wait
<1>5. CASE Interrupted(c)
  BY <1>5, WriteStateEffect DEF Works, Interrupted
<1> QED
  BY <1>1, <1>2, <1>3, <1>4, <1>5

(* The steps of a worker with a run, and its failures. *)
LEMMA RunWorks ==
  ASSUME BackfillInv, NEW c \in Calls,
         StartMonth(c) \/ CheckOwned(c) \/ Attach(c) \/ Recheck(c) \/ AskOwnRun(c)
         \/ CancelRun(c) \/ ExecuteRun(c) \/ Judge(c) \/ Advance(c) \/ WorkFails(c)
  PROVE  Works(c)
<1> USE WorkShape DEF Goto, Set, At, Early, Over, Leased, Going, Reaching, Unmoved
<1>1. CASE StartMonth(c)
  BY <1>1 DEF Works, StartMonth, WorkTypes
<1>2. CASE CheckOwned(c) \/ CancelRun(c) \/ Judge(c)
  BY <1>2 DEF Works, CheckOwned, CancelRun, Judge
<1>3. CASE Recheck(c)
  BY <1>3 DEF Works, Recheck
<1>4. CASE AskOwnRun(c)
  <2>1. work[c].run # NoRun
    BY <1>4, RunShape DEF AskOwnRun, BackfillInv, RunsInv, Knows, WithRun
  <2> QED
    BY <1>4, <2>1 DEF Works, AskOwnRun, AskStop
<1>5. CASE ExecuteRun(c)
  BY <1>5 DEF Works, ExecuteRun, WorkTypes
<1>6. CASE Attach(c) \/ Advance(c)
  <2>1. target \in TargetTypes
    BY DEF BackfillInv, BackfillTypes
  <2>2. CASE Attach(c)
    BY <2>1, <2>2 DEF Works, Attach, TargetTypes
  <2>3. CASE Advance(c)
    BY <2>1, <2>3 DEF Works, Advance, TargetTypes
  <2> QED
    BY <1>6, <2>2, <2>3
<1>7. CASE WorkFails(c)
  <2>1. pc' = [pc EXCEPT ![c] = AfterFailure(pc[c])] /\ pc'[c] = AfterFailure(pc[c])
    BY <1>7 DEF WorkFails
  <2>2. UNCHANGED <<target, work, stopping, asked, losses>>
    BY <1>7 DEF WorkFails
  <2>3. pc[c] \notin Early \ {"leased", "writing"} /\ pc[c] \notin Over \ {"failed", "interrupted"}
    BY <1>7 DEF WorkFails
  <2> QED
    BY <2>1, <2>2, <2>3 DEF Works, AfterFailure
<1> QED
  BY <1>1, <1>2, <1>3, <1>4, <1>5, <1>6, <1>7

(* The lock follows the lease of the call that takes or gives it up. *)
LEMMA LeaseMoves ==
  ASSUME BackfillInv, LeasesInv, NEW c \in Calls, pc' = [pc EXCEPT ![c] = pc'[c]],
         \/ lock' = lock /\ (Leased(c)' <=> Leased(c))
         \/ lock = NoCall /\ lock' = c /\ Leased(c)'
         \/ Unlock(c) /\ ~Leased(c)'
  PROVE  LeasesInv'
<1>1. \A d \in Calls \ {c} : Leased(d)' <=> Leased(d)
  BY WorkShape DEF Leased
<1>2. c # NoCall /\ \A d \in Calls : d # NoCall
  BY CallsAssumption
<1> QED
  BY <1>1, <1>2 DEF LeasesInv, Unlock

(* Every step of a call keeps the lock with the call at work. *)
LEMMA LeasesKept ==
  ASSUME BackfillInv, LeasesInv, NEW c \in Calls,
         AskFor(c) \/ CallStep(c) \/ DispatchFails(c) \/ WorkFails(c) \/ Interrupted(c)
         \/ CallCrashes(c)
  PROVE  LeasesInv'
<1> USE WorkShape DEF Goto, At, Over, Leased
<1>1. CASE AskFor(c) \/ DispatchFails(c) \/ WorkFails(c) \/ Interrupted(c)
  <2>1. pc' = [pc EXCEPT ![c] = pc'[c]] /\ lock' = lock /\ (Leased(c)' <=> Leased(c))
    BY <1>1 DEF AskFor, DispatchFails, WorkFails, Interrupted, AfterFailure
  <2> QED
    BY <2>1, LeaseMoves
<1>2. CASE Lease(c)
  <2>1. pc' = [pc EXCEPT ![c] = pc'[c]]
        /\ \/ lock' = lock /\ (Leased(c)' <=> Leased(c))
           \/ lock = NoCall /\ lock' = c /\ Leased(c)'
    BY <1>2 DEF Lease
  <2> QED
    BY <2>1, LeaseMoves
<1>3. CASE CloseFailing(c) \/ Close(c) \/ CallCrashes(c)
  <2>1. pc' = [pc EXCEPT ![c] = pc'[c]] /\ Unlock(c) /\ ~Leased(c)'
    BY <1>3 DEF CloseFailing, Close, CallCrashes
  <2> QED
    BY <2>1, LeaseMoves
<1>4. CASE Check(c) \/ Create(c) \/ Resume(c) \/ Dispatch(c) \/ CheckLease(c) \/ ReadEnd(c)
           \/ ReadMonth(c) \/ WriteEnd(c) \/ Decide(c) \/ Advance(c) \/ CheckTurn(c)
           \/ Wait(c) \/ WakeUp(c)
  <2>1. pc' = [pc EXCEPT ![c] = pc'[c]] /\ lock' = lock /\ (Leased(c)' <=> Leased(c))
    BY <1>4 DEF Check, Create, Resume, Dispatch, CheckLease, ReadEnd, ReadMonth, WriteEnd,
       Decide, Advance, CheckTurn, Wait, WakeUp
  <2> QED
    BY <2>1, LeaseMoves
<1>5. CASE StartMonth(c) \/ MonthRefused(c) \/ CheckOwned(c) \/ Attach(c) \/ Recheck(c)
           \/ AskOwnRun(c) \/ CancelRun(c) \/ ExecuteRun(c) \/ Judge(c) \/ WriteFailure(c)
  <2>1. pc' = [pc EXCEPT ![c] = pc'[c]] /\ lock' = lock /\ (Leased(c)' <=> Leased(c))
    BY <1>5 DEF StartMonth, MonthRefused, CheckOwned, Attach, Recheck, AskOwnRun, CancelRun,
       ExecuteRun, Judge, WriteFailure
  <2> QED
    BY <2>1, LeaseMoves
<1> QED
  BY <1>1, <1>2, <1>3, <1>4, <1>5 DEF CallStep

(* A call that works keeps the tokens. *)
LEMMA WorksTokens ==
  ASSUME BackfillInv, LeasesInv, TokensInv, NEW c \in Calls, Works(c)
  PROVE  TokensInv'
<1>1. /\ \A d \in Calls \ {c} : pc'[d] = pc[d] /\ work'[d] = work[d]
      /\ \A d \in Calls : pc[d] \notin Early => pc'[d] \notin Early
      /\ \A d \in Calls : work[d].exec \in Calls \union {NoCall}
      /\ target.exec \in Calls \union {NoCall}
      /\ target'.id = target.id /\ target'.exec = target.exec
  BY WorkShape DEF Works, WorkTypes
<1>2. target'.exec # NoCall => pc'[target'.exec] \notin Early
  BY <1>1 DEF TokensInv
<1>3. TokenOf(c)'
  <2>1. TokenOf(c)
    BY DEF TokensInv
  <2>2. CASE work'[c] = NoWork /\ pc'[c] \in Over
    BY <1>1, <2>2 DEF TokenOf, NoWork, Over, Going, Reaching, Leased, Mine
  <2>3. CASE work'[c].id = work[c].id /\ work'[c].exec = work[c].exec
    <3>1. c \in Starts /\ pc'[c] \in {"asked", "leased", "writing"} => work'[c].id = c
      BY <2>1, <2>3 DEF Works, TokenOf
    <3>2. work'[c].exec # NoCall => pc'[work'[c].exec] \notin Early /\ pc'[c] \notin Early
      BY <1>1, <2>1, <2>3 DEF Works, TokenOf
    <3>3. pc'[c] # "dispatching"
      BY DEF Works
    <3>4. Mine(c)' /\ work'[c].exec # NoCall => target'.exec = c
      BY <1>1, <2>1, <2>3 DEF TokenOf, Mine
    <3>5. pc'[c] \in Going => work'[c].exec = target'.exec
      BY <1>1, <2>1, <2>3 DEF TokenOf, Works
    <3>6. target'.exec = c /\ Leased(c)' => work'[c].id = target'.id
      BY <1>1, <2>1, <2>3, CallsAssumption DEF TokensInv, TokenOf, Works, Early
    <3>7. target'.exec = c /\ pc'[c] \in Reaching => target'.run = work'[c].run
      <4> SUFFICES ASSUME target.exec = c, pc'[c] \in Reaching
                   PROVE  target'.run = work[c].run
        BY <1>1 DEF Works
      <4>1. CASE pc[c] \in Reaching
        BY <2>1, <4>1 DEF Works, TokenOf, Reaching
      <4>2. CASE pc[c] = "attaching"
        <5>1. Mine(c)
          BY <2>1, <4>2 DEF TokenOf, Mine, Going, Leased, Over
        <5> QED
          BY <4>2, <5>1 DEF Works, Reaching
      <4> QED
        BY <4>1, <4>2 DEF Works
    <3> QED
      BY <3>1, <3>2, <3>3, <3>4, <3>5, <3>6, <3>7 DEF TokenOf
  <2> QED
    BY <2>2, <2>3 DEF Works
<1>4. ASSUME NEW d \in Calls \ {c} PROVE TokenOf(d)'
  <2>1. TokenOf(d)
    BY DEF TokensInv
  <2>2. pc[d] \in Reaching => target'.run = target.run
    <3>1. pc[d] \in Reaching => Leased(d)
      BY DEF Reaching, Leased, Over
    <3> QED
      BY <3>1 DEF LeasesInv, Works
  <2> QED
    BY <1>1, <2>1, <2>2 DEF TokenOf, Mine, Leased
<1> QED
  BY <1>2, <1>3, <1>4 DEF TokensInv

(* A call that asks, or reads its token, keeps the tokens. *)
LEMMA ReadTokens ==
  ASSUME BackfillInv, LeasesInv, TokensInv, NEW c \in Calls,
         AskFor(c) \/ Dispatch(c) \/ DispatchFails(c)
  PROVE  TokensInv'
<1> USE DEF Goto, Set, At
<1>1. /\ \A d \in Calls \ {c} : pc'[d] = pc[d] /\ work'[d] = work[d]
      /\ \A d \in Calls : pc[d] \notin Early => pc'[d] \notin Early
      /\ \A d \in Calls : work[d].exec \in Calls \union {NoCall}
      /\ target.exec \in Calls \union {NoCall}
      /\ target' = target
  BY WorkShape DEF AskFor, Dispatch, DispatchFails, WorkTypes, Early
<1>2. target'.exec # NoCall => pc'[target'.exec] \notin Early
  BY <1>1 DEF TokensInv
<1>3. TokenOf(c)
  BY DEF TokensInv
<1>4. CASE AskFor(c)
  <2>1. pc[c] = "idle" /\ pc'[c] = "asked" /\ work'[c].exec = NoCall
        /\ (c \in Starts => work'[c].id = c)
    BY <1>4, WorkShape DEF AskFor, NoWork
  <2>2. TokenOf(c)'
    BY <1>1, <2>1 DEF TokenOf, Mine, Going, Reaching, Leased
  <2> QED
    BY <1>1, <1>2, <2>2 DEF TokensInv, TokenOf, Mine, Leased
<1>5. CASE Dispatch(c) \/ DispatchFails(c)
  <2>1. /\ pc[c] = "dispatching" /\ pc'[c] \in {"looping", "rejected"}
        /\ work'[c].exec = target.exec /\ work'[c].id = work[c].id
    BY <1>5, WorkShape DEF Dispatch, DispatchFails, WorkTypes
  <2>2. pc'[c] \notin Early
    BY <2>1 DEF Early
  <2>3. TokenOf(c)'
    BY <1>1, <1>2, <1>3, <2>1, <2>2 DEF TokenOf, Mine, Going, Reaching, Leased, Over
  <2> QED
    BY <1>1, <1>2, <2>3 DEF TokensInv, TokenOf, Mine, Leased
<1> QED
  BY <1>4, <1>5

(* resume() writes the token and forgets the run, on the target it names only. *)
LEMMA ResumeEffect ==
  ASSUME BackfillInv, NEW c \in Calls, Resume(c)
  PROVE  \/ target'.exec = c /\ target'.id = target.id /\ target.id = work[c].id
         \/ target' = target /\ target.id # work[c].id
<1>1. target \in TargetTypes
  BY DEF BackfillInv, BackfillTypes
<1>2. CASE target.id = work[c].id
  <2>1. target' = [target EXCEPT !.exec = c, !.state = "running", !.run = NoRun]
    BY <1>2 DEF Resume
  <2> QED
    BY <1>1, <1>2, <2>1 DEF TargetTypes
<1>3. CASE target.id # work[c].id
  BY <1>3 DEF Resume
<1> QED
  BY <1>2, <1>3

(* So does a call that writes a new one: nobody has read it yet. *)
LEMMA WriteTokens ==
  ASSUME BackfillInv, LeasesInv, TokensInv, NEW c \in Calls, Create(c) \/ Resume(c)
  PROVE  TokensInv'
<1> USE DEF Goto, At
<1>1. /\ \A d \in Calls \ {c} : pc'[d] = pc[d]
      /\ pc[c] = "writing" /\ pc'[c] = "dispatching" /\ work' = work
      /\ \A d \in Calls : pc[d] \notin Early => pc'[d] \notin Early
      /\ \A d \in Calls : work[d].exec \in Calls \union {NoCall}
      /\ target.exec \in Calls \union {NoCall}
  BY WorkShape DEF Create, Resume, WorkTypes, Early
<1>2. /\ \A d \in Calls : work[d].exec # c
      /\ target.exec # c
      /\ work[c].exec = NoCall
      /\ c \in Starts => work[c].id = c
      /\ c # NoCall
  BY <1>1, CallsAssumption DEF TokensInv, TokenOf, Early
<1>3. ASSUME NEW d \in Calls \ {c}
      PROVE  ~Leased(d) /\ pc[d] # "dispatching" /\ pc[d] \notin Going
  <2>1. lock = c
    BY <1>1 DEF LeasesInv, Leased, Over
  <2>2. ~Leased(d)
    BY <2>1 DEF LeasesInv
  <2> QED
    BY <2>2 DEF Leased, Over, Going, Reaching
<1>4. \/ target'.exec = c /\ target'.id = work[c].id
      \/ target' = target /\ target.id # work[c].id
  <2>1. CASE Create(c)
    <3>1. target.id # c
      BY <1>1, <1>2 DEF BackfillInv, Named, Written, Early
    <3> QED
      BY <1>2, <2>1, <3>1 DEF Create
  <2>2. CASE Resume(c)
    BY <2>2, ResumeEffect
  <2> QED
    BY <2>1, <2>2
<1>5. target'.exec # NoCall => pc'[target'.exec] \notin Early
  BY <1>1, <1>4 DEF TokensInv, Early
<1>6. TokenOf(c)'
  BY <1>1, <1>2, <1>4 DEF TokenOf, Mine, Going, Reaching, Early
<1>7. ASSUME NEW d \in Calls \ {c} PROVE TokenOf(d)'
  <2>1. TokenOf(d) /\ ~Leased(d) /\ pc[d] # "dispatching" /\ pc[d] \notin Going
    BY <1>3 DEF TokensInv
  <2>2. pc[d] \notin Reaching /\ work[d].exec # c /\ pc'[d] = pc[d]
    BY <1>1, <1>2, <2>1 DEF Going
  <2>3. ~Leased(d)'
    BY <2>1, <2>2 DEF Leased
  <2>4. Mine(d)' => Mine(d)
    BY <1>1, <1>4, <2>2 DEF Mine
  <2>5. work[d].exec # NoCall => pc'[work[d].exec] \notin Early
    BY <1>1, <2>1 DEF TokenOf
  <2>6. Mine(d)' /\ work[d].exec # NoCall => target'.exec = d
    BY <1>1, <1>4, <2>1, <2>2, <2>4 DEF TokenOf, Mine
  <2> QED
    BY <1>1, <2>1, <2>2, <2>3, <2>5, <2>6 DEF TokenOf
<1> QED
  BY <1>5, <1>6, <1>7 DEF TokensInv

(* A run that owns the provider stays the one it is, and its request to stop stays, too. *)
RunStays == owner' \in started => owner' = owner /\ (stopAsked => stopAsked')

(* No step but the end of a run takes a request to stop back. *)
LEMMA RequestKept == BackfillInv /\ [BackfillNext]_allVars => RunStays
<1> SUFFICES ASSUME BackfillInv, [BackfillNext]_allVars PROVE RunStays
  OBVIOUS
<1> USE DEF RunStays
<1>0. NoRun \notin started
  BY RunShape DEF BackfillInv, RunsInv
<1>1. ASSUME NEW days \in SUBSET Days, BeginRun(days) PROVE RunStays
  BY <1>1, BeginRunEffect DEF BackfillInv, BeginRun
<1>2. ASSUME NEW r, NEW a, EndRun(r, a) PROVE RunStays
  BY <1>0, <1>2 DEF EndRun
<1>3. CASE Evict
  BY <1>0, <1>3 DEF Evict
<1>4. ASSUME NEW r, AskStop(r) \/ Orphan(r) PROVE RunStays
  BY <1>4 DEF AskStop, Orphan
<1>5. CASE UNCHANGED runVars
  BY <1>5 DEF runVars
<1>6. CASE SlotsStep
  <2>1. CASE DayPasses \/ LoseTurn
    BY <2>1, <1>5 DEF DayPasses, LoseTurn
  <2>2. CASE OtherBegins \/ OtherEnds \/ AbandonDead \/ OwnerStalls
    BY <2>2, <1>1, <1>2, <1>3, <1>4, <1>5
       DEF OtherBegins, OtherEnds, AbandonDead, Abandon, OwnerStalls
  <2>3. ASSUME NEW i \in Instances,
               Boot(i) \/ TimeRequest(i) \/ DeferWindow(i) \/ BeginDrain(i) \/ Reserve(i)
               \/ ListPending(i) \/ TakeNext(i) \/ EndDrain(i) \/ CompleteWindow(i)
               \/ DrainFails(i) \/ Restart(i) \/ WindowFails(i) \/ WindowRefused(i)
               \/ \E p \in Policies : FireCron(i, p)
        PROVE  RunStays
    BY <2>3, <1>4, <1>5
       DEF Boot, TimeRequest, DeferWindow, BeginDrain, Reserve, ListPending, TakeNext, EndDrain,
           CompleteWindow, DrainFails, Restart, WindowFails, WindowRefused, FireCron, Busy
  <2>4. ASSUME NEW i \in Instances, StartWindow(i) PROVE RunStays
    BY <2>4, <1>1, SlotsAssumption DEF StartWindow, BackfillInv, JobsInv
  <2>5. ASSUME NEW i \in Instances, EndWindow(i) PROVE RunStays
    BY <2>5, <1>2, <1>5 DEF EndWindow
  <2> QED
    BY <1>6, <2>1, <2>2, <2>3, <2>4, <2>5 DEF SlotsStep, SlotsNext, ThreadStep
<1>7. CASE LoseLease \/ UNCHANGED allVars
  BY <1>5, <1>7 DEF LoseLease, World, allVars
<1>8. ASSUME NEW c \in Calls, StartMonth(c) PROVE RunStays
  <2>1. work[c].month \in Months
    BY <1>8 DEF BackfillInv, Knows, StartMonth, At, WithMonth
  <2> QED
    BY <1>1, <1>8, <2>1, CallsAssumption DEF StartMonth
<1>9. ASSUME NEW c \in Calls, ExecuteRun(c) \/ CancelRun(c) PROVE RunStays
  BY <1>2, <1>5, <1>9 DEF ExecuteRun, CancelRun
<1>10. ASSUME NEW c \in Calls,
             AskFor(c) \/ Lease(c) \/ Check(c) \/ Create(c) \/ Resume(c) \/ Dispatch(c)
             \/ CheckLease(c) \/ ReadEnd(c) \/ ReadMonth(c) \/ WriteEnd(c) \/ Decide(c)
             \/ Advance(c) \/ CheckTurn(c) \/ Wait(c) \/ WakeUp(c) \/ MonthRefused(c)
             \/ CheckOwned(c) \/ Attach(c) \/ Recheck(c) \/ Judge(c) \/ CloseFailing(c)
             \/ WriteFailure(c) \/ Close(c) \/ DispatchFails(c) \/ Interrupted(c)
       PROVE RunStays
  <2>1. UNCHANGED runVars
    BY <1>10 DEF AskFor, Lease, Check, Create, Resume, Dispatch, CheckLease, ReadEnd, ReadMonth,
       WriteEnd, Decide, Advance, CheckTurn, Wait, WakeUp, MonthRefused, CheckOwned, Attach,
       Recheck, Judge, CloseFailing, WriteFailure, Close, DispatchFails, Interrupted, Busy, World
  <2> QED
    BY <1>5, <2>1
<1>11. ASSUME NEW c \in Calls, AskOwnRun(c) \/ WorkFails(c) \/ CallCrashes(c) PROVE RunStays
  BY <1>4, <1>5, <1>11 DEF AskOwnRun, WorkFails, CallCrashes
<1>12. ASSUME NEW s \in Stops, StopStep(s) PROVE RunStays
  BY <1>4, <1>5, <1>12 DEF StopStep, StopReads, StopMarks, StopLooks, StopSettles, StopRereads,
     StopRequests, World
<1> QED
  BY <1>6, <1>7, <1>8, <1>9, <1>10, <1>11, <1>12 DEF BackfillNext, CallStep

(* A worker cannot get past a stop of its execution: it gives up, or asks its run to stop. *)
LEMMA WorksStop ==
  ASSUME BackfillInv, StopTypes, LeasesInv, TokensInv, RunStays, NEW c \in Calls, Works(c),
         NEW s \in Stops, StopOf(s)
  PROVE  StopOf(s)'
<1> DEFINE e == target.exec
<1>1. /\ \A d \in Calls \ {c} : pc'[d] = pc[d] /\ work'[d] = work[d]
      /\ \A d \in Calls : pc[d] \notin Early => pc'[d] \notin Early
      /\ target.exec \in Calls \union {NoCall}
      /\ target'.id = target.id /\ target'.exec = target.exec
      /\ UNCHANGED <<stopping, asked>>
      /\ OnlyStop(s)' <=> OnlyStop(s)
  BY WorkShape DEF Works, OnlyStop
<1>2. asked[s].exec # NoCall => stopping[s] \notin {"idle", "marking"}
  BY DEF StopOf
<1>3. ASSUME asked[s].exec # NoCall PROVE pc'[asked[s].exec] \notin Early
  BY <1>3, <1>1 DEF StopOf, StopTypes
<1>4. ASSUME asked[s].exec # NoCall, asked[s].exec = e, OnlyStop(s)
      PROVE  Reaches(s)'
  <2>1. Reaches(s) /\ e \in Calls /\ pc[e] \notin Early
    BY <1>1, <1>4 DEF StopOf
  <2>2. TokenOf(c) /\ TokenOf(e)
    BY <2>1 DEF TokensInv
  <2>3. Mine(c) => c = e
    BY <2>1, <2>2, CallsAssumption DEF TokenOf, Mine
  <2>4. pc[e] \in Over => pc'[e] \in Over
    BY <1>1, <2>1 DEF Works
  <2>5. pc'[e] \in Going \union {"dispatching"} => target'.state = "stopping"
    BY <1>1, <2>1, <2>3 DEF Works, Reaches
  <2>6. ASSUME pc'[e] = "executing", owner' = work'[e].run
        PROVE  \/ stopAsked'
               \/ stopping[s] \in {"looking", "rereading"}
               \/ stopping[s] = "requesting" /\ asked[s].run = work'[e].run
    <3>1. pc'[e] \in Reaching
      BY <2>6 DEF Reaching
    <3>2. work'[e].run = work[e].run
      BY <1>1, <2>1, <3>1 DEF Works
    <3>3. CASE e # c
      <4>1. pc[e] = "executing" /\ owner' = work[e].run
        BY <1>1, <2>1, <2>6, <3>2, <3>3
      <4>2. work[e].run \in started
        BY <2>1, <4>1 DEF BackfillInv, Knows, WithRun
      <4>3. owner' = owner /\ (stopAsked => stopAsked')
        BY <4>1, <4>2 DEF RunStays
      <4> QED
        BY <2>1, <3>2, <4>1, <4>3 DEF Reaches
    <3>4. CASE e = c
      <4>1. CASE pc[c] = "rechecking" /\ State # "stopping"
        <5>1. lock = c /\ c # NoCall
          BY <4>1, CallsAssumption DEF LeasesInv, Leased, Over
        <5>2. target.state = "stopping"
          BY <2>1, <3>4, <4>1 DEF Reaches, Going, Reaching
        <5> QED
          BY <4>1, <5>1, <5>2 DEF State
      <4>2. CASE owner' = work[c].run => stopAsked'
        BY <2>6, <3>2, <3>4, <4>2
      <4> QED
        BY <2>6, <3>4, <4>1, <4>2 DEF Works
    <3> QED
      BY <3>3, <3>4
  <2> QED
    BY <1>1, <2>1, <2>4, <2>5, <2>6 DEF Reaches
<1> QED
  BY <1>1, <1>2, <1>3, <1>4 DEF StopOf

(* A call that asks, reads its token or writes a new one is not stopped meanwhile. *)
LEMMA CommandStop ==
  ASSUME BackfillInv, StopTypes, TokensInv, RunStays, NEW c \in Calls,
         AskFor(c) \/ Create(c) \/ Resume(c) \/ Dispatch(c) \/ DispatchFails(c),
         NEW s \in Stops, StopOf(s)
  PROVE  StopOf(s)'
<1> USE DEF Goto, Set, At
<1>1. /\ pc' = [pc EXCEPT ![c] = pc'[c]] /\ work' = [work EXCEPT ![c] = work'[c]]
      /\ UNCHANGED <<stopping, asked>>
      /\ \A d \in Calls : pc[d] \notin Early => pc'[d] \notin Early
      /\ pc'[c] \in Going \union {"dispatching"} => pc[c] \in {"writing", "dispatching"}
      /\ pc[c] \notin Over
      /\ pc'[c] # "executing"
      /\ OnlyStop(s)' <=> OnlyStop(s)
  BY WorkShape DEF AskFor, Create, Resume, Dispatch, DispatchFails, Unmoved, Early, Going,
     Reaching, Over, OnlyStop
<1>2. asked[s].exec # NoCall => stopping[s] \notin {"idle", "marking"}
  BY DEF StopOf
<1>3. ASSUME asked[s].exec # NoCall PROVE pc'[asked[s].exec] \notin Early
  BY <1>3, <1>1 DEF StopOf, StopTypes
<1>4. ASSUME asked[s].exec # NoCall, asked[s].exec = target'.exec, OnlyStop(s)
      PROVE  Reaches(s)'
  <2>1. target' = target
    <3>1. pc[c] = "writing" => asked[s].exec # c
      BY <1>4 DEF StopOf, Early
    <3>2. target' = target \/ (target'.exec = c /\ pc[c] = "writing")
      <4>1. CASE Create(c)
        BY <4>1 DEF Create
      <4>2. CASE Resume(c)
        BY <4>2, ResumeEffect DEF Resume
      <4> QED
        BY <4>1, <4>2 DEF AskFor, Dispatch, DispatchFails
    <3> QED
      BY <1>4, <3>1, <3>2
  <2>2. Reaches(s) /\ target.exec \in Calls /\ pc[target.exec] \notin Early
    BY <1>4, <2>1, WorkShape DEF StopOf
  <2>3. CASE target.exec = c
    BY <1>1, <2>1, <2>2, <2>3, WorkShape DEF Reaches, Early
  <2>4. CASE target.exec # c
    <3>1. pc'[target.exec] = pc[target.exec] /\ work'[target.exec] = work[target.exec]
      BY <1>1, <2>2, <2>4, WorkShape
    <3>2. ASSUME pc[target.exec] = "executing", owner' = work[target.exec].run
          PROVE  owner' = owner /\ (stopAsked => stopAsked')
      <4>1. work[target.exec].run \in started
        BY <2>2, <3>2 DEF BackfillInv, Knows, WithRun
      <4> QED
        BY <3>2, <4>1 DEF RunStays
    <3> QED
      BY <1>1, <2>1, <2>2, <3>1, <3>2 DEF Reaches
  <2> QED
    BY <2>3, <2>4
<1> QED
  BY <1>1, <1>2, <1>3, <1>4 DEF StopOf

(* The steps of the only stop: mark, look for a worker, settle, read the run, ask it to stop. *)
LEMMA StopAdvances ==
  ASSUME BackfillInv, StopTypes, LeasesInv, TokensInv, RunStays, NEW s \in Stops, StopStep(s),
         StopOf(s)
  PROVE  StopOf(s)'
<1> DEFINE e == target.exec
<1> USE DEF StopAt, StopGoto
<1>1. /\ UNCHANGED <<pc, work, lock, losses>>
      /\ DOMAIN stopping = Stops /\ DOMAIN asked = Stops
      /\ asked[s] \in [id : Calls \union {NoCall}, exec : Calls \union {NoCall},
                       run : Runs \union {NoRun}]
      /\ e \in Calls \union {NoCall}
  <2>1. UNCHANGED <<pc, work, lock, losses>>
    BY DEF StopStep, StopReads, StopMarks, StopLooks, StopSettles, StopRereads, StopRequests, Rest
  <2> QED
    BY <2>1 DEF StopTypes, BackfillInv, BackfillTypes, TargetTypes
<1>2. UNCHANGED owner
  BY DEF StopStep, StopReads, StopMarks, StopLooks, StopSettles, StopRereads, StopRequests,
         World, runVars, AskStop
<1>3. ASSUME asked[s].exec # NoCall, OnlyStop(s)', asked[s].exec = e PROVE Reaches(s) /\ e \in Calls
  <2>1. OnlyStop(s)
    BY <1>1, <1>3 DEF OnlyStop, StopStep, StopReads, StopMarks, StopLooks, StopSettles,
       StopRereads, StopRequests
  <2> QED
    BY <1>1, <1>3, <2>1 DEF StopOf
<1>4. CASE StopReads(s)
  <2>1. asked[s].exec = NoCall
    BY <1>4 DEF StopOf, StopReads
  <2>2. asked'[s].exec = NoCall
    BY <1>1, <1>4, <2>1 DEF StopReads
  <2> QED
    BY <2>2 DEF StopOf
<1>5. CASE StopMarks(s)
  <2>1. stopping'[s] = "looking" /\ asked[s].exec = NoCall
    BY <1>1, <1>5 DEF StopOf, StopMarks
  <2>2. CASE target.id = asked[s].id /\ target.state # "completed"
    <3>1. target' = [target EXCEPT !.state = "stopping"]
          /\ asked' = [asked EXCEPT ![s].exec = e]
      BY <1>5, <2>2 DEF StopMarks
    <3>2. /\ asked'[s].exec = e /\ asked'[s].id = target.id
          /\ target'.exec = e /\ target'.id = target.id /\ target'.state = "stopping"
      BY <1>1, <2>2, <3>1 DEF BackfillInv, BackfillTypes, TargetTypes
    <3>3. e # NoCall => pc[e] \notin Early
      BY DEF TokensInv
    <3> QED
      BY <1>1, <2>1, <3>2, <3>3 DEF StopOf, Reaches
  <2>3. CASE ~(target.id = asked[s].id /\ target.state # "completed")
    BY <1>5, <2>1, <2>3 DEF StopMarks, StopOf
  <2> QED
    BY <2>2, <2>3
<1>6. CASE StopLooks(s) \/ StopSettles(s) \/ StopRereads(s) \/ StopRequests(s)
  <2>1. asked'[s].exec = asked[s].exec /\ asked'[s].id = asked[s].id
    BY <1>1, <1>6 DEF StopLooks, StopSettles, StopRereads, StopRequests
  <2>2. target'.exec = e /\ target'.id = target.id /\ target'.run = target.run
    BY <1>6 DEF StopLooks, StopSettles, StopRereads, StopRequests, BackfillInv, BackfillTypes,
                TargetTypes
  <2>3. stopping'[s] \notin {"idle", "marking"}
    BY <1>1, <1>6 DEF StopLooks, StopSettles, StopRereads, StopRequests
  <2>4. asked[s].exec # NoCall => pc'[asked[s].exec] \notin Early
    BY <1>1 DEF StopOf
  <2>5. ASSUME asked[s].exec # NoCall, asked[s].exec = e, OnlyStop(s)'
        PROVE  Reaches(s)'
    <3>1. /\ Reaches(s) /\ e \in Calls /\ TokenOf(e) /\ pc[e] \notin Early
          /\ (lock = e <=> Leased(e))
      BY <1>3, <2>5 DEF TokensInv, LeasesInv, StopOf
    <3>2. CASE StopLooks(s)
      <4>1. stopping'[s] = (IF lock = NoCall THEN "settling" ELSE "rereading")
            /\ target' = target /\ stopAsked' = stopAsked
        BY <1>1, <3>2 DEF StopLooks, World, runVars
      <4>2. lock = NoCall => pc[e] \in Over
        BY <3>1, CallsAssumption DEF Leased, Early
      <4>3. pc[e] = "executing" => stopping'[s] = "rereading"
        BY <4>1, <4>2 DEF Over
      <4> QED
        BY <1>1, <1>2, <2>1, <3>1, <4>1, <4>2, <4>3 DEF Reaches
    <3>3. CASE StopSettles(s)
      <4>1. stopping[s] = "settling" /\ stopping'[s] = "rereading" /\ stopAsked' = stopAsked
        BY <1>1, <3>3 DEF StopSettles, World, runVars
      <4>2. pc[e] \in Over
        BY <3>1, <4>1 DEF Reaches
      <4> QED
        BY <1>1, <1>2, <2>1, <2>2, <3>1, <4>1, <4>2 DEF Reaches, Over, Going, Reaching
    <3>4. CASE StopRereads(s)
      <4>1. /\ target' = target /\ stopAsked' = stopAsked
            /\ asked'[s].run = target.run
            /\ stopping'[s] = (IF target.run = NoRun THEN "done" ELSE "requesting")
        BY <1>1, <3>1, <3>4 DEF StopRereads, World, runVars, Reaches
      <4>2. pc[e] = "executing" => target.run = work[e].run /\ work[e].run # NoRun
        BY <2>5, <3>1, RunShape DEF TokenOf, Reaching, BackfillInv, Knows, WithRun, RunsInv
      <4> QED
        BY <1>1, <1>2, <2>1, <3>1, <4>1, <4>2 DEF Reaches
    <3>5. CASE StopRequests(s)
      <4>1. /\ target' = target /\ stopping[s] = "requesting" /\ stopping'[s] = "done"
            /\ stopAsked' = (stopAsked \/ (owner = asked[s].run /\ owner # NoRun))
        BY <1>1, <3>5 DEF StopRequests, AskStop
      <4>2. pc[e] = "executing" => work[e].run # NoRun
        BY <3>1, RunShape DEF BackfillInv, Knows, WithRun, RunsInv
      <4>3. pc[e] = "executing" /\ owner = work[e].run => stopAsked'
        BY <3>1, <4>1, <4>2 DEF Reaches
      <4> QED
        BY <1>1, <1>2, <2>1, <3>1, <4>1, <4>3 DEF Reaches
    <3> QED
      BY <1>6, <3>2, <3>3, <3>4, <3>5
  <2> QED
    BY <2>1, <2>2, <2>3, <2>4, <2>5 DEF StopOf
<1> QED
  BY <1>4, <1>5, <1>6 DEF StopStep

(* The steps of another one: then it is not the only one any more. *)
LEMMA OtherAdvances ==
  ASSUME StopTypes, NEW s \in Stops, StopOf(s), NEW r \in Stops \ {s}, StopStep(r)
  PROVE  StopOf(s)'
<1> USE DEF StopAt, StopGoto
<1>1. UNCHANGED pc /\ stopping'[s] = stopping[s] /\ asked'[s] = asked[s]
  BY DEF StopStep, StopReads, StopMarks, StopLooks, StopSettles, StopRereads, StopRequests, Rest,
         StopTypes
<1>2. stopping'[r] # "idle"
  BY DEF StopStep, StopReads, StopMarks, StopLooks, StopSettles, StopRereads, StopRequests,
         StopTypes
<1> QED
  BY <1>1, <1>2 DEF StopOf, OnlyStop

(* A step that touches neither the target, a call nor a stop. *)
LEMMA StopUntouched ==
  ASSUME BackfillInv, TokensInv, RunStays, UNCHANGED <<target, pc, work, stopping, asked>>,
         NEW s \in Stops, StopOf(s)
  PROVE  StopOf(s)'
<1>1. ASSUME target.exec \in Calls, pc[target.exec] = "executing", owner' = work[target.exec].run
      PROVE  owner' = owner /\ (stopAsked => stopAsked')
  <2>1. work[target.exec].run \in started
    BY <1>1 DEF BackfillInv, Knows, WithRun
  <2> QED
    BY <1>1, <2>1 DEF RunStays
<1>2. target.exec \in Calls \union {NoCall}
  BY DEF BackfillInv, BackfillTypes, TargetTypes
<1> QED
  BY <1>1, <1>2 DEF StopOf, Reaches, OnlyStop

(* Every step keeps the types, and no step gives a lost session back. *)
LEMMA StopTypesKept ==
  ASSUME BackfillInv, StopTypes, [BackfillNext]_allVars
  PROVE  StopTypes' /\ (losses' = 0 => losses = 0 /\ ~LoseLease)
<1> USE DEF StopTypes
<1>1. CASE LoseLease
  BY <1>1 DEF LoseLease
<1>2. CASE SlotsStep \/ UNCHANGED allVars
  BY <1>2 DEF SlotsStep, LoseLease, allVars, backfillVars
<1>3. ASSUME NEW c \in Calls,
             AskFor(c) \/ CallStep(c) \/ DispatchFails(c) \/ WorkFails(c) \/ Interrupted(c)
             \/ CallCrashes(c)
      PROVE  UNCHANGED <<stopping, asked, losses>>
  <2>1. CASE AskFor(c) \/ DispatchFails(c) \/ WorkFails(c) \/ Interrupted(c) \/ CallCrashes(c)
    BY <2>1 DEF AskFor, DispatchFails, WorkFails, Interrupted, CallCrashes, Unmoved
  <2>2. CASE Lease(c) \/ Check(c) \/ Create(c) \/ Resume(c) \/ Dispatch(c) \/ CheckLease(c)
             \/ ReadEnd(c) \/ ReadMonth(c) \/ WriteEnd(c) \/ Decide(c) \/ Advance(c)
    BY <2>2 DEF Lease, Check, Create, Resume, Dispatch, CheckLease, ReadEnd, ReadMonth, WriteEnd,
       Decide, Advance, Unmoved
  <2>3. CASE CheckTurn(c) \/ Wait(c) \/ WakeUp(c) \/ StartMonth(c) \/ MonthRefused(c)
             \/ CheckOwned(c) \/ Attach(c) \/ Recheck(c) \/ AskOwnRun(c)
    BY <2>3 DEF CheckTurn, Wait, WakeUp, StartMonth, MonthRefused, CheckOwned, Attach, Recheck,
       AskOwnRun, Unmoved
  <2>4. CASE CancelRun(c) \/ ExecuteRun(c) \/ Judge(c) \/ CloseFailing(c) \/ WriteFailure(c)
             \/ Close(c)
    BY <2>4 DEF CancelRun, ExecuteRun, Judge, CloseFailing, WriteFailure, Close, Unmoved
  <2> QED
    BY <1>3, <2>1, <2>2, <2>3, <2>4 DEF CallStep
<1>4. ASSUME NEW s \in Stops, StopStep(s)
      PROVE  StopTypes' /\ losses' = losses
  <2>1. target.id \in Calls \union {NoCall} /\ target.exec \in Calls \union {NoCall}
        /\ target.run \in Runs \union {NoRun}
    BY DEF BackfillInv, BackfillTypes, TargetTypes
  <2>2. DOMAIN stopping' = Stops /\ losses' = losses
    BY <1>4 DEF StopStep, StopReads, StopMarks, StopLooks, StopSettles, StopRereads,
                StopRequests, StopGoto, Rest
  <2>3. \/ asked' = asked
        \/ asked' = [asked EXCEPT ![s].id = target.id]
        \/ asked' = [asked EXCEPT ![s].exec = target.exec]
        \/ asked' = [asked EXCEPT ![s].run = target.run]
    BY <1>4 DEF StopStep, StopReads, StopMarks, StopLooks, StopSettles, StopRereads, StopRequests
  <2> QED
    BY <2>1, <2>2, <2>3
<1>5. ASSUME NEW c \in Calls,
             AskFor(c) \/ CallStep(c) \/ DispatchFails(c) \/ WorkFails(c) \/ Interrupted(c)
             \/ CallCrashes(c)
      PROVE  StopTypes' /\ losses' = losses
  BY <1>3, <1>5
<1>6. LoseLease => losses' # 0
  BY DEF LoseLease
<1> QED
  BY <1>1, <1>2, <1>4, <1>5, <1>6 DEF BackfillNext

(* Every step keeps the invariant of the stops. *)
LEMMA StopInvStep == BackfillInv /\ StopInv /\ [BackfillNext]_allVars => StopInv'
<1> SUFFICES ASSUME BackfillInv, StopInv, [BackfillNext]_allVars PROVE StopInv'
  OBVIOUS
<1>1. StopTypes /\ StopTypes' /\ (losses' = 0 => losses = 0 /\ ~LoseLease)
  BY StopTypesKept DEF StopInv
<1>2. ASSUME losses' = 0 PROVE LeasesInv' /\ TokensInv' /\ \A s \in Stops : StopOf(s)'
  <2>1. LeasesInv /\ TokensInv /\ (\A s \in Stops : StopOf(s)) /\ ~LoseLease /\ RunStays
    BY <1>1, <1>2, RequestKept DEF StopInv
  <2>2. CASE SlotsStep \/ UNCHANGED allVars
    <3>1. UNCHANGED <<target, lock, pc, work, stopping, asked>>
      BY <2>2 DEF SlotsStep, allVars, backfillVars
    <3>2. LeasesInv' /\ TokensInv'
      BY <2>1, <3>1 DEF LeasesInv, Leased, TokensInv, TokenOf, Mine
    <3> QED
      BY <2>1, <3>1, <3>2, StopUntouched
  <2>3. ASSUME NEW c \in Calls,
               AskFor(c) \/ CallStep(c) \/ DispatchFails(c) \/ WorkFails(c) \/ Interrupted(c)
               \/ CallCrashes(c)
        PROVE  LeasesInv' /\ TokensInv' /\ \A s \in Stops : StopOf(s)'
    <3>1. LeasesInv'
      BY <2>1, <2>3, LeasesKept
    <3>2. CASE AskFor(c) \/ Dispatch(c) \/ DispatchFails(c)
      BY <1>1, <2>1, <3>1, <3>2, ReadTokens, CommandStop
    <3>3. CASE Create(c) \/ Resume(c)
      BY <1>1, <2>1, <3>1, <3>3, WriteTokens, CommandStop
    <3>4. CASE Works(c)
      BY <1>1, <2>1, <3>1, <3>4, WorksTokens, WorksStop
    <3> QED
      BY <2>3, <3>2, <3>3, <3>4, CommandWorks, LoopWorks, RunWorks DEF CallStep
  <2>4. ASSUME NEW r \in Stops, StopStep(r)
        PROVE  LeasesInv' /\ TokensInv' /\ \A s \in Stops : StopOf(s)'
    <3>1. UNCHANGED <<lock, pc, work>> /\ target'.id = target.id /\ target'.exec = target.exec
          /\ target'.run = target.run
      BY <2>4 DEF StopStep, StopReads, StopMarks, StopLooks, StopSettles, StopRereads,
                  StopRequests, Rest, BackfillInv, BackfillTypes, TargetTypes
    <3>2. LeasesInv' /\ TokensInv'
      BY <2>1, <3>1 DEF LeasesInv, Leased, TokensInv, TokenOf, Mine
    <3>3. \A s \in Stops : StopOf(s)'
      BY <1>1, <2>1, <2>4, StopAdvances, OtherAdvances
    <3> QED
      BY <3>2, <3>3
  <2> QED
    BY <2>1, <2>2, <2>3, <2>4 DEF BackfillNext
<1> QED
  BY <1>1, <1>2 DEF StopInv

(* While no session is lost, one call at work holds the lock, and what the target says of its    *)
(* execution is what its worker knows.                                                           *)
THEOREM StopInvariant == BackfillSpec => []StopInv
  BY InitStopInv, StopInvStep, BackfillInvariant, PTL DEF BackfillSpec

(* HistoricalBackfillService: the only stop of an execution reaches the run that its worker      *)
(* executes, whether it falls before the run, between its start and its attachment, or after.    *)
THEOREM StopReaches == BackfillSpec => []StopReachesRun
<1>1. StopInv => StopReachesRun
  <2> SUFFICES ASSUME StopInv, NEW s \in Stops, NEW c \in Calls, losses = 0, OnlyStop(s),
                      stopping[s] = "done", asked[s].exec = c, target.exec = c,
                      pc[c] = "executing", owner = work[c].run
               PROVE  stopAsked
    BY DEF StopReachesRun
  <2>1. Reaches(s)
    BY CallsAssumption DEF StopInv, StopOf
  <2> QED
    BY <2>1 DEF Reaches
<1> QED
  BY <1>1, StopInvariant, PTL

-----------------------------------------------------------------------------
(* A worker writes over its own execution only.                            *)

(* A step of a call, other than the write of its command, leaves the target alone unless the   *)
(* target names the execution that this call began; and it stays that execution.                 *)
WritesOwn ==
    \A c \in Calls :
        losses = 0 /\ pc'[c] # pc[c] /\ pc[c] # "writing" /\ target' # target
          => target.exec = c /\ target'.id = target.id /\ target'.exec = c

(* A call past its beginning names a target, and a target has an execution. *)
NamesInv ==
    /\ target.exec = NoCall => target.id = NoCall
    /\ \A c \in Calls : pc[c] \in {"idle", "done", "crashed"} \/ work[c].id # NoCall

(* A call's steps that leave its name and the execution of the target alone. *)
LEMMA NamesKept ==
  ASSUME BackfillInv, NamesInv, NEW c \in Calls, Works(c),
         work'[c] = NoWork => pc'[c] \in {"done", "crashed"},
         pc[c] \in {"idle", "done", "crashed"} => pc'[c] \in {"done", "crashed"}
  PROVE  NamesInv'
<1>1. target'.exec = NoCall => target'.id = NoCall
  BY DEF Works, NamesInv
<1>2. \A d \in Calls \ {c} : pc'[d] = pc[d] /\ work'[d] = work[d]
  BY WorkShape DEF Works
<1>3. pc'[c] \in {"idle", "done", "crashed"} \/ work'[c].id # NoCall
  BY DEF Works, NamesInv
<1> QED
  BY <1>1, <1>2, <1>3 DEF NamesInv

(* The invariant of names. *)
LEMMA NamesStep == BackfillInv /\ NamesInv /\ [BackfillNext]_allVars => NamesInv'
<1> SUFFICES ASSUME BackfillInv, NamesInv, [BackfillNext]_allVars PROVE NamesInv'
  OBVIOUS
<1>1. CASE SlotsStep \/ LoseLease \/ UNCHANGED allVars
  <2>1. UNCHANGED <<target, pc, work>>
    BY <1>1 DEF SlotsStep, LoseLease, allVars, backfillVars
  <2> QED
    BY <2>1 DEF NamesInv
<1>2. ASSUME NEW s \in Stops, StopStep(s) PROVE NamesInv'
  <2>1. UNCHANGED <<pc, work>>
    BY <1>2 DEF StopStep, StopReads, StopMarks, StopLooks, StopSettles, StopRereads,
                StopRequests, Rest
  <2>2. target' = target \/ \E state \in {"stopping", "stopped"} :
                                target' = [target EXCEPT !.state = state]
    BY <1>2 DEF StopStep, StopReads, StopMarks, StopLooks, StopSettles, StopRereads,
                StopRequests
  <2>3. target'.id = target.id /\ target'.exec = target.exec
    BY <2>2 DEF BackfillInv, BackfillTypes, TargetTypes
  <2> QED
    BY <2>1, <2>3 DEF NamesInv
<1>3. ASSUME NEW c \in Calls, AskFor(c) PROVE NamesInv'
  <2>1. c # NoCall
    BY CallsAssumption
  <2> QED
    BY <1>3, <2>1, WorkShape DEF AskFor, Set, Goto, NoWork, NamesInv
<1>4. ASSUME NEW c \in Calls, Create(c) \/ Resume(c) PROVE NamesInv'
  <2>1. c # NoCall
    BY CallsAssumption
  <2>2. target'.exec = NoCall => target'.id = NoCall
    <3>1. target \in TargetTypes /\ (target.exec = NoCall => target.id = NoCall)
      BY DEF NamesInv, BackfillInv, BackfillTypes
    <3>2. CASE UNCHANGED target
      BY <3>1, <3>2
    <3>3. CASE target' # target
      <4>1. CASE Create(c)
        BY <2>1, <3>3, <4>1 DEF Create
      <4>2. CASE Resume(c)
        BY <2>1, <3>1, <3>3, <4>2 DEF Resume, TargetTypes
      <4> QED
        BY <1>4, <4>1, <4>2
    <3> QED
      BY <3>2, <3>3
  <2>3. work' = work /\ pc[c] = "writing" /\ \A d \in Calls : pc'[d] = pc[d] \/ d = c
    BY <1>4, WorkShape DEF Create, Resume, Goto, At
  <2> QED
    BY <2>2, <2>3 DEF NamesInv
<1>5. ASSUME NEW c \in Calls, Dispatch(c) \/ DispatchFails(c) PROVE NamesInv'
  <2>1. UNCHANGED target /\ pc[c] = "dispatching" /\ work'[c].id = work[c].id
    BY <1>5, WorkShape DEF Dispatch, DispatchFails, Set, At, WorkTypes
  <2>2. \A d \in Calls \ {c} : pc'[d] = pc[d] /\ work'[d] = work[d]
    BY <1>5, WorkShape DEF Dispatch, DispatchFails, Set, Goto
  <2> QED
    BY <2>1, <2>2 DEF NamesInv
<1>6. ASSUME NEW c \in Calls,
             \/ CallStep(c) /\ ~(Create(c) \/ Resume(c) \/ Dispatch(c))
             \/ WorkFails(c) \/ Interrupted(c) \/ CallCrashes(c)
      PROVE  NamesInv'
  <2>1. Works(c)
    BY <1>6, CommandWorks, LoopWorks, RunWorks DEF CallStep
  <2>2. pc[c] \notin {"idle", "done", "crashed"}
    BY <1>6 DEF CallStep, At, Lease, Check, CheckLease, ReadEnd, ReadMonth, WriteEnd, Decide,
                Advance, CheckTurn, Wait, WakeUp, StartMonth, MonthRefused, CheckOwned, Attach,
                Recheck, AskOwnRun, CancelRun, ExecuteRun, Judge, CloseFailing, WriteFailure,
                Close, WorkFails, Interrupted, CallCrashes
  <2>3. CASE WriteFailure(c) \/ Close(c) \/ CallCrashes(c)
    <3>1. pc'[c] \in {"done", "crashed"}
      BY <2>3, WorkShape DEF WriteFailure, Close, CallCrashes, Goto
    <3> QED
      BY <2>1, <2>2, <3>1, NamesKept
  <2>4. CASE ~(WriteFailure(c) \/ Close(c) \/ CallCrashes(c))
    <3>1. work'[c].id = work[c].id
      BY <1>6, <2>4, WorkShape
         DEF CallStep, Lease, Check, CheckLease, ReadEnd, ReadMonth, WriteEnd, Decide, Advance,
             CheckTurn, Wait, WakeUp, StartMonth, MonthRefused, CheckOwned, Attach, Recheck,
             AskOwnRun, CancelRun, ExecuteRun, Judge, CloseFailing, WorkFails, Interrupted, Set,
             WorkTypes
    <3>2. work'[c] # NoWork
      BY <2>2, <3>1 DEF NamesInv, NoWork
    <3> QED
      BY <2>1, <2>2, <3>2, NamesKept
  <2> QED
    BY <2>3, <2>4
<1> QED
  BY <1>1, <1>2, <1>3, <1>4, <1>5, <1>6 DEF BackfillNext, CallStep

(* state(), attach() and advance() write only over the execution that a call was dispatched for. *)
LEMMA WritesAreFenced ==
  ASSUME BackfillInv, NEW c \in Calls, target' # target, pc[c] # "writing",
         CallStep(c) \/ WorkFails(c) \/ Interrupted(c) \/ CallCrashes(c) \/ DispatchFails(c)
         \/ AskFor(c)
  PROVE  /\ Mine(c) /\ target'.id = target.id /\ target'.exec = target.exec
         /\ pc[c] \notin {"idle", "done", "crashed"}
<1> USE DEF At, WriteState
<1>1. target \in TargetTypes
  BY DEF BackfillInv, BackfillTypes
<1>2. CASE WriteEnd(c) \/ Wait(c) \/ WriteFailure(c) \/ Interrupted(c)
  BY <1>1, <1>2 DEF WriteEnd, Wait, WriteFailure, Interrupted, TargetTypes
<1>3. CASE Advance(c) \/ Attach(c)
  BY <1>1, <1>3 DEF Advance, Attach, TargetTypes
<1>4. CASE Create(c) \/ Resume(c)
  BY <1>4 DEF Create, Resume
<1> QED
  BY <1>2, <1>3, <1>4
     DEF CallStep, Lease, Check, Dispatch, CheckLease, ReadEnd, ReadMonth, Decide, CheckTurn,
         WakeUp, StartMonth, MonthRefused, CheckOwned, Recheck, AskOwnRun, CancelRun, ExecuteRun,
         Judge, CloseFailing, Close, WorkFails, CallCrashes, DispatchFails, AskFor

(* HistoricalBackfillService: what a worker writes of the target, a state, a run, a checkpoint   *)
(* or a failure, it writes over the execution that its own call began, as long as no session was *)
(* lost.  So does the failure that it writes after its lease is closed, when another call may    *)
(* have resumed the target.  (With a lost session the token that dispatch() reads back from the  *)
(* row can be another's.)                                                                        *)
THEOREM WorkersWriteTheirOwn == BackfillSpec => [][WritesOwn]_allVars
<1>1. BackfillInit => NamesInv
  BY DEF BackfillInit, NoTarget, NamesInv
<1>2. ASSUME BackfillInv, NamesInv, StopInv, [BackfillNext]_allVars PROVE WritesOwn
  <2> SUFFICES ASSUME NEW c \in Calls, losses = 0, pc'[c] # pc[c], pc[c] # "writing",
                      target' # target
               PROVE  target.exec = c /\ target'.id = target.id /\ target'.exec = c
    BY DEF WritesOwn
  <2>1. CallStep(c) \/ WorkFails(c) \/ Interrupted(c) \/ CallCrashes(c) \/ DispatchFails(c)
        \/ AskFor(c)
    <3>1. ASSUME NEW d \in Calls,
                 AskFor(d) \/ CallStep(d) \/ DispatchFails(d) \/ WorkFails(d) \/ Interrupted(d)
                 \/ CallCrashes(d)
          PROVE  pc' = [pc EXCEPT ![d] = pc'[d]]
      BY <3>1, WorkShape
         DEF CallStep, Goto, AskFor, DispatchFails, WorkFails, Interrupted, CallCrashes, Lease,
             Check, Create, Resume, Dispatch, CheckLease, ReadEnd, ReadMonth, WriteEnd, Decide,
             Advance, CheckTurn, Wait, WakeUp, StartMonth, MonthRefused, CheckOwned, Attach,
             Recheck, AskOwnRun, CancelRun, ExecuteRun, Judge, CloseFailing, WriteFailure, Close
    <3>2. \A s \in Stops : StopStep(s) => UNCHANGED pc
      BY DEF StopStep, StopReads, StopMarks, StopLooks, StopSettles, StopRereads, StopRequests,
             Rest
    <3>3. PICK d \in Calls : AskFor(d) \/ CallStep(d) \/ DispatchFails(d) \/ WorkFails(d)
                             \/ Interrupted(d) \/ CallCrashes(d)
      <4>1. ~SlotsStep /\ ~LoseLease /\ ~UNCHANGED allVars
        BY DEF SlotsStep, LoseLease, allVars, backfillVars
      <4> QED
        BY <1>2, <3>2, <4>1 DEF BackfillNext
    <3>4. d = c
      <4>1. pc' = [pc EXCEPT ![d] = pc'[d]] /\ DOMAIN pc = Calls
        BY <1>2, <3>1, <3>3, WorkShape
      <4> QED
        BY <4>1
    <3> QED
      BY <3>3, <3>4
  <2>2. /\ Mine(c) /\ target'.id = target.id /\ target'.exec = target.exec
        /\ pc[c] \notin {"idle", "done", "crashed"}
    BY <1>2, <2>1, WritesAreFenced
  <2>3. work[c].exec # NoCall
    BY <1>2, <2>2 DEF NamesInv, Mine
  <2>4. target.exec = c
    BY <1>2, <2>2, <2>3 DEF StopInv, TokensInv, TokenOf
  <2> QED
    BY <2>2, <2>4
<1>3. BackfillInv /\ NamesInv /\ [BackfillNext]_allVars => NamesInv'
  BY NamesStep
<1> QED
  BY <1>1, <1>2, <1>3, BackfillInvariant, StopInvariant, PTL DEF BackfillSpec
=============================================================================
