------------------------------ MODULE Backfill ------------------------------
(***************************************************************************)
(* The historical backfill: one target, a range of months with a           *)
(* checkpoint, that at most one worker at a time moves forward while it    *)
(* holds an advisory lock; the start, resume and stop commands of          *)
(* operators; and its agreement with the scheduled windows, which have the *)
(* provider before another month has it.                                   *)
(*                                                                         *)
(* A start or resume command becomes the worker it dispatches, so the two  *)
(* are one call.  A step is one statement or one decision between two; the *)
(* two reads of status(), the row and the lock, are one step.  Counters,   *)
(* reasons and times of the row are left out.                              *)
(***************************************************************************)
EXTENDS ScheduledSlots

CONSTANTS
    Calls,      \* calls of start or resume; each is a target id and an execution id
    Starts,     \* the calls of start among them
    Stops,      \* calls of stop
    LastMonth,  \* months are 1..LastMonth
    MaxLosses,  \* bound: ownership sessions of workers lost while they run
    NoCall      \* no call

Months == 1..LastMonth

ASSUME CallsAssumption ==
    /\ Starts \subseteq Calls
    /\ NoCall \notin Calls
    /\ LastMonth \in Nat \ {0}
    /\ Months \subseteq Days
    /\ MaxLosses \in Nat

VARIABLES
    target,    \* the single row of catalogue.historical_backfill
    lock,      \* the call whose session holds the backfill's advisory lock
    pc,        \* where each call is
    work,      \* its locals
    stopping,  \* where each stop command is
    asked,     \* its target, the execution it stopped and the run it read
    losses     \* sessions lost so far

backfillVars == <<target, lock, pc, work, stopping, asked, losses>>

NoTarget == [id |-> NoCall, exec |-> NoCall, state |-> "not_started", from |-> 1, next |-> 1,
             skip |-> FALSE, run |-> NoRun, base |-> 0]
NoWork == [id |-> NoCall, exec |-> NoCall, month |-> 0, run |-> NoRun, result |-> "none"]
NotAsked == [id |-> NoCall, exec |-> NoCall, run |-> NoRun]

BackfillInit ==
    /\ SlotsInit
    /\ target = NoTarget
    /\ lock = NoCall
    /\ pc = [c \in Calls |-> "idle"]
    /\ work = [c \in Calls |-> NoWork]
    /\ stopping = [s \in Stops |-> "idle"]
    /\ asked = [s \in Stops |-> NotAsked]
    /\ losses = 0

-----------------------------------------------------------------------------
(* Reading and writing the target.                                         *)

Active == {"running", "waiting", "stopping"}

(* status(): an active target whose lock nobody holds reads as interrupted. *)
State == IF target.state \in Active /\ lock = NoCall THEN "interrupted" ELSE target.state

Mine(c) == target.id = work[c].id /\ target.exec = work[c].exec

(* state(): written by id and token; a stop in progress gives way only to an end. *)
WriteState(c, state) ==
    IF /\ Mine(c)
       /\ target.state = "stopping" => state \in {"stopped", "interrupted", "attention"}
      THEN target' = [target EXCEPT !.state = state]
      ELSE UNCHANGED target

At(c, place) == pc[c] = place
Goto(c, place) == pc' = [pc EXCEPT ![c] = place]
Set(c, new) == work' = [work EXCEPT ![c] = new]
Unlock(c) == lock' = IF lock = c THEN NoCall ELSE lock

Unmoved == <<stopping, asked, losses>>
World == <<runVars, slotVars>>

-----------------------------------------------------------------------------
(* start() and resume(), up to the dispatch of their worker.               *)

(* resume() names a target it saw; both take the lock or are rejected. *)
AskFor(c) ==
    /\ At(c, "idle")
    /\ IF c \in Starts THEN Set(c, [NoWork EXCEPT !.id = c])
       ELSE target.id # NoCall /\ Set(c, [NoWork EXCEPT !.id = target.id])
    /\ Goto(c, "asked")
    /\ UNCHANGED <<World, target, lock, Unmoved>>

Lease(c) ==
    /\ At(c, "asked")
    /\ IF lock = NoCall
         THEN lock' = c /\ Goto(c, "leased")
         ELSE UNCHANGED lock /\ Goto(c, "done")
    /\ UNCHANGED <<World, target, work, Unmoved>>

MayStart(c) == c \in Starts /\ State \in {"not_started", "completed"}

(* Not over a run of the target that is still recorded as running. *)
MayResume(c) ==
    /\ c \notin Starts
    /\ target.id = work[c].id
    /\ State # "completed"
    /\ target.run = NoRun \/ target.run # owner

Check(c) ==
    /\ At(c, "leased")
    /\ Goto(c, IF MayStart(c) \/ MayResume(c) THEN "writing" ELSE "closing")
    /\ UNCHANGED <<World, target, lock, work, Unmoved>>

(* create(): the first target, or one that replaces a completed one. *)
Create(c) ==
    /\ At(c, "writing")
    /\ c \in Starts
    /\ \E from \in Months, skip \in BOOLEAN :
        target' = IF target.state \in {"not_started", "completed"}
                    THEN [id |-> c, exec |-> c, state |-> "running", from |-> from, next |-> from,
                          skip |-> skip, run |-> NoRun, base |-> Cardinality(started)]
                    ELSE target
    /\ Goto(c, "dispatching")
    /\ UNCHANGED <<World, lock, work, Unmoved>>

(* resume(): a new token; the checkpoint stays. *)
Resume(c) ==
    /\ At(c, "writing")
    /\ c \notin Starts
    /\ target' = IF target.id = work[c].id
                   THEN [target EXCEPT !.exec = c, !.state = "running", !.run = NoRun]
                   ELSE target
    /\ Goto(c, "dispatching")
    /\ UNCHANGED <<World, lock, work, Unmoved>>

(* dispatch() reads the token back from the row and hands over to the executor. *)
Dispatch(c) ==
    /\ At(c, "dispatching")
    /\ Set(c, [work[c] EXCEPT !.exec = target.exec])
    /\ Goto(c, "looping")
    /\ UNCHANGED <<World, target, lock, Unmoved>>

-----------------------------------------------------------------------------
(* The worker.                                                             *)

(* lease.check() *)
CheckLease(c) ==
    /\ At(c, "looping")
    /\ IF lock = c THEN Goto(c, "reading") ELSE Goto(c, "failing")
    /\ UNCHANGED <<World, target, lock, work, Unmoved>>

Continues(c) == Mine(c) /\ State \notin {"stopping", "stopped"}

(* The worker ends: the target is another's, was stopped, or is finished. *)
ReadEnd(c) ==
    /\ At(c, "reading")
    /\ \/ ~Mine(c) /\ Goto(c, "closing")
       \/ Mine(c) /\ ~Continues(c) /\ Goto(c, "ending")
       \/ Continues(c) /\ target.next > LastMonth /\ Goto(c, "finishing")
    /\ UNCHANGED <<World, target, lock, work, Unmoved>>

ReadMonth(c) ==
    /\ At(c, "reading")
    /\ Continues(c)
    /\ target.next <= LastMonth
    /\ Set(c, [work[c] EXCEPT !.month = target.next])
    /\ Goto(c, "deciding")
    /\ UNCHANGED <<World, target, lock, Unmoved>>

(* The states a worker, or a command without one, ends with under its lock. *)
WriteEnd(c) ==
    /\ \/ At(c, "ending") /\ WriteState(c, "stopped")
       \/ At(c, "finishing") /\ WriteState(c, "completed")
       \/ pc[c] \in {"troubled", "rejected"} /\ WriteState(c, "attention")
    /\ Goto(c, "closing")
    /\ UNCHANGED <<World, lock, work, Unmoved>>

(* Skip a covered month, if that is the intent of the target. *)
Decide(c) ==
    /\ At(c, "deciding")
    /\ Goto(c, IF target.skip /\ scan[work[c].month] # NoRun THEN "skipping" ELSE "reserved")
    /\ UNCHANGED <<World, target, lock, work, Unmoved>>

(* advance(): by id, token and a checkpoint that only moves forward. *)
Advance(c) ==
    /\ At(c, "skipping") \/ At(c, "advancing")
    /\ target' = IF Mine(c) /\ target.next < work[c].month + 1
                   THEN [target EXCEPT !.next = work[c].month + 1, !.run = NoRun]
                   ELSE target
    /\ Goto(c, "looping")
    /\ UNCHANGED <<World, lock, work, Unmoved>>

(* scheduledTurnPending(): first the reservation, then the slots. *)
CheckTurn(c) ==
    /\ \/ At(c, "reserved") /\ Goto(c, IF turn # NoOne THEN "waiting" ELSE "pending")
       \/ At(c, "pending") /\ Goto(c, IF Pending # {} THEN "waiting" ELSE "starting")
    /\ UNCHANGED <<World, target, lock, work, Unmoved>>

(* WAITING is recorded, and the worker looks again a second later. *)
Wait(c) ==
    /\ At(c, "waiting")
    /\ WriteState(c, "waiting")
    /\ Goto(c, "pausing")
    /\ UNCHANGED <<World, lock, work, Unmoved>>

WakeUp(c) ==
    /\ At(c, "pausing")
    /\ Goto(c, "looping")
    /\ UNCHANGED <<World, target, lock, work, Unmoved>>

StartMonth(c) ==
    /\ At(c, "starting")
    /\ BeginRun({work[c].month})
    /\ Set(c, [work[c] EXCEPT !.run = owner'])
    /\ Goto(c, "owning")
    /\ UNCHANGED <<slotVars, target, lock, stopping, asked, losses>>

MonthRefused(c) ==
    /\ At(c, "starting")
    /\ Busy
    /\ Goto(c, "waiting")
    /\ UNCHANGED <<slotVars, target, lock, work, Unmoved>>

(* lease.check() before attach(). *)
CheckOwned(c) ==
    /\ At(c, "owning")
    /\ Goto(c, IF lock = c THEN "attaching" ELSE "cancelling")
    /\ UNCHANGED <<World, target, lock, work, Unmoved>>

(* attach(): the run of the month is recorded; a stop in progress stays. *)
Attach(c) ==
    /\ At(c, "attaching")
    /\ target' = IF Mine(c)
                   THEN [target EXCEPT !.run = work[c].run,
                                       !.state = IF @ = "stopping" THEN @ ELSE "running"]
                   ELSE target
    /\ Goto(c, "rechecking")
    /\ UNCHANGED <<World, lock, work, Unmoved>>

(* A bug: a stop that came before the attachment is not looked for. *)
RecheckNothing(c) ==
    /\ At(c, "rechecking")
    /\ Goto(c, "executing")
    /\ UNCHANGED <<World, target, lock, work, Unmoved>>

(* The stop that came between the start of the run and its attachment. *)
Recheck(c) ==
    /\ At(c, "rechecking")
    /\ Goto(c, IF State = "stopping" THEN "asking" ELSE "executing")
    /\ UNCHANGED <<World, target, lock, work, Unmoved>>

AskOwnRun(c) ==
    /\ At(c, "asking")
    /\ AskStop(work[c].run)
    /\ Goto(c, "executing")
    /\ UNCHANGED <<slotVars, target, lock, work, Unmoved>>

(* cancel(): a run that is not executed ends as failed. *)
CancelRun(c) ==
    /\ At(c, "cancelling")
    /\ \/ EndRun(work[c].run, "attention") /\ scan' = scan
       \/ owner # work[c].run /\ UNCHANGED runVars
    /\ Goto(c, "failing")
    /\ UNCHANGED <<slotVars, target, lock, work, Unmoved>>

(* execute() returns its report, or throws if the run was taken over. *)
ExecuteRun(c) ==
    /\ At(c, "executing")
    /\ \/ \E assessment \in Assessments :
            /\ EndRun(work[c].run, assessment)
            /\ Set(c, [work[c] EXCEPT !.result = assessment])
            /\ Goto(c, "reported")
       \/ /\ owner # work[c].run
          /\ Goto(c, "failing")
          /\ UNCHANGED <<runVars, work>>
    /\ UNCHANGED <<slotVars, target, lock, Unmoved>>

(* A bug: a month that needs attention is passed over. *)
JudgeAttentionClean(c) ==
    /\ At(c, "reported")
    /\ Goto(c, CASE lock # c -> "failing"
                 [] lock = c /\ work[c].result = "stopped" -> "ending"
                 [] OTHER -> "advancing")
    /\ UNCHANGED <<World, target, lock, work, Unmoved>>

(* lease.check(), then the assessment decides. *)
Judge(c) ==
    /\ At(c, "reported")
    /\ Goto(c, CASE lock # c -> "failing"
                 [] lock = c /\ work[c].result = "clean" -> "advancing"
                 [] lock = c /\ work[c].result = "stopped" -> "ending"
                 [] OTHER -> "troubled")
    /\ UNCHANGED <<World, target, lock, work, Unmoved>>

(* A failure, or an interrupted pause, closes the lease before its catch    *)
(* clause writes the state.                                                 *)
CloseFailing(c) ==
    /\ \/ At(c, "failing") /\ Goto(c, "failed")
       \/ At(c, "pauseBroken") /\ Goto(c, "interrupted")
    /\ Unlock(c)
    /\ UNCHANGED <<World, target, work, Unmoved>>

WriteFailure(c) ==
    /\ \/ At(c, "failed") /\ WriteState(c, "attention")
       \/ At(c, "interrupted") /\ WriteState(c, "interrupted")
    /\ Set(c, NoWork)
    /\ Goto(c, "done")
    /\ UNCHANGED <<World, lock, Unmoved>>

(* A bug: the worker ends without closing its lease. *)
CloseHoldingLock(c) ==
    /\ At(c, "closing")
    /\ Set(c, NoWork)
    /\ Goto(c, "done")
    /\ UNCHANGED <<World, target, lock, Unmoved>>

(* lease.close() *)
Close(c) ==
    /\ At(c, "closing")
    /\ Unlock(c)
    /\ Set(c, NoWork)
    /\ Goto(c, "done")
    /\ UNCHANGED <<World, target, Unmoved>>

-----------------------------------------------------------------------------
(* What goes wrong.                                                        *)

(* The executor rejects the worker. *)
DispatchFails(c) ==
    /\ At(c, "dispatching")
    /\ Fault
    /\ Set(c, [work[c] EXCEPT !.exec = target.exec])
    /\ Goto(c, "rejected")
    /\ UNCHANGED <<runVars, slot, turn, thread, job, queue, day, ids, others, due, served, booting>>
    /\ UNCHANGED <<target, lock, Unmoved>>

(* A statement fails: of the command, before execute(), which cancels the   *)
(* run, or of the worker; or the completion of its run does.                *)
AfterFailure(place) ==
    CASE place \in {"leased", "writing", "rejected"} -> "closing"
      [] place \in {"failed", "interrupted"} -> "done"
      [] place \in {"attaching", "rechecking", "asking"} -> "cancelling"
      [] OTHER -> "failing"

WorkFails(c) ==
    /\ pc[c] \in {"leased", "writing", "attaching", "rechecking", "asking", "reading", "ending",
                   "finishing", "troubled", "rejected", "deciding", "skipping", "advancing",
                   "reserved", "pending", "waiting", "starting", "executing", "failed",
                   "interrupted"}
    /\ Fault
    /\ IF At(c, "executing") THEN Orphan(work[c].run) ELSE UNCHANGED runVars
    /\ Goto(c, AfterFailure(pc[c]))
    /\ UNCHANGED <<slot, turn, thread, job, queue, day, ids, others, due, served, booting>>
    /\ UNCHANGED <<target, lock, work, Unmoved>>

(* The worker's thread is interrupted: the loop sees it, or the pause does. *)
Interrupted(c) ==
    /\ \/ At(c, "reading") /\ Continues(c) /\ WriteState(c, "interrupted") /\ Goto(c, "closing")
       \/ At(c, "pausing") /\ UNCHANGED target /\ Goto(c, "pauseBroken")
    /\ Fault
    /\ UNCHANGED <<runVars, slot, turn, thread, job, queue, day, ids, others, due, served, booting>>
    /\ UNCHANGED <<lock, work, Unmoved>>

(* Its process stops: the session ends with it, the row and the run stay. *)
CallCrashes(c) ==
    /\ pc[c] \notin {"idle", "done", "crashed"}
    /\ Fault
    /\ Orphan(work[c].run)
    /\ Unlock(c)
    /\ Set(c, NoWork)
    /\ Goto(c, "crashed")
    /\ UNCHANGED <<slot, turn, thread, job, queue, day, ids, others, due, served, booting>>
    /\ UNCHANGED <<target, Unmoved>>

(* Its session alone is lost; the worker goes on until it checks. *)
LoseLease ==
    /\ lock # NoCall
    /\ losses < MaxLosses
    /\ losses' = losses + 1
    /\ lock' = NoCall
    /\ UNCHANGED <<World, target, pc, work, stopping, asked>>

-----------------------------------------------------------------------------
(* stop()                                                                  *)

StopAt(s, place) == stopping[s] = place
StopGoto(s, place) == stopping' = [stopping EXCEPT ![s] = place]
Rest == <<lock, pc, work, losses>>

StopReads(s) ==
    /\ StopAt(s, "idle")
    /\ target.id # NoCall
    /\ asked' = [asked EXCEPT ![s].id = target.id]
    /\ StopGoto(s, IF State = "completed" THEN "rejected" ELSE "marking")
    /\ UNCHANGED <<World, target, Rest>>

(* The first UPDATE: from here on the stop is accepted. *)
StopMarks(s) ==
    /\ StopAt(s, "marking")
    /\ IF target.id = asked[s].id /\ target.state # "completed"
         THEN /\ target' = [target EXCEPT !.state = "stopping"]
              /\ asked' = [asked EXCEPT ![s].exec = target.exec]
         ELSE UNCHANGED <<target, asked>>
    /\ StopGoto(s, "looking")
    /\ UNCHANGED <<World, Rest>>

(* Without a worker there is nothing to wait for ... *)
StopLooks(s) ==
    /\ StopAt(s, "looking")
    /\ StopGoto(s, IF lock = NoCall THEN "settling" ELSE "rereading")
    /\ UNCHANGED <<World, target, asked, Rest>>

(* ... and a second UPDATE ends the stop. *)
StopSettles(s) ==
    /\ StopAt(s, "settling")
    /\ target' = IF target.id = asked[s].id /\ target.state = "stopping"
                   THEN [target EXCEPT !.state = "stopped"] ELSE target
    /\ StopGoto(s, "rereading")
    /\ UNCHANGED <<World, asked, Rest>>

StopRereads(s) ==
    /\ StopAt(s, "rereading")
    /\ IF target.id = asked[s].id
         THEN /\ asked' = [asked EXCEPT ![s].run = target.run]
              /\ StopGoto(s, IF target.run = NoRun THEN "done" ELSE "requesting")
         ELSE StopGoto(s, "rejected") /\ UNCHANGED asked
    /\ UNCHANGED <<World, target, Rest>>

StopRequests(s) ==
    /\ StopAt(s, "requesting")
    /\ AskStop(asked[s].run)
    /\ StopGoto(s, "done")
    /\ UNCHANGED <<slotVars, target, asked, Rest>>

-----------------------------------------------------------------------------
CallStep(c) ==
    \/ Lease(c)
    \/ Check(c)
    \/ Create(c)
    \/ Resume(c)
    \/ Dispatch(c)
    \/ CheckLease(c)
    \/ ReadEnd(c)
    \/ ReadMonth(c)
    \/ WriteEnd(c)
    \/ Decide(c)
    \/ Advance(c)
    \/ CheckTurn(c)
    \/ Wait(c)
    \/ WakeUp(c)
    \/ StartMonth(c)
    \/ MonthRefused(c)
    \/ CheckOwned(c)
    \/ Attach(c)
    \/ Recheck(c)
    \/ AskOwnRun(c)
    \/ CancelRun(c)
    \/ ExecuteRun(c)
    \/ Judge(c)
    \/ CloseFailing(c)
    \/ WriteFailure(c)
    \/ Close(c)

StopStep(s) ==
    \/ StopReads(s)
    \/ StopMarks(s)
    \/ StopLooks(s)
    \/ StopSettles(s)
    \/ StopRereads(s)
    \/ StopRequests(s)

(* The scheduler's own steps. *)
SlotsStep ==
    /\ SlotsNext
    /\ UNCHANGED <<target, lock, pc, work, stopping, asked, losses>>

BackfillNext ==
    \/ SlotsStep
    \/ LoseLease
    \/ \E c \in Calls :
        \/ AskFor(c)
        \/ CallStep(c)
        \/ DispatchFails(c)
        \/ WorkFails(c)
        \/ Interrupted(c)
        \/ CallCrashes(c)
    \/ \E s \in Stops : StopStep(s)

allVars == <<runVars, slotVars, backfillVars>>
BackfillSpec == BackfillInit /\ [][BackfillNext]_allVars

(* Threads run; a stop command that reached the server is carried out. *)
BackfillFairness ==
    /\ WF_allVars(AbandonDead /\ UNCHANGED backfillVars)
    /\ WF_allVars(OtherEnds /\ UNCHANGED backfillVars)
    /\ \A i \in Instances : WF_allVars(ThreadStep(i) /\ SlotsStep)
    /\ \A c \in Calls : WF_allVars(CallStep(c))
    /\ \A s \in Stops : WF_allVars(stopping[s] # "idle" /\ StopStep(s))
BackfillFairSpec == BackfillSpec /\ BackfillFairness

-----------------------------------------------------------------------------
(* Properties.                                                             *)

(* Every month before the checkpoint is covered, and when the operator      *)
(* asked to run covered months again, by a run that began after the target  *)
(* was created: no stop, failure, takeover or lost session lets the         *)
(* checkpoint pass over a month.                                            *)
CheckpointsCovered ==
    \A m \in target.from..(target.next - 1) :
        scan[m] # NoRun /\ (~target.skip => scan[m].n > target.base)

(* The only stop, or the first one.  (The second UPDATE of a delayed stop   *)
(* may end another one, of an execution that was resumed in between.)       *)
OnlyStop(s) == \A r \in Stops \ {s} : stopping[r] = "idle"

(* A stop that was carried out reaches the run its execution executes,      *)
(* whenever it came between the start of the run and its attachment, as     *)
(* long as no other stop was asked for and no worker lost its session.      *)
(* HistoricalBackfillService: "attach() and stop() serialize on the target  *)
(* row; the worker rechecks before execute."                                *)
StopReachesRun ==
    \A s \in Stops, c \in Calls :
        losses = 0 /\ OnlyStop(s)
            /\ stopping[s] = "done" /\ asked[s].exec = c /\ target.exec = c
            /\ pc[c] = "executing" /\ owner = work[c].run
          => stopAsked

(* A stop does not stay under way: the target is being stopped only until   *)
(* its worker ends.                                                         *)
StopSettled ==
    (target.state = "stopping" /\ lock # NoCall) ~> (target.state # "stopping" \/ lock = NoCall)

(* A worker ends: waiting for the scheduled turn or for another run never   *)
(* keeps it for ever.                                                       *)
WorkersEnd == \A c \in Calls : pc[c] = "looping" ~> pc[c] \in {"done", "crashed"}

(* What the backfill and the scheduler do to runs is what ownership allows. *)
BackfillImplementsOwnership == Ownership!OwnershipSpec
=============================================================================
