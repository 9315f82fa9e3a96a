--------------------------- MODULE ScheduledSlots ---------------------------
(***************************************************************************)
(* Scheduled synchronization: each periodic policy has one slot in         *)
(* catalogue.deferred_synchronization_policy that keeps its latest due     *)
(* window until a run has served it.  Each service instance has one        *)
(* scheduler thread, which records due windows and, every second, drains   *)
(* the slots while it holds the advisory lock of the scheduled turn.       *)
(*                                                                         *)
(* A step is one statement, or one decision of a thread between two.  The  *)
(* order in which a drain takes the slots (due_at) is left open.           *)
(***************************************************************************)
EXTENDS CatalogueRuns

CONSTANTS
    Instances,  \* service instances
    Policies,   \* the periodic policies
    Enabled,    \* Enabled[i]: the policies whose cron is not '-' in the settings of instance i
    Recent,     \* Recent[p]: the periods the window of policy p spans
    MaxDay,     \* bound: days that pass; the window of a policy moves with the day
    MaxRequests,\* bound on request ids, above what the days and instances need
    MaxOthers,  \* bound: runs that an operator starts meanwhile
    MaxFaults,  \* bound: crashes, lost connections and database failures
    NoOne       \* no instance, no slot

ASSUME SlotsAssumption ==
    /\ Enabled \in [Instances -> SUBSET Policies]
    /\ Recent \in [Policies -> SUBSET Days]
    /\ MaxDay \in Nat /\ MaxRequests \in Nat /\ MaxOthers \in Nat /\ MaxFaults \in Nat
    /\ NoOne \notin [id : Nat, window : Nat, at : Nat]

VARIABLES
    slot,    \* the row of each policy: request_id, window and requested_at, or NoOne
    turn,    \* the instance whose session holds the scheduled turn
    thread,  \* where the scheduler thread of each instance is
    job,     \* the policy and window the thread is busy with
    booting, \* the instances that have still to cancel slots at start-up
    queue,   \* pending(): the rows its drain has still to take
    day,     \* today
    ids,     \* how many request ids were generated
    others,  \* operator runs started so far
    faults,  \* faults so far
    due,     \* due[p]: the request of the latest requested_at, read by the properties alone
    served   \* the requests whose turn came to an end, likewise

slotVars == <<slot, turn, thread, job, queue, booting, day, ids, others, faults, due, served>>

HaveToCancel == {i \in Instances : Enabled[i] # Policies}

NoJob == [policy |-> NoOne, id |-> 0, window |-> 0, at |-> 0, run |-> NoRun]
Earlier == [id |-> 0, window |-> 0, at |-> 0]

SlotsInit ==
    /\ RunsInit
    /\ \E left \in SUBSET Policies :
        slot = [p \in Policies |-> IF p \in left THEN Earlier ELSE NoOne]
    /\ turn = NoOne
    /\ thread = [i \in Instances |-> "idle"]
    /\ booting = HaveToCancel
    /\ job = [i \in Instances |-> NoJob]
    /\ queue = [i \in Instances |-> {}]
    /\ day = 1
    /\ ids = 0
    /\ others = 0
    /\ faults = 0
    /\ due = [p \in Policies |-> Earlier]
    /\ served = {0}

-----------------------------------------------------------------------------
Pending == {p \in Policies : slot[p] # NoOne}

To(i, place) == thread' = [thread EXCEPT ![i] = place]

(* The lease is closed: an instance whose session is gone unlocks nothing. *)
GiveUpTurn(i) ==
    /\ turn' = IF turn = i THEN NoOne ELSE turn
    /\ To(i, "idle")
    /\ job' = [job EXCEPT ![i] = NoJob]
    /\ queue' = [queue EXCEPT ![i] = {}]

Fault == faults < MaxFaults /\ faults' = faults + 1

(* At start-up, while the scheduler thread may already run, the slots of the *)
(* disabled policies are cancelled.                                         *)
Boot(i) ==
    /\ i \in booting
    /\ slot' = [p \in Policies |-> IF p \in Enabled[i] THEN slot[p] ELSE NoOne]
    /\ booting' = booting \ {i}
    /\ UNCHANGED <<runVars, turn, thread, job, queue, day, ids, others, faults, due, served>>

DayPasses ==
    /\ day < MaxDay
    /\ day' = day + 1
    /\ UNCHANGED <<runVars, slot, turn, thread, job, queue, ids, others, faults, due, served>>
    /\ UNCHANGED booting

(* The cron of a policy fires: the thread computes today's window ...  It   *)
(* fires again while that window is not recorded, which bounds the model.   *)
FireCron(i, p) ==
    /\ thread[i] = "idle"
    /\ p \in Enabled[i]
    /\ due[p].window < day
    /\ To(i, "timing")
    /\ job' = [job EXCEPT ![i] = [NoJob EXCEPT !.policy = p, !.window = day]]
    /\ UNCHANGED <<runVars, slot, turn, queue, day, ids, others, faults, due, served, booting>>

(* ... then reads the clock again for requested_at ... *)
TimeRequest(i) ==
    /\ thread[i] = "timing"
    /\ To(i, "deferring")
    /\ job' = [job EXCEPT ![i].at = day]
    /\ UNCHANGED <<runVars, slot, turn, queue, day, ids, others, faults, due, served, booting>>

(* ... and records the request in the slot, unless one requested later is   *)
(* there.  The same window keeps its request id.                            *)
DeferWindow(i) ==
    /\ thread[i] = "deferring"
    /\ LET p == job[i].policy
           later == slot[p] # NoOne /\ slot[p].at > job[i].at
           same == slot[p] # NoOne /\ slot[p].window = job[i].window
           request == [id |-> IF same THEN slot[p].id ELSE ids + 1,
                       window |-> job[i].window, at |-> job[i].at]
       IN IF later
            THEN UNCHANGED <<slot, ids, due>>
            ELSE /\ ids' = IF same THEN ids ELSE ids + 1
                 /\ slot' = [slot EXCEPT ![p] = request]
                 /\ due' = [due EXCEPT ![p] = IF request.at >= @.at THEN request ELSE @]
    /\ To(i, "idle")
    /\ job' = [job EXCEPT ![i] = NoJob]
    /\ UNCHANGED <<runVars, turn, queue, day, others, faults, served, booting>>

BeginDrain(i) ==
    /\ thread[i] = "idle"
    /\ Pending # {}
    /\ To(i, "reserving")
    /\ UNCHANGED <<runVars, slot, turn, job, queue, day, ids, others, faults, due, served, booting>>

(* acquireScheduledTurn() *)
Reserve(i) ==
    /\ thread[i] = "reserving"
    /\ IF turn = NoOne
         THEN turn' = i /\ To(i, "listing")
         ELSE UNCHANGED turn /\ To(i, "idle")
    /\ UNCHANGED <<runVars, slot, job, queue, day, ids, others, faults, due, served, booting>>

RowOf(p) == [policy |-> p, id |-> slot[p].id, window |-> slot[p].window, at |-> slot[p].at,
             run |-> NoRun]

(* cancel() of the disabled policies, then the snapshot of the others. *)
ListPending(i) ==
    /\ thread[i] = "listing"
    /\ slot' = [p \in Policies |-> IF p \in Enabled[i] THEN slot[p] ELSE NoOne]
    /\ queue' = [queue EXCEPT ![i] = {RowOf(p) : p \in Pending \intersect Enabled[i]}]
    /\ To(i, "draining")
    /\ UNCHANGED <<runVars, turn, job, day, ids, others, faults, due, served, booting>>

(* lease.check() before each row. *)
TakeNext(i) ==
    /\ thread[i] = "draining"
    /\ turn = i
    /\ \E next \in queue[i] :
        /\ queue' = [queue EXCEPT ![i] = @ \ {next}]
        /\ job' = [job EXCEPT ![i] = next]
    /\ To(i, "starting")
    /\ UNCHANGED <<runVars, slot, turn, day, ids, others, faults, due, served, booting>>

EndDrain(i) ==
    /\ thread[i] = "draining"
    /\ turn # i \/ queue[i] = {}
    /\ GiveUpTurn(i)
    /\ UNCHANGED <<runVars, slot, day, ids, others, faults, due, served, booting>>

StartWindow(i) ==
    /\ thread[i] = "starting"
    /\ BeginRun(Recent[job[i].policy])
    /\ job' = [job EXCEPT ![i].run = owner']
    /\ To(i, "running")
    /\ UNCHANGED <<slot, turn, queue, day, ids, others, faults, due, served, booting>>

(* A bug: the drain ends without giving up its turn. *)
WindowRefusedHoldingTurn(i) ==
    /\ thread[i] = "starting"
    /\ Busy
    /\ To(i, "idle")
    /\ UNCHANGED <<slot, turn, job, queue, day, ids, others, faults, due, served, booting>>

(* SYNCHRONIZATION_ALREADY_RUNNING: the slots stay and the drain ends. *)
WindowRefused(i) ==
    /\ thread[i] = "starting"
    /\ Busy
    /\ GiveUpTurn(i)
    /\ UNCHANGED <<slot, day, ids, others, faults, due, served, booting>>

(* The run for a request came to an end, or failed to: its turn is over. *)
Serve(i) == served' = served \union {job[i].id}

EndWindow(i) ==
    /\ thread[i] = "running"
    /\ \/ \E assessment \in Assessments : EndRun(job[i].run, assessment)
       \/ owner # job[i].run /\ UNCHANGED runVars
    /\ Serve(i)
    /\ To(i, "completing")
    /\ UNCHANGED <<slot, turn, job, queue, day, ids, others, faults, due, booting>>

(* The trigger fails at the start or the end of the run: it waits for the   *)
(* next cron, and a run that could not be completed keeps its row.          *)
WindowFails(i) ==
    /\ thread[i] \in {"starting", "running"}
    /\ Fault
    /\ Orphan(job[i].run)
    /\ Serve(i)
    /\ To(i, "completing")
    /\ UNCHANGED <<slot, turn, job, queue, day, ids, others, due, booting>>

(* A bug: the slot is deleted whatever window it holds now. *)
CompleteAnyWindow(i) ==
    /\ thread[i] = "completing"
    /\ slot' = [slot EXCEPT ![job[i].policy] = NoOne]
    /\ To(i, "draining")
    /\ job' = [job EXCEPT ![i] = NoJob]
    /\ UNCHANGED <<runVars, turn, queue, day, ids, others, faults, due, served, booting>>

(* complete(): the slot is deleted if it still holds this request. *)
CompleteWindow(i) ==
    /\ thread[i] = "completing"
    /\ slot' = [slot EXCEPT ![job[i].policy] = IF @ # NoOne /\ @.id = job[i].id THEN NoOne ELSE @]
    /\ To(i, "draining")
    /\ job' = [job EXCEPT ![i] = NoJob]
    /\ UNCHANGED <<runVars, turn, queue, day, ids, others, faults, due, served, booting>>

(* A statement of the drain fails, or the thread is interrupted after its   *)
(* run: what is pending stays.                                              *)
DrainFails(i) ==
    /\ thread[i] \in {"reserving", "listing", "draining", "completing"}
    /\ Fault
    /\ GiveUpTurn(i)
    /\ UNCHANGED <<runVars, slot, day, ids, others, due, served, booting>>

(* The session that holds the turn is lost while its thread goes on. *)
LoseTurn ==
    /\ turn # NoOne
    /\ Fault
    /\ turn' = NoOne
    /\ UNCHANGED <<runVars, slot, thread, job, queue, day, ids, others, due, served, booting>>

(* An instance stops and is started again; what it had in memory is gone. *)
Restart(i) ==
    /\ Fault
    /\ Orphan(job[i].run)
    /\ GiveUpTurn(i)
    /\ booting' = booting \union (HaveToCancel \intersect {i})
    /\ UNCHANGED <<slot, day, ids, others, due, served>>

(* An operator's run takes the provider and gives it back. *)
OtherBegins ==
    /\ others < MaxOthers
    /\ BeginRun({})
    /\ others' = others + 1
    /\ UNCHANGED <<slot, turn, thread, job, queue, day, ids, faults, due, served, booting>>

OtherEnds ==
    /\ owner # NoRun
    /\ owner.days = {}
    /\ EndRun(owner, "clean")
    /\ UNCHANGED slotVars

AbandonDead == Abandon /\ UNCHANGED slotVars

(* A live run whose heartbeat stalls is taken over. *)
OwnerStalls ==
    /\ Fault
    /\ Evict
    /\ UNCHANGED <<slot, turn, thread, job, queue, day, ids, others, due, served, booting>>

-----------------------------------------------------------------------------
ThreadStep(i) ==
    \/ Boot(i)
    \/ TimeRequest(i)
    \/ DeferWindow(i)
    \/ BeginDrain(i)
    \/ Reserve(i)
    \/ ListPending(i)
    \/ TakeNext(i)
    \/ EndDrain(i)
    \/ StartWindow(i)
    \/ WindowRefused(i)
    \/ EndWindow(i)
    \/ CompleteWindow(i)

SlotsNext ==
    \/ DayPasses
    \/ OtherBegins
    \/ OtherEnds
    \/ AbandonDead
    \/ OwnerStalls
    \/ LoseTurn
    \/ \E i \in Instances :
        \/ \E p \in Policies : FireCron(i, p)
        \/ ThreadStep(i)
        \/ WindowFails(i)
        \/ DrainFails(i)
        \/ Restart(i)

allSlotVars == <<runVars, slotVars>>
SlotsSpec == SlotsInit /\ [][SlotsNext]_allSlotVars

(* Scheduler threads run, runs end and dead ones grow old. *)
SlotsFairness ==
    /\ WF_allSlotVars(AbandonDead)
    /\ WF_allSlotVars(OtherEnds)
    /\ \A i \in Instances : WF_allSlotVars(ThreadStep(i))
SlotsFairSpec == SlotsSpec /\ SlotsFairness

-----------------------------------------------------------------------------
(* Properties.                                                             *)

(* The latest request of a policy that every instance enables is in its     *)
(* slot until a run for it came to an end: neither the late completion of   *)
(* an earlier request, nor a restart, nor a lost turn, nor another instance *)
(* that records an earlier request after it erases it.                      *)
LatestWindowKept ==
    \A p \in Policies :
        (\A i \in Instances : p \in Enabled[i]) /\ due[p].id \notin served
          => slot[p] # NoOne /\ slot[p].id = due[p].id

(* Every recorded request is served, replaced by another one or, for a      *)
(* policy disabled since, cancelled: no instance, operator run or dead run  *)
(* keeps a slot waiting for ever.                                           *)
WindowsServed ==
    \A p \in Policies, n \in 0..MaxRequests :
        (slot[p] # NoOne /\ slot[p].id = n) ~> (slot[p] = NoOne \/ slot[p].id # n)
=============================================================================
