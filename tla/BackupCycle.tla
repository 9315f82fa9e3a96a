---------------------------- MODULE BackupCycle ----------------------------
(***************************************************************************)
(* The scheduled backup of production (deploy/public-production/bin/       *)
(* backup-cycle) over the recovery actor's fence (bin/recovery) and the    *)
(* off-host store (RecoveryStore).                                         *)
(*                                                                         *)
(* A timer runs a whole cycle, another only reconciles; one of them at a   *)
(* time.  Its journal is durable, so is the fence: a call may die at any   *)
(* step.  A call loads the journal before it takes the cycle's lock and    *)
(* works on what it loaded: the prompt calls do both in one step, the late *)
(* ones may find the journal changed.  Everybody else who fences the       *)
(* runtime (a manual backup, an upgrade, a restore, identity maintenance)  *)
(* is one actor, the owner.                                                *)
(***************************************************************************)
EXTENDS RecoveryStore

CONSTANTS
    MaxCaptures,       \* bound: captures
    MaxReopenAttempts, \* after which reopening is left to the owner
    MaxFences,         \* bound: fences the owner takes
    MaxDeaths,         \* bound: calls that die
    MaxFaults,         \* bound: fences, deaths and late calls together
    Late               \* the calls that may wait between their load and their lock

ASSUME CycleAssumption ==
    MaxCaptures \in Nat /\ MaxReopenAttempts \in Nat \ {0}
    /\ MaxFences \in Nat /\ MaxDeaths \in Nat /\ MaxFaults \in Nat

Captures == 1..MaxCaptures

VARIABLES
    journal,    \* CYCLE.json
    memory,     \* what the running call knows of it: it loaded it once, and saves it whole
    call,       \* the running call, its step and its upload
    lease,      \* who holds the recovery lease
    open,       \* the gate
    pending,    \* PENDING.json: whose fence it is, and whether its backup is complete
    logins,     \* whether the database roles can log in
    running,    \* whether the services run
    owner,      \* what the owner does
    pairs,      \* the local pairs
    captures,   \* how many run ids there are
    loaded,     \* what each late call has loaded
    overtaken,  \* whether a late call took the place of a capture it knew nothing of
    fences,     \* bound counter
    deaths      \* bound counter

product == <<open, pending, logins, running>>
others == <<owner, fences>>
book == <<journal, memory>>
calls == <<captures, loaded, overtaken>>
vars == <<storeVars, book, call, lease, product, others, pairs, calls, deaths>>

Fencing == {"capturing", "reopening"}
NoPair == [state |-> "none", point |-> 0]
NoCall == [step |-> "none", upload |-> 0]
NoPending == [owner |-> "none", run |-> 0, complete |-> FALSE]
Blank == [status |-> "idle", run |-> 0, entered |-> FALSE, attempts |-> 0, uploaded |-> 0]
NotYet == [Blank EXCEPT !.status = "not yet"]
Gone == [Blank EXCEPT !.status = "gone"]
faults == fences + deaths + Cardinality({c \in Late : loaded[c] = Gone})

CycleInit ==
    /\ StoreInit
    /\ journal = Blank /\ memory = Blank
    /\ call = NoCall
    /\ lease = "free"
    /\ open = TRUE /\ pending = NoPending /\ logins = TRUE /\ running = TRUE
    /\ owner = "none"
    /\ pairs = [p \in Captures |-> NoPair]
    /\ captures = 0
    /\ loaded = [c \in Late |-> NotYet] /\ overtaken = FALSE
    /\ fences = 0 /\ deaths = 0

-----------------------------------------------------------------------------
(* The call.                                                               *)

At(step) == call.step = step
Goto(step) == call' = [NoCall EXCEPT !.step = step]
Save(fields) == journal' = fields
Saved(fields) == Save(fields) /\ memory' = fields
Return == call' = NoCall /\ memory' = Blank
(* The run of a journal is read while it is capturing, reopening or uploading, and set anew
   before the next: a journal that ends keeps its last upload. *)
Ended(record, status) == [Blank EXCEPT !.status = status, !.uploaded = record.uploaded]
Free == lease = "free" /\ owner # "maintenance"   \* what lock() asks for

Loaded(c) == loaded[c] \notin {NotYet, Gone}
(* With the journal as it loaded it, a late call is a prompt one. *)
Takes(c) ==
    /\ loaded[c] # journal /\ faults < MaxFaults
    /\ loaded' = [loaded EXCEPT ![c] = Gone]
    /\ overtaken' = (overtaken \/ journal.status \in Fencing)

(* Two timers; the other's call in progress refuses this one. *)
Call ==
    /\ call = NoCall
    /\ memory' = journal
    /\ Goto("converge")
    /\ UNCHANGED <<storeVars, journal, lease, product, others, pairs, calls, deaths>>

(* A late call loads the journal, while another one runs or not ... *)
Load(c) ==
    /\ loaded[c] = NotYet
    /\ loaded' = [loaded EXCEPT ![c] = journal]
    /\ UNCHANGED <<storeVars, book, call, lease, product, others, pairs, captures,
                   overtaken, deaths>>

(* ... and is refused when one runs as it comes for the lock ... *)
LateRefused(c) ==
    /\ Loaded(c) /\ call # NoCall
    /\ loaded' = [loaded EXCEPT ![c] = NotYet]
    /\ UNCHANGED <<storeVars, book, call, lease, product, others, pairs, captures,
                   overtaken, deaths>>

(* ... or takes it, without another look at the journal. *)
LateCall(c) ==
    /\ Loaded(c) /\ call = NoCall
    /\ Takes(c)
    /\ memory' = loaded[c]
    /\ Goto("converge")
    /\ UNCHANGED <<storeVars, journal, lease, product, others, pairs, captures, deaths>>

Owned == pending.owner = "cycle" /\ pending.run = memory.run

(* A bug: a closed gate is reopened without asking whose it is. *)
ConvergeAnyFence ==
    /\ At("converge") /\ memory.status \in Fencing /\ Free
    /\ lease' = "cycle"
    /\ Saved([memory EXCEPT !.status = "reopening"])
    /\ Goto(IF open /\ pending = NoPending THEN "start" ELSE "login")
    /\ UNCHANGED <<storeVars, product, others, pairs, calls, deaths>>

(* converge() of a capture that was left: skip it, leave it to its owner, or reopen. *)
Converge ==
    /\ At("converge") /\ memory.status \in Fencing /\ Free
    /\ LET closed == pending # NoPending \/ ~open IN
       \/ /\ ~memory.entered /\ closed
          /\ Saved(Ended(memory, "idle"))
          /\ Goto("converged") /\ UNCHANGED lease
       \/ /\ memory.entered \/ ~closed
          /\ pending # NoPending /\ ~Owned
          /\ Saved(Ended(memory, "owner-required"))
          /\ Goto("converged") /\ UNCHANGED lease
       \/ /\ memory.entered \/ ~closed
          /\ pending = NoPending \/ Owned
          /\ lease' = "cycle"
          /\ Saved([memory EXCEPT !.status = "reopening"])
          /\ Goto(IF closed THEN "login" ELSE "start")
    /\ UNCHANGED <<storeVars, product, others, pairs, calls, deaths>>

ConvergeRefused ==
    /\ At("converge") /\ memory.status \in Fencing /\ ~Free
    /\ Return
    /\ UNCHANGED <<storeVars, journal, lease, product, others, pairs, calls, deaths>>

NothingToConverge ==
    /\ At("converge") /\ memory.status \notin Fencing
    /\ Goto(IF memory.status = "upload-pending" THEN "upload" ELSE "converged")
    /\ UNCHANGED <<storeVars, book, lease, product, others, pairs, calls, deaths>>

Kept == {memory.uploaded}
        \union (IF memory.status \in Fencing \union {"upload-pending"} THEN {memory.run} ELSE {})

Pruned(keep) == [p \in Captures |-> IF pairs[p].state = "verified" /\ p \notin keep
                                     THEN [pairs[p] EXCEPT !.state = "pruned"] ELSE pairs[p]]

(* skip(): run() ends and saves, where reconcile() would only end. *)
MaybeSkipped == journal' \in {journal, memory}

(* Where reconcile() ends, and a run() that finds something left to finish ... *)
Converged ==
    /\ At("converged")
    /\ IF memory.status = "idle" THEN UNCHANGED journal ELSE MaybeSkipped
    /\ Return
    /\ UNCHANGED <<storeVars, lease, product, others, pairs, calls, deaths>>

(* ... and where another run() prunes and goes on. *)
Run ==
    /\ At("converged") /\ memory.status = "idle"
    /\ pairs' = Pruned(Kept)
    /\ Goto("preflight")
    /\ UNCHANGED <<storeVars, book, lease, product, others, calls, deaths>>

Ready == pending = NoPending /\ open /\ owner # "maintenance" /\ owner # "unfinished" /\ running

Preflight ==
    /\ At("preflight")
    /\ \/ Ready /\ Goto("admission") /\ UNCHANGED book
       \/ ~Ready /\ Save(memory) /\ Return
    /\ UNCHANGED <<storeVars, lease, product, others, pairs, calls, deaths>>

(* The store answers, or does not; then the capture is in the journal before its lease. *)
Admission ==
    /\ At("admission")
    /\ \/ Save(memory) /\ Return /\ UNCHANGED captures
       \/ /\ captures < MaxCaptures /\ captures' = captures + 1
          /\ Saved([memory EXCEPT !.status = "capturing", !.run = captures + 1, !.entered = FALSE,
                                  !.attempts = 0])
          /\ Goto("lock")
    /\ UNCHANGED <<storeVars, lease, product, others, pairs, loaded, overtaken, deaths>>

(* Everything before this ran without the lease: look again under it. *)
EnterFence ==
    /\ At("lock") /\ Free /\ pending = NoPending /\ open
    /\ lease' = "cycle"
    /\ Saved([memory EXCEPT !.entered = TRUE])
    /\ Goto("close")
    /\ UNCHANGED <<storeVars, product, others, pairs, calls, deaths>>

CaptureSkipped ==
    /\ At("lock") /\ ~(Free /\ pending = NoPending /\ open)
    /\ Save(Ended(memory, "idle"))
    /\ Return
    /\ UNCHANGED <<storeVars, lease, product, others, pairs, calls, deaths>>

CloseGate ==
    /\ At("close")
    /\ open' = FALSE
    /\ Goto("journal")
    /\ UNCHANGED <<storeVars, book, lease, pending, logins, running, others, pairs, calls, deaths>>

WritePending ==
    /\ At("journal")
    /\ pending' = [owner |-> "cycle", run |-> memory.run, complete |-> FALSE]
    /\ Goto("drain")
    /\ UNCHANGED <<storeVars, book, lease, open, logins, running, others, pairs, calls, deaths>>

Drain ==
    /\ At("drain")
    /\ logins' = FALSE /\ running' = FALSE
    /\ Goto("dump")
    /\ UNCHANGED <<storeVars, book, lease, open, pending, others, pairs, calls, deaths>>

(* The pair is published whole. *)
Dump ==
    /\ At("dump")
    /\ pairs' = [pairs EXCEPT ![memory.run] =
                   [state |-> "verified", point |-> clock]]
    /\ Goto("complete")
    /\ UNCHANGED <<storeVars, book, lease, product, others, calls, deaths>>

CompletePending ==
    /\ At("complete")
    /\ pending' = [pending EXCEPT !.complete = TRUE]
    /\ Goto("login")
    /\ UNCHANGED <<storeVars, book, lease, open, logins, running, others, pairs, calls, deaths>>

(* thaw(), or reopen_capture(): the roles, the gate, then the recovery journal. *)
Login ==
    /\ At("login")
    /\ logins' = TRUE
    /\ Goto("open")
    /\ UNCHANGED <<storeVars, book, lease, open, pending, running, others, pairs, calls, deaths>>

OpenGate ==
    /\ At("open")
    /\ open' = TRUE
    /\ Goto("clear")
    /\ UNCHANGED <<storeVars, book, lease, pending, logins, running, others, pairs, calls, deaths>>

ClearPending ==
    /\ At("clear")
    /\ pending' = NoPending
    /\ Saved([memory EXCEPT !.status = "reopening"])
    /\ Goto("start")
    /\ UNCHANGED <<storeVars, lease, open, logins, running, others, pairs, calls, deaths>>

(* start_services() and smoke(); only then is the pair, if there is one, to upload. *)
StartServices ==
    /\ At("start")
    /\ running' = TRUE /\ lease' = "free"
    /\ LET captured == pairs[memory.run].state = "verified" IN
       /\ Saved(IF captured THEN [memory EXCEPT !.status = "upload-pending", !.attempts = 0]
                 ELSE Ended(memory, "idle"))
       /\ Goto(IF captured THEN "upload" ELSE "converged")
    /\ UNCHANGED <<storeVars, open, pending, logins, others, pairs, calls, deaths>>

(* A step of the capture raises: reopen, whatever was done. *)
CaptureFails ==
    /\ memory.status = "capturing"
    /\ call.step \in {"close", "journal", "drain", "dump", "complete", "login", "open", "clear"}
    /\ Saved([memory EXCEPT !.status = "reopening"])
    /\ Goto("login")
    /\ UNCHANGED <<storeVars, lease, product, others, pairs, calls, deaths>>

(* A bug: the attempts are not counted across calls. *)
ReopenFailsUncounted ==
    /\ memory.status = "reopening" /\ call.step \in {"login", "open", "clear", "start"}
    /\ lease' = "free"
    /\ Return
    /\ UNCHANGED <<storeVars, journal, product, others, pairs, calls, deaths>>

(* A step of the reopening raises: the next call tries again, three times. *)
ReopenFails ==
    /\ memory.status = "reopening" /\ call.step \in {"login", "open", "clear", "start"}
    /\ Save(IF memory.attempts + 1 >= MaxReopenAttempts THEN Ended(memory, "owner-required")
            ELSE [memory EXCEPT !.attempts = @ + 1])
    /\ lease' = "free"
    /\ Return
    /\ UNCHANGED <<storeVars, product, others, pairs, calls, deaths>>

(* upload(): too late, not yet, or an attempt of its own. *)
UploadWindowClosed ==
    /\ At("upload") /\ clock >= pairs[memory.run].point + Window
    /\ Saved(Ended(memory, "idle"))
    /\ Goto("converged")
    /\ UNCHANGED <<storeVars, lease, product, others, pairs, calls, deaths>>

UploadDeferred ==
    /\ At("upload") /\ clock < pairs[memory.run].point + Window
    /\ MaybeSkipped
    /\ Return
    /\ UNCHANGED <<storeVars, lease, product, others, pairs, calls, deaths>>

(* A pair that was pruned cannot be published. *)
UploadOfNothing ==
    /\ At("upload") /\ clock < pairs[memory.run].point + Window
    /\ pairs[memory.run].state = "pruned"
    /\ Save(memory)
    /\ Return
    /\ UNCHANGED <<storeVars, lease, product, others, pairs, calls, deaths>>

BeginUpload ==
    /\ At("upload") /\ clock < pairs[memory.run].point + Window
    /\ pairs[memory.run].state = "verified"
    /\ Saved(memory)
    /\ \E u \in Uploads :
        /\ upload[u] = NoUpload /\ \A v \in Uploads : v < u => upload[v] # NoUpload
        /\ upload' = [upload EXCEPT ![u] = [state |-> "publishing", pair |-> memory.run,
                                            point |-> pairs[memory.run].point]]
        /\ call' = [call EXCEPT !.step = "publishing", !.upload = u]
    /\ UNCHANGED <<clock, versions, expiry, lease, product, others, pairs, calls, deaths>>

(* A bug: an upload counts once its process has ended. *)
UploadEnded ==
    /\ At("publishing") /\ upload[call.upload].state # "publishing"
    /\ Saved([Blank EXCEPT !.uploaded = memory.run])
    /\ pairs' = Pruned({memory.run})
    /\ Goto("converged")
    /\ UNCHANGED <<storeVars, lease, product, others, calls, deaths>>

(* The upload's process succeeded: the pair is the last uploaded one, and the others go. *)
Uploaded ==
    /\ At("publishing") /\ upload[call.upload].state = "done"
    /\ Saved([Blank EXCEPT !.uploaded = memory.run])
    /\ pairs' = Pruned({memory.run})
    /\ Goto("converged")
    /\ UNCHANGED <<storeVars, lease, product, others, calls, deaths>>

UploadFailed ==
    /\ At("publishing") /\ upload[call.upload].state = "failed"
    /\ Save(memory)
    /\ Return
    /\ UNCHANGED <<storeVars, lease, product, others, pairs, calls, deaths>>

(* A call dies: its lease goes with it, an upload it started goes on. *)
Die ==
    /\ call # NoCall
    /\ deaths < MaxDeaths /\ faults < MaxFaults /\ deaths' = deaths + 1
    /\ Return
    /\ lease' = IF lease = "cycle" THEN "free" ELSE lease
    /\ UNCHANGED <<storeVars, journal, product, others, pairs, calls>>

(* The owner's acknowledgement, once the fence is gone. *)
Acknowledge ==
    /\ call = NoCall /\ journal.status = "owner-required"
    /\ pending = NoPending /\ open
    /\ Save(Ended(journal, "idle"))
    /\ UNCHANGED <<storeVars, memory, call, lease, product, others, pairs, calls, deaths>>

(* An acknowledgement that loaded the journal before the lock, and finds it changed or not. *)
LateAcknowledge(c) ==
    /\ Loaded(c) /\ call = NoCall /\ loaded[c].status = "owner-required"
    /\ pending = NoPending /\ open
    /\ Takes(c)
    /\ Save(Ended(loaded[c], "idle"))
    /\ UNCHANGED <<storeVars, memory, call, lease, product, others, pairs, captures, deaths>>

-----------------------------------------------------------------------------
(* The owner.                                                              *)

OwnerCloses ==
    /\ Free /\ owner # "fenced" /\ fences < MaxFences /\ faults < MaxFaults
    /\ lease' = "owner" /\ open' = FALSE
    /\ owner' = "closing" /\ fences' = fences + 1
    /\ UNCHANGED <<storeVars, book, call, pending, logins, running, pairs, calls, deaths>>

(* The fence is left closed: the lease goes, the fence does not. *)
OwnerFences ==
    /\ owner = "closing" /\ lease = "owner"
    /\ pending' = [owner |-> "owner", run |-> 0, complete |-> FALSE]
    /\ logins' = FALSE /\ running' = FALSE
    /\ owner' = "fenced" /\ lease' = "free"
    /\ UNCHANGED <<storeVars, book, call, open, fences, pairs, calls, deaths>>

(* The owner dies between closing the gate and writing the recovery journal. *)
OwnerDies ==
    /\ owner = "closing" /\ lease = "owner"
    /\ deaths < MaxDeaths /\ faults < MaxFaults /\ deaths' = deaths + 1
    /\ lease' = "free"
    /\ UNCHANGED <<storeVars, book, call, product, others, pairs, calls>>

(* The owner reopens its fence, or by hand one that was left to it; an upgrade may not have
   finished. *)
OwnerReopens ==
    /\ \/ owner \in {"closing", "fenced"}
       \/ owner = "none" /\ journal.status = "owner-required" /\ ~open
    /\ Free
    /\ open' = TRUE /\ pending' = NoPending /\ logins' = TRUE /\ running' = TRUE
    /\ owner' \in {"none"} \union (IF owner = "fenced" THEN {"unfinished"} ELSE {})
    /\ UNCHANGED <<storeVars, book, call, lease, fences, pairs, calls, deaths>>

OwnerMaintains ==
    /\ Free /\ owner = "none" /\ open /\ fences < MaxFences /\ faults < MaxFaults
    /\ owner' = "maintenance" /\ fences' = fences + 1
    /\ UNCHANGED <<storeVars, book, call, lease, product, pairs, calls, deaths>>

OwnerFinishes ==
    /\ owner \in {"maintenance", "unfinished"}
    /\ owner' = "none"
    /\ UNCHANGED <<storeVars, book, call, lease, product, fences, pairs, calls, deaths>>

-----------------------------------------------------------------------------
Reopening == Login \/ OpenGate \/ ClearPending \/ StartServices
Capturing == CloseGate \/ WritePending \/ Drain \/ Dump \/ CompletePending
Converging == Converge \/ ConvergeRefused \/ NothingToConverge \/ Converged \/ Run
Deciding == Preflight \/ Admission \/ EnterFence \/ CaptureSkipped
Uploading ==
    \/ UploadWindowClosed \/ UploadDeferred \/ UploadOfNothing
    \/ BeginUpload \/ Uploaded \/ UploadFailed
Faults == CaptureFails \/ ReopenFails \/ Die
LateCalls == \E c \in Late : Load(c) \/ LateRefused(c) \/ LateCall(c) \/ LateAcknowledge(c)
Owners == OwnerCloses \/ OwnerFences \/ OwnerDies \/ OwnerReopens \/ OwnerMaintains \/ OwnerFinishes

cycleVars == <<book, call, lease, product, others, pairs, calls, deaths>>
Store == StoreNext /\ UNCHANGED cycleVars
UploadEnds == \E u \in Uploads : (UploadFails(u) \/ Published(u)) /\ UNCHANGED cycleVars

CycleNext ==
    \/ Call \/ Reopening \/ Capturing \/ Converging \/ Deciding \/ Uploading \/ Faults
    \/ Acknowledge \/ LateCalls \/ Owners \/ Store

CycleSpec == CycleInit /\ [][CycleNext]_vars

(* The timers fire and a call that runs goes on; whoever holds the lease or maintains the
   runtime gives it back, and an upload's process ends. *)
CycleFairSpec ==
    /\ CycleSpec
    /\ WF_vars(Call \/ Reopening \/ Capturing \/ Converging \/ Deciding \/ Uploading)
    /\ SF_vars(Converge)
    /\ WF_vars(OwnerFences \/ OwnerFinishes)
    /\ WF_vars(UploadEnds)

-----------------------------------------------------------------------------
(* What a scheduled backup promises.                                       *)

(* A fence the owner left closed stays closed, in all it stops, whatever the cycle left and
   whichever call finds it. *)
OwnersFenceStands ==
    owner = "fenced" => ~open /\ ~logins /\ ~running /\ pending.owner = "owner"

(* The pair the journal names as uploaded can be fetched whole from the store, by its receipt,
   as long as the store keeps it. *)
LastUploadIsRecoverable ==
    journal.uploaded # 0 /\ clock < pairs[journal.uploaded].point + Lock =>
        \E u \in Uploads : upload[u].pair = journal.uploaded /\ Whole(u)

(* Whatever fails or dies, a capture that was begun ends on a product the cycle does not fence,
   or asks for its owner; unless a late call took its place without knowing of it. *)
CycleConverges ==
    journal.status \in Fencing ~>
        \/ journal.status \notin Fencing /\ pending.owner # "cycle" /\ lease # "cycle"
        \/ journal.status = "owner-required"
        \/ overtaken

=============================================================================
