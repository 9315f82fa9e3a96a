------------------------------ MODULE SyncRun ------------------------------
(***************************************************************************)
(* Catalogue synchronization runs: the row of each run in the table        *)
(* catalogue.synchronization_run, which grants the provider to one run at  *)
(* a time, and the worker that executes it page by page and Game by Game.  *)
(*                                                                         *)
(* A step is one database transaction, one provider call or one local      *)
(* decision of a worker; several workers, operators and time interleave    *)
(* between steps.  A Game write is two steps, BeginSave and CommitSave,    *)
(* because it holds its run row's lock while others may wait for it.       *)
(*                                                                         *)
(* Time is kept as ages: beat[r] is the time since the heartbeat_at of a   *)
(* running row, lag[w] the time since worker w read its clock or began its *)
(* write transaction.  Every comparison in the code is between instants    *)
(* that far apart, so ages above AgeCap are indistinguishable.             *)
(***************************************************************************)
EXTENDS Naturals, FiniteSets

CONSTANTS
    Runs,          \* calls of start or repairGames; each is the run it may own
    Repairs,       \* the calls of repairGames among them
    Deferred,      \* the calls the scheduler keeps and retries when refused
    LastGame,      \* provider Game ids are 1..LastGame
    PageSize,      \* provider Game ids one page spans
    Days,          \* days that coverage is recorded for
    Window,        \* Window[r]: the days of the interval of run r
    AbandonAfter,  \* SynchronizationPolicy.abandonRunAfter, in ticks
    RetainedRuns,  \* SynchronizationPolicy.retainedRuns
    MaxLag,        \* bound: ticks between reading the clock and beginRun
    NoRun          \* no run

ASSUME RunsAssumption ==
    /\ IsFiniteSet(Runs)
    /\ NoRun \notin Runs
    /\ Repairs \subseteq Runs
    /\ Deferred \subseteq Runs \ Repairs
ASSUME BoundsAssumption ==
    /\ LastGame \in Nat
    /\ PageSize \in Nat \ {0}
    /\ AbandonAfter \in Nat \ {0}
    /\ RetainedRuns \in Nat \ {0}
    /\ MaxLag \in Nat
ASSUME WindowAssumption == Window \in [Runs -> SUBSET Days]

Games == 1..LastGame
AgeCap == AbandonAfter + MaxLag + 1

VARIABLES
    \* Rows of synchronization_run, synchronization_coverage and the Games.
    status,     \* run_status of the row of each run, "none" before and "pruned" after it
    code,       \* outcome_code of the row
    beat,       \* age of heartbeat_at while the row is running
    stopAsked,  \* stop_requested_at is set
    scan,       \* the run that last covered each day
    wrote,      \* wrote[r]: Games run r committed
    \* Each worker.
    pc,         \* where worker w is
    lag,        \* age of the clock reading or of the open write transaction
    older,      \* older[w]: the calls whose clock reading precedes that of w
    cursor,     \* afterGameId: the last provider Game id of the pages read
    todo,       \* Games of the current page still to be synchronized
    tally,      \* Counts, by Game, and the worker's two flags
    \* History, read by the properties alone.
    epoch,      \* epoch[r]: how many runs owned the provider up to r, r included
    acquired,   \* how many runs have owned the provider
    late        \* late[r]: Games run r committed after a stop was recorded

rows == <<status, code, beat, stopAsked>>
worker == <<lag, older, cursor, todo, tally>>
history == <<epoch, acquired, late>>
vars == <<rows, scan, wrote, pc, worker, history>>

Outcomes == {"succeeded", "partial", "failed"}
Statuses == Outcomes \union {"none", "running", "abandoned", "pruned"}
Codes == {"NONE", "COMPLETED", "COMPLETED_WITH_FAILURES", "INTERRUPTED", "FAILED",
          "STOPPED", "REPAIR_COMPLETED", "ABANDONED", "ABANDONED_BY_OPERATOR"}
Places == {"idle", "starting", "refused", "acquired", "paging", "fetching", "choosing",
           "working", "saving", "saved", "completing", "closing",
           "done", "lost", "threw", "crashed"}

(* seen: Games the provider's pages returned; saved and deferred: counted   *)
(* as created, updated, unchanged or deferred; failed: counted as failed,   *)
(* quality with a known data-quality reason; broke: a page or the run       *)
(* itself was counted as failed; read: intervalRead; stopped: the flag.     *)
Tallies == [seen : SUBSET Games, saved : SUBSET Games, deferred : SUBSET Games,
            failed : SUBSET Games, quality : SUBSET Games,
            broke : BOOLEAN, read : BOOLEAN, stopped : BOOLEAN]
NoTally == [seen |-> {}, saved |-> {}, deferred |-> {}, failed |-> {}, quality |-> {},
            broke |-> FALSE, read |-> FALSE, stopped |-> FALSE]

Init ==
    /\ status = [r \in Runs |-> "none"]
    /\ code = [r \in Runs |-> "NONE"]
    /\ beat = [r \in Runs |-> 0]
    /\ stopAsked = [r \in Runs |-> FALSE]
    /\ scan = [d \in Days |-> NoRun]
    /\ wrote = [r \in Runs |-> {}]
    /\ pc = [r \in Runs |-> "idle"]
    /\ lag = [r \in Runs |-> 0]
    /\ older = [r \in Runs |-> {}]
    /\ cursor = [r \in Runs |-> 0]
    /\ todo = [r \in Runs |-> {}]
    /\ tally = [r \in Runs |-> NoTally]
    /\ epoch = [r \in Runs |-> 0]
    /\ acquired = 0
    /\ late = [r \in Runs |-> {}]

-----------------------------------------------------------------------------
(* Ownership: beginRun and the rows it leaves.                             *)

Running == {r \in Runs : status[r] = "running"}
Finished == {r \in Runs : status[r] \in Outcomes \union {"abandoned"}}

(* The row lock a Game write takes in fence() and keeps until it commits. *)
Locked(r) == pc[r] = "saving"

Aged(n) == IF n < AgeCap THEN n + 1 ELSE AgeCap

(* A bug: a silent run is never abandoned. *)
NeverStale(age) == {}

(* heartbeat_at < started - abandonAfter, started being `age` ticks ago. *)
Stale(age) == {r \in Running : beat[r] > age + AbandonAfter}

Go(w, place) == pc' = [pc EXCEPT ![w] = place]

Tick ==
    /\ \A w \in Runs : pc[w] = "starting" => lag[w] < MaxLag
    /\ beat' = [r \in Runs |-> IF r \in Running THEN Aged(beat[r]) ELSE beat[r]]
    /\ lag' = [w \in Runs |-> IF pc[w] \in {"starting", "saving"} THEN Aged(lag[w]) ELSE lag[w]]
    /\ UNCHANGED <<status, code, stopAsked, scan, wrote, pc, older, cursor, todo, tally, history>>

(* start() or repairGames() reads the clock before it opens a transaction.  *)
(* A refused scheduled call stays in its table and is tried again.          *)
ReadClock(w) ==
    /\ \/ pc[w] = "idle"
       \/ pc[w] = "refused" /\ w \in Deferred
    /\ Go(w, "starting")
    /\ lag' = [lag EXCEPT ![w] = 0]
    /\ older' = [x \in Runs |-> IF x = w THEN {y \in Runs \ {w} : pc[y] # "idle"}
                                         ELSE older[x] \ {w}]
    /\ UNCHANGED <<rows, scan, wrote, cursor, todo, tally, history>>

(* The first statement of beginRun: it waits for the rows it would change. *)
AbandonStale(w) ==
    LET stale == Stale(lag[w]) IN
    /\ \A r \in stale : ~Locked(r)
    /\ code' = [r \in Runs |-> IF r \in stale THEN "ABANDONED" ELSE code[r]]
    /\ status' = [r \in Runs |-> IF r = w /\ Running \subseteq stale THEN "running"
                                 ELSE IF r \in stale THEN "abandoned"
                                 ELSE status[r]]

(* A bug: the insert does not look for a run already in flight. *)
AcquireAnyway(w) ==
    /\ pc[w] = "starting"
    /\ status' = [status EXCEPT ![w] = "running"]
    /\ beat' = [beat EXCEPT ![w] = lag[w]]
    /\ Go(w, "acquired")
    /\ lag' = [lag EXCEPT ![w] = 0]
    /\ acquired' = acquired + 1
    /\ epoch' = [epoch EXCEPT ![w] = acquired + 1]
    /\ UNCHANGED <<code, stopAsked, scan, wrote, older, cursor, todo, tally, late>>

(* The insert succeeds: its heartbeat is the clock reading, not the present. *)
Acquire(w) ==
    /\ pc[w] = "starting"
    /\ Running \subseteq Stale(lag[w])
    /\ AbandonStale(w)
    /\ beat' = [r \in Runs |-> IF r = w THEN lag[w] ELSE IF r \in Running THEN 0 ELSE beat[r]]
    /\ Go(w, "acquired")
    /\ lag' = [lag EXCEPT ![w] = 0]
    /\ acquired' = acquired + 1
    /\ epoch' = [epoch EXCEPT ![w] = acquired + 1]
    /\ UNCHANGED <<stopAsked, scan, wrote, older, cursor, todo, tally, late>>

(* ON CONFLICT DO NOTHING: a live run keeps the provider. *)
Refuse(w) ==
    /\ pc[w] = "starting"
    /\ ~(Running \subseteq Stale(lag[w]))
    /\ AbandonStale(w)
    /\ beat' = [r \in Runs |-> IF r \in Stale(lag[w]) THEN 0 ELSE beat[r]]
    /\ Go(w, "refused")
    /\ lag' = [lag EXCEPT ![w] = 0]
    /\ UNCHANGED <<stopAsked, scan, wrote, older, cursor, todo, tally, history>>

-----------------------------------------------------------------------------
(* Operators.                                                              *)

RequestStop(r) ==
    /\ r \in Running
    /\ ~Locked(r)
    /\ stopAsked' = [stopAsked EXCEPT ![r] = TRUE]
    /\ UNCHANGED <<status, code, beat, scan, wrote, pc, worker, history>>

(* A bug: the row is closed under a Game write in progress. *)
AbandonUnderWrite(r) ==
    /\ r \in Stale(0)
    /\ status' = [status EXCEPT ![r] = "abandoned"]
    /\ code' = [code EXCEPT ![r] = "ABANDONED_BY_OPERATOR"]
    /\ beat' = [beat EXCEPT ![r] = 0]
    /\ UNCHANGED <<stopAsked, scan, wrote, pc, worker, history>>

(* An operator's threshold read earlier is older, so it abandons no more    *)
(* than the present one does.                                               *)
AbandonByOperator(r) ==
    /\ r \in Stale(0)
    /\ ~Locked(r)
    /\ status' = [status EXCEPT ![r] = "abandoned"]
    /\ code' = [code EXCEPT ![r] = "ABANDONED_BY_OPERATOR"]
    /\ beat' = [beat EXCEPT ![r] = 0]
    /\ UNCHANGED <<stopAsked, scan, wrote, pc, worker, history>>

-----------------------------------------------------------------------------
(* The worker: execute() or repairGames() from the acquired run on.        *)

Owns(w) == w \in Running

(* A thread that ends without a stored report leaves nothing of its memory. *)
Forget(w) ==
    /\ lag' = [lag EXCEPT ![w] = 0]
    /\ cursor' = [cursor EXCEPT ![w] = 0]
    /\ todo' = [todo EXCEPT ![w] = {}]
    /\ tally' = [tally EXCEPT ![w] = NoTally]
    /\ UNCHANGED older

(* A transaction that begins with fence() or checkpoint() renews the heartbeat. *)
Beats(w) ==
    /\ Owns(w)
    /\ beat' = [beat EXCEPT ![w] = 0]

Execute(w) ==
    /\ pc[w] = "acquired"
    /\ IF w \in Repairs
         THEN /\ \E ids \in SUBSET Games : todo' = [todo EXCEPT ![w] = ids]
              /\ Go(w, "choosing")
         ELSE /\ Go(w, "paging")
              /\ UNCHANGED todo
    /\ UNCHANGED <<rows, scan, wrote, lag, older, cursor, tally, history>>

(* OwnedRun.cancel(): the executor rejected the run. *)
Cancel(w) ==
    /\ pc[w] = "acquired"
    /\ w \notin Repairs
    /\ tally' = [tally EXCEPT ![w].broke = TRUE]
    /\ Go(w, "closing")
    /\ UNCHANGED <<rows, scan, wrote, lag, older, cursor, todo, history>>

(* The safe point before a page or a Game finds a stop request. *)
Stop(w) ==
    /\ \/ pc[w] = "paging"
       \/ pc[w] = "choosing" /\ todo[w] # {}
    /\ Beats(w)
    /\ stopAsked[w]
    /\ tally' = [tally EXCEPT ![w].stopped = TRUE]
    /\ Go(w, IF w \in Repairs THEN "closing" ELSE "completing")
    /\ UNCHANGED <<status, code, stopAsked, scan, wrote, lag, older, cursor, todo, history>>

StartPage(w) ==
    /\ pc[w] = "paging"
    /\ Beats(w)
    /\ ~stopAsked[w]
    /\ Go(w, "fetching")
    /\ UNCHANGED <<status, code, stopAsked, scan, wrote, worker, history>>

(* The ids the page after the cursor spans: any of them may be in the interval. *)
PageEnd(w) == IF cursor[w] + PageSize < LastGame THEN cursor[w] + PageSize ELSE LastGame

(* A bug: afterGameId is not moved, so the same page is read again. *)
FetchSamePage(w) ==
    /\ pc[w] = "fetching"
    /\ \E page \in SUBSET {g \in Games : cursor[w] < g /\ g <= PageEnd(w)} :
        /\ todo' = [todo EXCEPT ![w] = page]
        /\ tally' = [tally EXCEPT ![w].seen = @ \union page]
    /\ Go(w, "choosing")
    /\ UNCHANGED <<rows, scan, wrote, lag, older, cursor, history>>

FetchPage(w) ==
    /\ pc[w] = "fetching"
    /\ \E page \in SUBSET {g \in Games : cursor[w] < g /\ g <= PageEnd(w)} :
        /\ todo' = [todo EXCEPT ![w] = page]
        /\ tally' = [tally EXCEPT ![w].seen = @ \union page]
    /\ cursor' = [cursor EXCEPT ![w] = PageEnd(w)]
    /\ Go(w, "choosing")
    /\ UNCHANGED <<rows, scan, wrote, lag, older, history>>

(* ProviderRequestException: the run ends with what it has, interval unread. *)
PageFails(w) ==
    /\ pc[w] = "fetching"
    /\ tally' = [tally EXCEPT ![w].broke = TRUE]
    /\ Go(w, "completing")
    /\ UNCHANGED <<rows, scan, wrote, lag, older, cursor, todo, history>>

(* The heartbeat after a page; the last page completes the interval. *)
EndPage(w) ==
    /\ pc[w] = "choosing"
    /\ todo[w] = {}
    /\ w \notin Repairs
    /\ Beats(w)
    /\ IF cursor[w] = LastGame
         THEN /\ tally' = [tally EXCEPT ![w].read = TRUE]
              /\ Go(w, "completing")
         ELSE /\ Go(w, "paging")
              /\ UNCHANGED tally
    /\ UNCHANGED <<status, code, stopAsked, scan, wrote, lag, older, cursor, todo, history>>

EndRepair(w) ==
    /\ pc[w] = "choosing"
    /\ todo[w] = {}
    /\ w \in Repairs
    /\ Go(w, "closing")
    /\ UNCHANGED <<rows, scan, wrote, worker, history>>

-----------------------------------------------------------------------------
(* One Game.                                                               *)

IsNext(w, g) == g \in todo[w] /\ \A h \in todo[w] : g <= h

(* loadGame finds the Game: some run has created it. *)
Known(g) == \E r \in Runs : g \in wrote[r]

(* A bug: the safe point before a Game ignores the stop request. *)
StartGameRegardless(w) ==
    /\ pc[w] = "choosing"
    /\ todo[w] # {}
    /\ Beats(w)
    /\ Go(w, "working")
    /\ UNCHANGED <<status, code, stopAsked, scan, wrote, worker, history>>

StartGame(w) ==
    /\ pc[w] = "choosing"
    /\ todo[w] # {}
    /\ Beats(w)
    /\ ~stopAsked[w]
    /\ Go(w, "working")
    /\ UNCHANGED <<status, code, stopAsked, scan, wrote, worker, history>>

(* A new Game the import policy does not accept yet; a repair imports none. *)
DeferGame(w, g) ==
    /\ pc[w] = "working"
    /\ IsNext(w, g)
    /\ ~Known(g)
    /\ w \notin Repairs
    /\ tally' = [tally EXCEPT ![w].deferred = @ \union {g}]
    /\ todo' = [todo EXCEPT ![w] = @ \ {g}]
    /\ Go(w, "choosing")
    /\ UNCHANGED <<rows, scan, wrote, lag, older, cursor, history>>

(* The provider, validation or reconciliation refuses the Game. *)
RejectGame(w, g) ==
    /\ pc[w] = "working"
    /\ IsNext(w, g)
    /\ \E known \in BOOLEAN :
        tally' = [tally EXCEPT ![w].failed = @ \union {g},
                               ![w].quality = IF known THEN @ \union {g} ELSE @]
    /\ todo' = [todo EXCEPT ![w] = @ \ {g}]
    /\ Go(w, "choosing")
    /\ UNCHANGED <<rows, scan, wrote, lag, older, cursor, history>>

(* A bug: the write does not check that its run still owns the provider. *)
BeginSaveUnfenced(w, g) ==
    /\ pc[w] = "working"
    /\ IsNext(w, g)
    /\ w \in Repairs => Known(g)
    /\ Go(w, "saving")
    /\ lag' = [lag EXCEPT ![w] = 0]
    /\ UNCHANGED <<rows, scan, wrote, older, cursor, todo, tally, history>>

(* saveGame opens its transaction; fence() locks the row. *)
BeginSave(w, g) ==
    /\ pc[w] = "working"
    /\ IsNext(w, g)
    /\ w \in Repairs => Known(g)
    /\ Owns(w)
    /\ Go(w, "saving")
    /\ lag' = [lag EXCEPT ![w] = 0]
    /\ UNCHANGED <<rows, scan, wrote, older, cursor, todo, tally, history>>

(* The commit publishes the Game and the heartbeat its transaction set at   *)
(* its start: CURRENT_TIMESTAMP is the start of the transaction.            *)
Commit(w, g) ==
    /\ wrote' = [wrote EXCEPT ![w] = @ \union {g}]
    /\ late' = [late EXCEPT ![w] = IF stopAsked[w] THEN @ \union {g} ELSE @]
    /\ beat' = [beat EXCEPT ![w] = lag[w]]
    /\ lag' = [lag EXCEPT ![w] = 0]

CommitSave(w, g) ==
    /\ pc[w] = "saving"
    /\ IsNext(w, g)
    /\ Commit(w, g)
    /\ Go(w, "saved")
    /\ UNCHANGED <<status, code, stopAsked, scan, older, cursor, todo, tally, epoch, acquired>>

(* The commit reaches the database and its answer is lost: the worker is    *)
(* told CONNECTION_FAILED and counts the Game as failed.                    *)
CommitUnanswered(w, g) ==
    /\ pc[w] = "saving"
    /\ IsNext(w, g)
    /\ Commit(w, g)
    /\ tally' = [tally EXCEPT ![w].failed = @ \union {g}]
    /\ todo' = [todo EXCEPT ![w] = @ \ {g}]
    /\ Go(w, "choosing")
    /\ UNCHANGED <<status, code, stopAsked, scan, older, cursor, epoch, acquired>>

(* A bug: a write that was rolled back is counted as done. *)
AbortSaveCounted(w, g) ==
    /\ pc[w] = "saving"
    /\ IsNext(w, g)
    /\ tally' = [tally EXCEPT ![w].saved = @ \union {g}]
    /\ todo' = [todo EXCEPT ![w] = @ \ {g}]
    /\ lag' = [lag EXCEPT ![w] = 0]
    /\ Go(w, "choosing")
    /\ UNCHANGED <<rows, scan, wrote, older, cursor, history>>

(* The write fails and rolls back, its heartbeat included: only this Game fails. *)
AbortSave(w, g) ==
    /\ pc[w] = "saving"
    /\ IsNext(w, g)
    /\ tally' = [tally EXCEPT ![w].failed = @ \union {g}]
    /\ todo' = [todo EXCEPT ![w] = @ \ {g}]
    /\ lag' = [lag EXCEPT ![w] = 0]
    /\ Go(w, "choosing")
    /\ UNCHANGED <<rows, scan, wrote, older, cursor, history>>

(* localizeGame calls the heartbeat after each target and swallows its failure. *)
LocalizationBeat(w) ==
    /\ pc[w] = "saved"
    /\ Beats(w)
    /\ UNCHANGED <<status, code, stopAsked, scan, wrote, pc, worker, history>>

(* The heartbeat after the Game; only then is it counted. *)
CountGame(w, g) ==
    /\ pc[w] = "saved"
    /\ IsNext(w, g)
    /\ Beats(w)
    /\ tally' = [tally EXCEPT ![w].saved = @ \union {g}]
    /\ todo' = [todo EXCEPT ![w] = @ \ {g}]
    /\ Go(w, "choosing")
    /\ UNCHANGED <<status, code, stopAsked, scan, wrote, lag, older, cursor, history>>

-----------------------------------------------------------------------------
(* The end of a run.                                                       *)

(* successfulGames(counts) > 0 *)
Succeeded(t) == t.saved \union t.deferred # {}

(* outcome(counts) and stoppedOutcome(counts) *)
Outcome(t) ==
    IF ~t.stopped /\ ~t.broke /\ t.failed = {} THEN "succeeded"
    ELSE IF Succeeded(t) THEN "partial"
    ELSE "failed"

ResultCode(w) ==
    CASE tally[w].stopped -> "STOPPED"
      [] ~tally[w].stopped /\ w \in Repairs -> "REPAIR_COMPLETED"
      [] ~tally[w].stopped /\ w \notin Repairs /\ pc[w] = "closing" -> "FAILED"
      [] OTHER -> CASE Outcome(tally[w]) = "succeeded" -> "COMPLETED"
                    [] Outcome(tally[w]) = "failed" -> "FAILED"
                    [] Outcome(tally[w]) = "partial" /\ tally[w].read -> "COMPLETED_WITH_FAILURES"
                    [] OTHER -> "INTERRUPTED"

(* The finished rows that prune removes: all but the newest by started_at. *)
Outdated(finished) ==
    {r \in finished : Cardinality({x \in finished : r \in older[x]}) >= RetainedRuns}

(* complete(): record the report, which is the tally from here on, and prune *)
(* the history.                                                             *)
Record(w) ==
    LET outdated == Outdated(Finished \union {w}) IN
    /\ status' = [r \in Runs |-> IF r \in outdated THEN "pruned"
                                 ELSE IF r = w THEN Outcome(tally[w])
                                 ELSE status[r]]
    /\ code' = [code EXCEPT ![w] = ResultCode(w)]
    /\ beat' = [beat EXCEPT ![w] = 0]
    /\ todo' = [todo EXCEPT ![w] = {}]
    /\ Go(w, "done")
    /\ UNCHANGED <<stopAsked, wrote, lag, older, cursor, tally, history>>

(* cover(): the run is the latest scan of every day of its interval. *)
Cover(w) == scan' = [d \in Days |-> IF d \in Window[w] THEN w ELSE scan[d]]

Covers(w) == tally[w].read /\ Outcome(tally[w]) # "failed"

(* A bug: any completed run covers its interval. *)
CompleteCovering(w) ==
    /\ pc[w] = "completing"
    /\ Owns(w)
    /\ Record(w)
    /\ Cover(w)

Complete(w) ==
    /\ pc[w] = "completing"
    /\ Owns(w)
    /\ Record(w)
    /\ IF Covers(w) THEN Cover(w) ELSE UNCHANGED scan

(* The completion after a run-level failure, of a cancelled run or of a repair. *)
Close(w) ==
    /\ pc[w] = "closing"
    /\ Owns(w)
    /\ Record(w)
    /\ UNCHANGED scan

(* Every transaction of the run begins by checking its row; a worker whose  *)
(* row is gone or finished ends at its next one and records nothing.        *)
LoseOwnership(w) ==
    /\ \/ pc[w] \in {"paging", "working", "saved", "completing", "closing"}
       \/ pc[w] = "choosing" /\ (todo[w] # {} \/ w \notin Repairs)
    /\ ~Owns(w)
    /\ Go(w, "lost")
    /\ Forget(w)
    /\ UNCHANGED <<rows, scan, wrote, history>>

(* A failure no Game accounts for, such as a database error at a safe point *)
(* or a heartbeat: counted once, then completed without coverage.           *)
FailRun(w) ==
    /\ \/ pc[w] \in {"paging", "fetching", "working", "saved", "completing"}
       \/ pc[w] = "choosing" /\ (todo[w] # {} \/ w \notin Repairs)
    /\ tally' = [tally EXCEPT ![w].broke = TRUE, ![w].stopped = FALSE]
    /\ Go(w, "closing")
    /\ UNCHANGED <<rows, scan, wrote, lag, older, cursor, todo, history>>

(* That completion fails too: the exception leaves execute(), the row stays running. *)
FailClosing(w) ==
    /\ pc[w] = "closing"
    /\ Go(w, "threw")
    /\ Forget(w)
    /\ UNCHANGED <<rows, scan, wrote, history>>

(* The process stops; its transaction, if one is open, rolls back. *)
Crash(w) ==
    /\ pc[w] \notin {"idle", "refused", "done", "lost", "threw", "crashed"}
    /\ Go(w, "crashed")
    /\ Forget(w)
    /\ UNCHANGED <<rows, scan, wrote, history>>

-----------------------------------------------------------------------------
GameStep(w, g) ==
    \/ DeferGame(w, g)
    \/ RejectGame(w, g)
    \/ BeginSave(w, g)
    \/ CommitSave(w, g)
    \/ CommitUnanswered(w, g)
    \/ AbortSave(w, g)
    \/ CountGame(w, g)

(* What a worker thread does while its process lives. *)
Progress(w) ==
    \/ Acquire(w)
    \/ Refuse(w)
    \/ Execute(w)
    \/ Cancel(w)
    \/ Stop(w)
    \/ StartPage(w)
    \/ FetchPage(w)
    \/ PageFails(w)
    \/ EndPage(w)
    \/ EndRepair(w)
    \/ StartGame(w)
    \/ \E g \in Games : GameStep(w, g)
    \/ Complete(w)
    \/ Close(w)
    \/ LoseOwnership(w)
    \/ FailRun(w)
    \/ FailClosing(w)

Next ==
    \/ Tick
    \/ \E w \in Runs :
        \/ ReadClock(w)
        \/ Progress(w)
        \/ LocalizationBeat(w)
        \/ RequestStop(w)
        \/ AbandonByOperator(w)
        \/ Crash(w)

Spec == Init /\ [][Next]_vars

(* Living threads run and the scheduler retries what it keeps.  Time passes  *)
(* whenever it may do so again and again (SF): a start in progress bounds it *)
(* by MaxLag, and the scheduler waits a second between two retries.          *)
Retry(w) == pc[w] = "refused" /\ ReadClock(w)
Fairness ==
    /\ SF_vars(Tick)
    /\ \A w \in Runs : WF_vars(Progress(w))
    /\ \A w \in Deferred : WF_vars(Retry(w))
FairSpec == Spec /\ Fairness

-----------------------------------------------------------------------------
(* Properties.                                                             *)

TypeOK ==
    /\ status \in [Runs -> Statuses]
    /\ code \in [Runs -> Codes]
    /\ beat \in [Runs -> 0..AgeCap]
    /\ stopAsked \in [Runs -> BOOLEAN]
    /\ scan \in [Days -> Runs \union {NoRun}]
    /\ wrote \in [Runs -> SUBSET Games]
    /\ pc \in [Runs -> Places]
    /\ lag \in [Runs -> 0..AgeCap]
    /\ older \in [Runs -> SUBSET Runs]
    /\ cursor \in [Runs -> 0..LastGame]
    /\ todo \in [Runs -> SUBSET Games]
    /\ tally \in [Runs -> Tallies]
    /\ epoch \in [Runs -> Nat]
    /\ acquired \in Nat
    /\ late \in [Runs -> SUBSET Games]

(* The provider belongs to the run that acquired it last, and to it alone:  *)
(* no interleaving of two starts, takeovers and retries revives an earlier  *)
(* run or lets two rows run (beginRun and the unique index on running).     *)
OwnerIsLatest ==
    \A r \in Running : epoch[r] = acquired /\ \A s \in Runs \ {r} : epoch[s] < acquired

(* A run is never abandoned, by a new start or by an operator, while one of *)
(* its Game writes is in progress: the statement waits for the row and then *)
(* looks again at the heartbeat.                                            *)
WriterOwnsRun == \A r \in Runs : Locked(r) => r \in Running

(* What ownership rests on, inductive: every acquisition is later than the   *)
(* ones before it, only the latest can still be running, a call that has not *)
(* acquired a run left no trace, and writers own their runs.                *)
OwnershipInv ==
    /\ OwnerIsLatest
    /\ WriterOwnsRun
    /\ \A r \in Runs : epoch[r] <= acquired
    /\ \A r \in Running : epoch[r] # 0
    /\ \A r \in Runs : pc[r] \in {"idle", "starting", "refused"} =>
                        status[r] = "none" /\ epoch[r] = 0

(* A finished row is history: a worker that comes back after its run was    *)
(* abandoned or completed changes neither its status, its code nor its      *)
(* coverage, and a pruned row never returns.                                *)
FinishedIsFinal ==
    [][\A r \in Runs :
        /\ status[r] \in Outcomes \union {"abandoned"} =>
            status'[r] \in {status[r], "pruned"} /\ code'[r] = code[r]
        /\ status[r] = "pruned" => status'[r] = "pruned"
        /\ \A d \in Days : scan'[d] = r /\ scan[d] # r => r \in Running]_vars

(* A day's latest scan is a run that read its whole interval without being  *)
(* stopped, accounted for every Game the provider returned, and did not     *)
(* fail them all: nothing is hidden behind recorded coverage.               *)
CoverageIsAccounted ==
    \A d \in Days : scan[d] # NoRun =>
        LET r == scan[d]
            t == tally[r]
        IN /\ r \notin Repairs
           /\ d \in Window[r]
           /\ cursor[r] = LastGame
           /\ ~t.stopped
           /\ t.seen = t.saved \union t.deferred \union t.failed
           /\ t.failed # {} => Succeeded(t)

(* What a run counted as published is in the catalogue, whatever interrupted *)
(* it, and a run recorded as succeeded published or deferred all it saw.     *)
CountedIsPublished ==
    \A r \in Runs :
        /\ tally[r].saved \subseteq wrote[r]
        /\ status[r] = "succeeded" /\ r \notin Repairs =>
            tally[r].seen = tally[r].saved \union tally[r].deferred

(* Once a stop is recorded the run commits at most the one Game whose write *)
(* was already on its way, however long it goes on.                         *)
AtMostOneGameAfterStop == \A r \in Runs : Cardinality(late[r]) <= 1

(* Every run ends unless its process or its last completion failed: again   *)
(* and again no living worker holds the provider.                           *)
RunsEnd == []<>(\A r \in Running : pc[r] \in {"crashed", "threw"})

(* A scheduled call refused because another run was in flight does get its  *)
(* run, even when that run's process died: nobody holds the provider for    *)
(* ever.                                                                    *)
DeferredCallsRun ==
    \A w \in Deferred : pc[w] = "refused" ~> (epoch[w] # 0 \/ pc[w] = "crashed")

(* The table, heartbeats and workers implement run ownership. *)
Owner == IF Running = {} THEN NoRun ELSE CHOOSE r \in Runs : status[r] = "running"
Ownership == INSTANCE RunOwnership WITH
    owner <- Owner,
    ended <- {r \in Runs : epoch[r] # 0 /\ r \notin Running},
    published <- wrote
ImplementsOwnership == Ownership!OwnershipSpec

=============================================================================
