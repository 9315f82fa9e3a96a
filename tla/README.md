# Verification of the videogame platform

TLA+ specifications of the concurrent core of the backend and of the tools that install,
upgrade, back up and erase in production, the TLC models that check them on small instances,
and theorems about them that TLAPS checks for every instance. The Java sources are under
`src/backend/src/main/java/com/videogameplatform/`, the tools under `src/scripts` and
`src/deploy`. `PROJECT.json` maps each definition to the lines it stands for.

## 1. The system

A Spring Boot service over one PostgreSQL database, of which several instances may run at
once (a deployment overlaps the old and the new version, an operator's command is a process
of its own). It imports a catalogue of Games from an external provider (IGDB), localizes
it, lets users rate Games, and serves all of it. Everything that must survive a process or
be agreed between processes is a row, a constraint or an advisory lock of the database;
memory holds nothing that matters except what a thread is doing.

| component | state it keeps | operations | how it interacts |
|---|---|---|---|
| catalogue synchronization runs (`CatalogueSynchronizationService`, `JdbcCatalogueSynchronizationStore`) | `synchronization_run`: one row per run, at most one `running` per provider (unique index), heartbeat, stop request, counters, outcome | start, repair, execute, cancel, stop, abandon, complete | called by the scheduler, the backfill, operators and administrators; writes Games and coverage |
| synchronization coverage (`cover`, `SynchronizationCoverageService`) | `synchronization_coverage`: disjoint intervals of days with the run and import policy that last scanned them | cover, covered, coveredIntervals | written in the transaction that completes a run; read by the backfill and the administration |
| scheduler (`CatalogueSynchronizationScheduler`) | `deferred_synchronization_policy`: one slot per periodic policy; the advisory lock of the scheduled turn | record a due window, drain, cancel | starts runs; the backfill looks at its lock and slots |
| historical backfill (`HistoricalBackfillService`, `JdbcHistoricalBackfillStore`) | `historical_backfill`: one target, its checkpoint, state, execution token and current run; an advisory lock | start, resume, stop, the worker loop | starts one run per month, reads coverage, gives way to the scheduler |
| background executors | one thread and a queue of one each, for operator runs and for the backfill | submit, close | carry runs and workers; may reject them or be shut down |
| reconciliation policies | none | decide what one provider Game changes | called inside a run, on content |
| localization | claims of translations with leases, per source fingerprint | claim, complete, publish | called inside a run and by its own worker |
| IGDB adapter | access token, rate limiter | pages, Games | called by runs; retries and one token refresh |
| ratings and community score (`JdbcPersonalRatingStore`, `CommunityScoreBackfill`) | personal ratings with version tokens; a projected score per Game | rate, change, withdraw, start-up projection | per-Game transaction lock, also taken by an erasure |
| sessions and account deletion (`SessionRevocation`, `JdbcAccountDeletionStore`, `AccountDeletionExecutorEndpoint`) | the session registry of the process and its shared lock; admitted deletions with claims and expiries | sign in, change, admit, claim, revoke, finish, acknowledge | web requests and an external executor |
| personal-data tools (`personal-data-self-service-runner`, `personal-data-ledger`, `personal-data`) | an append-only ledger; the identity provider's account | claim, revoke, archive, delete ratings, delete identity, verify, report | claims from the application, then acts on its database and on Keycloak |
| legal archive (`personal_data_archive.py`) | per erased account, in two stores: a sealed source, its signed manifest, review and destruction record | seal, review, purge | sealed by an erasure before it deletes; reviewed and purged by the owner |
| recovery actor (`bin/recovery`) | the gate volume (`READY`, `PENDING.json`, `IDENTITY-MAINTENANCE.json`, `ACTOR.lock`), a recovery journal, which roles can log in | fence, back up, thaw, reopen a capture, enter and exit maintenance | everything below goes through it |
| first installation and acceptance (`install_private_production.py`, `private_production_control.py`, `private_production_acceptance.py`) | an intent, a journal, a failure sidecar; the lock of the gate borrowed from a helper container | install, close, reconcile, accept, revert restarts | opens the gate the first time |
| private production upgrade (`private_production_upgrade.py`) | one journal per target, `ACTIVE.json` | plan, stage, apply, fix forward, resume, abandon, verify | claims the fence a paired backup left closed, migrates, replaces, reopens |
| scheduled backup (`bin/backup-cycle`) | `CYCLE.json`, local pairs | run, reconcile, check, acknowledge | takes and reopens its own fence; uploads |
| off-host store (`recovery_s3.py`) | a versioned bucket with retention locks | publish, observe, expire, fetch | called by the cycle as processes of their own |
| catalogue reads, API delivery, administration, front end, other scripts | none of their own that interleaves, apart from admission semaphores | | |

### What is hard here

* A run has no lease that its process renews in the background: it owns the provider because its row
  says `running`, and it loses it when somebody else finds its heartbeat too old. Its
  worker may be alive and slow. Every transaction of the worker must therefore find out.
* `beginRun`, `fence`, `abandonRun` and `requestStop` rely on READ COMMITTED: an `UPDATE`
  that waited for a row looks at it again, and `CURRENT_TIMESTAMP` is the beginning of the
  transaction that holds the row, not its end.
* A Game is committed, then the heartbeat is renewed, then the Game is counted. Anything
  may fail in between, and the commit's own answer can be lost.
* Coverage lets the backfill skip months and operators trust days: it must only be
  recorded for an interval that was read to its end, with every failure on the books.
* The scheduler and the backfill exclude one another with an advisory lock, a table and
  the run row, which are read in separate statements and belong to separate sessions.
* The tools run beside one another on one host and may be killed at any step. What
  keeps them apart is the recovery lease (a kernel lock, gone with its process), the gate and
  the journal of whoever closed it (durable), and journals of their own, read before or under it.
  A container, a daemon request or an upload outlives the command that started it.
* An erasure acts on the application's sessions, its database, the identity provider and two
  archive stores, none of which share a transaction, while the user's own changes are running.
* A backfill's lock belongs to a session that can be lost while its worker goes on; the
  execution token in the row is the second fence. A stop can fall between any two
  statements of a start, a resume or the loop.

### What makes each component correct

* *Runs*: one owner, the latest; finished rows are final; no takeover during a write;
  coverage only from fully read and accounted intervals; counters never claim what was not
  published; a stop takes effect within one Game; a run ends, and a dead run does not keep
  the provider.
* *Coverage*: intervals disjoint, keys never collide, each day keeps the scan that last
  covered it; both queries answer what the days say.
* *Scheduler*: the latest due window is not lost; a disabled policy does not run; a window
  is served in the end.
* *Backfill*: the checkpoint passes over nothing; nobody but an operator activates a
  target; a stop reaches the run in progress; a due window waits for at most one month;
  neither side starves the other.
* *Ratings*: the projected score is that of the committed ratings; no update is lost.
* *Account deletion*: completed once, only by the current claim; what it erased stays erased
  although the user's changes, a second executor or a late report were in flight.
* *Legal archive*: an erased account leaves a source or a signed proof of its destruction; a
  hold is honoured; what was interrupted can be resumed.
* *Upgrade*: the pair is the recovery point until the product writes again; the gate never
  opens on a schema the application does not know; nothing goes back; it settles.
* *Scheduled backup*: never reopens another's fence, never counts an upload the store does not
  have, ends on an open product or asks for its owner.
* *Installation*: no open gate without a holder before it is prepared; a confirmed shutdown is final.
* *Localization*: a published translation is of the current source; a late completion is refused.

The hazards behind these, line by line, are in `PROJECT.json`.

## 2. Modules

```
RunOwnership  <--implements--  SyncRun  ---- SyncRunProofs
      ^
      |  implements
CatalogueRuns  <--extends--  ScheduledSlots  <--extends--  Backfill  ---- BackfillProofs
LatestScan    <--implements--  Coverage ---- CoverageProofs
RecoveryStore <--extends--     BackupCycle ---- BackupCycleProofs
Upgrade ---- UpgradeProofs                 Installation ---- InstallationProofs
Personal ---- PersonalProofs               LegalArchive ---- LegalArchiveProofs
```

### SyncRun and RunOwnership

`SyncRun` is the table `synchronization_run` with its workers. Each element of `Runs` is
one call of `start` or `repairGames`, and the run it may own. A step is one transaction,
one provider call or one decision of a worker in between. Rows (`status`, `code`, `beat`,
`stopAsked`), coverage by day (`scan`) and committed Games (`wrote`) survive; `cursor`,
`todo` and `tally` are the worker's locals and go with its thread (`Forget`).

| code | definitions |
|---|---|
| `start`: the clock, then `beginRun` | `ReadClock`, `AbandonStale`, `Acquire`, `Refuse` |
| `execute`, `cancel` | `Execute`, `Cancel` |
| page loop of `synchronizeOwned` | `Stop`, `StartPage`, `FetchPage`, `PageFails`, `EndPage` |
| Game loop and `reconcile` | `StartGame`, `DeferGame`, `RejectGame`, `BeginSave`, `CommitSave`, `CommitUnanswered`, `AbortSave`, `CountGame`, `LocalizationBeat` |
| completion and what goes wrong | `Complete`, `Close`, `Record`, `Cover`, `FailRun`, `FailClosing`, `LoseOwnership`, `Crash` |
| `repairGames` | the same with `Repairs`, `EndRepair` |
| operators | `RequestStop`, `AbandonByOperator` |

A Game write is two steps because it holds its run row: `BeginSave` is `fence()`, and while
`Locked(r)` no statement that needs the row runs. Its heartbeat is the start of the
transaction, so `CommitSave` sets `beat` to the age of that start. Instants are kept as
ages, capped at `AgeCap`: the code compares only the difference of two instants with
`abandonRunAfter`. `lag` lets a start read its clock and reach `beginRun` later.

`RunOwnership` says what that is for: at most one owner, only the owner publishes,
ownership lost is lost for good, and coverage changes only as a whole interval at the
moment its owner ends.

### Coverage and LatestScan

`Coverage` is the table and the four statements of `cover()` as operators, in order, since
the primary key is checked by each statement while the exclusion constraint is deferred to
the commit; `Covered` and `CoverageAnswer` are the two queries: the first adds the overlaps of a month with
the stored intervals (`SharedDays`), the second reads the intervals in the order of the SQL
(`ByFirstDay`) through the loop of the service (`ReadIntervals`). `LatestScan` is a function
from days to scans.

### CatalogueRuns, ScheduledSlots, Backfill

`CatalogueRuns` is what callers of the synchronization see (start, refused, report,
orphaned row, stop request, takeover); its steps are steps of `RunOwnership`.
`ScheduledSlots` has one scheduler thread per instance; it is one thread in the code
too (a Spring scheduler with its default pool of one thread), which is why a cron and a drain of one instance never
interleave. `Boot` is concurrent with it. `Backfill` composes with both: an operator's
start or resume becomes the worker it dispatches, so the two are one element of `Calls`.
Every statement of `start`, `resume`, `stop`, the loop, `attach`, `advance` and `state` is
a step, with the checks in the order of the code; Java's try-with-resources closes the
lease *before* its catch clause writes the state, and so do `CloseFailing` and `WriteFailure`.

### Personal

One Game, its ratings and its score; the sessions of a few browsers; the deletion of an account
and the executors that carry it out. A rating is its version token and a score is the aggregate
it was computed from, so `ScoreIsCurrent` compares the two.

| code | definitions |
|---|---|
| sign-in, the registry, `AccountDeletionFenceFilter` | `SignIn`, `Register`, `Fence` |
| `changeAsCurrentUser`, `whileActive` | `Arrive`, `Enter`, `Recheck`, `Refuse`, `Admit` |
| `JdbcPersonalRatingStore.write` | `Lock`, `Write`, `Commit`, `Rollback` |
| `CommunityScoreBackfill` | `FindUnprojected`, `LockUnprojected`, `ReadAggregate`, `Project`, `Restart` |
| the executor endpoint: claim | `Claim`, `FallDue`, `HandOver`, `HandOverTimesOut` |
| the runner, the ledger's steps, `personal-data` | `Start`, `Disable`, `EndSessions`, `CheckSessions`, `SelectRatings`, `LockErased`, `Erase`, `Remove`, `Verify`, `Confirm`, `FailStep`, `CutOff`, `Crash` |
| finish | `Acknowledge` |

A change is in four steps because each may find the world different: it passes the fence, takes
the shared lock and looks at its session again, looks at the fence again, then writes. The
exclusive lock is fair (`ExclusiveQueued`): once a revocation waits, later changes wait behind it.

### LegalArchive

One reference in two stores. Each file is absent, torn or whole, and each write, each store of
each operation, is a step; files written through a pending name are never torn. `Restore`
puts one store back to an earlier state of its own; the losses are bounded by `MaxRestores`.

### Upgrade

Journals, `ACTIVE.json`, the gate, the recovery journal, the roles, the schema and the
containers are the durable state; `actor` is the command that holds the lease, at one of its
steps, and `applying` what an `--apply` has read before it takes the lease. `Fencing`,
`Migrating`, `Replacing` and `Reopening` are the phases of `execute`, `Failing` and `Record`
its `except` clause, `Die` the loss of the process. A migration container applies one migration
per transaction and goes on alone. Other actors take backups and thaw (`Backup`, `Thaw`), and
the product writes when it runs (`Write`), which makes every earlier pair stale.

### BackupCycle and RecoveryStore

`RecoveryStore` is the bucket: uploads that put file by file and the receipt last, locks that
end, and an expiry that plans and deletes version by version, each call of which may take effect
and not answer. `BackupCycle` is the journal and the steps of `run`, `reconcile` and
`acknowledge`; everybody else who fences is one actor, the owner, whose own fences,
reopenings and maintenance come anywhere. A cycle that dies leaves an upload's process behind.

### Installation

The command (`ctl`), the helper container that holds the kernel lock (`helper`; `orphan` once
its stdin is closed), the gate, the two records, the containers that run and the daemon requests
in flight (`late`). `holders` says who holds the lock: the descriptor the command borrowed and
the helper's are one open description. The handshake (`Commit`, `HelperCommits`, `Committed`,
`HelperReleases`, `Released`) and the two `except` clauses (`InstallFails`, `SuccessFails`,
`CloseFence` ... `WriteFailure`) are steps, so a fault can fall between any two.

## 3. Runs

| run | asks | bounds |
|---|---|---|
| `games` | what coverage, counters and stops promise, Game by Game | an interval run of two pages and a repair of single Games, two Games, two days |
| `two_runs` | ownership and that the table implements `RunOwnership`; that runs end and refused scheduled calls get theirs | two runs with overlapping intervals, one page, one retained run, late clocks (`MaxLag = 1`) |
| `coverage` | refinement of `LatestScan`, both queries | three completed runs, six days, two import policies, answers of at most two intervals |
| `slots` | that the latest request is kept | two instances, one policy enabled and one disabled with a slot left over, two days, one fault, one operator run |
| `backfill_stop` | checkpoint, stop, ownership | a start, a resume, a stop, two months, one lost session and one failure, crash or interruption |
| `backfill_ends` | fairness between worker and scheduler | one worker of two months, one policy, one stop |
| `personal` | score, lost updates, what an erasure leaves | two users, two sessions (of one user or two), one deletion, two executors, two tokens, one fault |
| `archive` | source or proof, holds, resumption | two stores, three years, two reviews, two faults of which one may be a restored store |
| `upgrade` | the pair, the schema behind an open gate, abandonment, settling, that nothing goes back alone | two targets of which the first adds a migration, two pairs, three commands that raise or die |
| `upgrade_downgrade` | a sentence of the tool that it does not keep (section 6) | the same with one pair, two faults |
| `cycle` | fences, uploads, receipts, convergence | two captures, two uploads, two attempts to reopen, one fence of the owner, one death, a pair of one file besides its receipt |
| `install` | who holds the gate, confirmed shutdowns | three services, two of which ask the gate, three faults |

Why the bounds are enough. Ownership is a matter of two runs: an owner and the one that
takes over; a third adds only a second takeover, and the proofs cover any number. Two
Games tell the first, the middle of a write and the last apart; two pages tell a page in the middle
from the last. Ages run from 0 to `AgeCap`, past every comparison. Three intervals
on six days contain every relation of two intervals (before, adjacent, overlapping on either
side, inside, equal) against a table that was split before. Two instances suffice for the late
completion of one while the other records; two days suffice for one window to replace
another. In the backfill one lost session makes two workers at once. What two losses would
add is three workers, of which at most one holds the lock.

Two users tell the one who leaves from the one who stays; two sessions let a change of each, or
two of the leaver, be in flight at once; two executors are the one that is started and the one that
should not be. In the archive two faults are an interruption and one more during its
resumption. Two targets are the two upgrades that overlap; a third adds a chain of fixes. Three
commands that raise or die give an interruption, a failed resumption and a failed
abandonment; what a fourth adds, a fix of an upgrade that is abandoned and claimed again
(section 6), the properties exclude, and the proofs cover any number. Two captures let an old pair be pruned for a new one. Three faults in the
installation are more than its properties allow (`faults <= 1`) except `ConfirmedIsFinal`, which holds for any.

`MaxRuns` and `MaxRequests` lie above what the callers of a run can generate. `BeginRun` is
guarded by the first, as the proofs need it, and no run of TLC reaches it. `MaxFaults`, `MaxLosses`, `MaxOthers`, `MaxDay`,
`MaxLag`, `MaxCovers`, `MaxBackups`, `MaxCaptures`, `MaxUploads`,
`MaxFences`, `MaxDeaths`, `MaxReviews`, `MaxRestores`, `MaxTime` and `Versions` bound how often the environment acts. Deadlock checking is off:
when every call has ended, the system stops.

Each property has a mutant in `PROJECT.json`: a plausible bug (`(* A bug: ... *)` in the
modules) that the property's run must catch. No action uses these definitions.

## 4. Fairness

`SyncRun`: living threads take their next step (`WF` of `Progress`), the scheduler tries
again what it keeps (drain every second, `configureTasks`), and time passes (`SF` of
`Tick`, since a start in progress bounds it by `MaxLag` in the model only). Operators,
crashes and failures are not fair. A run whose process died, or whose last completion failed, stays open until it is
taken over, and `RunsEnd` says so.

`ScheduledSlots` and `Backfill`: scheduler threads and workers run, an operator's run ends,
and a dead run is abandoned by a later start (`DeferredCallsRun` in `SyncRun` is why it can be). A
cron need not fire and a stop need not be asked for; a stop that reached the server is
carried out. `WorkersEnd` and `WindowsServed` are checked without faults: with
them, a worker may simply be gone.

`Personal`: a change that was begun ends, so does a begun projection, time passes, and an
executor that is kept running gets its turn (`SF`: the Game's lock and the shared lock come
free again and again). Nobody has to sign in or to ask for anything. `LegalArchive`: a
running operation goes on; an erasure is retried until its source is sealed (the runner asks
again every few seconds); the owner completes a destruction already signed, as the code's comment asks.

`Upgrade`: a command that runs proceeds, a migration container ends, and an operator who finds
an unfinished upgrade resumes it or abandons it where that is allowed (`SF`, since other commands
take the lease in between). `BackupCycle`: the timers fire, a call goes on (every wait in it
has a timeout), the owner gives the lease back and ends its maintenance, an upload's process
ends; `Converge` is strongly fair because the lease is free again and again. `Installation`:
the living command and the living helper go on; nobody is obliged to reconcile, and no property needs it.

## 5. Proofs

All theorems hold for any number of runs, Games and days, any windows and thresholds, any
services, calls, stops, faults and lost sessions.
Assumptions are the named `ASSUME`s of the modules: finite sets of runs, positive
bounds, targets numbered by their order, the placeholders `NoRun`, `NoScan`, `NoCall` and `NoOne` outside
the sets they extend, the receipt none of a pair's own files. The only other hypothesis is that of
the three theorems of the archive.

* `SyncRunProofs`: `TypeCorrect`, and two invariants.
  *Ownership.* Neither `OwnerIsLatest` nor `WriterOwnsRun` is inductive:
  whether a start may insert depends on who is running, whether a worker's completion
  leaves one owner depends on its being the latest, and a call that has not
  acquired could bring a row with it. `OwnershipInv` adds that acquisitions are numbered
  up to `acquired`, that running rows have a number, and that calls before their
  acquisition left no trace. From it: `SingleOwner`, `WriterKeepsRun`, `FinishedStaysFinal` (an action property),
  and `RunsImplementOwnership`: each step of the table is a step of
  `RunOwnership` or a stutter. A takeover is one step of both; an abandonment whose insert
  is then refused cannot occur, because all stale rows are abandoned and at most one row runs.
  *Accounts.* `CoverageAccounted`, `CountedPublished` and `StopLetsOneThrough`. What a
  row or a day says is written once, from a worker's memory, so the invariant says what that
  memory holds at each place (`Tallied`): while a run reads, every Game seen is counted or still
  to do and no flag is set; a run completes because it read its interval, was stopped or broke; a
  run closed otherwise broke. With it a recorded coverage is honest, and stays so because a
  completed run's memory never changes.
* `CoverageProofs`, for any days, runs, policies and limits.
  *Table.* `CoverageInvariant`, `IntervalsDisjoint` (the exclusion constraint never
  rejects a completion), `CoverageImplementsLatestScan`. Disjointness is what makes "the
  interval that holds day d" unique; the step follows from `RemainderOrigin` (whatever survives
  the four statements is part of one earlier row outside the new interval) and its converse.
  *Covered.* `CoveredAnswersEveryDay`: the sum of overlaps counts the days of the range that a row of
  the policy holds, because rows are disjoint (`SumCountsHeldDays`), and it is the length of
  the range only if every day is one of them (`CoveredMeansEveryDay`).
  *Answers.* `CoverageAnswersExact`, for complete and bounded answers alike. The rows that the query
  reads can be put in the order of their first days (`StoredInOrder`), and the loop over them is
  followed turn by turn (`LoopTells`): what it has told so far are consecutive periods, the days
  before its cursor each with their latest scan, and each row it reads is told or merged into
  the last period; what remains is told as uncovered or left to the next answer
  (`CompleteAnswer`, `BoundedAnswer`).
  Sums over sets and loops over sequences are recursive, and the induction theorems of the library take an
  operator, which the provers cannot instantiate. These proofs take a smallest counterexample
  instead, of sets (`SmallestSubset`) and of lengths (`LeastNatural`), which exists because the
  order is well founded.
* `BackfillProofs`, about the scheduler and the backfill together.
  *Slots.* `LatestStays`, for any instances and settings. The slot's id alone is not
  enough: a request recorded late by another instance is kept out only because the
  slot holds the latest request with its own time (`HoldsLatest`).
  *Runs.* `BackfillOwnsRuns`: a step of any thread begins a run, ends one that was started, evicts
  one or leaves them alone (`RunsMove`), and each of these is a step of `RunOwnership`.
  *Checkpoint.* `CheckpointsAreCovered`, for any calls and lost sessions. After a loss two workers may
  be on one target, so the argument cannot rest on the lock. It follows what each worker read:
  its month is not past the checkpoint of the target it still names, its run is newer than that
  target, and what it is about to advance over is covered by its run or a later one (`Knows`). Names
  of targets do not come back (`Named`), and coverage is replaced by later runs only (`RunsGrow`).
  *Stops.* `StopReaches`, for any calls and faults, while no session was lost and no other stop was asked
  for. Then the lock says who works (`LeasesInv`), and the call at work is the one that
  wrote the token which the target names (`TokensInv`). `Reaches` follows the stop: the target is being stopped
  until that call ends, the call finds it before it executes a run, or the run was attached
  before, and then the stop reads it.
  *Tokens.* `WorkersWriteTheirOwn`, for any calls, stops and faults while no session was lost: a state, a run,
  a checkpoint or a failure is written over the execution that the writing call began, and over no
  other. A failure is written after the lease is closed, when another call may have resumed the
  target, so the lock alone does not say it; `TokensInv` does, since a call that read another's token
  names another target. It is stated of the steps in `BackfillProofs` only, and no run has it: with a lost
  session it is false (section 6).
* `PersonalProofs`: the five safety properties of ratings and deletion (`ScoreStaysCurrent`,
  `CompletionErases`, `HandedOverIsSettled`, `WritesReplaceWhatTheySaw`, `CompletionStays`), for any users,
  sessions, executors, version tokens and faults, given that a session, an executor and the start-up
  projection are never taken for one another (`HoldersAssumption`). None of them is inductive.
  `Held` and `Fresh` say who holds the Game's lock and that what was read under it is still so,
  which gives the score and the version. `Settling` follows one account: claimed, its deletion
  is recorded, so that no change passes the second reading of the fence; handed over, the
  revocation has drained the changes that had passed it before (`Drained`); verified, the
  rating and the account are gone, and nothing is left that could bring them back (`Erased`).
* `UpgradeProofs`: all four safety properties, for any set of targets, any number of migrations,
  backups and faults, by four invariants, each of which rests on the ones before it.
  `UpgradeInv` says, for each step, what is already done there: the gate is closed from the
  first step of the fence until the last of reopening; between them a migration container can
  run, and past the replacement the application is the target's and the schema is the target's.
  A command that dies leaves the gate as it was, which is why the gate and not the lease
  protects the schema (`OpenGateHasItsSchema`).
  `OwnershipInv` relates the journals, the containers, the lease and what an `--apply` has read
  before it took the lease: a command works on an unfinished upgrade that no `--apply` still
  prepares, and an upgrade whose journal does not say that it started the identity service has no
  container. An abandonment is refused from that start on, so it leaves nothing behind
  (`AbandonedIsClean`).
  `FenceInv` is about writes. The pair that a complete fence names, and that of the upgrade which holds
  the identity fence or the lease, is the last write, with nothing running that could write again
  (`Good`), or another upgrade shows that the claim is not alone (`Witness`): it goes on from an
  earlier claim, has reopened, or ended on this pair or a later one. An abandonment and a new claim
  under the same fence are why the fence alone does not say it. From it: `PairStaysRecoveryPoint`.
  `OrderInv` is about revisions, as long as no forward fix was claimed: no upgrade on an earlier pair than
  the active revision's can go on, since it has not reopened and its fence is gone (`Order`),
  and whoever could nevertheless go back is overlapped by one that acted on the same or a later
  pair (`LaterWrote`). It speaks of every prepared `--apply`, too, because each of them compares the
  active revision before it takes the lease. From it: `NoDowngradeAlone`.
* `BackupCycleProofs`: `OwnersFenceIsLeft`, `ReceiptsAreHonest` and `LastUploadCanBeFetched`, for any files,
  windows, locks, captures, uploads, fences and deaths. `Stored` says that every version outlives
  what the bucket promises for its pair and that expiry only has versions that are over; `Fenced`
  that whoever works inside a fence holds the lease; `Booked` which pair the journal and a
  running upload speak of, so that an upload that ends is one of the pair the journal then counts.
* `InstallationProofs`: `OpenGateIsHeld` and `ConfirmedStaysFinal`, for any services. The first follows from
  who has a descriptor of the lock at which step (`Descriptors`): the lock excludes an
  acceptance, and an open gate of an unprepared attempt is left to a command that will close
  it or to a helper that must. The second is about evidence: while a request may still be
  served, the living command knows that it is uncertain, or a record that it left says so to the
  next one (`Evidence`), and nobody starts anything once a shutdown is confirmed.
* `LegalArchiveProofs`: `SourceSurvives` and `HoldHonoured`, given `MaxRestores <= 1`. A store that
  was never restored is a keeper: it holds the source or a signed record, and no review but one
  that was asked for or answered. Both are, until a store is restored; then one is, and one is
  enough, since a source is removed only when both have the record and terms are in force only when
  both hold them. The hypothesis is needed: with two restores TLC finds both stores brought back
  to a time before the seal, and to terms before a hold.

Only model-checked: liveness and the fairness it needs, which this prover cannot state. Every
invariant, action property and refinement that a passing run checks is proved.
`FinishedIsFinal`, `Disjoint` and the type invariants of `SyncRun`, `Coverage` and `Upgrade` are proved and no longer run.

## 6. Where code and text disagree

One run shows a counterexample. `upgrade_downgrade`: `apply` looks for other unfinished
upgrades and at the active revision before it takes the lease, and at neither again under it;
the fence it then claims is accepted if it names the pair and any `upgrade-` phase, whoever wrote it.
Two applies that overlap both claim the pair; one activates, and the other, older one can be
resumed and activates its target. The tool says "A single upgrade at a time" and "no
downgrade". `NoDowngradeWhenAlone`, which holds, is the same for an upgrade that no other overlaps,
as long as no forward fix was claimed.

Other disagreements were met while modelling and have no run of their own:

* A run can be recorded `FAILED` with a Game published, when the heartbeat after the commit
  fails (`CatalogueSynchronizationService` 738); `SynchronizationOutcome` 9 says nothing was published.
* A stopped run is `partial` after deferring one Game (531); the runbook says "if it committed Games".
* When the completion fails as well (321), the exception leaves `execute` with the row still
  `running`; the executor's comment (`BackgroundSynchronizationExecutor` 64) says it recorded itself as failed.
* Two stops around a resume: the second `UPDATE` of a delayed stop
  (`JdbcHistoricalBackfillStore` 283) ends another execution's stop, and that execution goes on with its month.
* `dispatch` reads the token from the row (`HistoricalBackfillService` 124); after a lost session
  it may be another worker's, and a failure is then written over that execution (257 says the token fences it).
* The installation records that a command was uncertain only in the failure sidecar and the
  journal's failure; if the sidecar's write fails, a reconciliation of the journal alone concludes
  `confirmed` although a request may be in flight. `ConfirmedIsFinal` excludes exactly that.
* A fix forward reads the journal of its predecessor before it takes the lease and does not
  read it again. If the predecessor is abandoned and claimed anew in between, the fix claims the
  old pair under the new fence, and can complete between two interruptions of that claim, which
  then goes back (TLC needs four commands that raise or die; it came up when the inductive
  invariant of `NoDowngradeAlone` could not be closed). The property excludes exactly the fixes.
* A cancellation that arrives once the attempt is `prepared` drops the borrowed descriptor
  without a shutdown, and the gate stays open; `UnpreparedGateIsHeld` speaks of what comes before.

`StopReachesRun` speaks of behaviours in which no worker lost its session and no other stop was asked
for: after a loss two workers can share a token, and each may undo what the other wrote; with a second
stop the schedule above refutes it (TLC finds it with two stops and one resume). `CheckpointsCovered` and
`BackfillImplementsOwnership` hold with lost sessions too.

## 7. What is abstracted or left out

* The content of a Game, its reconciliation and its provenance: a Game is saved, deferred
  or rejected. The retry of a failed lookup inside one Game is one step.
* Counters, reasons and times of rows, except where a property reads them; the span of a
  window is a constant (`Recent`), the order in which a drain takes slots is left open.
* A disabled provider: `start` and the backfill refuse at once and change nothing.
* A window is computed from one reading of the clock and ordered by another. Around
  midnight yesterday's window can replace today's until the next cron; `LatestWindowKept`
  orders requests by `requested_at`, as the code does, and claims nothing about their windows.
* The backfill's two reads in `status()` are one step, since each decision that follows is
  fenced again by the statement that acts on it.
* `Upgrade`: another run's identity maintenance, the loss of a lease by a living command, the
  steps inside the gate's script, the digests that must be preserved, changes of Keycloak's schema.
  What a plan compares is a refusal anywhere (`ApplyRefused`, `Failing`).
* `BackupCycle`: `load_runtime` is read before the lease; capacity, disk and receipts of
  observation; `check`, which changes nothing. Of two actors that are not the cycle, only one fences at a time.
* `Installation`: what preflight and verification compare, and how long a wait lasts.
* `Personal`: erasures an operator starts without an admission, replay after a restore, the
  archive step (`LegalArchive` has it), preferences, a second Game.
* `LegalArchive`: what a source holds, keys and signatures, several references. A signature is a file.
* Not modelled at all: the catalogue reads, the HTTP layer and its admission semaphores, the front
  end, localization beyond its heartbeat, the provider's client, preparation, promotion,
  measurement and monitoring scripts. They are sequential, or keep no state that another actor changes under them.

Of the Python under `src`, about half is tests, probes, fixtures and rehearsals, which are not
the system, and most of the rest compares configurations, renders plans or measures. What is
modelled of it is what changes durable state; a definition is mapped to the lines it stands for,
and no wider. The recovery actor, the backup cycle and the personal-data commands are Python
too, in files without an extension, and the core of the system is Java.

## 8. Plan

Done: the catalogue's runs, coverage, slots and backfill; ratings, sessions and account
deletion; the legal archive; upgrade, installation, scheduled backup and store.

What is left, in this order:

1. Modules: the erasure ledger with its two copies (reconciliation after a lost or torn copy,
   replay after a restore), localization claims against a changing source, the
   admission semaphores and the provider's rate limiter and token refresh.
2. Composition: `Upgrade`, `BackupCycle` and the recovery actor over one gate, where each now has
   the other as an abstract actor.
3. Theorems: those of the modules above.
