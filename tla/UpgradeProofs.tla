--------------------------- MODULE UpgradeProofs ---------------------------
(***************************************************************************)
(* Proofs about Upgrade, for every set of targets and migrations, every    *)
(* number of backups and every number of failures.                         *)
(*                                                                         *)
(* Whoever finds the gate open finds an application of the schema the      *)
(* database has: the schema only leaves that of the existing containers    *)
(* under an identity fence and a closed gate (Held), and nothing gives     *)
(* both up before the containers are replaced.  The one way back, an       *)
(* abandonment, needs the schema to be the pair's, which is never ahead of *)
(* the containers.                                                         *)
(*                                                                         *)
(* The rest is about upgrades that are prepared, claimed, interrupted and  *)
(* resumed in any order.  OwnershipInv says which of them has begun and    *)
(* how far; FenceInv that the pair of one that may go on is the last       *)
(* write, unless another overlaps it; OrderInv that one on an earlier pair *)
(* cannot go on, unless another overlaps it or a forward fix was claimed.  *)
(***************************************************************************)
EXTENDS Upgrade, TLAPS

Held == maintenance # 0 /\ ~GateOpen

(* The containers are never ahead of the database, nor the pairs of the containers. *)
SchemaInv ==
    /\ Migrations[image["application"]] <= schema
    /\ \A b \in Backups : pairs[b].taken => pairs[b].schema <= Migrations[image["application"]]
    /\ schema # Migrations[image["application"]] => Held

MigratingInv == migrating # NoTarget => Held

(* A claim names a fence's run and a pair that was taken, also in a journal that was read. *)
Sound(record) ==
    record.run # 0 /\ record.backup \in Backups /\ pairs[record.backup].taken

JournalInv ==
    /\ \A t \in Targets : journal[t].status # "none" => Sound(journal[t])
    /\ \A t \in Targets : applying[t].predecessor # NoTarget =>
         applying[t].begun /\ Sound(applying[t].record)

ActorInv ==
    /\ actor.mode = "idle" => actor.step = "none"
    /\ actor.mode = "backup" => actor.step \in {"quiesce", "drain", "publish"}
    /\ actor.mode = "thaw" => actor.step \in {"login", "open", "clear"}
    /\ actor.mode = "abandon" => actor.step \in {"quiesce", "drain", "mark", "release", "record"}
    /\ actor.mode = "fail" => actor.step \in {"quiesce", "drain", "mark", "enter", "record"}
    /\ actor.mode = "execute" => actor.step \notin {"none", "record", "publish"}
    /\ actor.mode \in {"execute", "fail", "abandon"} =>
         actor.target \in Targets /\ Claimed.status # "none"
    /\ actor.mode \in {"backup", "thaw"} => maintenance = 0
    /\ actor.mode = "abandon" =>
         migrating = NoTarget /\ schema = pairs[Claimed.backup].schema
    /\ actor.step = "enter" => ~GateOpen
    /\ (Executing("plan") /\ Claimed.predecessor # NoTarget) \/ Executing("supersede") =>
         applying[actor.target].predecessor # NoTarget

(* Where an execution is. *)
ExecutionInv ==
    actor.mode = "execute" =>
        /\ actor.step \in {"migrate", "migrator", "migrated"} => Held
        /\ actor.step \in {"identity", "keycloak", "replace"} =>
             Held /\ migrating = NoTarget /\ schema = Migrations[actor.target]
        /\ actor.step \in {"activate", "reopen", "login", "open", "clear", "release", "start",
                           "finish"} =>
             migrating = NoTarget /\ schema = Migrations[image["application"]]

UpgradeInv ==
    TypeOK /\ SchemaInv /\ MigratingInv /\ JournalInv /\ ActorInv /\ ExecutionInv

\* What the type invariant says of the values the steps compare.
LEMMA Typed ==
  ASSUME TypeOK
  PROVE  /\ schema \in Nat
         /\ Migrations[image["application"]] \in Nat
         /\ \A b \in Backups : pairs[b].schema \in Nat
         /\ actor \in Actors
         /\ actor.target \in Targets => Claimed \in Records
  BY MigrationsAssumption DEF TypeOK, Services, Revisions, Claimed

\* A journal stays a journal when one of its fields is set.
LEMMA RecordTyped ==
  ASSUME NEW record \in Records
  PROVE  /\ \A s \in Statuses : [record EXCEPT !.status = s] \in Records
         /\ [record EXCEPT !.migrationStarted = TRUE] \in Records
         /\ [record EXCEPT !.identityStarted = TRUE] \in Records
         /\ [record EXCEPT !.reopened = TRUE] \in Records
  BY DEF Records

\* The initial journals and applies are typed.
LEMMA NoApplyTyped == NoApply \in Applies /\ NoJournal \in Records
  BY BoundsAssumption DEF NoApply, Applies, NoJournal, Records, Statuses, Runs, Revisions, NoTarget

\* Quiesce preserves the invariant.
LEMMA QuiesceStep == ASSUME UpgradeInv, Quiesce PROVE UpgradeInv'
<1> USE DEF UpgradeInv
<1>1. TypeOK'
  <2>1. actor' \in Actors
    BY Typed DEF Quiesce, Moved, Failing, Steps, Actors
  <2> QED BY <2>1, TargetsAssumption, BoundsAssumption DEF Quiesce, TypeOK, journals, runtime
<1>2. SchemaInv' /\ MigratingInv'
  BY <1>1, Typed, MigrationsAssumption DEF Quiesce, SchemaInv, MigratingInv, Held, GateOpen, runtime
<1>3. JournalInv'
  BY DEF Quiesce, JournalInv, Sound, journals
<1>4. ActorInv'
  BY <1>1, Typed DEF Quiesce, ActorInv, Claimed, Executing, At, Moved, journals, runtime
<1>5. ExecutionInv'
  BY <1>1, Typed, MigrationsAssumption DEF Quiesce, ExecutionInv, Moved
<1> QED BY <1>1, <1>2, <1>3, <1>4, <1>5

\* Drain preserves the invariant.
LEMMA DrainStep == ASSUME UpgradeInv, Drain PROVE UpgradeInv'
<1> USE DEF UpgradeInv
<1>1. TypeOK'
  BY TargetsAssumption, BoundsAssumption DEF Drain, TypeOK, Moved, journals, Steps, Actors
<1>2. SchemaInv' /\ MigratingInv'
  BY <1>1, Typed, MigrationsAssumption DEF Drain, SchemaInv, MigratingInv, Held, GateOpen
<1>3. JournalInv'
  BY DEF Drain, JournalInv, Sound, journals
<1>4. ActorInv'
  BY <1>1, Typed DEF Drain, ActorInv, Claimed, Executing, At, Moved, journals
<1>5. ExecutionInv'
  BY <1>1, Typed, MigrationsAssumption DEF Drain, ExecutionInv, Moved
<1> QED BY <1>1, <1>2, <1>3, <1>4, <1>5

\* Mark preserves the invariant.
LEMMA MarkStep == ASSUME UpgradeInv, Mark PROVE UpgradeInv'
<1> USE DEF UpgradeInv
<1>1. TypeOK'
  BY TargetsAssumption, BoundsAssumption
     DEF Mark, ActorInv, TypeOK, Claimed, Moved, journals, runtime, Modes, Steps, Records, Actors
<1>2. SchemaInv' /\ MigratingInv'
  BY <1>1, Typed, MigrationsAssumption DEF Mark, SchemaInv, MigratingInv, Held, GateOpen, runtime
<1>3. JournalInv'
  BY DEF Mark, JournalInv, Sound, journals
<1>4. ActorInv'
  BY <1>1, Typed DEF Mark, ActorInv, GateOpen, Claimed, Executing, At, Moved, journals, runtime
<1>5. ExecutionInv'
  BY <1>1, Typed, MigrationsAssumption DEF Mark, ExecutionInv, Moved
<1> QED BY <1>1, <1>2, <1>3, <1>4, <1>5

\* Entering an identity fence needs a closed gate.
LEMMA EnterStep == ASSUME UpgradeInv, Enter PROVE UpgradeInv'
<1> USE DEF UpgradeInv
<1>1. TypeOK'
  BY TargetsAssumption, BoundsAssumption
     DEF Enter, ActorInv, TypeOK, Claimed, Moved, journals, runtime, Modes, Steps, Records, Actors
<1>2. SchemaInv' /\ MigratingInv'
  BY <1>1, Typed, MigrationsAssumption DEF Enter, SchemaInv, MigratingInv, Held, GateOpen, runtime
<1>3. JournalInv'
  BY DEF Enter, JournalInv, Sound, journals
<1>4. ActorInv'
  BY <1>1, Typed DEF Enter, ActorInv, Claimed, Executing, At, Moved, journals
<1>5. ExecutionInv'
  <2>1. actor.mode = "execute" => Claimed.run # 0 /\ ~GateOpen
    BY DEF Enter, ActorInv, JournalInv, Sound, Claimed
  <2>2. actor' = [actor EXCEPT !.step = IF actor.mode = "fail" THEN "record" ELSE "migrate"]
    BY DEF Enter, Moved
  <2>3. maintenance' = Claimed.run /\ GateOpen' = GateOpen
    BY DEF Enter, GateOpen
  <2> QED BY <2>1, <2>2, <2>3, Typed DEF ExecutionInv, Held
<1> QED BY <1>1, <1>2, <1>3, <1>4, <1>5

\* FenceRefused preserves the invariant.
LEMMA FenceRefusedStep == ASSUME UpgradeInv, FenceRefused PROVE UpgradeInv'
<1> USE DEF UpgradeInv
<1>1. TypeOK'
  BY TargetsAssumption, BoundsAssumption
     DEF FenceRefused, TypeOK, At, journals, fence, runtime, Modes, Steps, Idle, Actors
<1>2. SchemaInv' /\ MigratingInv'
  BY DEF FenceRefused, SchemaInv, MigratingInv, Held, GateOpen, fence, runtime
<1>3. JournalInv'
  BY DEF FenceRefused, JournalInv, Sound, journals
<1>4. ActorInv'
  BY <1>1, Typed DEF FenceRefused, ActorInv, Claimed, Executing, At, journals, Idle
<1>5. ExecutionInv'
  BY <1>1, Typed, MigrationsAssumption DEF FenceRefused, ExecutionInv, Idle
<1> QED BY <1>1, <1>2, <1>3, <1>4, <1>5

\* Backup preserves the invariant.
LEMMA BackupStep == ASSUME UpgradeInv, Backup PROVE UpgradeInv'
<1> USE DEF UpgradeInv
<1>1. TypeOK'
  BY TargetsAssumption, BoundsAssumption
     DEF Backup, TypeOK, journals, fence, runtime, Modes, Steps, Actors
<1>2. SchemaInv' /\ MigratingInv'
  BY DEF Backup, SchemaInv, MigratingInv, Held, runtime
<1>3. JournalInv'
  BY DEF Backup, JournalInv, Sound, journals
<1>4. ActorInv'
  BY <1>1, Typed DEF Backup, ActorInv, Executing, At, fence
<1>5. ExecutionInv'
  BY <1>1, Typed, MigrationsAssumption DEF Backup, ExecutionInv
<1> QED BY <1>1, <1>2, <1>3, <1>4, <1>5

\* A published pair is the schema of the containers at that moment.
LEMMA PublishBackupStep == ASSUME UpgradeInv, PublishBackup PROVE UpgradeInv'
<1> USE DEF UpgradeInv
<1>1. TypeOK'
  BY TargetsAssumption, BoundsAssumption
     DEF PublishBackup, TypeOK, journals, runtime, Modes, Steps, Statuses, Idle, Backups, Actors
<1>2. SchemaInv' /\ MigratingInv'
  BY <1>1, Typed, MigrationsAssumption
     DEF PublishBackup, SchemaInv, MigratingInv, ActorInv, Held, At, runtime
<1>3. JournalInv'
  BY <1>1, Typed DEF PublishBackup, JournalInv, Sound, journals
<1>4. ActorInv'
  BY <1>1, Typed DEF PublishBackup, ActorInv, Executing, At, Idle
<1>5. ExecutionInv'
  BY <1>1, Typed, MigrationsAssumption DEF PublishBackup, ExecutionInv, Idle
<1> QED BY <1>1, <1>2, <1>3, <1>4, <1>5

\* Thaw preserves the invariant.
LEMMA ThawStep == ASSUME UpgradeInv, Thaw PROVE UpgradeInv'
<1> USE DEF UpgradeInv
<1>1. TypeOK'
  BY TargetsAssumption, BoundsAssumption
     DEF Thaw, TypeOK, journals, fence, runtime, Modes, Steps, Actors
<1>2. SchemaInv' /\ MigratingInv'
  BY DEF Thaw, SchemaInv, MigratingInv, Held, runtime
<1>3. JournalInv'
  BY DEF Thaw, JournalInv, Sound, journals
<1>4. ActorInv'
  BY <1>1, Typed DEF Thaw, ActorInv, Executing, At, fence
<1>5. ExecutionInv'
  BY <1>1, Typed, MigrationsAssumption DEF Thaw, ExecutionInv
<1> QED BY <1>1, <1>2, <1>3, <1>4, <1>5

\* StartServices preserves the invariant.
LEMMA StartServicesStep == ASSUME UpgradeInv, StartServices PROVE UpgradeInv'
<1> USE DEF UpgradeInv
<1>1. TypeOK'
  BY TargetsAssumption, BoundsAssumption DEF StartServices, TypeOK, journals, fence
<1>2. SchemaInv' /\ MigratingInv'
  BY DEF StartServices, SchemaInv, MigratingInv, Held
<1>3. JournalInv'
  BY DEF StartServices, JournalInv, Sound, journals
<1>4. ActorInv'
  BY DEF StartServices, ActorInv, Claimed, Executing, At, journals, fence
<1>5. ExecutionInv'
  BY DEF StartServices, ExecutionInv, Held
<1> QED BY <1>1, <1>2, <1>3, <1>4, <1>5

\* Write preserves the invariant.
LEMMA WriteStep == ASSUME UpgradeInv, Write PROVE UpgradeInv'
<1> USE DEF UpgradeInv
<1>1. TypeOK'
  <2> QED BY TargetsAssumption, BoundsAssumption DEF Write, TypeOK, journals, fence, runtime
<1>2. SchemaInv' /\ MigratingInv'
  BY DEF Write, SchemaInv, MigratingInv, Held, GateOpen, fence, runtime
<1>3. JournalInv'
  BY DEF Write, JournalInv, Sound, journals
<1>4. ActorInv'
  BY DEF Write, ActorInv, GateOpen, Claimed, Executing, At, journals, fence, runtime
<1>5. ExecutionInv'
  BY DEF Write, ExecutionInv, Held, GateOpen, fence, runtime
<1> QED BY <1>1, <1>2, <1>3, <1>4, <1>5

\* migrate() only starts under the fence and the closed gate that execute() verified first.
LEMMA MigrateStep == ASSUME UpgradeInv, Migrate PROVE UpgradeInv'
<1> USE DEF UpgradeInv
<1>1. TypeOK'
  <2>1. actor' \in Actors
    BY Typed DEF Migrate, Moved, Failing, Steps, Actors
  <2>2. journal' \in [Targets -> Records]
    <3>1. journal \in [Targets -> Records]
      BY DEF TypeOK
    <3> QED BY <3>1, RecordTyped, Typed DEF Migrate, Written
  <2> QED BY <2>1, <2>2, TargetsAssumption, BoundsAssumption DEF Migrate, TypeOK, fence, runtime
<1>2. SchemaInv' /\ MigratingInv'
  BY DEF Migrate, SchemaInv, MigratingInv, Held, GateOpen, fence, runtime
<1>3. JournalInv'
  <2>1. \A u \in Targets : journal'[u].status = journal[u].status
          /\ journal'[u].run = journal[u].run /\ journal'[u].backup = journal[u].backup
          /\ journal'[u].predecessor = journal[u].predecessor
    <3>1. journal \in [Targets -> Records] /\ actor.target \in Targets
      BY DEF TypeOK, ActorInv, Migrate, Executing, At
    <3> QED BY <3>1 DEF Migrate, Written, Claimed, Records
  <2> QED BY <2>1 DEF JournalInv, Sound, Migrate
<1>4. ActorInv'
  <2>1. \A u \in Targets : journal'[u].status = journal[u].status
          /\ journal'[u].run = journal[u].run /\ journal'[u].backup = journal[u].backup
          /\ journal'[u].predecessor = journal[u].predecessor
    <3>1. journal \in [Targets -> Records] /\ actor.target \in Targets
      BY DEF TypeOK, ActorInv, Migrate, Executing, At
    <3> QED BY <3>1 DEF Migrate, Written, Claimed, Records
  <2>2. actor'.mode = "execute" /\ actor'.step \in {"identity", "migrator"}
          /\ actor'.target = actor.target /\ actor.mode = "execute"
    BY Typed DEF Migrate, Moved, Executing, At, Actors
  <2> QED BY <2>1, <2>2 DEF ActorInv, Migrate, Claimed, Executing, At
<1>5. ExecutionInv'
  BY <1>1, Typed, MigrationsAssumption
     DEF Migrate, ExecutionInv, Held, GateOpen, Executing, At, Moved, fence, runtime, Actors
<1> QED BY <1>1, <1>2, <1>3, <1>4, <1>5

\* StartMigration preserves the invariant.
LEMMA StartMigrationStep == ASSUME UpgradeInv, StartMigration PROVE UpgradeInv'
<1> USE DEF UpgradeInv
<1>1. TypeOK'
  BY TargetsAssumption, BoundsAssumption
     DEF StartMigration, TypeOK, Moved, journals, Steps, Roles, Actors
<1>2. SchemaInv' /\ MigratingInv'
  BY <1>1, Typed, MigrationsAssumption
     DEF StartMigration, SchemaInv, MigratingInv, ExecutionInv, Held, GateOpen, Executing, At
<1>3. JournalInv'
  BY DEF StartMigration, JournalInv, Sound, journals
<1>4. ActorInv'
  BY <1>1, Typed DEF StartMigration, ActorInv, Claimed, Executing, At, Moved, journals
<1>5. ExecutionInv'
  BY <1>1, Typed, MigrationsAssumption
     DEF StartMigration, ExecutionInv, Held, GateOpen, Executing, At, Moved
<1> QED BY <1>1, <1>2, <1>3, <1>4, <1>5

\* A migration moves the schema ahead of the containers, never below them.
LEMMA ApplyMigrationStep == ASSUME UpgradeInv, ApplyMigration PROVE UpgradeInv'
<1> USE DEF UpgradeInv
<1>1. TypeOK'
  BY TargetsAssumption, BoundsAssumption
     DEF ApplyMigration, ActorInv, TypeOK, journals, fence, Modes, Steps, NoTarget, Actors
<1>2. SchemaInv' /\ MigratingInv'
  BY <1>1, Typed, MigrationsAssumption
     DEF ApplyMigration, SchemaInv, MigratingInv, Held, GateOpen, fence
<1>3. JournalInv'
  BY DEF ApplyMigration, JournalInv, Sound, journals
<1>4. ActorInv'
  BY <1>1, Typed DEF ApplyMigration, ActorInv, GateOpen, Claimed, Executing, At, journals, fence
<1>5. ExecutionInv'
  BY <1>1, Typed, MigrationsAssumption DEF ApplyMigration, ExecutionInv, Held, GateOpen, fence
<1> QED BY <1>1, <1>2, <1>3, <1>4, <1>5

\* The migration container outlives its command: it may end under another one's fence.
LEMMA MigrationEndsStep == ASSUME UpgradeInv, MigrationEnds PROVE UpgradeInv'
<1> USE DEF UpgradeInv
<1>1. TypeOK'
  <2> QED BY TargetsAssumption, BoundsAssumption DEF MigrationEnds, TypeOK, journals, fence
<1>2. SchemaInv' /\ MigratingInv'
  BY <1>1, Typed, MigrationsAssumption
     DEF MigrationEnds, SchemaInv, MigratingInv, Held, GateOpen, fence
<1>3. JournalInv'
  BY DEF MigrationEnds, JournalInv, Sound, journals
<1>4. ActorInv'
  BY <1>1, Typed DEF MigrationEnds, ActorInv, GateOpen, Claimed, Executing, At, journals, fence
<1>5. ExecutionInv'
  BY <1>1, Typed, MigrationsAssumption DEF MigrationEnds, ExecutionInv, Held, GateOpen, fence
<1> QED BY <1>1, <1>2, <1>3, <1>4, <1>5

\* Migrated preserves the invariant.
LEMMA MigratedStep == ASSUME UpgradeInv, Migrated PROVE UpgradeInv'
<1> USE DEF UpgradeInv
<1>1. TypeOK'
  BY TargetsAssumption, BoundsAssumption
     DEF Migrated, TypeOK, Moved, journals, runtime, Steps, Actors
<1>2. SchemaInv' /\ MigratingInv'
  BY DEF Migrated, SchemaInv, MigratingInv, Held, GateOpen, runtime
<1>3. JournalInv'
  BY DEF Migrated, JournalInv, Sound, journals
<1>4. ActorInv'
  BY <1>1, Typed DEF Migrated, ActorInv, Claimed, Executing, At, Moved, journals
<1>5. ExecutionInv'
  BY <1>1, Typed, MigrationsAssumption
     DEF Migrated, ExecutionInv, Held, GateOpen, Executing, At, Moved, runtime
<1> QED BY <1>1, <1>2, <1>3, <1>4, <1>5

\* The identity change follows the migration: the schema is then the target's.
LEMMA IdentityStep == ASSUME UpgradeInv, Identity PROVE UpgradeInv'
<1> USE DEF UpgradeInv
<1>1. TypeOK'
  <2>1. actor' \in Actors
    BY Typed DEF Identity, Moved, Failing, Steps, Actors
  <2>2. journal' \in [Targets -> Records]
    <3>1. journal \in [Targets -> Records]
      BY DEF TypeOK
    <3> QED BY <3>1, RecordTyped, Typed DEF Identity, Written
  <2> QED BY <2>1, <2>2, TargetsAssumption, BoundsAssumption DEF Identity, TypeOK, runtime, Roles
<1>2. SchemaInv' /\ MigratingInv'
  BY DEF Identity, SchemaInv, MigratingInv, Held, GateOpen, runtime
<1>3. JournalInv'
  BY <1>1, Typed DEF Identity, JournalInv, Sound, Claimed, Written
<1>4. ActorInv'
  BY <1>1, Typed DEF Identity, ActorInv, Claimed, Executing, At, Moved, Written
<1>5. ExecutionInv'
  BY <1>1, Typed, MigrationsAssumption
     DEF Identity, ExecutionInv, Held, GateOpen, Executing, At, Moved, runtime
<1> QED BY <1>1, <1>2, <1>3, <1>4, <1>5

\* StartKeycloak preserves the invariant.
LEMMA StartKeycloakStep == ASSUME UpgradeInv, StartKeycloak PROVE UpgradeInv'
<1> USE DEF UpgradeInv
<1>1. TypeOK'
  BY TargetsAssumption, BoundsAssumption
     DEF StartKeycloak, TypeOK, Moved, journals, fence, Steps, NoTarget, Revisions, Services, Actors
<1>2. SchemaInv' /\ MigratingInv'
  BY <1>1, Typed, MigrationsAssumption
     DEF StartKeycloak, SchemaInv, MigratingInv, Held, GateOpen, fence
<1>3. JournalInv'
  BY DEF StartKeycloak, JournalInv, Sound, journals
<1>4. ActorInv'
  BY <1>1, Typed DEF StartKeycloak, ActorInv, Claimed, Executing, At, Moved, journals
<1>5. ExecutionInv'
  BY <1>1, Typed, MigrationsAssumption
     DEF StartKeycloak, ExecutionInv, Held, GateOpen, Executing, At, Moved, fence
<1> QED BY <1>1, <1>2, <1>3, <1>4, <1>5

\* replace_superseded() is what brings the containers up to the schema.
LEMMA ReplaceStep == ASSUME UpgradeInv, Replace PROVE UpgradeInv'
<1> USE DEF UpgradeInv
<1>1. TypeOK'
  BY TargetsAssumption, BoundsAssumption
     DEF Replace, TypeOK, Moved, journals, fence, Steps, NoTarget, Revisions, Actors
<1>2. SchemaInv' /\ MigratingInv'
  BY <1>1, Typed, MigrationsAssumption
     DEF Replace, SchemaInv, MigratingInv, ExecutionInv, Executing, At, TypeOK
<1>3. JournalInv'
  BY DEF Replace, JournalInv, Sound, journals
<1>4. ActorInv'
  BY <1>1, Typed DEF Replace, ActorInv, Claimed, Executing, At, Moved, journals
<1>5. ExecutionInv'
  BY <1>1, Typed, MigrationsAssumption DEF Replace, ExecutionInv, Executing, At, Moved, TypeOK
<1> QED BY <1>1, <1>2, <1>3, <1>4, <1>5

\* WriteActive preserves the invariant.
LEMMA WriteActiveStep == ASSUME UpgradeInv, WriteActive PROVE UpgradeInv'
<1> USE DEF UpgradeInv
<1>1. TypeOK'
  BY TargetsAssumption, BoundsAssumption
     DEF WriteActive, TypeOK, Moved, fence, runtime, Steps, NoTarget, Revisions, Actors
<1>2. SchemaInv' /\ MigratingInv'
  BY DEF WriteActive, SchemaInv, MigratingInv, Held, GateOpen, fence, runtime
<1>3. JournalInv'
  BY DEF WriteActive, JournalInv, Sound
<1>4. ActorInv'
  BY <1>1, Typed DEF WriteActive, ActorInv, Claimed, Executing, At, Moved
<1>5. ExecutionInv'
  BY <1>1, Typed, MigrationsAssumption DEF WriteActive, ExecutionInv, Executing, At, Moved, runtime
<1> QED BY <1>1, <1>2, <1>3, <1>4, <1>5

\* reopen() begins with the containers at the schema of the database.
LEMMA ReopenStep == ASSUME UpgradeInv, Reopen PROVE UpgradeInv'
<1> USE DEF UpgradeInv
<1>1. TypeOK'
  <2>1. actor' \in Actors
    BY Typed DEF Reopen, Moved, Failing, Steps, Actors
  <2>2. journal' \in [Targets -> Records]
    <3>1. journal \in [Targets -> Records]
      BY DEF TypeOK
    <3> QED BY <3>1, RecordTyped, Typed DEF Reopen, Written
  <2> QED BY <2>1, <2>2, TargetsAssumption, BoundsAssumption DEF Reopen, TypeOK, fence, runtime
<1>2. SchemaInv' /\ MigratingInv'
  BY DEF Reopen, SchemaInv, MigratingInv, Held, GateOpen, fence, runtime
<1>3. JournalInv'
  BY <1>1, Typed DEF Reopen, JournalInv, Sound, Claimed, Written
<1>4. ActorInv'
  BY <1>1, Typed DEF Reopen, ActorInv, Claimed, Executing, At, Moved, Written
<1>5. ExecutionInv'
  BY <1>1, Typed, MigrationsAssumption DEF Reopen, ExecutionInv, Executing, At, Moved, runtime
<1> QED BY <1>1, <1>2, <1>3, <1>4, <1>5

\* RoleLogin preserves the invariant.
LEMMA RoleLoginStep == ASSUME UpgradeInv, RoleLogin PROVE UpgradeInv'
<1> USE DEF UpgradeInv
<1>1. TypeOK'
  BY TargetsAssumption, BoundsAssumption
     DEF RoleLogin, TypeOK, Moved, journals, runtime, Steps, Actors
<1>2. SchemaInv' /\ MigratingInv'
  BY DEF RoleLogin, SchemaInv, MigratingInv, Held, GateOpen, runtime
<1>3. JournalInv'
  BY DEF RoleLogin, JournalInv, Sound, journals
<1>4. ActorInv'
  BY <1>1, Typed DEF RoleLogin, ActorInv, Claimed, Executing, At, Moved, journals
<1>5. ExecutionInv'
  BY <1>1, Typed, MigrationsAssumption DEF RoleLogin, ExecutionInv, Moved, runtime
<1> QED BY <1>1, <1>2, <1>3, <1>4, <1>5

\* thaw() and activate() open the gate only over matching containers.
LEMMA OpenGateStep == ASSUME UpgradeInv, OpenGate PROVE UpgradeInv'
<1> USE DEF UpgradeInv
<1>1. TypeOK'
  BY TargetsAssumption, BoundsAssumption
     DEF OpenGate, TypeOK, Moved, journals, runtime, Steps, Actors
<1>2. SchemaInv' /\ MigratingInv'
  BY <1>1, Typed, MigrationsAssumption
     DEF OpenGate, SchemaInv, MigratingInv, ActorInv, ExecutionInv, Held, runtime, Modes, Actors
<1>3. JournalInv'
  BY DEF OpenGate, JournalInv, Sound, journals
<1>4. ActorInv'
  BY <1>1, Typed DEF OpenGate, ActorInv, Claimed, Executing, At, Moved, journals
<1>5. ExecutionInv'
  BY <1>1, Typed, MigrationsAssumption DEF OpenGate, ExecutionInv, Moved, runtime
<1> QED BY <1>1, <1>2, <1>3, <1>4, <1>5

\* ClearPending preserves the invariant.
LEMMA ClearPendingStep == ASSUME UpgradeInv, ClearPending PROVE UpgradeInv'
<1> USE DEF UpgradeInv
<1>1. TypeOK'
  <2>1. actor' \in Actors
    BY Typed DEF ClearPending, Failing, Idle, Modes, Steps, Actors
  <2> QED BY <2>1, TargetsAssumption, BoundsAssumption
     DEF ClearPending, TypeOK, journals, runtime, NoPending
<1>2. SchemaInv' /\ MigratingInv'
  BY DEF ClearPending, SchemaInv, MigratingInv, Held, GateOpen, runtime
<1>3. JournalInv'
  BY DEF ClearPending, JournalInv, Sound, journals
<1>4. ActorInv'
  BY <1>1, Typed DEF ClearPending, ActorInv, Claimed, Executing, At, journals, Idle
<1>5. ExecutionInv'
  BY <1>1, Typed, MigrationsAssumption DEF ClearPending, ExecutionInv, runtime, Idle
<1> QED BY <1>1, <1>2, <1>3, <1>4, <1>5

\* The fence is released only once nothing depends on it, or by an abandonment.
LEMMA ReleaseStep == ASSUME UpgradeInv, Release PROVE UpgradeInv'
<1> USE DEF UpgradeInv
<1>1. TypeOK'
  BY TargetsAssumption, BoundsAssumption
     DEF Release, TypeOK, Moved, journals, runtime, Steps, Runs, Actors
<1>2. SchemaInv' /\ MigratingInv'
  <2>1. migrating = NoTarget /\ schema = Migrations[image["application"]]
    <3>1. CASE actor.mode = "execute"
      BY <3>1 DEF Release, ExecutionInv
    <3>2. CASE actor.mode = "abandon"
      <4>1. Claimed.backup \in Backups /\ pairs[Claimed.backup].taken
        BY <3>2 DEF ActorInv, JournalInv, Sound, Claimed
      <4> QED BY <3>2, <4>1, Typed DEF ActorInv, SchemaInv
    <3> QED BY <3>1, <3>2, Typed DEF Release, ActorInv, Modes, Actors
  <2> QED BY <2>1 DEF Release, SchemaInv, MigratingInv, runtime
<1>3. JournalInv'
  BY DEF Release, JournalInv, Sound, journals
<1>4. ActorInv'
  BY <1>1, Typed DEF Release, ActorInv, Claimed, Executing, At, Moved, journals, runtime
<1>5. ExecutionInv'
  BY <1>1, Typed, MigrationsAssumption DEF Release, ExecutionInv, Moved, runtime
<1> QED BY <1>1, <1>2, <1>3, <1>4, <1>5

\* StartTarget preserves the invariant.
LEMMA StartTargetStep == ASSUME UpgradeInv, StartTarget PROVE UpgradeInv'
<1> USE DEF UpgradeInv
<1>1. TypeOK'
  BY TargetsAssumption, BoundsAssumption
     DEF StartTarget, TypeOK, Moved, journals, fence, Steps, Actors
<1>2. SchemaInv' /\ MigratingInv'
  BY DEF StartTarget, SchemaInv, MigratingInv, Held, GateOpen, fence
<1>3. JournalInv'
  BY DEF StartTarget, JournalInv, Sound, journals
<1>4. ActorInv'
  BY <1>1, Typed DEF StartTarget, ActorInv, Claimed, Executing, At, Moved, journals
<1>5. ExecutionInv'
  BY <1>1, Typed, MigrationsAssumption DEF StartTarget, ExecutionInv, Executing, At, Moved
<1> QED BY <1>1, <1>2, <1>3, <1>4, <1>5

\* Finish preserves the invariant.
LEMMA FinishStep == ASSUME UpgradeInv, Finish PROVE UpgradeInv'
<1> USE DEF UpgradeInv
<1>1. TypeOK'
  <2>1. actor' \in Actors
    BY Typed DEF Finish, Failing, Idle, Modes, Steps, Actors
  <2>2. journal' \in [Targets -> Records]
    <3>1. journal \in [Targets -> Records]
      BY DEF TypeOK
    <3> QED BY <3>1, RecordTyped, Typed DEF Finish, Written, Statuses
  <2>3. active' \in Revisions
    BY DEF Finish, ActorInv, Executing, At, Revisions
  <2> QED BY <2>1, <2>2, <2>3, TargetsAssumption DEF Finish, TypeOK, fence, runtime
<1>2. SchemaInv' /\ MigratingInv'
  BY DEF Finish, SchemaInv, MigratingInv, Held, GateOpen, fence, runtime
<1>3. JournalInv'
  BY <1>1, Typed DEF Finish, JournalInv, ActorInv, Sound, Claimed, Executing, At, Written
<1>4. ActorInv'
  BY <1>1, Typed DEF Finish, ActorInv, Executing, At, Idle
<1>5. ExecutionInv'
  BY <1>1, Typed, MigrationsAssumption DEF Finish, ExecutionInv, Idle
<1> QED BY <1>1, <1>2, <1>3, <1>4, <1>5

\* A failing command goes on to put the fence back.
LEMMA FailStep == ASSUME UpgradeInv, Fail PROVE UpgradeInv'
<1> USE DEF UpgradeInv
<1>1. TypeOK'
  <2>1. actor' \in Actors
    BY Typed DEF Fail, Failing, Modes, Steps, Actors
  <2> QED BY <2>1, TargetsAssumption, BoundsAssumption DEF Fail, TypeOK, journals, fence, runtime
<1>2. SchemaInv' /\ MigratingInv'
  BY DEF Fail, SchemaInv, MigratingInv, Held, GateOpen, fence, runtime, InExecute, Refused, Failing
<1>3. JournalInv'
  BY DEF Fail, JournalInv, Sound, journals, InExecute, Refused, Failing
<1>4. ActorInv'
  BY <1>1, Typed DEF Fail, ActorInv, Claimed, Executing, At, journals, InExecute, Refused, Failing
<1>5. ExecutionInv'
  BY <1>1, Typed, MigrationsAssumption DEF Fail, ExecutionInv, InExecute, Refused, Failing
<1> QED BY <1>1, <1>2, <1>3, <1>4, <1>5

\* CleanupFails preserves the invariant.
LEMMA CleanupFailsStep == ASSUME UpgradeInv, CleanupFails PROVE UpgradeInv'
<1> USE DEF UpgradeInv
<1>1. TypeOK'
  <2>1. actor' \in Actors
    BY Typed DEF CleanupFails, Moved, Failing, Steps, Actors
  <2> QED BY <2>1, TargetsAssumption, BoundsAssumption
     DEF CleanupFails, TypeOK, journals, fence, runtime
<1>2. SchemaInv' /\ MigratingInv'
  BY DEF CleanupFails, SchemaInv, MigratingInv, Held, GateOpen, fence, runtime
<1>3. JournalInv'
  BY DEF CleanupFails, JournalInv, Sound, journals
<1>4. ActorInv'
  BY <1>1, Typed DEF CleanupFails, ActorInv, Claimed, Executing, At, Moved, journals
<1>5. ExecutionInv'
  BY <1>1, Typed, MigrationsAssumption DEF CleanupFails, ExecutionInv, Moved
<1> QED BY <1>1, <1>2, <1>3, <1>4, <1>5

\* Whatever a command had written when it dies, the invariant holds of.
LEMMA DieStep == ASSUME UpgradeInv, Die PROVE UpgradeInv'
<1> USE DEF UpgradeInv
<1>1. TypeOK'
  BY TargetsAssumption, BoundsAssumption
     DEF Die, TypeOK, Executing, At, journals, fence, runtime, Modes, Steps, Applies, Records,
         Statuses, NoJournal, Idle, NoApply, NoTarget, Runs, Revisions, Services, Actors
<1>2. SchemaInv' /\ MigratingInv'
  BY DEF Die, SchemaInv, MigratingInv, Held, GateOpen, fence, runtime
<1>3. JournalInv'
  BY <1>1, Typed DEF Die, JournalInv, Sound, journals, NoApply
<1>4. ActorInv'
  BY <1>1, Typed DEF Die, ActorInv, Executing, At, Idle
<1>5. ExecutionInv'
  BY <1>1, Typed, MigrationsAssumption DEF Die, ExecutionInv, Idle
<1> QED BY <1>1, <1>2, <1>3, <1>4, <1>5

\* A failing or abandoning command records it last.
LEMMA RecordStep == ASSUME UpgradeInv, Record PROVE UpgradeInv'
<1> USE DEF UpgradeInv
<1>1. TypeOK'
  <2>1. actor' \in Actors
    BY Typed DEF Record, Failing, Idle, Modes, Steps, Actors
  <2>2. journal' \in [Targets -> Records]
    <3>1. journal \in [Targets -> Records]
      BY DEF TypeOK
    <3> QED BY <3>1, RecordTyped, Typed DEF Record, Written, Statuses
  <2> QED BY <2>1, <2>2, TargetsAssumption, BoundsAssumption DEF Record, TypeOK, fence, runtime
<1>2. SchemaInv' /\ MigratingInv'
  BY DEF Record, SchemaInv, MigratingInv, Held, GateOpen, fence, runtime
<1>3. JournalInv'
  BY <1>1, Typed DEF Record, JournalInv, ActorInv, Sound, Claimed, Written, Modes, Actors
<1>4. ActorInv'
  BY <1>1, Typed DEF Record, ActorInv, Executing, At, Idle
<1>5. ExecutionInv'
  BY <1>1, Typed, MigrationsAssumption DEF Record, ExecutionInv, Idle
<1> QED BY <1>1, <1>2, <1>3, <1>4, <1>5

\* WritePlan preserves the invariant.
LEMMA WritePlanStep == ASSUME UpgradeInv, WritePlan PROVE UpgradeInv'
<1> USE DEF UpgradeInv
<1>1. TypeOK'
  BY TargetsAssumption, BoundsAssumption
     DEF WritePlan, ActorInv, TypeOK, Executing, At, Moved, fence, runtime, Steps, Actors
<1>2. SchemaInv' /\ MigratingInv'
  BY DEF WritePlan, SchemaInv, MigratingInv, Held, GateOpen, fence, runtime
<1>3. JournalInv'
  BY DEF WritePlan, JournalInv, Sound
<1>4. ActorInv'
  BY <1>1, Typed DEF WritePlan, ActorInv, Claimed, Executing, At, Moved
<1>5. ExecutionInv'
  BY <1>1, Typed, MigrationsAssumption DEF WritePlan, ExecutionInv, Moved
<1> QED BY <1>1, <1>2, <1>3, <1>4, <1>5

\* CloseClaimed preserves the invariant.
LEMMA CloseClaimedStep == ASSUME UpgradeInv, CloseClaimed PROVE UpgradeInv'
<1> USE DEF UpgradeInv
<1>1. TypeOK'
  BY TargetsAssumption, BoundsAssumption
     DEF CloseClaimed, ActorInv, TypeOK, Claimed, Executing, At, Moved, journals, runtime, Steps,
         Records, Actors
<1>2. SchemaInv' /\ MigratingInv'
  BY <1>1, Typed, MigrationsAssumption
     DEF CloseClaimed, SchemaInv, MigratingInv, Held, GateOpen, runtime
<1>3. JournalInv'
  BY DEF CloseClaimed, JournalInv, Sound, journals
<1>4. ActorInv'
  BY <1>1, Typed DEF CloseClaimed, ActorInv, GateOpen, Claimed, Executing, At, Moved, journals
<1>5. ExecutionInv'
  BY <1>1, Typed, MigrationsAssumption DEF CloseClaimed, ExecutionInv, Moved
<1> QED BY <1>1, <1>2, <1>3, <1>4, <1>5

\* supersede() closes the journal of the upgrade that was read.
LEMMA SupersedeStep == ASSUME UpgradeInv, Supersede PROVE UpgradeInv'
<1> USE DEF UpgradeInv
<1>1. TypeOK'
  <2>1. actor' \in Actors
    BY Typed DEF Supersede, Moved, Failing, Steps, Actors
  <2>2. journal' \in [Targets -> Records]
    <3>1. journal \in [Targets -> Records] /\ applying[actor.target].record \in Records
      BY DEF TypeOK, ActorInv, Supersede, Executing, At, Applies
    <3> QED BY <3>1, RecordTyped DEF Supersede, Statuses
  <2>3. applying' \in [Targets -> Applies]
    <3>1. /\ applying \in [Targets -> Applies]
          /\ active \in Revisions
          /\ journal \in [Targets -> Records]
      BY DEF TypeOK
    <3> QED BY <3>1, NoApplyTyped DEF Supersede
  <2> QED BY <2>1, <2>2, <2>3, TargetsAssumption, BoundsAssumption
     DEF Supersede, TypeOK, fence, runtime
<1>2. SchemaInv' /\ MigratingInv'
  BY DEF Supersede, SchemaInv, MigratingInv, Held, GateOpen, fence, runtime
<1>3. JournalInv'
  BY <1>1, Typed DEF Supersede, JournalInv, ActorInv, Sound, NoApply, TypeOK
<1>4. ActorInv'
  BY <1>1, Typed DEF Supersede, ActorInv, Claimed, Executing, At, Moved
<1>5. ExecutionInv'
  BY <1>1, Typed, MigrationsAssumption DEF Supersede, ExecutionInv, Moved
<1> QED BY <1>1, <1>2, <1>3, <1>4, <1>5

\* A plain apply reads no other journal.
LEMMA PrepareStep == ASSUME NEW t \in Targets, UpgradeInv, Prepare(t) PROVE UpgradeInv'
<1> USE DEF UpgradeInv
<1>1. TypeOK'
  <2>3. applying' \in [Targets -> Applies]
    <3>1. /\ applying \in [Targets -> Applies]
          /\ active \in Revisions
          /\ journal \in [Targets -> Records]
      BY DEF TypeOK
    <3> QED BY <3>1, NoApplyTyped DEF Prepare, Applies
  <2> QED BY <2>3, TargetsAssumption, BoundsAssumption DEF Prepare, TypeOK, journals, fence, runtime
<1>2. SchemaInv' /\ MigratingInv'
  BY DEF Prepare, SchemaInv, MigratingInv, Held, GateOpen, fence, runtime, Fresh
<1>3. JournalInv'
  BY <1>1, Typed DEF Prepare, JournalInv, Sound, journals, NoApply, Fresh
<1>4. ActorInv'
  <2>1. \A u \in Targets : applying[u].predecessor # NoTarget => applying'[u] = applying[u]
    BY DEF Prepare, JournalInv
  <2> QED BY <2>1 DEF Prepare, ActorInv, Executing, At, Claimed, GateOpen, journals, fence, runtime
<1>5. ExecutionInv'
  BY DEF Prepare, ExecutionInv, Held, GateOpen, fence, runtime, Fresh
<1> QED BY <1>1, <1>2, <1>3, <1>4, <1>5

\* ApplyRefused preserves the invariant.
LEMMA ApplyRefusedStep == ASSUME NEW t \in Targets, UpgradeInv, ApplyRefused(t) PROVE UpgradeInv'
<1> USE DEF UpgradeInv
<1>1. TypeOK'
  <2>3. applying' \in [Targets -> Applies]
    <3>1. /\ applying \in [Targets -> Applies]
          /\ active \in Revisions
          /\ journal \in [Targets -> Records]
      BY DEF TypeOK
    <3> QED BY <3>1, NoApplyTyped DEF ApplyRefused
  <2> QED BY <2>3, TargetsAssumption, BoundsAssumption
     DEF ApplyRefused, TypeOK, journals, fence, runtime
<1>2. SchemaInv' /\ MigratingInv'
  BY DEF ApplyRefused, SchemaInv, MigratingInv, Held, GateOpen, fence, runtime
<1>3. JournalInv'
  BY <1>1, Typed DEF ApplyRefused, JournalInv, Sound, journals, NoApply
<1>4. ActorInv'
  BY <1>1, Typed
     DEF ApplyRefused, ActorInv, GateOpen, Claimed, Executing, At, journals, fence, runtime
<1>5. ExecutionInv'
  BY DEF ApplyRefused, ExecutionInv, Held, GateOpen, fence, runtime
<1> QED BY <1>1, <1>2, <1>3, <1>4, <1>5

\* A claim needs a pair taken under the fence, which it adopts.
LEMMA ClaimStep == ASSUME NEW t \in Targets, UpgradeInv, Claim(t) PROVE UpgradeInv'
<1> USE DEF UpgradeInv
<1>1. TypeOK'
  <2>1. actor' \in Actors
    BY Typed DEF Claim, Failing, Holding, Modes, Steps, Actors
  <2>2. journal' \in [Targets -> Records]
    <3>1. journal \in [Targets -> Records]
      BY DEF TypeOK
    <3>2. \A b \in Backups : [NoJournal EXCEPT
            !.status = "running", !.backup = b, !.run = t] \in Records
      <4>1. \A b \in Backups : b \in 0..MaxBackups
        BY BoundsAssumption DEF Backups
      <4>2. NoJournal \in Records /\ t \in Runs
        BY NoApplyTyped DEF Runs
      <4> QED BY <4>1, <4>2 DEF Records, Statuses
    <3> QED BY <3>1, <3>2 DEF Claim
  <2>3. applying' \in [Targets -> Applies]
    <3>1. /\ applying \in [Targets -> Applies]
          /\ active \in Revisions
          /\ journal \in [Targets -> Records]
      BY DEF TypeOK
    <3> QED BY <3>1, NoApplyTyped DEF Claim
  <2> QED BY <2>1, <2>2, <2>3, TargetsAssumption, BoundsAssumption DEF Claim, TypeOK, fence, runtime
<1>2. SchemaInv' /\ MigratingInv'
  BY DEF Claim, SchemaInv, MigratingInv, Held, runtime, Fresh, FencedBy
<1>3. JournalInv'
  <2>1. journal' \in [Targets -> Records] /\ journal \in [Targets -> Records]
        /\ applying \in [Targets -> Applies]
    BY <1>1 DEF TypeOK
  <2>2. \A u \in Targets \ {t} : journal'[u] = journal[u]
    BY <2>1 DEF Claim
  <2>3. journal'[t].run = t /\ \E b \in Backups : journal'[t].backup = b /\ pairs[b].taken
    BY <2>1 DEF Claim, FencedBy
  <2>4. t # 0
    BY TargetsAssumption
  <2>5. \A u \in Targets : applying'[u] = applying[u] \/ applying'[u].predecessor = NoTarget
    BY <2>1 DEF Claim, NoApply
  <2> QED BY <2>2, <2>3, <2>4, <2>5 DEF JournalInv, Sound, Claim
<1>4. ActorInv'
  BY <1>1, Typed
     DEF Claim, ActorInv, Claimed, Executing, At, NoJournal, TypeOK, Fresh, FencedBy, Holding
<1>5. ExecutionInv'
  BY <1>1, Typed, MigrationsAssumption DEF Claim, ExecutionInv, Fresh, FencedBy, Holding
<1> QED BY <1>1, <1>2, <1>3, <1>4, <1>5

\* A fix adopts the claim of the upgrade it replaces, as it was read.
LEMMA ClaimFixStep == ASSUME NEW t \in Targets, UpgradeInv, ClaimFix(t) PROVE UpgradeInv'
<1> USE DEF UpgradeInv
<1>1. TypeOK'
  BY TargetsAssumption, BoundsAssumption
     DEF ClaimFix, TypeOK, fence, runtime, Modes, Steps, Applies, Records, Statuses, NoJournal,
         Fresh, FenceContinuous, Holding, Actors
<1>2. SchemaInv' /\ MigratingInv'
  BY DEF ClaimFix, SchemaInv, MigratingInv, Held, GateOpen, fence, runtime, Fresh, FenceContinuous
<1>3. JournalInv'
  BY <1>1, Typed DEF ClaimFix, JournalInv, Sound, Executing, Fresh, FenceContinuous
<1>4. ActorInv'
  BY <1>1, Typed DEF ClaimFix, ActorInv, Claimed, TypeOK, Fresh, FenceContinuous, Holding
<1>5. ExecutionInv'
  BY <1>1, Typed, MigrationsAssumption DEF ClaimFix, ExecutionInv, Fresh, FenceContinuous, Holding
<1> QED BY <1>1, <1>2, <1>3, <1>4, <1>5

\* resume re-enters the execution where its journal says it stopped.
LEMMA ResumeStep == ASSUME NEW t \in Targets, UpgradeInv, Resume(t) PROVE UpgradeInv'
<1> USE DEF UpgradeInv
<1>1. TypeOK'
  <2>1. actor' \in Actors
    BY Typed DEF Resume, Failing, Modes, Steps, Actors
  <2>2. journal' \in [Targets -> Records]
    <3>1. journal \in [Targets -> Records]
      BY DEF TypeOK
    <3> QED BY <3>1, RecordTyped, Typed DEF Resume, Statuses
  <2> QED BY <2>1, <2>2, TargetsAssumption, BoundsAssumption DEF Resume, TypeOK, fence, runtime
<1>2. SchemaInv' /\ MigratingInv'
  BY DEF Resume, SchemaInv, MigratingInv, Held, GateOpen, fence, runtime, Unfinished
<1>3. JournalInv'
  BY <1>1, Typed DEF Resume, JournalInv, Sound, Unfinished
<1>4. ActorInv'
  BY <1>1, Typed DEF Resume, ActorInv, Claimed, Executing, At, Unfinished
<1>5. ExecutionInv'
  BY <1>1, Typed, MigrationsAssumption DEF Resume, ExecutionInv, Unfinished
<1> QED BY <1>1, <1>2, <1>3, <1>4, <1>5

\* An abandonment needs the schema to be the pair's, which is never ahead of the containers.
LEMMA AbandonStep == ASSUME NEW t \in Targets, UpgradeInv, Abandon(t) PROVE UpgradeInv'
<1> USE DEF UpgradeInv
<1>1. TypeOK'
  BY TargetsAssumption, BoundsAssumption
     DEF Abandon, TypeOK, journals, fence, runtime, Modes, Steps, Abandonable, Unfinished, Actors
<1>2. SchemaInv' /\ MigratingInv'
  BY DEF Abandon, SchemaInv, MigratingInv, Held, GateOpen, fence, runtime, Abandonable, Unfinished
<1>3. JournalInv'
  BY DEF Abandon, JournalInv, Sound, journals, Abandonable, Unfinished
<1>4. ActorInv'
  BY <1>1, Typed
     DEF Abandon, ActorInv, Claimed, Executing, At, journals, runtime, Abandonable, Unfinished
<1>5. ExecutionInv'
  BY <1>1, Typed, MigrationsAssumption DEF Abandon, ExecutionInv, Abandonable, Unfinished
<1> QED BY <1>1, <1>2, <1>3, <1>4, <1>5

\* A claim that was lost is abandoned in its journal only.
LEMMA AbandonStaleStep == ASSUME NEW t \in Targets, UpgradeInv, AbandonStale(t) PROVE UpgradeInv'
<1> USE DEF UpgradeInv
<1>1. TypeOK'
  <2>2. journal' \in [Targets -> Records]
    <3>1. journal \in [Targets -> Records]
      BY DEF TypeOK
    <3> QED BY <3>1, RecordTyped, Typed DEF AbandonStale, Statuses
  <2> QED BY <2>2, TargetsAssumption, BoundsAssumption DEF AbandonStale, TypeOK, fence, runtime
<1>2. SchemaInv' /\ MigratingInv'
  BY DEF AbandonStale, SchemaInv, MigratingInv, Held, GateOpen, fence, runtime, Abandonable,
         Unfinished
<1>3. JournalInv'
  BY <1>1, Typed DEF AbandonStale, JournalInv, Sound, Abandonable, Unfinished
<1>4. ActorInv'
  BY <1>1, Typed DEF AbandonStale, ActorInv, Executing, At, Idle, Abandonable, Unfinished
<1>5. ExecutionInv'
  BY DEF AbandonStale, ExecutionInv, Held, GateOpen, fence, runtime, Abandonable, Unfinished
<1> QED BY <1>1, <1>2, <1>3, <1>4, <1>5

\* apply() reads the failed upgrade before it holds the lease: the record it read stays sound.
LEMMA PrepareFixStep ==
  ASSUME NEW t \in Targets, NEW p \in Targets, UpgradeInv, PrepareFix(t, p)
  PROVE UpgradeInv'
<1> USE DEF UpgradeInv
<1>1. TypeOK'
  <2>3. applying' \in [Targets -> Applies]
    <3>1. applying \in [Targets -> Applies] /\ journal[p] \in Records
      BY DEF TypeOK
    <3>2. [begun |-> TRUE, active |-> p, predecessor |-> p, record |-> journal[p]] \in Applies
      BY <3>1 DEF Applies, Revisions, Runs
    <3> QED BY <3>1, <3>2 DEF PrepareFix
  <2> QED BY <2>3, TargetsAssumption, BoundsAssumption
     DEF PrepareFix, TypeOK, journals, fence, runtime
<1>2. SchemaInv' /\ MigratingInv'
  BY DEF PrepareFix, SchemaInv, MigratingInv, Held, GateOpen, fence, runtime, Fresh, Unfinished
<1>3. JournalInv'
  BY <1>1, Typed DEF PrepareFix, JournalInv, Sound, journals, Fresh, Unfinished
<1>4. ActorInv'
  <2>1. \A u \in Targets : applying[u].predecessor # NoTarget => applying'[u] = applying[u]
    BY DEF PrepareFix, JournalInv
  <2> QED BY <2>1
     DEF PrepareFix, ActorInv, Executing, At, Claimed, GateOpen, journals, fence, runtime
<1>5. ExecutionInv'
  BY DEF PrepareFix, ExecutionInv, Held, GateOpen, fence, runtime, Fresh, Unfinished
<1> QED BY <1>1, <1>2, <1>3, <1>4, <1>5

\* The installed production satisfies the invariant.
LEMMA UpgradeInit == Init => UpgradeInv
<1> SUFFICES ASSUME Init PROVE UpgradeInv
  OBVIOUS
<1>1. TypeOK
  <2>1. schema \in Nat
    BY MigrationsAssumption DEF Init
  <2>2. pairs \in [Backups -> [taken : BOOLEAN, schema : Nat, active : Revisions]]
    BY DEF Init, Revisions
  <2>3. applying \in [Targets -> Applies] /\ journal \in [Targets -> Records]
    BY NoApplyTyped DEF Init
  <2> QED BY <2>1, <2>2, <2>3, BoundsAssumption
     DEF Init, TypeOK, NoPending, Idle, Modes, Steps, Runs, Revisions, Actors
<1>2. SchemaInv /\ MigratingInv
  BY MigrationsAssumption DEF Init, SchemaInv, MigratingInv, Services
<1>3. JournalInv
  BY DEF Init, JournalInv, NoJournal, NoApply
<1>4. ActorInv /\ ExecutionInv
  BY DEF Init, ActorInv, ExecutionInv, Idle, Executing, At
<1> QED BY <1>1, <1>2, <1>3, <1>4 DEF UpgradeInv

\* Every step of every command, container and failure preserves it.
LEMMA UpgradeStep == UpgradeInv /\ [Next]_vars => UpgradeInv'
<1> SUFFICES ASSUME UpgradeInv, [Next]_vars PROVE UpgradeInv'
  OBVIOUS
<1>1. CASE Fencing
  BY <1>1, QuiesceStep, DrainStep, MarkStep, EnterStep, FenceRefusedStep DEF Fencing
<1>2. CASE Others
  BY <1>2, BackupStep, PublishBackupStep, ThawStep, StartServicesStep, WriteStep DEF Others
<1>3. CASE Migrating
  BY <1>3, MigrateStep, StartMigrationStep, ApplyMigrationStep, MigrationEndsStep, MigratedStep
     DEF Migrating
<1>4. CASE Replacing
  BY <1>4, IdentityStep, StartKeycloakStep, ReplaceStep, WriteActiveStep DEF Replacing
<1>5. CASE Reopening
  BY <1>5, ReopenStep, RoleLoginStep, OpenGateStep, ClearPendingStep, ReleaseStep,
     StartTargetStep, FinishStep DEF Reopening
<1>6. CASE Failures
  BY <1>6, FailStep, CleanupFailsStep, DieStep, RecordStep DEF Failures
<1>7. CASE WritePlan \/ CloseClaimed \/ Supersede
  BY <1>7, WritePlanStep, CloseClaimedStep, SupersedeStep
<1>8. ASSUME NEW t \in Targets,
             Prepare(t) \/ ApplyRefused(t) \/ Claim(t) \/ ClaimFix(t)
             \/ Resume(t) \/ Abandon(t) \/ AbandonStale(t)
      PROVE  UpgradeInv'
  BY <1>8, PrepareStep, ApplyRefusedStep, ClaimStep, ClaimFixStep, ResumeStep, AbandonStep,
     AbandonStaleStep
<1>9. ASSUME NEW t \in Targets, NEW p \in Targets, PrepareFix(t, p)
      PROVE  UpgradeInv'
  BY <1>9, PrepareFixStep
<1>10. CASE UNCHANGED vars
  <2>1. TypeOK'
    BY <1>10 DEF vars, journals, fence, runtime, UpgradeInv, TypeOK
  <2>2. SchemaInv' /\ MigratingInv'
    BY <1>10 DEF vars, fence, runtime, UpgradeInv, SchemaInv, MigratingInv, Held, GateOpen
  <2>3. JournalInv'
    BY <1>10 DEF vars, journals, UpgradeInv, JournalInv, Sound
  <2>4. ActorInv' /\ ExecutionInv'
    BY <1>10
       DEF vars, journals, fence, runtime, UpgradeInv, ActorInv, ExecutionInv, Held, GateOpen,
           Claimed, Executing, At
  <2> QED BY <2>1, <2>2, <2>3, <2>4 DEF UpgradeInv
<1> QED BY <1>1, <1>2, <1>3, <1>4, <1>5, <1>6, <1>7, <1>8, <1>9, <1>10 DEF Next

\* The inductive invariant of the upgrades (private_production_upgrade.py).
THEOREM UpgradeInvariant == Spec => []UpgradeInv
<1> QED BY UpgradeInit, UpgradeStep, PTL DEF Spec

\* Journals, fences, gate, containers and commands keep their types.
THEOREM UpgradeTypeCorrect == Spec => []TypeOK
<1>1. UpgradeInv => TypeOK
  BY DEF UpgradeInv
<1> QED BY <1>1, UpgradeInvariant, PTL

\* Whoever finds the gate open finds an application of the schema the database has: no
\* failure, death, resumption, fix or abandonment of an upgrade opens it over another.
THEOREM OpenGateHasItsSchema == Spec => []OpenGateFindsItsSchema
<1>1. UpgradeInv => OpenGateFindsItsSchema
  BY DEF UpgradeInv, SchemaInv, Held, OpenGateFindsItsSchema
<1> QED BY <1>1, UpgradeInvariant, PTL

-----------------------------------------------------------------------------
(* What the writes do to the journals and to what an --apply has read.     *)

(* The fields of a journal that a running command never changes.           *)
SameClaims ==
    \A u \in Targets : /\ journal'[u].backup = journal[u].backup
                       /\ journal'[u].run = journal[u].run
                       /\ journal'[u].predecessor = journal[u].predecessor

\* The outcome of a command changes the status of its own journal.
LEMMA StatusWritten ==
  ASSUME TypeOK, NEW t \in Targets, NEW s \in Statuses,
         journal' = [journal EXCEPT ![t] = [journal[t] EXCEPT !.status = s]]
  PROVE  /\ SameClaims
         /\ \A u \in Targets :
              /\ journal'[u].status = IF u = t THEN s ELSE journal[u].status
              /\ journal'[u].identityStarted = journal[u].identityStarted
              /\ journal'[u].reopened = journal[u].reopened
<1>1. journal \in [Targets -> Records]
  BY DEF TypeOK
<1>2. \A u \in Targets : journal'[u] = IF u = t THEN [journal[t] EXCEPT !.status = s]
                                       ELSE journal[u]
  BY <1>1
<1>3. journal[t] \in Records
  BY <1>1
<1> QED BY <1>2, <1>3 DEF Records, SameClaims

\* The start of a migration changes nothing that the claims are compared by.
LEMMA MigrationWritten ==
  ASSUME TypeOK, NEW t \in Targets,
         journal' = [journal EXCEPT ![t] = [journal[t] EXCEPT !.migrationStarted = TRUE]]
  PROVE  /\ SameClaims
         /\ \A u \in Targets :
              /\ journal'[u].status = journal[u].status
              /\ journal'[u].identityStarted = journal[u].identityStarted
              /\ journal'[u].reopened = journal[u].reopened
<1>1. journal \in [Targets -> Records]
  BY DEF TypeOK
<1>2. PICK b \in BOOLEAN :
        journal' = [journal EXCEPT ![t] = [journal[t] EXCEPT !.migrationStarted = b]]
  BY Zenon
<1>3. \A u \in Targets :
        journal'[u] = IF u = t THEN [journal[t] EXCEPT !.migrationStarted = b] ELSE journal[u]
  BY <1>1, <1>2
<1>4. journal[t] \in Records
  BY <1>1
<1> QED BY <1>3, <1>4 DEF Records, SameClaims

\* The start of the identity service is recorded in the journal of its own target.
LEMMA IdentityWritten ==
  ASSUME TypeOK, NEW t \in Targets,
         journal' = [journal EXCEPT ![t] = [journal[t] EXCEPT !.identityStarted = TRUE]]
  PROVE  /\ SameClaims
         /\ \A u \in Targets :
              /\ journal'[u].status = journal[u].status
              /\ journal'[u].identityStarted <=> u = t \/ journal[u].identityStarted
              /\ journal'[u].reopened = journal[u].reopened
<1>1. journal \in [Targets -> Records]
  BY DEF TypeOK
<1>2. PICK b \in BOOLEAN :
        b /\ journal' = [journal EXCEPT ![t] = [journal[t] EXCEPT !.identityStarted = b]]
  BY Zenon
<1>3. \A u \in Targets :
        journal'[u] = IF u = t THEN [journal[t] EXCEPT !.identityStarted = b] ELSE journal[u]
  BY <1>1, <1>2
<1>4. journal[t] \in Records
  BY <1>1
<1> QED BY <1>2, <1>3, <1>4 DEF Records, SameClaims

\* A reopening is recorded in the journal of its own target.
LEMMA ReopenedWritten ==
  ASSUME TypeOK, NEW t \in Targets,
         journal' = [journal EXCEPT ![t] = [journal[t] EXCEPT !.reopened = TRUE]]
  PROVE  /\ SameClaims
         /\ \A u \in Targets :
              /\ journal'[u].status = journal[u].status
              /\ journal'[u].identityStarted = journal[u].identityStarted
              /\ journal'[u].reopened <=> u = t \/ journal[u].reopened
<1>1. journal \in [Targets -> Records]
  BY DEF TypeOK
<1>2. PICK b \in BOOLEAN :
        b /\ journal' = [journal EXCEPT ![t] = [journal[t] EXCEPT !.reopened = b]]
  BY Zenon
<1>3. \A u \in Targets :
        journal'[u] = IF u = t THEN [journal[t] EXCEPT !.reopened = b] ELSE journal[u]
  BY <1>1, <1>2
<1>4. journal[t] \in Records
  BY <1>1
<1> QED BY <1>2, <1>3, <1>4 DEF Records, SameClaims

-----------------------------------------------------------------------------
(* Who owns a claim.                                                       *)

(* No container of t exists, and t is not active. *)
Untouched(t) == active # t /\ \A s \in Services : image[s] # t

(* A target that nothing was claimed for, or that was abandoned, has no container; nor has one
   that an --apply still prepares, or that never started its identity service. *)
ClaimsInv ==
    \A t \in Targets :
        /\ Fresh(t) =>
             Untouched(t) /\ migrating # t /\ journal[t].predecessor = NoTarget
        /\ applying[t].begun => Untouched(t) /\ migrating # t
        /\ t \in Unfinished /\ ~journal[t].identityStarted => Untouched(t)
        /\ t \in Unfinished /\ journal[t].predecessor = NoTarget =>
             journal[t].run = t /\ (journal[t].reopened => journal[t].identityStarted)

(* A command works on an unfinished upgrade, that no --apply prepares any more. *)
LeaseInv ==
    /\ actor.mode \in {"idle", "backup", "thaw"} => actor.target = NoTarget
    /\ actor.mode \in {"execute", "fail", "abandon"} => actor.target \in Unfinished
    /\ actor.mode = "abandon" =>
         ~Claimed.identityStarted /\ Claimed.predecessor = NoTarget
    /\ \A t \in Targets : applying[t].begun =>
         IF actor.target = t
         THEN actor.mode = "execute" /\ actor.step \in {"plan", "supersede"}
              /\ journal[t].predecessor = applying[t].predecessor
              /\ journal[t].predecessor # NoTarget
         ELSE t \notin Unfinished
    /\ \A t \in Targets : applying[t].predecessor # t

(* What an execution has recorded by the step it is at. *)
PassedInv ==
    /\ gate \in {[ready |-> TRUE, pending |-> FALSE], [ready |-> FALSE, pending |-> TRUE]}
    /\ actor.mode = "execute" =>
         /\ actor.step \in {"keycloak", "replace", "activate", "reopen", "login", "open", "clear",
                            "release", "start", "finish"} => Claimed.identityStarted
         /\ actor.step \in {"login", "open", "clear", "release", "start", "finish"} =>
              Claimed.reopened
         /\ actor.step \in {"clear", "release", "start", "finish"} => GateOpen
         /\ actor.step \in {"start", "finish"} => maintenance = 0
         /\ actor.step = "claim" => Claimed.predecessor = NoTarget

OwnershipInv == ClaimsInv /\ LeaseInv /\ PassedInv

\* A forward fix closes the journal of another upgrade, and reads no other one after that.
LEMMA SupersedeWrites ==
  ASSUME UpgradeInv, OwnershipInv, Supersede
  PROVE  /\ Claimed.predecessor \in Targets \ {actor.target}
         /\ \A u \in Targets \ {Claimed.predecessor} : journal'[u] = journal[u]
         /\ journal'[Claimed.predecessor] =
              [applying[actor.target].record EXCEPT !.status = "superseded"]
         /\ journal'[Claimed.predecessor].status = "superseded"
<1>1. journal \in [Targets -> Records] /\ applying \in [Targets -> Applies]
  BY DEF UpgradeInv, TypeOK
<1>2. actor.target \in Targets /\ applying[actor.target].begun
  BY DEF UpgradeInv, ActorInv, JournalInv, Supersede, Executing, At
<1>3. Claimed.predecessor = applying[actor.target].predecessor
      /\ Claimed.predecessor \notin {NoTarget, actor.target}
  BY <1>2 DEF OwnershipInv, LeaseInv, Claimed
<1>4. Claimed.predecessor \in Targets
  BY <1>1, <1>2, <1>3 DEF Claimed, Records, Runs, NoTarget
<1>5. applying[actor.target].record \in Records
  BY <1>1, <1>2 DEF Applies
<1>6. /\ \A u \in Targets \ {Claimed.predecessor} : journal'[u] = journal[u]
      /\ journal'[Claimed.predecessor] =
           [applying[actor.target].record EXCEPT !.status = "superseded"]
  BY <1>1, <1>4 DEF Supersede
<1> QED BY <1>3, <1>4, <1>5, <1>6 DEF Records

\* What an --apply has begun to prepare, or that is claimed, has no container of its own.
LEMMA ClaimsKept ==
  ASSUME UpgradeInv, OwnershipInv, [Next]_vars
  PROVE  ClaimsInv'
<1>0. /\ TypeOK /\ journal \in [Targets -> Records] /\ applying \in [Targets -> Applies]
      /\ image \in [Services -> Revisions] /\ actor \in Actors
      /\ 0 \notin Targets
  BY TargetsAssumption DEF UpgradeInv, TypeOK
<1> USE DEF OwnershipInv, ClaimsInv, Fresh, Unfinished, Untouched
<1>1. CASE UNCHANGED <<journal, applying, active, image>> /\ migrating' \in {migrating, NoTarget}
  BY <1>0, <1>1 DEF NoTarget
<1>2. CASE Quiesce
  BY <1>1, <1>2 DEF Quiesce, journals, runtime
<1>3. CASE Drain
  BY <1>1, <1>3 DEF Drain, journals
<1>4. CASE Mark
  BY <1>1, <1>4 DEF Mark, journals, runtime
<1>5. CASE Enter
  BY <1>1, <1>5 DEF Enter, journals, runtime
<1>6. CASE FenceRefused
  BY <1>1, <1>6 DEF FenceRefused, journals, runtime
<1>7. CASE Backup
  BY <1>1, <1>7 DEF Backup, journals, runtime
<1>8. CASE PublishBackup
  BY <1>1, <1>8 DEF PublishBackup, journals, runtime
<1>9. CASE Thaw
  BY <1>1, <1>9 DEF Thaw, journals, runtime
<1>10. CASE StartServices
  BY <1>1, <1>10 DEF StartServices, journals
<1>11. CASE Write
  BY <1>1, <1>11 DEF Write, journals, runtime
<1>12. CASE ApplyMigration
  BY <1>1, <1>12 DEF ApplyMigration, journals
<1>13. CASE MigrationEnds
  BY <1>1, <1>13 DEF MigrationEnds, journals
<1>14. CASE Migrated
  BY <1>1, <1>14 DEF Migrated, journals, runtime
<1>15. CASE RoleLogin
  BY <1>1, <1>15 DEF RoleLogin, journals, runtime
<1>16. CASE OpenGate
  BY <1>1, <1>16 DEF OpenGate, journals, runtime
<1>17. CASE ClearPending
  BY <1>1, <1>17 DEF ClearPending, journals, runtime
<1>18. CASE Release
  BY <1>1, <1>18 DEF Release, journals, runtime
<1>19. CASE StartTarget
  BY <1>1, <1>19 DEF StartTarget, journals
<1>20. CASE Fail
  BY <1>1, <1>20 DEF Fail, journals, runtime
<1>21. CASE CleanupFails
  BY <1>1, <1>21 DEF CleanupFails, journals, runtime
<1>22. CASE WritePlan
  BY <1>1, <1>22 DEF WritePlan, runtime
<1>23. CASE CloseClaimed
  BY <1>1, <1>23 DEF CloseClaimed, journals, runtime
<1>24. ASSUME NEW t \in Targets, Abandon(t)
      PROVE  ClaimsInv'
  BY <1>1, <1>24 DEF Abandon, journals, runtime
<1>25. CASE Migrate
  <2>1. actor.target \in Targets /\ UNCHANGED <<applying, active, image, migrating>>
    BY <1>0, <1>25 DEF UpgradeInv, ActorInv, Migrate, Executing, At, runtime
  <2>2. CASE UNCHANGED journal
    BY <1>1, <2>1, <2>2
  <2>3. CASE Written([Claimed EXCEPT !.migrationStarted = TRUE])
    <3>1. /\ SameClaims
          /\ \A u \in Targets : /\ journal'[u].status = journal[u].status
                                /\ journal'[u].identityStarted = journal[u].identityStarted
                                /\ journal'[u].reopened = journal[u].reopened
      BY <1>0, <2>1, <2>3, MigrationWritten DEF Written, Claimed
    <3> QED BY <2>1, <3>1 DEF SameClaims
  <2> QED BY <1>25, <2>2, <2>3 DEF Migrate
<1>26. CASE StartMigration
  <2>1. /\ actor.target \in Unfinished /\ ~applying[actor.target].begun
        /\ migrating' = actor.target /\ UNCHANGED <<journal, applying, active, image>>
    BY <1>26 DEF LeaseInv, StartMigration, Executing, At, journals
  <2> QED BY <2>1
<1>27. CASE Identity
  <2>1. actor.target \in Targets /\ UNCHANGED <<applying, active, image, migrating>>
    BY <1>0, <1>27 DEF UpgradeInv, ActorInv, Identity, Executing, At, runtime
  <2>2. /\ SameClaims
        /\ \A u \in Targets :
             /\ journal'[u].status = journal[u].status
             /\ journal'[u].identityStarted <=> u = actor.target \/ journal[u].identityStarted
             /\ journal'[u].reopened = journal[u].reopened
    BY <1>0, <2>1, <1>27, IdentityWritten DEF Identity, Written, Claimed
  <2> QED BY <2>1, <2>2 DEF SameClaims
<1>28. CASE StartKeycloak
  <2>1. /\ actor.target \in Unfinished /\ ~applying[actor.target].begun
        /\ UNCHANGED <<journal, applying, active, migrating>>
    BY <1>28 DEF LeaseInv, StartKeycloak, Executing, At, journals
  <2>2. Claimed.identityStarted /\ \A s \in Services : image'[s] \in {image[s], actor.target}
    BY <1>0, <1>28 DEF PassedInv, StartKeycloak, Executing, At, Services
  <2> QED BY <2>1, <2>2 DEF Claimed
<1>29. CASE Replace
  <2>1. /\ actor.target \in Unfinished /\ ~applying[actor.target].begun
        /\ UNCHANGED <<journal, applying, active, migrating>>
    BY <1>29 DEF LeaseInv, Replace, Executing, At, journals
  <2>2. Claimed.identityStarted /\ \A s \in Services : image'[s] \in {image[s], actor.target}
    BY <1>0, <1>29 DEF PassedInv, Replace, Executing, At, Services
  <2> QED BY <2>1, <2>2 DEF Claimed
<1>30. CASE WriteActive
  <2>1. /\ actor.target \in Unfinished /\ ~applying[actor.target].begun
        /\ active' = actor.target /\ UNCHANGED <<journal, applying, image, migrating>>
    BY <1>30 DEF LeaseInv, WriteActive, Executing, At, runtime
  <2>2. Claimed.identityStarted
    BY <1>30 DEF PassedInv, WriteActive, Executing, At
  <2> QED BY <2>1, <2>2 DEF Claimed
<1>31. CASE Reopen
  <2>1. /\ actor.target \in Targets /\ Claimed.identityStarted
        /\ UNCHANGED <<applying, active, image, migrating>>
    BY <1>0, <1>31 DEF UpgradeInv, ActorInv, PassedInv, Reopen, Executing, At, runtime
  <2>2. /\ SameClaims
        /\ \A u \in Targets :
             /\ journal'[u].status = journal[u].status
             /\ journal'[u].identityStarted = journal[u].identityStarted
             /\ journal'[u].reopened <=> u = actor.target \/ journal[u].reopened
    BY <1>0, <2>1, <1>31, ReopenedWritten DEF Reopen, Written, Claimed
  <2> QED BY <2>1, <2>2 DEF SameClaims, Claimed
<1>32. CASE Finish
  <2>1. /\ actor.target \in Unfinished /\ ~applying[actor.target].begun
        /\ Claimed.identityStarted
        /\ active' = actor.target /\ UNCHANGED <<applying, image, migrating>>
    BY <1>32 DEF LeaseInv, PassedInv, Finish, Executing, At, runtime
  <2>2. /\ SameClaims
        /\ \A u \in Targets :
             /\ journal'[u].status = IF u = actor.target THEN "complete" ELSE journal[u].status
             /\ journal'[u].identityStarted = journal[u].identityStarted
             /\ journal'[u].reopened = journal[u].reopened
    BY <1>0, <2>1, <1>32, StatusWritten DEF Finish, Written, Claimed, Statuses
  <2> QED BY <2>1, <2>2 DEF SameClaims, Claimed
<1>33. CASE Die
  <2>1. /\ \A t \in Targets : applying'[t].begun => applying[t].begun
        /\ UNCHANGED <<journal, active, image, migrating>>
    BY <1>0, <1>33 DEF Die, NoApply, journals, runtime
  <2> QED BY <2>1
<1>34. CASE Record
  <2>1. /\ actor.target \in Unfinished
        /\ actor.mode \in {"fail", "abandon"}
        /\ UNCHANGED <<applying, active, image, migrating>>
    BY <1>0, <1>34 DEF UpgradeInv, ActorInv, LeaseInv, Record, Actors, Modes, runtime
  <2>2. PICK s \in Statuses :
          /\ s = IF actor.mode = "fail" THEN "failed" ELSE "abandoned"
          /\ journal' = [journal EXCEPT ![actor.target] =
                           [journal[actor.target] EXCEPT !.status = s]]
    BY <1>34 DEF Record, Written, Claimed, Statuses
  <2>4. /\ SameClaims
        /\ \A u \in Targets :
             /\ journal'[u].status = IF u = actor.target THEN s ELSE journal[u].status
             /\ journal'[u].identityStarted = journal[u].identityStarted
             /\ journal'[u].reopened = journal[u].reopened
    <3>1. actor.target \in Targets
      BY <2>1
    <3>2. journal' = [journal EXCEPT ![actor.target] =
                        [journal[actor.target] EXCEPT !.status = s]]
      BY <2>2
    <3> HIDE DEF OwnershipInv, ClaimsInv, Fresh, Unfinished, Untouched
    <3> QED BY <1>0, <3>1, <3>2, StatusWritten
  <2>3. actor.mode = "abandon" => /\ migrating = NoTarget
                                  /\ ~Claimed.identityStarted
                                  /\ Claimed.predecessor = NoTarget
    BY DEF UpgradeInv, ActorInv, LeaseInv
  <2> QED BY <1>0, <2>1, <2>2, <2>3, <2>4 DEF SameClaims, Claimed, NoTarget
<1>35. CASE Supersede
  <2>1. /\ \A t \in Targets : applying'[t].begun => applying[t].begun
        /\ UNCHANGED <<active, image, migrating>>
    BY <1>0, <1>35 DEF Supersede, NoApply, runtime
  <2>2. /\ \A u \in Targets \ {Claimed.predecessor} : journal'[u] = journal[u]
        /\ journal'[Claimed.predecessor].status = "superseded"
    BY <1>35, SupersedeWrites
  <2> QED BY <2>1, <2>2
<1>36. ASSUME NEW t \in Targets, Prepare(t)
      PROVE  ClaimsInv'
  <2>1. /\ Untouched(t) /\ migrating # t
        /\ \A u \in Targets \ {t} : applying'[u] = applying[u]
        /\ UNCHANGED <<journal, active, image, migrating>>
    BY <1>0, <1>36 DEF Prepare, journals, runtime
  <2> QED BY <2>1
<1>37. ASSUME NEW t \in Targets, ApplyRefused(t)
      PROVE  ClaimsInv'
  <2>1. /\ \A u \in Targets : applying'[u].begun => applying[u].begun
        /\ UNCHANGED <<journal, active, image, migrating>>
    BY <1>0, <1>37 DEF ApplyRefused, NoApply, journals, runtime
  <2> QED BY <2>1
<1>38. ASSUME NEW t \in Targets, Claim(t)
      PROVE  ClaimsInv'
  <2>1. /\ Untouched(t) /\ migrating # t
        /\ \A u \in Targets : applying'[u].begun => applying[u].begun
        /\ UNCHANGED <<active, image, migrating>>
    BY <1>0, <1>38 DEF Claim, NoApply, runtime
  <2>2. /\ \A u \in Targets \ {t} : journal'[u] = journal[u]
        /\ journal'[t].run = t /\ ~journal'[t].reopened /\ journal'[t].status = "running"
    BY <1>0, <1>38 DEF Claim, NoJournal
  <2> QED BY <2>1, <2>2
<1>39. ASSUME NEW t \in Targets, ClaimFix(t)
      PROVE  ClaimsInv'
  <2>1. /\ Untouched(t) /\ applying[t].predecessor # NoTarget
        /\ UNCHANGED <<applying, active, image, migrating>>
    BY <1>0, <1>39 DEF ClaimFix, runtime
  <2>2. /\ \A u \in Targets \ {t} : journal'[u] = journal[u]
        /\ journal'[t].predecessor # NoTarget /\ journal'[t].status = "running"
    BY <1>0, <2>1, <1>39 DEF ClaimFix, NoJournal
  <2> QED BY <2>1, <2>2
<1>40. ASSUME NEW t \in Targets, Resume(t)
      PROVE  ClaimsInv'
  <2>1. /\ t \in Unfinished
        /\ UNCHANGED <<applying, active, image, migrating>>
    BY <1>40 DEF Resume, runtime
  <2>2. /\ SameClaims
        /\ \A u \in Targets :
             /\ journal'[u].status = IF u = t THEN "running" ELSE journal[u].status
             /\ journal'[u].identityStarted = journal[u].identityStarted
             /\ journal'[u].reopened = journal[u].reopened
    BY <1>0, <1>40, StatusWritten DEF Resume, Statuses
  <2> QED BY <2>1, <2>2 DEF SameClaims
<1>41. ASSUME NEW t \in Targets, AbandonStale(t)
      PROVE  ClaimsInv'
  <2>1. /\ t \in Unfinished
        /\ UNCHANGED <<applying, active, image, migrating>>
    BY <1>41 DEF AbandonStale, Abandonable, runtime
  <2>2. /\ SameClaims
        /\ \A u \in Targets :
             /\ journal'[u].status = IF u = t THEN "abandoned" ELSE journal[u].status
             /\ journal'[u].identityStarted = journal[u].identityStarted
             /\ journal'[u].reopened = journal[u].reopened
    BY <1>0, <1>41, StatusWritten DEF AbandonStale, Statuses
  <2>3. ~journal[t].identityStarted /\ journal[t].predecessor = NoTarget /\ migrating = NoTarget
    BY <1>41 DEF AbandonStale, Abandonable
  <2> QED BY <1>0, <2>1, <2>2, <2>3 DEF SameClaims, NoTarget
<1>42. ASSUME NEW t \in Targets, NEW p \in Targets, PrepareFix(t, p)
      PROVE  ClaimsInv'
  <2>1. /\ Untouched(t) /\ migrating # t
        /\ \A u \in Targets \ {t} : applying'[u] = applying[u]
        /\ UNCHANGED <<journal, active, image, migrating>>
    BY <1>0, <1>42 DEF PrepareFix, journals, runtime
  <2> QED BY <2>1
<1>43. CASE UNCHANGED vars
  BY <1>1, <1>43 DEF vars, journals, runtime
<1> QED BY <1>1, <1>2, <1>3, <1>4, <1>5, <1>6, <1>7, <1>8, <1>9, <1>10, <1>11, <1>12, <1>13,
           <1>14, <1>15, <1>16, <1>17, <1>18, <1>19, <1>20, <1>21, <1>22, <1>23, <1>24, <1>25,
           <1>26, <1>27, <1>28, <1>29, <1>30, <1>31, <1>32, <1>33, <1>34, <1>35, <1>36, <1>37,
           <1>38, <1>39, <1>40, <1>41, <1>42, <1>43
        DEF Next, Fencing, Others, Migrating, Replacing, Reopening, Failures

\* A command works on an unfinished upgrade that no --apply prepares.
LEMMA LeaseKept ==
  ASSUME UpgradeInv, OwnershipInv, [Next]_vars
  PROVE  LeaseInv'
<1>0. /\ TypeOK /\ journal \in [Targets -> Records] /\ applying \in [Targets -> Applies]
      /\ actor \in Actors /\ 0 \notin Targets
  BY TargetsAssumption DEF UpgradeInv, TypeOK
<1> USE DEF OwnershipInv, LeaseInv, Unfinished, NoTarget
<1>1. CASE /\ UNCHANGED <<journal, applying>>
           /\ actor'.mode = actor.mode /\ actor'.target = actor.target
           /\ \A t \in Targets : t = actor.target /\ applying[t].begun =>
                actor'.step \in {"plan", "supersede"}
  BY <1>1 DEF Claimed
<1>2. CASE /\ UNCHANGED <<journal, applying>>
           /\ actor'.mode \in {"idle", "backup", "thaw"} /\ actor'.target = NoTarget
           /\ actor.step \notin {"plan", "supersede"} \/ actor.target = NoTarget
  BY <1>0, <1>2 DEF Claimed
<1>3. CASE Quiesce
  BY <1>0, <1>1, <1>3 DEF Quiesce, Moved, journals, Actors
<1>4. CASE Drain
  BY <1>0, <1>1, <1>4 DEF Drain, Moved, journals, Actors
<1>5. CASE Mark
  BY <1>0, <1>1, <1>5 DEF Mark, Moved, journals, Actors
<1>6. CASE Enter
  BY <1>0, <1>1, <1>6 DEF Enter, Moved, journals, Actors
<1>7. CASE StartMigration
  BY <1>0, <1>1, <1>7 DEF StartMigration, Executing, At, Moved, journals, Actors
<1>8. CASE Migrated
  BY <1>0, <1>1, <1>8 DEF Migrated, Executing, At, Moved, journals, Actors
<1>9. CASE StartKeycloak
  BY <1>0, <1>1, <1>9 DEF StartKeycloak, Executing, At, Moved, journals, Actors
<1>10. CASE Replace
  BY <1>0, <1>1, <1>10 DEF Replace, Executing, At, Moved, journals, Actors
<1>11. CASE WriteActive
  BY <1>0, <1>1, <1>11 DEF WriteActive, Executing, At, Moved, Actors
<1>12. CASE RoleLogin
  BY <1>0, <1>1, <1>12 DEF RoleLogin, Moved, journals, Actors
<1>13. CASE OpenGate
  BY <1>0, <1>1, <1>13 DEF OpenGate, Moved, journals, Actors
<1>14. CASE Release
  BY <1>0, <1>1, <1>14 DEF Release, Moved, journals, Actors
<1>15. CASE StartTarget
  BY <1>0, <1>1, <1>15 DEF StartTarget, Executing, At, Moved, journals, Actors
<1>16. CASE CloseClaimed
  BY <1>0, <1>1, <1>16 DEF CloseClaimed, Executing, At, Moved, journals, Actors
<1>17. CASE CleanupFails
  BY <1>0, <1>1, <1>17 DEF CleanupFails, Moved, journals, Actors
<1>18. CASE WritePlan
  BY <1>0, <1>1, <1>18 DEF WritePlan, Executing, At, Moved, Claimed, Actors
<1>19. CASE StartServices
  BY <1>0, <1>1, <1>19 DEF StartServices, journals
<1>20. CASE Write
  BY <1>0, <1>1, <1>20 DEF Write, journals
<1>21. CASE ApplyMigration
  BY <1>0, <1>1, <1>21 DEF ApplyMigration, journals
<1>22. CASE MigrationEnds
  BY <1>0, <1>1, <1>22 DEF MigrationEnds, journals
<1>23. CASE Backup
  BY <1>2, <1>23 DEF Backup, journals, Idle
<1>24. CASE Thaw
  BY <1>2, <1>24 DEF Thaw, journals, Idle
<1>25. CASE PublishBackup
  BY <1>2, <1>25 DEF PublishBackup, At, journals, Idle
<1>26. CASE FenceRefused
  <2>1. CASE actor.mode = "fail"
    BY <1>0, <1>1, <1>26, <2>1 DEF FenceRefused, At, Actors, journals
  <2>2. CASE actor.mode # "fail"
    BY <1>2, <1>26, <2>2 DEF FenceRefused, At, Idle, journals
  <2> QED BY <2>1, <2>2
<1>27. CASE ClearPending
  <2>1. CASE actor.mode = "thaw"
    BY <1>2, <1>27, <2>1 DEF ClearPending, Idle, journals
  <2>2. CASE actor.mode # "thaw"
    BY <1>0, <1>1, <1>27, <2>2 DEF ClearPending, Actors, journals
  <2> QED BY <2>1, <2>2
<1>28. CASE Fail
  <2>1. /\ UNCHANGED <<journal, applying>>
        /\ actor.mode = "execute" /\ actor'.mode = "fail" /\ actor'.target = actor.target
        /\ actor.step \notin {"plan", "supersede"}
    BY <1>0, <1>28 DEF Fail, Failing, InExecute, Actors, journals
  <2> QED BY <2>1
<1>29. CASE Migrate
  <2>1. /\ actor.mode = "execute" /\ actor.target \in Targets /\ UNCHANGED applying
        /\ actor'.mode = "execute" /\ actor'.target = actor.target
        /\ actor.step \notin {"plan", "supersede"}
    BY <1>0, <1>29 DEF UpgradeInv, ActorInv, Migrate, Executing, At, Moved, Actors
  <2>2. SameClaims /\ \A u \in Targets : journal'[u].status = journal[u].status
    <3>1. CASE UNCHANGED journal
      BY <3>1 DEF SameClaims
    <3>2. CASE Written([Claimed EXCEPT !.migrationStarted = TRUE])
      BY <1>0, <2>1, <3>2, MigrationWritten DEF Written, Claimed
    <3> QED BY <1>29, <3>1, <3>2 DEF Migrate
  <2> QED BY <2>1, <2>2 DEF SameClaims
<1>30. CASE Identity
  <2>1. /\ actor.mode = "execute" /\ actor.target \in Targets /\ UNCHANGED applying
        /\ actor'.mode = "execute" /\ actor'.target = actor.target
        /\ actor.step \notin {"plan", "supersede"}
    BY <1>0, <1>30 DEF UpgradeInv, ActorInv, Identity, Executing, At, Moved, Actors
  <2>2. SameClaims /\ \A u \in Targets : journal'[u].status = journal[u].status
    BY <1>0, <2>1, <1>30, IdentityWritten DEF Identity, Written, Claimed
  <2> QED BY <2>1, <2>2 DEF SameClaims
<1>31. CASE Reopen
  <2>1. /\ actor.mode = "execute" /\ actor.target \in Targets /\ UNCHANGED applying
        /\ actor'.mode = "execute" /\ actor'.target = actor.target
        /\ actor.step \notin {"plan", "supersede"}
    BY <1>0, <1>31 DEF UpgradeInv, ActorInv, Reopen, Executing, At, Moved, Actors
  <2>2. SameClaims /\ \A u \in Targets : journal'[u].status = journal[u].status
    BY <1>0, <2>1, <1>31, ReopenedWritten DEF Reopen, Written, Claimed
  <2> QED BY <2>1, <2>2 DEF SameClaims
<1>32. CASE Finish
  <2>1. /\ actor.target \in Unfinished /\ actor' = Idle /\ UNCHANGED applying
        /\ ~applying[actor.target].begun
    BY <1>32 DEF Finish, Executing, At
  <2>2. \A u \in Targets \ {actor.target} : journal'[u] = journal[u]
    BY <1>0, <1>32 DEF Finish, Written
  <2> QED BY <1>0, <2>1, <2>2 DEF Idle
<1>33. CASE Record
  <2>1. /\ actor.target \in Unfinished /\ actor' = Idle /\ UNCHANGED applying
        /\ ~applying[actor.target].begun
    BY <1>0, <1>33 DEF UpgradeInv, ActorInv, Record, Actors, Modes
  <2>2. \A u \in Targets \ {actor.target} : journal'[u] = journal[u]
    BY <1>0, <1>33 DEF Record, Written
  <2> QED BY <1>0, <2>1, <2>2 DEF Idle
<1>34. CASE Die
  <2>1. /\ actor' = Idle /\ UNCHANGED journal
        /\ \A t \in Targets : applying'[t] = IF t = actor.target THEN NoApply ELSE applying[t]
    BY <1>34 DEF Die, journals
  <2> QED BY <1>0, <2>1 DEF Idle, NoApply
<1>35. CASE Supersede
  <2>1. /\ actor'.mode = "execute" /\ actor'.target = actor.target
        /\ actor.target \in Unfinished
    BY <1>0, <1>35 DEF Supersede, Executing, At, Moved, Actors
  <2>2. /\ \A t \in Targets : applying'[t] = IF t = actor.target THEN NoApply ELSE applying[t]
        /\ \A u \in Targets \ {Claimed.predecessor} : journal'[u] = journal[u]
        /\ journal'[Claimed.predecessor].status = "superseded"
        /\ Claimed.predecessor # actor.target
    BY <1>0, <1>35, SupersedeWrites DEF Supersede
  <2> QED BY <1>0, <2>1, <2>2 DEF NoApply
<1>36. ASSUME NEW t \in Targets, Prepare(t)
      PROVE  LeaseInv'
  <2>1. /\ t \notin Unfinished /\ UNCHANGED <<journal, actor>>
        /\ \A u \in Targets \ {t} : applying'[u] = applying[u]
        /\ applying'[t].predecessor # t
    BY <1>0, <1>36 DEF Prepare, Fresh, NoApply, journals
  <2>2. actor.target # t
    BY <1>0, <2>1 DEF Actors, Modes
  <2> QED BY <2>1, <2>2 DEF Claimed
<1>37. ASSUME NEW t \in Targets, NEW p \in Targets, PrepareFix(t, p)
      PROVE  LeaseInv'
  <2>1. /\ t \notin Unfinished /\ UNCHANGED <<journal, actor>>
        /\ \A u \in Targets \ {t} : applying'[u] = applying[u]
        /\ applying'[t].predecessor # t
    BY <1>0, <1>37 DEF PrepareFix, Fresh, journals
  <2>2. actor.target # t
    BY <1>0, <2>1 DEF Actors, Modes
  <2> QED BY <2>1, <2>2 DEF Claimed
<1>38. ASSUME NEW t \in Targets, ApplyRefused(t)
      PROVE  LeaseInv'
  <2>1. /\ UNCHANGED <<journal, actor>>
        /\ \A u \in Targets : applying'[u] = IF u = t THEN NoApply ELSE applying[u]
        /\ actor.target # t
    BY <1>0, <1>38 DEF ApplyRefused, journals
  <2> QED BY <1>0, <2>1 DEF NoApply, Claimed
<1>39. ASSUME NEW t \in Targets, Claim(t)
      PROVE  LeaseInv'
  <2>1. /\ actor.target = NoTarget /\ actor'.mode = "execute" /\ actor'.target = t
        /\ \A u \in Targets : applying'[u] = IF u = t THEN NoApply ELSE applying[u]
    BY <1>0, <1>39 DEF Claim, Idle, Holding
  <2>2. /\ \A u \in Targets \ {t} : journal'[u] = journal[u]
        /\ journal'[t].status = "running"
    BY <1>0, <1>39 DEF Claim, NoJournal
  <2> QED BY <1>0, <2>1, <2>2 DEF NoApply
<1>40. ASSUME NEW t \in Targets, ClaimFix(t)
      PROVE  LeaseInv'
  <2>1. /\ actor.target = NoTarget /\ actor' = Holding(t) /\ UNCHANGED applying
        /\ applying[t].predecessor # NoTarget
    BY <1>40 DEF ClaimFix, Idle
  <2>2. /\ \A u \in Targets \ {t} : journal'[u] = journal[u]
        /\ journal'[t].status = "running"
        /\ journal'[t].predecessor = applying[t].predecessor
    BY <1>0, <1>40 DEF ClaimFix, NoJournal
  <2> QED BY <1>0, <2>1, <2>2 DEF Holding
<1>41. ASSUME NEW t \in Targets, Resume(t)
      PROVE  LeaseInv'
  <2>1. /\ t \in Unfinished /\ actor.target = NoTarget /\ UNCHANGED applying
        /\ actor'.mode = "execute" /\ actor'.target = t
    BY <1>0, <1>41 DEF Resume, Idle
  <2>2. /\ \A u \in Targets \ {t} : journal'[u] = journal[u]
        /\ journal'[t].status = "running"
    BY <1>0, <1>41 DEF Resume, Records
  <2> QED BY <1>0, <2>1, <2>2
<1>42. ASSUME NEW t \in Targets, Abandon(t)
      PROVE  LeaseInv'
  <2>1. /\ t \in Unfinished /\ actor.target = NoTarget /\ UNCHANGED <<journal, applying>>
        /\ actor' = [mode |-> "abandon", target |-> t, step |-> "quiesce"]
        /\ ~journal[t].identityStarted /\ journal[t].predecessor = NoTarget
    BY <1>0, <1>42 DEF Abandon, Abandonable, Idle, journals
  <2> QED BY <1>0, <2>1 DEF Claimed
<1>43. ASSUME NEW t \in Targets, AbandonStale(t)
      PROVE  LeaseInv'
  <2>1. /\ actor = Idle /\ UNCHANGED <<actor, applying>>
        /\ \A u \in Targets \ {t} : journal'[u] = journal[u]
        /\ journal'[t].status = "abandoned"
    BY <1>0, <1>43 DEF AbandonStale, Abandonable, Records
  <2> QED BY <1>0, <2>1 DEF Idle
<1>44. CASE UNCHANGED vars
  BY <1>44 DEF vars, journals, Claimed
<1> QED BY <1>1, <1>2, <1>3, <1>4, <1>5, <1>6, <1>7, <1>8, <1>9, <1>10, <1>11, <1>12, <1>13,
           <1>14, <1>15, <1>16, <1>17, <1>18, <1>19, <1>20, <1>21, <1>22, <1>23, <1>24, <1>25,
           <1>26, <1>27, <1>28, <1>29, <1>30, <1>31, <1>32, <1>33, <1>34, <1>35, <1>36, <1>37,
           <1>38, <1>39, <1>40, <1>41, <1>42, <1>43, <1>44
        DEF Next, Fencing, Others, Migrating, Replacing, Reopening, Failures

\* An execution has recorded what the step it is at depends on, and holds the gate it opened.
LEMMA PassedKept ==
  ASSUME UpgradeInv, OwnershipInv, [Next]_vars
  PROVE  PassedInv'
<1>0. /\ TypeOK /\ journal \in [Targets -> Records] /\ actor \in Actors
  BY DEF UpgradeInv, TypeOK
<1> USE DEF OwnershipInv, PassedInv, GateOpen
<1>1. CASE UNCHANGED gate /\ actor'.mode # "execute"
  BY <1>1
<1>2. CASE /\ gate' \in {gate, [ready |-> FALSE, pending |-> TRUE]}
           /\ actor'.step \in {"plan", "supersede", "quiesce", "drain", "mark", "enter",
                               "migrate", "migrator", "migrated", "identity"}
  BY <1>2
<1>3. CASE Quiesce
  BY <1>0, <1>2, <1>3 DEF Quiesce, Moved, Actors
<1>4. CASE Drain
  BY <1>0, <1>2, <1>4 DEF Drain, Moved, Actors
<1>5. CASE CloseClaimed
  BY <1>0, <1>2, <1>5 DEF CloseClaimed, Executing, At, Moved, Actors
<1>6. CASE Supersede
  BY <1>0, <1>2, <1>6 DEF Supersede, Executing, At, Moved, Actors, fence
<1>7. CASE Migrate
  BY <1>0, <1>2, <1>7 DEF Migrate, Executing, At, Moved, Actors, fence
<1>8. CASE StartMigration
  BY <1>0, <1>2, <1>8 DEF StartMigration, Executing, At, Moved, Actors
<1>9. CASE Migrated
  BY <1>0, <1>2, <1>9 DEF Migrated, Executing, At, Moved, Actors
<1>10. ASSUME NEW t \in Targets, Claim(t)
      PROVE  PassedInv'
  BY <1>0, <1>2, <1>10 DEF Claim, Holding, Idle, Actors, fence
<1>11. ASSUME NEW t \in Targets, ClaimFix(t)
      PROVE  PassedInv'
  BY <1>0, <1>2, <1>11 DEF ClaimFix, Holding, Idle, Actors, fence
<1>12. ASSUME NEW t \in Targets, Resume(t)
      PROVE  PassedInv'
  BY <1>0, <1>2, <1>12 DEF Resume, Idle, Actors, fence
<1>13. CASE PublishBackup
  BY <1>0, <1>1, <1>13 DEF PublishBackup, At, Idle, Actors
<1>14. CASE Backup
  BY <1>0, <1>1, <1>14 DEF Backup, Idle, Actors, fence
<1>15. CASE Thaw
  BY <1>0, <1>1, <1>15 DEF Thaw, Idle, Actors, fence
<1>16. CASE Fail
  BY <1>0, <1>1, <1>16 DEF Fail, Executing, At, InExecute, Failing, Actors, fence
<1>17. CASE CleanupFails
  BY <1>0, <1>1, <1>17 DEF CleanupFails, Moved, Actors, fence
<1>18. CASE Die
  BY <1>0, <1>1, <1>18 DEF Die, Idle, Actors, fence
<1>19. ASSUME NEW t \in Targets, Abandon(t)
      PROVE  PassedInv'
  BY <1>0, <1>1, <1>19 DEF Abandon, Idle, Actors, fence
<1>20. CASE Mark
  <2>1. CASE actor.mode = "abandon"
    BY <1>0, <1>20, <2>1 DEF Mark, Moved, Actors
  <2>2. CASE actor.mode # "abandon"
    BY <1>0, <1>2, <1>20, <2>2 DEF Mark, Moved, Actors
  <2> QED BY <2>1, <2>2
<1>21. CASE Enter
  <2>1. CASE actor.mode = "fail"
    BY <1>0, <1>1, <1>21, <2>1 DEF Enter, Moved, Actors
  <2>2. CASE actor.mode # "fail"
    BY <1>0, <1>2, <1>21, <2>2 DEF Enter, Moved, Actors
  <2> QED BY <2>1, <2>2
<1>22. CASE FenceRefused
  <2>1. actor'.mode # "execute"
    BY <1>0, <1>22 DEF FenceRefused, At, Idle, Actors
  <2> QED BY <1>1, <1>22, <2>1 DEF FenceRefused, fence
<1>23. CASE WritePlan
  <2>1. CASE Claimed.predecessor = NoTarget
    BY <1>0, <1>23, <2>1 DEF WritePlan, Executing, At, Moved, Actors, Claimed, fence
  <2>2. CASE Claimed.predecessor # NoTarget
    BY <1>0, <1>2, <1>23, <2>2 DEF WritePlan, Executing, At, Moved, Actors, fence
  <2> QED BY <2>1, <2>2
<1>24. CASE StartServices
  BY <1>24 DEF StartServices, fence, journals, Claimed
<1>25. CASE Write
  BY <1>25 DEF Write, fence, journals, Claimed
<1>26. CASE ApplyMigration
  BY <1>26 DEF ApplyMigration, fence, journals, Claimed
<1>27. CASE MigrationEnds
  BY <1>27 DEF MigrationEnds, fence, journals, Claimed
<1>28. ASSUME NEW t \in Targets, Prepare(t)
      PROVE  PassedInv'
  BY <1>28 DEF Prepare, fence, journals, Claimed
<1>29. ASSUME NEW t \in Targets, ApplyRefused(t)
      PROVE  PassedInv'
  BY <1>29 DEF ApplyRefused, fence, journals, Claimed
<1>30. ASSUME NEW t \in Targets, NEW p \in Targets, PrepareFix(t, p)
      PROVE  PassedInv'
  BY <1>30 DEF PrepareFix, fence, journals, Claimed
<1>31. ASSUME NEW t \in Targets, AbandonStale(t)
      PROVE  PassedInv'
  BY <1>31 DEF AbandonStale, Abandonable, Idle, fence
<1>32. CASE Identity
  <2>1. /\ actor.mode = "execute" /\ actor.target \in Targets /\ UNCHANGED <<gate, maintenance>>
        /\ actor' = [actor EXCEPT !.step = "keycloak"]
    BY <1>0, <1>32 DEF UpgradeInv, ActorInv, Identity, Executing, At, Moved
  <2>2. journal'[actor.target].identityStarted
    BY <1>0, <2>1, <1>32, IdentityWritten DEF Identity, Written, Claimed
  <2> QED BY <1>0, <2>1, <2>2 DEF Claimed, Actors
<1>33. CASE StartKeycloak
  BY <1>0, <1>33 DEF StartKeycloak, Executing, At, Moved, Claimed, Actors, journals, fence
<1>34. CASE Replace
  BY <1>0, <1>34 DEF Replace, Executing, At, Moved, Claimed, Actors, journals, fence
<1>35. CASE WriteActive
  BY <1>0, <1>35 DEF WriteActive, Executing, At, Moved, Claimed, Actors, journals, fence
<1>36. CASE RoleLogin
  BY <1>0, <1>36 DEF RoleLogin, Moved, Claimed, Actors, journals
<1>37. CASE StartTarget
  BY <1>0, <1>37 DEF StartTarget, Executing, At, Moved, Claimed, Actors, journals, fence
<1>38. CASE Reopen
  <2>1. /\ actor.mode = "execute" /\ actor.target \in Targets /\ UNCHANGED <<gate, maintenance>>
        /\ actor.step = "reopen" /\ actor' = [actor EXCEPT !.step = "login"]
    BY <1>0, <1>38 DEF UpgradeInv, ActorInv, Reopen, Executing, At, Moved, fence
  <2>2. /\ journal'[actor.target].reopened
        /\ journal'[actor.target].identityStarted = Claimed.identityStarted
    BY <1>0, <2>1, <1>38, ReopenedWritten DEF Reopen, Written, Claimed
  <2> QED BY <1>0, <2>1, <2>2 DEF Claimed, Actors
<1>39. CASE OpenGate
  BY <1>0, <1>39 DEF OpenGate, Moved, Claimed, Actors, journals
<1>40. CASE ClearPending
  BY <1>0, <1>40 DEF ClearPending, Idle, Claimed, Actors, journals
<1>41. CASE Release
  BY <1>0, <1>41 DEF Release, Moved, Claimed, Actors, journals
<1>42. CASE Finish
  BY <1>1, <1>42 DEF Finish, Idle, fence
<1>43. CASE Record
  BY <1>1, <1>43 DEF Record, Idle, fence
<1>44. CASE UNCHANGED vars
  BY <1>44 DEF vars, journals, fence, Claimed
<1> QED BY <1>1, <1>2, <1>3, <1>4, <1>5, <1>6, <1>7, <1>8, <1>9, <1>10, <1>11, <1>12, <1>13,
           <1>14, <1>15, <1>16, <1>17, <1>18, <1>19, <1>20, <1>21, <1>22, <1>23, <1>24, <1>25,
           <1>26, <1>27, <1>28, <1>29, <1>30, <1>31, <1>32, <1>33, <1>34, <1>35, <1>36, <1>37,
           <1>38, <1>39, <1>40, <1>41, <1>42, <1>43, <1>44
        DEF Next, Fencing, Others, Migrating, Replacing, Reopening, Failures

\* Nothing is claimed, and no command runs, at first.
LEMMA OwnershipInit == Init => OwnershipInv
<1> SUFFICES ASSUME Init PROVE OwnershipInv
  OBVIOUS
<1>1. \A t \in Targets : /\ journal[t] = NoJournal /\ applying[t] = NoApply
                         /\ t # 0
  BY TargetsAssumption DEF Init
<1>2. ClaimsInv
  BY <1>1 DEF Init, ClaimsInv, Untouched, Fresh, Unfinished, NoJournal, NoApply, NoTarget
<1>3. LeaseInv
  BY <1>1 DEF Init, LeaseInv, Idle, NoApply, NoTarget
<1>4. PassedInv
  BY DEF Init, PassedInv, Idle
<1> QED BY <1>2, <1>3, <1>4 DEF OwnershipInv

\* Every claim is owned as it should be: the containers, the journals and the --apply commands
\* agree on which upgrade has begun and how far it went.
THEOREM OwnershipInvariant == Spec => []OwnershipInv
<1>1. UpgradeInv /\ OwnershipInv /\ [Next]_vars => OwnershipInv'
  BY ClaimsKept, LeaseKept, PassedKept DEF OwnershipInv
<1> QED BY <1>1, OwnershipInit, UpgradeInvariant, PTL DEF Spec

\* An abandoned upgrade has left no container of its own, nor a migration that still runs:
\* `--abandon` is refused from the start of the identity service on.
THEOREM AbandonedIsClean == Spec => []AbandonedLeftNothing
<1>1. OwnershipInv => AbandonedLeftNothing
  BY DEF OwnershipInv, ClaimsInv, Untouched, Fresh, AbandonedLeftNothing
<1> QED BY <1>1, OwnershipInvariant, PTL

-----------------------------------------------------------------------------
(* How the fence, the containers and the claims can move in one step.      *)

Closed == ~gate.ready /\ gate.pending
Continuous == Closed /\ pending.phase \in {Fenced, "upgrade"}

\* Who claims, resumes or abandons t takes the lease for it; every other command keeps it, or
\* gives it up.
LEMMA LeaseMoves ==
  ASSUME UpgradeInv, [Next]_vars
  PROVE  \/ actor'.target \in {actor.target, NoTarget}
         \/ \E t \in Targets : /\ Claim(t) \/ ClaimFix(t) \/ Resume(t) \/ Abandon(t)
                               /\ actor'.target = t
<1>0. actor \in Actors
  BY DEF UpgradeInv, TypeOK
<1>1. CASE Fencing
  BY <1>1, <1>0 DEF Fencing, Quiesce, Moved, Drain, Mark, Enter, FenceRefused, At, Idle, Actors,
                    NoTarget
<1>2. CASE Others
  BY <1>2, <1>0 DEF Others, Backup, Idle, PublishBackup, At, Thaw, StartServices, Write, Actors,
                    NoTarget
<1>3. CASE Migrating
  BY <1>3, <1>0 DEF Migrating, Migrate, At, Moved, StartMigration, ApplyMigration, MigrationEnds,
                    Migrated, Actors, NoTarget
<1>4. CASE Replacing
  BY <1>4, <1>0 DEF Replacing, Identity, At, Moved, StartKeycloak, Replace, WriteActive, Actors,
                    NoTarget
<1>5. CASE Reopening
  BY <1>5, <1>0 DEF Reopening, Reopen, At, Moved, RoleLogin, OpenGate, ClearPending, Idle,
                    Release, StartTarget, Finish, Actors, NoTarget
<1>6. CASE Failures
  <2>1. CASE Fail
    BY <2>1, <1>0 DEF Fail, Failing, Actors
  <2>2. CASE CleanupFails \/ Die \/ Record
    BY <2>2, <1>0 DEF CleanupFails, Moved, Die, Idle, Record, Actors
  <2> QED BY <1>6, <2>1, <2>2 DEF Failures
<1>7. CASE WritePlan \/ CloseClaimed \/ Supersede
  BY <1>7, <1>0 DEF WritePlan, At, Moved, CloseClaimed, Supersede, Actors, NoTarget
<1>8. ASSUME NEW t \in Targets,
             \/ Prepare(t) \/ ApplyRefused(t) \/ AbandonStale(t)
             \/ \E p \in Targets : PrepareFix(t, p)
      PROVE  actor' = actor
  BY <1>8 DEF Prepare, ApplyRefused, AbandonStale, PrepareFix
<1>9. ASSUME NEW t \in Targets, Claim(t) \/ ClaimFix(t) \/ Resume(t) \/ Abandon(t)
      PROVE  actor'.target = t
  <2>1. CASE Claim(t)
    BY <2>1 DEF Claim, Holding
  <2>2. CASE ClaimFix(t)
    BY <2>2 DEF ClaimFix, Holding
  <2>3. CASE Resume(t)
    BY <2>3 DEF Resume
  <2>4. CASE Abandon(t)
    BY <2>4 DEF Abandon
  <2> QED BY <1>9, <2>1, <2>2, <2>3, <2>4
<1>10. CASE UNCHANGED vars
  BY <1>10 DEF vars
<1>11. CASE \E t \in Targets :
              \/ Prepare(t) \/ ApplyRefused(t) \/ AbandonStale(t)
              \/ \E p \in Targets : PrepareFix(t, p)
  BY <1>8, <1>11
<1>12. CASE \E t \in Targets : Claim(t) \/ ClaimFix(t) \/ Resume(t) \/ Abandon(t)
  BY <1>9, <1>12
<1> QED BY <1>1, <1>2, <1>3, <1>4, <1>5, <1>6, <1>7, <1>10, <1>11, <1>12 DEF Next

\* The identity fence is entered for the run of the command's own claim, or given up.
LEMMA MaintenanceMoves ==
  ASSUME [Next]_vars
  PROVE  maintenance' \in {maintenance, 0} \/ Enter
<1>1. CASE Fencing
  BY <1>1 DEF Fencing, Quiesce, Drain, Mark, Enter, FenceRefused, fence
<1>2. CASE Others
  BY <1>2 DEF Others, Backup, fence, PublishBackup, Thaw, StartServices, Write
<1>3. CASE Migrating
  BY <1>3 DEF Migrating, Migrate, fence, StartMigration, ApplyMigration, MigrationEnds, Migrated
<1>4. CASE Replacing
  BY <1>4 DEF Replacing, Identity, StartKeycloak, fence, Replace, WriteActive
<1>5. CASE Reopening
  BY <1>5 DEF Reopening, Reopen, fence, RoleLogin, OpenGate, ClearPending, Release, StartTarget,
              Finish
<1>6. CASE Failures
  BY <1>6 DEF Failures, Fail, fence, CleanupFails, Die, Record
<1>7. CASE WritePlan \/ CloseClaimed \/ Supersede
  BY <1>7 DEF WritePlan, fence, CloseClaimed, Supersede
<1>8. CASE \E t \in Targets :
             \/ Prepare(t) \/ ApplyRefused(t) \/ Claim(t) \/ ClaimFix(t)
             \/ Resume(t) \/ Abandon(t) \/ AbandonStale(t)
             \/ \E p \in Targets : PrepareFix(t, p)
  BY <1>8 DEF Prepare, fence, ApplyRefused, Claim, ClaimFix, Resume, Abandon, AbandonStale,
              PrepareFix
<1>9. CASE UNCHANGED vars
  BY <1>9 DEF vars, fence
<1> QED BY <1>1, <1>2, <1>3, <1>4, <1>5, <1>6, <1>7, <1>8, <1>9 DEF Next

\* The fence is complete under a pair once it was, or once a backup, a claim or a refence of
\* the pair's own upgrade closed it.
LEMMA ContinuousMoves ==
  ASSUME [Next]_vars, Continuous'
  PROVE  UNCHANGED <<gate, pending>> \/ Mark \/ CloseClaimed \/ PublishBackup
<1>1. CASE Fencing
  BY <1>1 DEF Fencing, Quiesce, Drain, Mark, Enter, FenceRefused, fence, Continuous, Closed,
              Fenced
<1>2. CASE Others
  BY <1>2 DEF Others, Backup, fence, PublishBackup, Thaw, StartServices, Write, Continuous,
              Closed, Fenced
<1>3. CASE Migrating
  BY <1>3 DEF Migrating, Migrate, fence, StartMigration, ApplyMigration, MigrationEnds, Migrated,
              Continuous, Closed, Fenced
<1>4. CASE Replacing
  BY <1>4 DEF Replacing, Identity, StartKeycloak, fence, Replace, WriteActive, Continuous, Closed,
              Fenced
<1>5. CASE Reopening
  BY <1>5 DEF Reopening, Reopen, fence, RoleLogin, OpenGate, ClearPending, NoPending, Release,
              StartTarget, Finish, Continuous, Closed, Fenced
<1>6. CASE Failures
  BY <1>6 DEF Failures, Fail, fence, CleanupFails, Die, Record, Continuous, Closed, Fenced
<1>7. CASE WritePlan \/ CloseClaimed \/ Supersede
  BY <1>7 DEF WritePlan, fence, CloseClaimed, Supersede, Continuous, Closed, Fenced
<1>8. CASE \E t \in Targets :
             \/ Prepare(t) \/ ApplyRefused(t) \/ Claim(t) \/ ClaimFix(t)
             \/ Resume(t) \/ Abandon(t) \/ AbandonStale(t)
             \/ \E p \in Targets : PrepareFix(t, p)
  BY <1>8 DEF Prepare, fence, ApplyRefused, Claim, ClaimFix, Resume, Abandon, AbandonStale,
              PrepareFix, Continuous, Closed, Fenced
<1>9. CASE UNCHANGED vars
  BY <1>9 DEF vars, fence, Continuous, Closed, Fenced
<1> QED BY <1>1, <1>2, <1>3, <1>4, <1>5, <1>6, <1>7, <1>8, <1>9 DEF Next

\* The gate is opened by a command that reopens.
LEMMA GateMoves ==
  ASSUME [Next]_vars, OwnershipInv
  PROVE  gate' = gate \/ Closed' \/ OpenGate
<1>1. CASE Fencing
  BY <1>1 DEF Fencing, Quiesce, Drain, Mark, Enter, FenceRefused, fence, Closed
<1>2. CASE Others
  BY <1>2 DEF Others, Backup, fence, PublishBackup, Thaw, StartServices, Write, Closed
<1>3. CASE Migrating
  BY <1>3 DEF Migrating, Migrate, fence, StartMigration, ApplyMigration, MigrationEnds, Migrated,
              Closed
<1>4. CASE Replacing
  BY <1>4 DEF Replacing, Identity, StartKeycloak, fence, Replace, WriteActive, Closed
<1>5. CASE Reopening
  BY <1>5 DEF Reopening, Reopen, fence, RoleLogin, OpenGate, ClearPending, Release, StartTarget,
              Finish, Closed
<1>6. CASE Failures
  BY <1>6 DEF Failures, Fail, fence, CleanupFails, Die, Record, Closed
<1>7. CASE WritePlan \/ CloseClaimed \/ Supersede
  BY <1>7 DEF WritePlan, fence, CloseClaimed, Supersede, Closed
<1>8. CASE \E t \in Targets :
             \/ Prepare(t) \/ ApplyRefused(t) \/ Claim(t) \/ ClaimFix(t)
             \/ Resume(t) \/ Abandon(t) \/ AbandonStale(t)
             \/ \E p \in Targets : PrepareFix(t, p)
  BY <1>8 DEF Prepare, fence, ApplyRefused, Claim, ClaimFix, Resume, Abandon, AbandonStale,
              PrepareFix, Closed
<1>9. CASE UNCHANGED vars
  BY <1>9 DEF vars, fence, Closed
<1> QED BY <1>1, <1>2, <1>3, <1>4, <1>5, <1>6, <1>7, <1>8, <1>9 DEF Next

\* The application is started by its owner, or by the command that reopened.
LEMMA RunningMoves ==
  ASSUME [Next]_vars, "application" \in running', "application" \notin running
  PROVE  StartServices \/ StartTarget
<1>1. CASE Fencing
  BY <1>1 DEF Fencing, Quiesce, runtime, Drain, Mark, Enter, FenceRefused
<1>2. CASE Others
  BY <1>2 DEF Others, Backup, runtime, PublishBackup, Thaw, StartServices, Write
<1>3. CASE Migrating
  BY <1>3 DEF Migrating, Migrate, runtime, StartMigration, ApplyMigration, MigrationEnds, Migrated
<1>4. CASE Replacing
  BY <1>4 DEF Replacing, Identity, runtime, StartKeycloak, Replace, WriteActive
<1>5. CASE Reopening
  BY <1>5 DEF Reopening, Reopen, runtime, RoleLogin, OpenGate, ClearPending, Release, StartTarget,
              Finish
<1>6. CASE Failures
  BY <1>6 DEF Failures, Fail, runtime, CleanupFails, Die, Record
<1>7. CASE WritePlan \/ CloseClaimed \/ Supersede
  BY <1>7 DEF WritePlan, runtime, CloseClaimed, Supersede
<1>8. CASE \E t \in Targets :
             \/ Prepare(t) \/ ApplyRefused(t) \/ Claim(t) \/ ClaimFix(t)
             \/ Resume(t) \/ Abandon(t) \/ AbandonStale(t)
             \/ \E p \in Targets : PrepareFix(t, p)
  BY <1>8 DEF Prepare, runtime, ApplyRefused, Claim, ClaimFix, Resume, Abandon, AbandonStale,
              PrepareFix
<1>9. CASE UNCHANGED vars
  BY <1>9 DEF vars, runtime
<1> QED BY <1>1, <1>2, <1>3, <1>4, <1>5, <1>6, <1>7, <1>8, <1>9 DEF Next

\* A pair becomes stale by a write of a running application.
LEMMA StaleMoves ==
  ASSUME [Next]_vars
  PROVE  \/ stale' = stale
         \/ "application" \in running /\ stale' = {b \in Backups : pairs[b].taken}
<1>1. CASE Fencing
  BY <1>1 DEF Fencing, Quiesce, Drain, Mark, Enter, FenceRefused
<1>2. CASE Others
  BY <1>2 DEF Others, Backup, PublishBackup, Thaw, StartServices, Write
<1>3. CASE Migrating
  BY <1>3 DEF Migrating, Migrate, StartMigration, ApplyMigration, MigrationEnds, Migrated
<1>4. CASE Replacing
  BY <1>4 DEF Replacing, Identity, StartKeycloak, Replace, WriteActive
<1>5. CASE Reopening
  BY <1>5 DEF Reopening, Reopen, RoleLogin, OpenGate, ClearPending, Release, StartTarget, Finish
<1>6. CASE Failures
  BY <1>6 DEF Failures, Fail, CleanupFails, Die, Record
<1>7. CASE WritePlan \/ CloseClaimed \/ Supersede
  BY <1>7 DEF WritePlan, CloseClaimed, Supersede
<1>8. CASE \E t \in Targets :
             \/ Prepare(t) \/ ApplyRefused(t) \/ Claim(t) \/ ClaimFix(t)
             \/ Resume(t) \/ Abandon(t) \/ AbandonStale(t)
             \/ \E p \in Targets : PrepareFix(t, p)
  BY <1>8 DEF Prepare, ApplyRefused, Claim, ClaimFix, Resume, Abandon, AbandonStale, PrepareFix
<1>9. CASE UNCHANGED vars
  BY <1>9 DEF vars
<1> QED BY <1>1, <1>2, <1>3, <1>4, <1>5, <1>6, <1>7, <1>8, <1>9 DEF Next

\* ACTIVE is written by a command that runs, and names its target.
LEMMA ActiveMoves ==
  ASSUME [Next]_vars
  PROVE  active' = active \/ ((WriteActive \/ Finish) /\ active' = actor.target)
<1>1. CASE Fencing
  BY <1>1 DEF Fencing, Quiesce, journals, Drain, Mark, Enter, FenceRefused
<1>2. CASE Others
  BY <1>2 DEF Others, Backup, journals, PublishBackup, Thaw, StartServices, Write
<1>3. CASE Migrating
  BY <1>3 DEF Migrating, Migrate, StartMigration, journals, ApplyMigration, MigrationEnds,
              Migrated
<1>4. CASE Replacing
  BY <1>4 DEF Replacing, Identity, StartKeycloak, journals, Replace, WriteActive
<1>5. CASE Reopening
  BY <1>5 DEF Reopening, Reopen, RoleLogin, journals, OpenGate, ClearPending, Release,
              StartTarget, Finish
<1>6. CASE Failures
  <2>1. CASE Fail
    BY <2>1 DEF Fail, journals
  <2>2. CASE CleanupFails
    BY <2>2 DEF CleanupFails, journals
  <2>3. CASE Die
    BY <2>3 DEF Die, journals
  <2>4. CASE Record
    BY <2>4 DEF Record
  <2> QED BY <1>6, <2>1, <2>2, <2>3, <2>4 DEF Failures
<1>7. CASE WritePlan \/ CloseClaimed \/ Supersede
  BY <1>7 DEF WritePlan, CloseClaimed, journals, Supersede
<1>8. CASE \E t \in Targets :
             \/ Prepare(t) \/ ApplyRefused(t) \/ AbandonStale(t)
             \/ \E p \in Targets : PrepareFix(t, p)
  BY <1>8 DEF Prepare, journals, ApplyRefused, AbandonStale, Abandonable, PrepareFix
<1>9. CASE \E t \in Targets : Resume(t)
  BY <1>9 DEF Resume
<1>10. CASE \E t \in Targets : Abandon(t)
  BY <1>10 DEF Abandon, journals, Abandonable
<1>11. CASE \E t \in Targets : Claim(t)
  BY <1>11 DEF Claim
<1>12. CASE \E t \in Targets : ClaimFix(t)
  BY <1>12 DEF ClaimFix
<1>13. CASE UNCHANGED vars
  BY <1>13 DEF vars, journals
<1> QED BY <1>1, <1>2, <1>3, <1>4, <1>5, <1>6, <1>7, <1>8, <1>9, <1>10, <1>11, <1>12, <1>13
        DEF Next

\* Only a backup takes a pair.
LEMMA PairsMoves == ASSUME [Next]_vars PROVE UNCHANGED pairs \/ PublishBackup
<1>1. CASE Fencing
  BY <1>1 DEF Fencing, Quiesce, Drain, Mark, Enter, FenceRefused
<1>2. CASE Others
  BY <1>2 DEF Others, Backup, PublishBackup, Thaw, StartServices, Write
<1>3. CASE Migrating
  BY <1>3 DEF Migrating, Migrate, StartMigration, ApplyMigration, MigrationEnds, Migrated
<1>4. CASE Replacing
  BY <1>4 DEF Replacing, Identity, StartKeycloak, Replace, WriteActive
<1>5. CASE Reopening
  BY <1>5 DEF Reopening, Reopen, RoleLogin, OpenGate, ClearPending, Release, StartTarget, Finish
<1>6. CASE Failures
  <2>1. CASE Fail
    BY <2>1 DEF Fail
  <2>2. CASE CleanupFails
    BY <2>2 DEF CleanupFails
  <2>3. CASE Die
    BY <2>3 DEF Die
  <2>4. CASE Record
    BY <2>4 DEF Record
  <2> QED BY <1>6, <2>1, <2>2, <2>3, <2>4 DEF Failures
<1>7. CASE WritePlan \/ CloseClaimed \/ Supersede
  BY <1>7 DEF WritePlan, CloseClaimed, Supersede
<1>8. CASE \E t \in Targets :
             \/ Prepare(t) \/ ApplyRefused(t) \/ AbandonStale(t)
             \/ \E p \in Targets : PrepareFix(t, p)
  BY <1>8 DEF Prepare, ApplyRefused, AbandonStale, Abandonable, PrepareFix
<1>9. CASE \E t \in Targets : Resume(t)
  BY <1>9 DEF Resume
<1>10. CASE \E t \in Targets : Abandon(t)
  BY <1>10 DEF Abandon, Abandonable
<1>11. CASE \E t \in Targets : Claim(t)
  BY <1>11 DEF Claim
<1>12. CASE \E t \in Targets : ClaimFix(t)
  BY <1>12 DEF ClaimFix
<1>13. CASE UNCHANGED vars
  BY <1>13 DEF vars
<1> QED BY <1>1, <1>2, <1>3, <1>4, <1>5, <1>6, <1>7, <1>8, <1>9, <1>10, <1>11, <1>12, <1>13
        DEF Next

\* A command that is about to reopen has just written ACTIVE.
LEMMA ReopenMoves ==
  ASSUME UpgradeInv, [Next]_vars, actor'.mode = "execute", actor'.step = "reopen"
  PROVE  \/ WriteActive /\ actor'.target = actor.target
         \/ actor' = actor /\ active' = active
<1>0. actor \in Actors
  BY DEF UpgradeInv, TypeOK
<1>1. CASE Fencing
  BY <1>1, <1>0 DEF Fencing, Quiesce, Moved, journals, Drain, Mark, Enter, FenceRefused, At, Idle,
                    Actors
<1>2. CASE Others
  BY <1>2, <1>0 DEF Others, Backup, journals, Idle, PublishBackup, At, Thaw, StartServices, Write,
                    Actors
<1>3. CASE Migrating
  BY <1>3, <1>0 DEF Migrating, Migrate, Executing, At, Moved, StartMigration, journals,
                    ApplyMigration, MigrationEnds, Migrated, Actors
<1>4. CASE Replacing
  BY <1>4, <1>0 DEF Replacing, Identity, Executing, At, Moved, StartKeycloak, journals, Replace,
                    WriteActive, Actors
<1>5. CASE Reopening
  BY <1>5, <1>0 DEF Reopening, Reopen, Executing, At, Moved, RoleLogin, journals, OpenGate,
                    ClearPending, Idle, Release, StartTarget, Finish, Actors
<1>6. CASE Failures
  <2>1. CASE Fail
    BY <2>1, <1>0 DEF Fail, journals, Executing, At, InExecute, Failing, Actors
  <2>2. CASE CleanupFails
    BY <2>2, <1>0 DEF CleanupFails, Moved, journals, Actors
  <2>3. CASE Die
    BY <2>3, <1>0 DEF Die, journals, Idle, Actors
  <2>4. CASE Record
    BY <2>4, <1>0 DEF Record, Idle, Actors
  <2> QED BY <1>6, <2>1, <2>2, <2>3, <2>4 DEF Failures
<1>7. CASE WritePlan \/ CloseClaimed \/ Supersede
  BY <1>7, <1>0 DEF WritePlan, Executing, At, Moved, CloseClaimed, journals, Supersede, Actors
<1>8. CASE \E t \in Targets :
             \/ Prepare(t) \/ ApplyRefused(t) \/ AbandonStale(t)
             \/ \E p \in Targets : PrepareFix(t, p)
  BY <1>8, <1>0 DEF Prepare, journals, Actors, ApplyRefused, AbandonStale, Abandonable, Idle,
                    PrepareFix
<1>9. CASE \E t \in Targets : Resume(t)
  BY <1>9, <1>0 DEF Resume, Idle, Actors
<1>10. CASE \E t \in Targets : Abandon(t)
  BY <1>10, <1>0 DEF Abandon, journals, Abandonable, Idle, Actors
<1>11. CASE \E t \in Targets : Claim(t)
  BY <1>11, <1>0 DEF Claim, Holding, Idle, Actors
<1>12. CASE \E t \in Targets : ClaimFix(t)
  BY <1>12, <1>0 DEF ClaimFix, Holding, Idle, Actors
<1>13. CASE UNCHANGED vars
  BY <1>13, <1>0 DEF vars, journals, Actors
<1> QED BY <1>1, <1>2, <1>3, <1>4, <1>5, <1>6, <1>7, <1>8, <1>9, <1>10, <1>11, <1>12, <1>13
        DEF Next

-----------------------------------------------------------------------------
(* How the claims and the --apply commands can move in one step.           *)

\* A journal is claimed anew, superseded, or goes on: to its completion, to an abandonment
\* that nothing was done before, or otherwise unfinished as it was.
LEMMA JournalMoves ==
  ASSUME UpgradeInv, OwnershipInv, [Next]_vars, NEW u \in Targets
  PROVE  \/ Claim(u) \/ ClaimFix(u)
         \/ Supersede /\ u = Claimed.predecessor
         \/ /\ journal'[u].backup = journal[u].backup
            /\ journal'[u].run = journal[u].run
            /\ journal'[u].predecessor = journal[u].predecessor
            /\ journal[u].identityStarted => journal'[u].identityStarted
            /\ journal'[u].identityStarted => journal[u].identityStarted \/ Identity
            /\ journal[u].reopened => journal'[u].reopened
            /\ journal'[u].reopened => journal[u].reopened \/ (Reopen /\ u = actor.target)
            /\ \/ journal'[u].status = journal[u].status
               \/ u \in Unfinished /\ journal'[u].status \in {"running", "failed"}
               \/ Finish /\ u = actor.target /\ journal'[u].status = "complete"
               \/ /\ u \in Unfinished /\ journal'[u].status = "abandoned"
                  /\ journal[u].predecessor = NoTarget /\ ~journal[u].identityStarted
<1>0. /\ TypeOK /\ journal \in [Targets -> Records] /\ applying \in [Targets -> Applies]
      /\ actor \in Actors
  BY DEF UpgradeInv, TypeOK
<1>1. CASE UNCHANGED journal
  BY <1>1
<1>2. CASE Migrate
  <2>1. CASE Written([Claimed EXCEPT !.migrationStarted = TRUE])
    <3>1. actor.target \in Targets
      BY <1>0, <1>2 DEF UpgradeInv, ActorInv, Migrate, Executing, At
    <3> QED BY <1>0, <2>1, <3>1, MigrationWritten DEF Written, Claimed, SameClaims
  <2> QED BY <1>1, <1>2, <2>1 DEF Migrate
<1>3. CASE Identity
  <2>1. actor.target \in Targets
    BY <1>0, <1>3 DEF UpgradeInv, ActorInv, Identity, Executing, At
  <2> QED BY <1>0, <1>3, <2>1, IdentityWritten DEF Identity, Written, Claimed, SameClaims
<1>4. CASE Reopen
  <2>1. actor.target \in Targets
    BY <1>0, <1>4 DEF UpgradeInv, ActorInv, Reopen, Executing, At
  <2>2. /\ SameClaims
        /\ \A v \in Targets : /\ journal'[v].status = journal[v].status
                              /\ journal'[v].identityStarted = journal[v].identityStarted
                              /\ journal'[v].reopened <=> v = actor.target \/ journal[v].reopened
    BY <1>0, <1>4, <2>1, ReopenedWritten DEF Reopen, Written, Claimed
  <2> QED BY <1>4, <2>2 DEF SameClaims
<1>5. CASE Finish
  <2>1. actor.target \in Targets
    BY <1>0, <1>5 DEF UpgradeInv, ActorInv, Finish, Executing, At
  <2>2. /\ SameClaims
        /\ \A v \in Targets :
             /\ journal'[v].status = IF v = actor.target THEN "complete" ELSE journal[v].status
             /\ journal'[v].identityStarted = journal[v].identityStarted
             /\ journal'[v].reopened = journal[v].reopened
    BY <1>0, <1>5, <2>1, StatusWritten DEF Finish, Written, Claimed, Statuses
  <2> QED BY <1>5, <2>2 DEF SameClaims
<1>6. CASE Record
  <2>1. /\ actor.target \in Unfinished
        /\ actor.mode \in {"fail", "abandon"}
    BY <1>0, <1>6 DEF UpgradeInv, ActorInv, OwnershipInv, LeaseInv, Record, Actors, Modes
  <2>2. PICK s \in Statuses :
          /\ s = IF actor.mode = "fail" THEN "failed" ELSE "abandoned"
          /\ journal' = [journal EXCEPT ![actor.target] =
                           [journal[actor.target] EXCEPT !.status = s]]
    BY <1>6 DEF Record, Written, Claimed, Statuses
  <2>3. /\ SameClaims
        /\ \A v \in Targets :
             /\ journal'[v].status = IF v = actor.target THEN s ELSE journal[v].status
             /\ journal'[v].identityStarted = journal[v].identityStarted
             /\ journal'[v].reopened = journal[v].reopened
    <3>1. actor.target \in Targets
      BY <2>1 DEF Unfinished
    <3>2. journal' = [journal EXCEPT ![actor.target] =
                        [journal[actor.target] EXCEPT !.status = s]]
      BY <2>2
    <3> QED BY <1>0, <3>1, <3>2, StatusWritten
  <2>4. actor.mode = "abandon" => ~Claimed.identityStarted /\ Claimed.predecessor = NoTarget
    BY DEF OwnershipInv, LeaseInv
  <2> QED BY <2>1, <2>2, <2>3, <2>4 DEF SameClaims, Claimed
<1>7. CASE Supersede
  BY <1>7, SupersedeWrites
<1>8. ASSUME NEW t \in Targets, Claim(t), t # u
      PROVE  journal'[u] = journal[u]
  BY <1>0, <1>8 DEF Claim
<1>9. ASSUME NEW t \in Targets, ClaimFix(t), t # u
      PROVE  journal'[u] = journal[u]
  BY <1>0, <1>9 DEF ClaimFix
<1>10. ASSUME NEW t \in Targets, Resume(t)
       PROVE  /\ SameClaims
              /\ \A v \in Targets :
                   /\ journal'[v].status = IF v = t THEN "running" ELSE journal[v].status
                   /\ journal'[v].identityStarted = journal[v].identityStarted
                   /\ journal'[v].reopened = journal[v].reopened
              /\ t \in Unfinished
  BY <1>0, <1>10, StatusWritten DEF Resume, Statuses
<1>11. ASSUME NEW t \in Targets, AbandonStale(t)
       PROVE  /\ SameClaims
              /\ \A v \in Targets :
                   /\ journal'[v].status = IF v = t THEN "abandoned" ELSE journal[v].status
                   /\ journal'[v].identityStarted = journal[v].identityStarted
                   /\ journal'[v].reopened = journal[v].reopened
              /\ t \in Unfinished
              /\ journal[t].predecessor = NoTarget /\ ~journal[t].identityStarted
  BY <1>0, <1>11, StatusWritten DEF AbandonStale, Abandonable, Statuses
<1>12. CASE \E t \in Targets : Claim(t) \/ ClaimFix(t)
  BY <1>8, <1>9, <1>12
<1>13. CASE \E t \in Targets : Resume(t) \/ AbandonStale(t)
  BY <1>10, <1>11, <1>13 DEF SameClaims
<1>14. CASE \E t \in Targets : \/ Prepare(t) \/ ApplyRefused(t) \/ Abandon(t)
                               \/ \E p \in Targets : PrepareFix(t, p)
  BY <1>1, <1>14 DEF Prepare, ApplyRefused, Abandon, PrepareFix, journals
<1>15. CASE Fencing \/ Others
  BY <1>1, <1>15 DEF Fencing, Others, Quiesce, Drain, Mark, Enter, FenceRefused, Backup,
                     PublishBackup, Thaw, StartServices, Write, journals
<1>16. CASE StartMigration \/ ApplyMigration \/ MigrationEnds \/ Migrated
  BY <1>1, <1>16 DEF StartMigration, ApplyMigration, MigrationEnds, Migrated, journals
<1>17. CASE StartKeycloak \/ Replace \/ WriteActive
  BY <1>1, <1>17 DEF StartKeycloak, Replace, WriteActive, journals
<1>18. CASE RoleLogin \/ OpenGate \/ ClearPending \/ Release \/ StartTarget
  BY <1>1, <1>18 DEF RoleLogin, OpenGate, ClearPending, Release, StartTarget, journals
<1>19. CASE Fail \/ CleanupFails \/ Die \/ WritePlan \/ CloseClaimed
  BY <1>1, <1>19 DEF Fail, CleanupFails, Die, WritePlan, CloseClaimed, journals
<1>20. CASE UNCHANGED vars
  BY <1>1, <1>20 DEF vars, journals
<1> QED BY <1>2, <1>3, <1>4, <1>5, <1>6, <1>7, <1>12, <1>13, <1>14, <1>15, <1>16, <1>17, <1>18,
           <1>19, <1>20
        DEF Next, Migrating, Replacing, Reopening, Failures

\* What an --apply has read changes when it reads again.
LEMMA ApplyMoves ==
  ASSUME UpgradeInv, [Next]_vars, NEW u \in Targets
  PROVE  \/ applying'[u] = applying[u] \/ applying'[u] = NoApply
         \/ Prepare(u) \/ \E p \in Targets : PrepareFix(u, p)
<1>0. applying \in [Targets -> Applies]
  BY DEF UpgradeInv, TypeOK
<1>1. CASE UNCHANGED applying
  BY <1>1
<1>2. CASE Supersede \/ Die
  BY <1>0, <1>2 DEF Supersede, Die
<1>3. ASSUME NEW t \in Targets,
             \/ Prepare(t) \/ ApplyRefused(t) \/ Claim(t) \/ \E p \in Targets : PrepareFix(t, p)
      PROVE  t # u => applying'[u] = applying[u]
  BY <1>0, <1>3 DEF Prepare, ApplyRefused, Claim, PrepareFix
<1>4. ASSUME ApplyRefused(u) \/ Claim(u)
      PROVE  applying'[u] = NoApply
  BY <1>0, <1>4 DEF ApplyRefused, Claim
<1>5. CASE \E t \in Targets : \/ Prepare(t) \/ ApplyRefused(t) \/ Claim(t)
                              \/ \E p \in Targets : PrepareFix(t, p)
  BY <1>3, <1>4, <1>5
<1>6. CASE \E t \in Targets : ClaimFix(t) \/ Resume(t) \/ Abandon(t) \/ AbandonStale(t)
  BY <1>1, <1>6 DEF ClaimFix, Resume, Abandon, AbandonStale
<1>7. CASE Fencing
  BY <1>1, <1>7 DEF Fencing, Quiesce, Drain, Mark, Enter, FenceRefused
<1>8. CASE Others
  BY <1>1, <1>8 DEF Others, Backup, PublishBackup, Thaw, StartServices, Write
<1>9. CASE Migrating
  BY <1>1, <1>9 DEF Migrating, Migrate, StartMigration, ApplyMigration, MigrationEnds, Migrated
<1>10. CASE Replacing
  BY <1>1, <1>10 DEF Replacing, Identity, StartKeycloak, Replace, WriteActive
<1>11. CASE Reopening
  BY <1>1, <1>11 DEF Reopening, Reopen, RoleLogin, OpenGate, ClearPending, Release, StartTarget,
                     Finish
<1>12. CASE Fail \/ CleanupFails \/ Record \/ WritePlan \/ CloseClaimed \/ UNCHANGED vars
  BY <1>1, <1>12 DEF Fail, CleanupFails, Record, WritePlan, CloseClaimed, vars
<1> QED BY <1>2, <1>5, <1>6, <1>7, <1>8, <1>9, <1>10, <1>11, <1>12 DEF Next, Failures

-----------------------------------------------------------------------------
(* The pair of a claim that no other one overlaps is the recovery point.   *)

(* Nothing was written since b, and nothing that writes runs. *)
Good(b) == b \notin stale /\ "application" \notin running

(* Another upgrade shows that b is not its claim's alone: it goes on from an earlier claim, it
   has reopened, or it ended on b or on a later pair. *)
Witness(b) ==
    \E u \in Targets :
        \/ u \in Unfinished /\ (journal[u].predecessor # NoTarget \/ journal[u].reopened)
        \/ /\ ~applying[u].begun
           /\ \/ journal[u].status = "superseded"
              \/ journal[u].status = "complete" /\ journal[u].backup >= b

Safe(b) == Good(b) \/ Witness(b)

(* An unfinished upgrade from its own pair that has not reopened. *)
OwnPair(t) == t \in Unfinished /\ journal[t].predecessor = NoTarget /\ ~journal[t].reopened

(* The pair that a complete fence names, and that of whoever holds the identity fence or the
   lease, is safe; an identity fence comes with a closed gate. *)
FenceInv ==
    /\ Continuous => pending.backup \in Backups /\ Safe(pending.backup)
    /\ \A t \in Targets : OwnPair(t) /\ maintenance = t => Closed \/ Witness(journal[t].backup)
    /\ \A t \in Targets :
         OwnPair(t) /\ (maintenance = t \/ actor.target = t) => Safe(journal[t].backup)
    /\ \A b \in stale : pairs[b].taken
    /\ actor.step = "publish" => running = {}

\* A witness stays one until an upgrade ends.
LEMMA WitnessKept ==
  ASSUME UpgradeInv, OwnershipInv, [Next]_vars, ~Finish
  PROVE  \A b \in Backups : Witness(b) => Witness(b)'
<1> SUFFICES ASSUME NEW b \in Backups, Witness(b)
             PROVE  Witness(b)'
  OBVIOUS
<1>1. PICK u \in Targets :
        \/ u \in Unfinished /\ (journal[u].predecessor # NoTarget \/ journal[u].reopened)
        \/ /\ ~applying[u].begun
           /\ \/ journal[u].status = "superseded"
              \/ journal[u].status = "complete" /\ journal[u].backup >= b
  BY DEF Witness
<1>2. ~Claim(u) /\ ~ClaimFix(u)
  <2>1. ASSUME Claim(u) \/ ClaimFix(u) PROVE applying[u].begun /\ actor.target = NoTarget
    <3>1. CASE Claim(u)
      BY <3>1 DEF Claim, Idle
    <3>2. CASE ClaimFix(u)
      BY <3>2 DEF ClaimFix, Idle
    <3> QED BY <2>1, <3>1, <3>2
  <2>2. u # NoTarget
    BY TargetsAssumption DEF NoTarget
  <2> QED BY <1>1, <2>1, <2>2 DEF OwnershipInv, LeaseInv
<1>3. CASE Supersede /\ u = Claimed.predecessor
  <2>1. journal'[u].status = "superseded" /\ u # actor.target
    BY <1>3, SupersedeWrites
  <2>2. ~applying[u].begun
    BY <1>1, <2>1 DEF OwnershipInv, LeaseInv
  <2>3. ~applying'[u].begun
    BY <1>3, <2>2, ApplyMoves DEF NoApply, Supersede, Prepare, PrepareFix
  <2> QED BY <2>1, <2>3 DEF Witness
<1>4. CASE u \in Unfinished /\ ~(Supersede /\ u = Claimed.predecessor)
  <2>1. ~(journal[u].predecessor = NoTarget /\ ~journal[u].identityStarted)
    BY <1>1, <1>4 DEF OwnershipInv, ClaimsInv, Unfinished
  <2>2. /\ journal'[u].predecessor = journal[u].predecessor
        /\ journal[u].reopened => journal'[u].reopened
        /\ journal'[u].status = journal[u].status \/ journal'[u].status \in {"running", "failed"}
    BY <1>2, <1>4, <2>1, JournalMoves
  <2>3. journal[u].predecessor # NoTarget \/ journal[u].reopened
    BY <1>1, <1>4 DEF Unfinished
  <2> QED BY <1>4, <2>2, <2>3 DEF Witness, Unfinished
<1>5. CASE u \notin Unfinished /\ ~(Supersede /\ u = Claimed.predecessor)
  <2>1. /\ journal'[u].backup = journal[u].backup
        /\ journal'[u].status = journal[u].status
    BY <1>2, <1>5, JournalMoves
  <2>2. ~Prepare(u) /\ ~\E p \in Targets : PrepareFix(u, p)
    BY <1>1, <1>5 DEF Prepare, PrepareFix, Fresh
  <2>3. ~applying'[u].begun
    BY <1>1, <1>5, <2>2, ApplyMoves DEF NoApply
  <2> QED BY <1>1, <1>5, <2>1, <2>3 DEF Witness
<1> QED BY <1>3, <1>4, <1>5

\* A safe pair stays safe until an upgrade ends, or the owner starts the application.
LEMMA SafeKept ==
  ASSUME UpgradeInv, OwnershipInv, [Next]_vars, ~Finish, ~StartServices
  PROVE  \A b \in Backups : Safe(b) => Safe(b)'
<1> SUFFICES ASSUME NEW b \in Backups, Safe(b)
             PROVE  Safe(b)'
  OBVIOUS
<1>1. CASE Witness(b)
  BY <1>1, WitnessKept DEF Safe
<1>2. CASE Good(b) /\ StartTarget
  <2>1. actor.target \in Unfinished /\ journal[actor.target].reopened
    BY <1>2 DEF StartTarget, Executing, At, OwnershipInv, LeaseInv, PassedInv, Claimed
  <2>2. Witness(b)
    BY <2>1 DEF Witness, Unfinished
  <2> QED BY <2>2, WitnessKept DEF Safe
<1>3. CASE Good(b) /\ ~StartTarget
  <2>1. "application" \notin running'
    BY <1>3, RunningMoves DEF Good
  <2>2. stale' = stale
    BY <1>3, StaleMoves DEF Good
  <2> QED BY <1>3, <2>1, <2>2 DEF Safe, Good
<1> QED BY <1>1, <1>2, <1>3 DEF Safe

\* An upgrade from its own pair that has not reopened was one before, unless it is claimed now.
LEMMA OwnPairBefore ==
  ASSUME UpgradeInv, OwnershipInv, [Next]_vars, NEW t \in Targets, OwnPair(t)'
  PROVE  \/ Claim(t)
         \/ OwnPair(t) /\ journal'[t].backup = journal[t].backup /\ journal[t].run = t
<1>1. journal \in [Targets -> Records] /\ applying \in [Targets -> Applies]
  BY DEF UpgradeInv, TypeOK
<1>2. ASSUME ClaimFix(t) PROVE FALSE
  <2>1. journal'[t].predecessor = applying[t].predecessor
    BY <1>1, <1>2 DEF ClaimFix, NoJournal
  <2> QED BY <1>2, <2>1 DEF OwnPair, ClaimFix
<1>3. ASSUME Supersede, t = Claimed.predecessor PROVE FALSE
  BY <1>3, SupersedeWrites DEF OwnPair, Unfinished
<1>4. CASE ~Claim(t)
  <2>1. OwnPair(t) /\ journal'[t].backup = journal[t].backup
    BY <1>2, <1>3, <1>4, JournalMoves DEF OwnPair, Unfinished
  <2> QED BY <2>1 DEF OwnershipInv, ClaimsInv, OwnPair
<1> QED BY <1>4

\* Who holds the lease is another upgrade's witness, or acts on its own pair.
LEMMA HolderWitnesses ==
  ASSUME UpgradeInv, OwnershipInv, actor.mode \in {"execute", "fail", "abandon"}
  PROVE  \/ OwnPair(actor.target) /\ Claimed.run = actor.target
         \/ \A b \in Backups : Witness(b)
<1>1. actor.target \in Unfinished
  BY DEF OwnershipInv, LeaseInv
<1>2. CASE journal[actor.target].predecessor = NoTarget /\ ~journal[actor.target].reopened
  BY <1>1, <1>2 DEF OwnPair, OwnershipInv, ClaimsInv, Claimed, Unfinished
<1>3. CASE ~(journal[actor.target].predecessor = NoTarget /\ ~journal[actor.target].reopened)
  BY <1>1, <1>3 DEF Witness, Unfinished
<1> QED BY <1>2, <1>3

\* The steps of the fence are those of a command that holds the lease for a target.
LEMMA HolderSteps ==
  ASSUME UpgradeInv, Mark \/ Enter \/ CloseClaimed
  PROVE  actor.mode \in {"execute", "fail", "abandon"} /\ actor.target \in Targets
<1>1. actor \in Actors
  BY DEF UpgradeInv, TypeOK
<1>2. actor.step \in {"mark", "enter", "claim"}
  BY DEF Mark, Enter, CloseClaimed, Executing, At
<1> QED BY <1>1, <1>2 DEF UpgradeInv, ActorInv, Actors, Modes

\* A claim's pair is one of the pairs that were taken.
LEMMA ClaimedPair ==
  ASSUME UpgradeInv, NEW t \in Targets, journal[t].status # "none"
  PROVE  journal[t].backup \in Backups /\ pairs[journal[t].backup].taken
  BY DEF UpgradeInv, JournalInv, Sound

\* A complete fence names a pair.
LEMMA PendingPair ==
  ASSUME UpgradeInv, [Next]_vars, Mark \/ CloseClaimed \/ PublishBackup
  PROVE  pending'.backup \in Backups
<1>1. CASE Mark \/ CloseClaimed
  <2>1. actor.target \in Targets /\ Claimed.status # "none"
    BY <1>1, HolderSteps DEF UpgradeInv, ActorInv
  <2>2. pending'.backup = journal[actor.target].backup
    BY <1>1 DEF Mark, CloseClaimed, Claimed
  <2> QED BY <2>1, <2>2, ClaimedPair DEF Claimed
<1>2. CASE PublishBackup
  BY <1>2 DEF PublishBackup
<1> QED BY <1>1, <1>2

\* The pair that a complete fence names stays safe.
LEMMA PendingKept ==
  ASSUME UpgradeInv, OwnershipInv, FenceInv, [Next]_vars, Continuous'
  PROVE  pending'.backup \in Backups /\ Safe(pending.backup)'
<1>1. ~Finish
  BY DEF OwnershipInv, PassedInv, Finish, Executing, At, fence, Continuous, Closed, GateOpen
<1>2. ~StartServices
  BY DEF StartServices, fence, Continuous, Closed, GateOpen
<1>3. CASE UNCHANGED <<gate, pending>>
  <2>1. Continuous /\ pending.backup \in Backups
    BY <1>3 DEF Continuous, Closed, FenceInv
  <2>2. Safe(pending.backup)
    BY <2>1 DEF FenceInv
  <2> QED BY <1>1, <1>2, <1>3, <2>1, <2>2, SafeKept DEF Safe, Good, Witness
<1>4. CASE Mark \/ CloseClaimed
  <2>1. /\ actor.mode \in {"execute", "fail", "abandon"} /\ actor.target \in Targets
        /\ Claimed.status # "none"
    BY <1>4, HolderSteps DEF UpgradeInv, ActorInv
  <2>2. pending'.backup = journal[actor.target].backup
    BY <1>4 DEF Mark, CloseClaimed, Claimed
  <2>3. journal[actor.target].backup \in Backups
    BY <2>1, ClaimedPair DEF Claimed
  <2>4. Safe(journal[actor.target].backup)
    BY <2>1, <2>3, HolderWitnesses DEF FenceInv, Safe
  <2> QED BY <1>1, <1>2, <2>2, <2>3, <2>4, SafeKept DEF Safe, Good, Witness
<1>5. CASE PublishBackup
  <2>1. PICK b \in Backups : ~pairs[b].taken /\ pending' = [phase |-> Fenced, backup |-> b]
    BY <1>5 DEF PublishBackup
  <2>2. running' = {} /\ stale' = stale
    BY <1>5 DEF PublishBackup, At, FenceInv, runtime
  <2> QED BY <2>1, <2>2 DEF FenceInv, Safe, Good
<1> QED BY <1>3, <1>4, <1>5, ContinuousMoves

\* An identity fence of a claim on its own pair comes with a closed gate, or with a witness.
LEMMA HeldKept ==
  ASSUME UpgradeInv, OwnershipInv, FenceInv, [Next]_vars,
         NEW t \in Targets, OwnPair(t)', maintenance' = t
  PROVE  Closed' \/ Witness(journal[t].backup)'
<1>0. t # 0 /\ actor \in Actors
  BY TargetsAssumption DEF UpgradeInv, TypeOK
<1>1. ~Claim(t)
  BY <1>0 DEF Claim, FencedBy, fence
<1>2. OwnPair(t) /\ journal'[t].backup = journal[t].backup /\ journal[t].run = t
  BY <1>1, OwnPairBefore
<1>3. journal[t].backup \in Backups
  BY <1>2, ClaimedPair DEF OwnPair, Unfinished
<1>4. ~Finish
  BY <1>0 DEF OwnershipInv, PassedInv, Finish, Executing, At, fence
<1>5. CASE Witness(journal[t].backup)
  BY <1>2, <1>3, <1>4, <1>5, WitnessKept DEF Witness
<1>6. CASE Enter /\ ~Witness(journal[t].backup)
  <2>1. Closed
    BY <1>6 DEF Enter, UpgradeInv, ActorInv, OwnershipInv, PassedInv, GateOpen, Closed
  <2> QED BY <1>6, <2>1 DEF Enter, Closed
<1>7. CASE ~Enter /\ ~Witness(journal[t].backup)
  <2>1. maintenance = t
    BY <1>0, <1>7, MaintenanceMoves
  <2>2. Closed
    BY <1>2, <1>7, <2>1 DEF FenceInv
  <2>3. CASE OpenGate
    <3>1. actor.mode = "execute"
      BY <1>0, <2>1, <2>3 DEF OpenGate, UpgradeInv, ActorInv, Actors, Modes
    <3>2. actor.target \in Unfinished /\ journal[actor.target].reopened
      BY <2>3, <3>1 DEF OpenGate, OwnershipInv, LeaseInv, PassedInv, Claimed
    <3> QED BY <1>7, <3>2 DEF Witness, Unfinished
  <2> QED BY <2>2, <2>3, GateMoves DEF Closed
<1> QED BY <1>5, <1>6, <1>7

\* The pair of whoever holds the identity fence or the lease stays safe.
LEMMA ClaimKept ==
  ASSUME UpgradeInv, OwnershipInv, FenceInv, [Next]_vars,
         NEW t \in Targets, OwnPair(t)', maintenance' = t \/ actor'.target = t
  PROVE  Safe(journal[t].backup)'
<1>0. t # 0 /\ actor \in Actors /\ journal \in [Targets -> Records]
  BY TargetsAssumption DEF UpgradeInv, TypeOK
<1>1. ~Finish
  BY <1>0 DEF OwnershipInv, PassedInv, Finish, Executing, At, fence, Idle, NoTarget
<1>2. CASE Claim(t)
  <2>1. PICK b \in Backups :
          /\ FencedBy(t, b)
          /\ journal' = [journal EXCEPT ![t] = [NoJournal EXCEPT
                           !.status = "running", !.backup = b, !.run = t]]
    BY <1>2 DEF Claim
  <2>2. journal'[t].backup = b
    BY <1>0, <2>1 DEF NoJournal
  <2>3. Continuous /\ pending.backup = b /\ ~StartServices
    BY <2>1 DEF FencedBy, Continuous, Closed, StartServices, GateOpen
  <2>4. Safe(b)
    BY <2>3 DEF FenceInv
  <2> QED BY <1>1, <2>2, <2>3, <2>4, SafeKept DEF Safe, Good, Witness
<1>3. CASE ~Claim(t)
  <2>1. OwnPair(t) /\ journal'[t].backup = journal[t].backup /\ journal[t].run = t
    BY <1>3, OwnPairBefore
  <2>2. journal[t].backup \in Backups
    BY <2>1, ClaimedPair DEF OwnPair, Unfinished
  <2>3. CASE maintenance = t \/ actor.target = t
    <3>1. Safe(journal[t].backup)
      BY <2>1, <2>3 DEF FenceInv
    <3>2. CASE ~StartServices
      BY <1>1, <2>1, <2>2, <3>1, <3>2, SafeKept DEF Safe, Good, Witness
    <3>3. CASE StartServices
      <4>1. maintenance = t /\ ~Closed
        BY <1>0, <2>3, <3>3 DEF StartServices, Idle, NoTarget, GateOpen, Closed
      <4>2. Witness(journal[t].backup)
        BY <2>1, <4>1 DEF FenceInv
      <4> QED BY <1>1, <2>1, <2>2, <4>2, WitnessKept DEF Safe, Witness
    <3> QED BY <3>2, <3>3
  <2>4. CASE maintenance # t /\ actor.target # t /\ maintenance' = t
    <3>1. Enter /\ Claimed.run = t
      BY <1>0, <2>4, MaintenanceMoves DEF Enter
    <3>2. Witness(journal[t].backup)
      BY <2>2, <2>4, <3>1, HolderSteps, HolderWitnesses
    <3> QED BY <1>1, <2>1, <2>2, <3>2, WitnessKept DEF Safe, Witness
  <2>5. CASE maintenance # t /\ actor.target # t /\ actor'.target = t
    <3>1. Resume(t) \/ Abandon(t)
      <4>1. ~ClaimFix(t)
        BY <1>0, <2>1 DEF ClaimFix, OwnPair, OwnershipInv, LeaseInv, Idle, NoTarget
      <4> QED BY <1>0, <1>3, <2>5, <4>1, LeaseMoves DEF NoTarget
    <3>2. FenceContinuous(journal[t])
      BY <2>1, <3>1 DEF Resume, Abandon, OwnPair
    <3>3. Continuous /\ pending.backup = journal[t].backup
      BY <2>1, <2>5, <3>2 DEF FenceContinuous, Continuous, Closed
    <3>4. Safe(journal[t].backup) /\ ~StartServices
      BY <3>3 DEF FenceInv, StartServices, Continuous, Closed, GateOpen
    <3> QED BY <1>1, <2>1, <2>2, <3>4, SafeKept DEF Safe, Good, Witness
  <2> QED BY <2>3, <2>4, <2>5
<1> QED BY <1>2, <1>3

\* A backup publishes once everything that writes was stopped.
LEMMA PublishMoves ==
  ASSUME UpgradeInv, [Next]_vars, actor'.step = "publish"
  PROVE  running' = {} \/ (actor.step = "publish" /\ running' = running)
<1>0. /\ actor \in Actors
      /\ actor.step = "publish" => actor.mode = "backup"
  BY DEF UpgradeInv, TypeOK, ActorInv, Actors, Modes
<1>1. CASE Fencing
  BY <1>1, <1>0 DEF Fencing, Quiesce, Moved, runtime, Drain, Mark, Enter, FenceRefused, At, Idle,
                    Actors
<1>2. CASE Others
  BY <1>2, <1>0 DEF Others, Backup, runtime, Idle, PublishBackup, At, Thaw, StartServices, Write,
                    Actors
<1>3. CASE Migrating
  BY <1>3, <1>0 DEF Migrating, Migrate, Executing, At, Moved, runtime, StartMigration,
                    ApplyMigration, MigrationEnds, Migrated, Actors
<1>4. CASE Replacing
  BY <1>4, <1>0 DEF Replacing, Identity, Executing, At, Moved, runtime, StartKeycloak, Replace,
                    WriteActive, Actors
<1>5. CASE Reopening
  BY <1>5, <1>0 DEF Reopening, Reopen, Executing, At, Moved, runtime, RoleLogin, OpenGate,
                    ClearPending, Idle, Release, StartTarget, Finish, Actors
<1>6. CASE Failures
  <2>1. CASE Fail
    BY <2>1, <1>0 DEF Fail, Failing, Actors
  <2>2. CASE CleanupFails
    BY <2>2, <1>0 DEF CleanupFails, Moved, Actors
  <2>3. CASE Die \/ Record
    BY <2>3 DEF Die, Record, Idle
  <2> QED BY <1>6, <2>1, <2>2, <2>3 DEF Failures
<1>7. CASE WritePlan \/ CloseClaimed \/ Supersede
  BY <1>7, <1>0 DEF WritePlan, Executing, At, Moved, runtime, CloseClaimed, Supersede, Actors
<1>8. CASE \E t \in Targets :
             \/ Prepare(t) \/ ApplyRefused(t) \/ AbandonStale(t)
             \/ \E p \in Targets : PrepareFix(t, p)
  BY <1>8 DEF Prepare, ApplyRefused, AbandonStale, PrepareFix, runtime
<1>9. CASE \E t \in Targets : Resume(t) \/ Abandon(t)
  BY <1>9 DEF Resume, Abandon
<1>10. CASE \E t \in Targets : Claim(t)
  BY <1>10 DEF Claim, Holding
<1>11. CASE \E t \in Targets : ClaimFix(t)
  BY <1>11 DEF ClaimFix, Holding
<1>12. CASE UNCHANGED vars
  BY <1>12 DEF vars, runtime
<1> QED BY <1>1, <1>2, <1>3, <1>4, <1>5, <1>6, <1>7, <1>8, <1>9, <1>10, <1>11, <1>12 DEF Next

\* A pair is stale once it was taken.
LEMMA StaleKept ==
  ASSUME UpgradeInv, FenceInv, [Next]_vars
  PROVE  \A b \in stale' : pairs'[b].taken
<1>0. /\ stale \subseteq Backups
      /\ pairs \in [Backups -> [taken : BOOLEAN, schema : Nat, active : Revisions]]
  BY DEF UpgradeInv, TypeOK
<1>1. CASE UNCHANGED pairs
  BY <1>0, <1>1, StaleMoves DEF FenceInv
<1>2. CASE PublishBackup
  <2>1. stale' = stale
    BY <1>2 DEF PublishBackup
  <2>2. \A b \in Backups : pairs[b].taken => pairs'[b].taken
    BY <1>0, <1>2 DEF PublishBackup
  <2> QED BY <1>0, <2>1, <2>2 DEF FenceInv
<1> QED BY <1>1, <1>2, PairsMoves

\* The pairs of the claims that no other one overlaps stay safe.
LEMMA FenceKept ==
  ASSUME UpgradeInv, OwnershipInv, FenceInv, [Next]_vars
  PROVE  FenceInv'
<1>1. (Continuous => pending.backup \in Backups /\ Safe(pending.backup))'
  BY PendingKept
<1>2. (\A t \in Targets : OwnPair(t) /\ maintenance = t => Closed \/ Witness(journal[t].backup))'
  BY HeldKept
<1>3. (\A t \in Targets :
         OwnPair(t) /\ (maintenance = t \/ actor.target = t) => Safe(journal[t].backup))'
  BY ClaimKept
<1>4. (\A b \in stale : pairs[b].taken)'
  BY StaleKept
<1>5. (actor.step = "publish" => running = {})'
  BY PublishMoves DEF FenceInv
<1> QED BY <1>1, <1>2, <1>3, <1>4, <1>5 DEF FenceInv

\* At first the gate is open and nothing is claimed.
LEMMA FenceInit == Init => FenceInv
  BY DEF Init, FenceInv, Continuous, Closed, OwnPair, Unfinished, NoJournal, Idle

\* The fence protects the pairs: whoever may go on from one, alone, goes on from the last write.
THEOREM FenceInvariant == Spec => []FenceInv
<1>1. UpgradeInv /\ OwnershipInv /\ FenceInv /\ [Next]_vars => FenceInv'
  BY FenceKept
<1> QED BY <1>1, FenceInit, UpgradeInvariant, OwnershipInvariant, PTL DEF Spec

\* While an upgrade that no other overlaps acts on the databases or the containers and has not
\* reopened, the product has written nothing after its pair: `--resume` and the restore that
\* may follow lose nothing.
THEOREM PairStaysRecoveryPoint == Spec => []PairIsRecoveryPoint
<1>1. UpgradeInv /\ FenceInv /\ OwnershipInv => PairIsRecoveryPoint
  <2> SUFFICES ASSUME UpgradeInv, FenceInv, OwnershipInv, NEW t \in Targets,
                      actor.mode = "execute", actor.target = t,
                      journal[t].predecessor = NoTarget, Alone(t), ~journal[t].reopened
               PROVE  journal[t].backup \notin stale
    BY DEF PairIsRecoveryPoint
  <2>1. t \in Unfinished /\ OwnPair(t)
    BY DEF OwnershipInv, LeaseInv, OwnPair
  <2>2. ~Witness(journal[t].backup)
    <3> SUFFICES ASSUME Witness(journal[t].backup) PROVE FALSE
      OBVIOUS
    <3>1. PICK u \in Targets :
            \/ u \in Unfinished /\ (journal[u].predecessor # NoTarget \/ journal[u].reopened)
            \/ journal[u].status = "superseded"
            \/ journal[u].status = "complete" /\ journal[u].backup >= journal[t].backup
      BY DEF Witness
    <3>2. u # t
      BY <2>1, <3>1 DEF Unfinished
    <3>3. CASE u \in Unfinished \/ journal[u].status = "superseded"
      BY <3>2, <3>3 DEF Alone, Unfinished
    <3>4. CASE journal[u].status = "complete" /\ journal[u].backup >= journal[t].backup
      <4>1. journal[u].backup < journal[t].backup
        BY <3>2, <3>4 DEF Alone
      <4>2. journal[u].backup \in Nat /\ journal[t].backup \in Nat
        BY BoundsAssumption DEF UpgradeInv, TypeOK, Records
      <4> QED BY <3>4, <4>1, <4>2
    <3> QED BY <3>1, <3>3, <3>4
  <2> QED BY <2>1, <2>2 DEF FenceInv, Safe, Good
<1> QED BY <1>1, UpgradeInvariant, FenceInvariant, OwnershipInvariant, PTL

-----------------------------------------------------------------------------
(* The order of the upgrades while no forward fix was claimed.             *)

(* A forward fix that goes on or is complete. *)
Fixing ==
    \E u \in Targets : /\ journal[u].predecessor # NoTarget
                       /\ journal[u].status \in {"running", "failed", "complete"}

(* Once a forward fix was claimed, one of them stands; what is prepared is not complete. *)
FixInv ==
    /\ FixClaimed => Fixing
    /\ \A t \in Targets : journal[t].status = "superseded" => Fixing
    /\ \A t \in Targets : applying[t].begun /\ actor.target # t =>
         journal[t].status \in {"none", "abandoned", "superseded"}

(* Pairs are taken in order, the fence names one of them, and who reopens is active. *)
TakenInv ==
    /\ \A b, c \in Backups : pairs[b].taken /\ c < b => pairs[c].taken
    /\ Continuous => pairs[pending.backup].taken
    /\ Executing("reopen") => active = actor.target

(* No upgrade on a pair before b goes on, and the fence is not of such a pair: none can be
   resumed, for it has not reopened and its fence is gone. *)
Order(b) ==
    /\ \A u \in Unfinished : journal[u].backup < b =>
         ~journal[u].reopened /\ actor.target # u /\ maintenance # u
    /\ Continuous => pending.backup >= b

SomeReopened == \E u \in Unfinished : journal[u].reopened

(* An upgrade on b or on a later pair has acted on the identity service or has ended. *)
LaterWrote(b, t) ==
    \E u \in Targets \ {t} :
        /\ journal[u].backup >= b
        /\ (u \in Unfinished /\ journal[u].identityStarted) \/ journal[u].status = "complete"

ActiveStands ==
    active = 0 \/ journal[active].status = "complete"
    \/ (active \in Unfinished /\ journal[active].identityStarted)

PairsOrdered == \A b \in Backups : pairs[b].taken => SomeReopened \/ Order(b)

(* An --apply whose active revision still is the active one finds no claim on an earlier pair. *)
ApplyOrdered(t) ==
    /\ applying[t].active < t
    /\ applying[t].active = 0 \/ journal[applying[t].active].status = "complete"
    /\ active = applying[t].active => ~SomeReopened
    /\ \A b \in Backups : pairs[b].taken /\ pairs[b].active = applying[t].active =>
         (active = applying[t].active /\ Order(b)) \/ LaterWrote(b, t)

ClaimOrdered(t) ==
    (active <= t /\ Order(journal[t].backup)) \/ LaterWrote(journal[t].backup, t)

(* The revisions go forward with the pairs: an unfinished upgrade is at least the active one
   and none on an earlier pair goes on, or a later one has acted and it is not alone any more. *)
OrderInv ==
    ~FixClaimed =>
        /\ ActiveStands
        /\ PairsOrdered
        /\ \A t \in Targets :
             applying[t].begun /\ applying[t].predecessor = NoTarget => ApplyOrdered(t)
        /\ \A t \in Unfinished : ClaimOrdered(t)

\* A forward fix stands once one was claimed.
LEMMA FixingKept ==
  ASSUME UpgradeInv, OwnershipInv, FixInv, [Next]_vars,
         Fixing \/ Supersede \/ \E t \in Targets : ClaimFix(t)
  PROVE  Fixing'
<1>0. journal \in [Targets -> Records] /\ 0 \notin Targets
  BY TargetsAssumption DEF UpgradeInv, TypeOK
<1>1. ASSUME Supersede PROVE Fixing'
  <2>1. /\ Claimed.predecessor \in Targets \ {actor.target}
        /\ \A u \in Targets \ {Claimed.predecessor} : journal'[u] = journal[u]
    BY <1>1, SupersedeWrites
  <2>2. actor.target \in Unfinished
    BY <1>1 DEF Supersede, Executing, At, OwnershipInv, LeaseInv
  <2> QED BY <1>0, <2>1, <2>2 DEF Fixing, Unfinished, Claimed, NoTarget
<1>2. ASSUME NEW t \in Targets, ClaimFix(t) PROVE Fixing'
  <2>1. /\ journal'[t].status = "running"
        /\ journal'[t].predecessor = applying[t].predecessor
        /\ applying[t].predecessor # NoTarget
    BY <1>0, <1>2 DEF ClaimFix, NoJournal
  <2> QED BY <2>1 DEF Fixing
<1>3. ASSUME Fixing, ~Supersede, ~\E t \in Targets : ClaimFix(t) PROVE Fixing'
  <2>1. PICK u \in Targets : /\ journal[u].predecessor # NoTarget
                             /\ journal[u].status \in {"running", "failed", "complete"}
    BY <1>3 DEF Fixing
  <2>2. ~Claim(u)
    <3> SUFFICES ASSUME Claim(u) PROVE FALSE
      OBVIOUS
    <3>1. applying[u].begun /\ actor.target = NoTarget
      BY DEF Claim, Idle
    <3> QED BY <1>0, <2>1, <3>1 DEF FixInv, NoTarget
  <2>3. /\ journal'[u].predecessor = journal[u].predecessor
        /\ journal'[u].status \in {"running", "failed", "complete"}
    BY <1>3, <2>1, <2>2, JournalMoves
  <2> QED BY <2>1, <2>3 DEF Fixing
<1> QED BY <1>1, <1>2, <1>3

\* What is prepared is not complete, and a forward fix that was claimed stands.
LEMMA FixKept ==
  ASSUME UpgradeInv, OwnershipInv, FixInv, [Next]_vars
  PROVE  FixInv'
<1>0. /\ journal \in [Targets -> Records] /\ applying \in [Targets -> Applies]
      /\ actor \in Actors /\ 0 \notin Targets
  BY TargetsAssumption DEF UpgradeInv, TypeOK
<1>1. ASSUME ~Fixing' PROVE ~Fixing /\ ~Supersede /\ ~\E t \in Targets : ClaimFix(t)
  BY <1>1, FixingKept
<1>2. ASSUME NEW u \in Targets, Claim(u)
      PROVE  journal'[u].predecessor = NoTarget /\ journal'[u].status = "running"
  BY <1>0, <1>2 DEF Claim, NoJournal
<1>3. ASSUME FixClaimed' PROVE Fixing'
  <2> SUFFICES ASSUME ~Fixing' PROVE FALSE
    OBVIOUS
  <2>1. PICK u \in Targets : journal'[u].predecessor # NoTarget
    BY <1>3 DEF FixClaimed
  <2>2. journal[u].predecessor = NoTarget
    BY <1>1 DEF FixInv, FixClaimed
  <2> QED BY <1>1, <1>2, <2>1, <2>2, JournalMoves
<1>4. ASSUME NEW u \in Targets, journal'[u].status = "superseded" PROVE Fixing'
  <2> SUFFICES ASSUME ~Fixing' PROVE FALSE
    OBVIOUS
  <2>1. journal[u].status # "superseded"
    BY <1>1 DEF FixInv
  <2> QED BY <1>1, <1>2, <1>4, <2>1, JournalMoves
<1>5. ASSUME NEW t \in Targets, applying'[t].begun, actor'.target # t
      PROVE  journal'[t].status \in {"none", "abandoned", "superseded"}
  <2>1. CASE Prepare(t) \/ \E p \in Targets : PrepareFix(t, p)
    BY <2>1 DEF Prepare, PrepareFix, Fresh, journals
  <2>2. CASE ~Prepare(t) /\ ~\E p \in Targets : PrepareFix(t, p)
    <3>1. applying[t].begun /\ applying'[t] = applying[t]
      BY <1>5, <2>2, ApplyMoves DEF NoApply
    <3>2. ~Claim(t) /\ ~ClaimFix(t)
      <4>1. ASSUME Claim(t) PROVE FALSE
        BY <1>0, <1>5, <4>1 DEF Claim, NoApply
      <4>2. ASSUME ClaimFix(t) PROVE FALSE
        BY <1>5, <4>2 DEF ClaimFix, Holding
      <4> QED BY <4>1, <4>2
    <3>3. CASE actor.target # t
      <4>1. journal[t].status \in {"none", "abandoned", "superseded"}
        BY <3>1, <3>3 DEF FixInv
      <4>2. CASE Supersede /\ t = Claimed.predecessor
        BY <4>2, SupersedeWrites
      <4>3. CASE ~(Supersede /\ t = Claimed.predecessor)
        BY <3>2, <3>3, <4>1, <4>3, JournalMoves DEF Unfinished
      <4> QED BY <4>2, <4>3
    <3>4. CASE actor.target = t
      <4>1. /\ actor.mode = "execute" /\ actor.step \in {"plan", "supersede"}
            /\ t \in Unfinished /\ journal[t].predecessor # NoTarget
        BY <3>1, <3>4 DEF OwnershipInv, LeaseInv
      <4>2. ~(Supersede /\ t = Claimed.predecessor)
        BY <3>4, SupersedeWrites
      <4>3. ~Finish
        BY <4>1 DEF Finish, Executing, At
      <4>4. t \in Unfinished'
        BY <3>2, <4>1, <4>2, <4>3, JournalMoves DEF Unfinished
      <4>5. t \notin Unfinished'
        BY <1>5, LeaseKept DEF LeaseInv
      <4> QED BY <4>4, <4>5
    <3> QED BY <3>3, <3>4
  <2> QED BY <2>1, <2>2
<1> QED BY <1>3, <1>4, <1>5 DEF FixInv

\* Pairs are taken in order, and stay.
LEMMA TakenKept ==
  ASSUME UpgradeInv, OwnershipInv, TakenInv, [Next]_vars
  PROVE  TakenInv'
<1>0. /\ pairs \in [Backups -> [taken : BOOLEAN, schema : Nat, active : Revisions]]
      /\ actor \in Actors /\ Backups \subseteq Nat
  BY DEF UpgradeInv, TypeOK, Backups
<1>1. ASSUME PublishBackup
      PROVE  \E b \in Backups :
               /\ ~pairs[b].taken /\ \A c \in Backups : c < b => pairs[c].taken
               /\ pending'.backup = b /\ pairs'[b].taken
               /\ \A c \in Backups \ {b} : pairs'[c] = pairs[c]
  <2>1. PICK b \in Backups :
          /\ ~pairs[b].taken /\ \A c \in Backups : c < b => pairs[c].taken
          /\ pairs' = [pairs EXCEPT
                         ![b] = [taken |-> TRUE, schema |-> schema, active |-> active]]
          /\ pending' = [phase |-> Fenced, backup |-> b]
    BY <1>1 DEF PublishBackup
  <2>2. pairs'[b] = [taken |-> TRUE, schema |-> schema, active |-> active]
    BY <1>0, <2>1
  <2> QED BY <1>0, <2>1, <2>2
<1>2. \A b \in Backups : pairs[b].taken => pairs'[b].taken
  BY <1>0, <1>1, PairsMoves
<1>3. \A b, c \in Backups : pairs'[b].taken /\ c < b => pairs'[c].taken
  <2>1. CASE UNCHANGED pairs
    BY <2>1 DEF TakenInv
  <2>2. CASE PublishBackup
    BY <1>0, <1>1, <2>2 DEF TakenInv
  <2> QED BY <2>1, <2>2, PairsMoves
<1>4. ASSUME Continuous' PROVE pairs'[pending'.backup].taken
  <2>1. CASE UNCHANGED <<gate, pending>>
    <3>1. Continuous
      BY <1>4, <2>1 DEF Continuous, Closed
    <3>2. CASE UNCHANGED pairs
      BY <2>1, <3>1, <3>2 DEF TakenInv
    <3>3. CASE PublishBackup
      BY <1>1, <3>3
    <3> QED BY <3>2, <3>3, PairsMoves
  <2>2. CASE Mark \/ CloseClaimed
    <3>1. actor.target \in Targets /\ Claimed.status # "none"
      BY <2>2, HolderSteps DEF UpgradeInv, ActorInv
    <3>2. pending'.backup = journal[actor.target].backup
      BY <2>2 DEF Mark, CloseClaimed, Claimed
    <3> QED BY <1>2, <3>1, <3>2, ClaimedPair DEF Claimed
  <2>3. CASE PublishBackup
    BY <1>1, <2>3
  <2> QED BY <1>4, <2>1, <2>2, <2>3, ContinuousMoves
<1>5. Executing("reopen")' => active' = actor'.target
  BY ReopenMoves DEF TakenInv, Executing, At, WriteActive
<1> QED BY <1>3, <1>4, <1>5 DEF TakenInv

\* Where no forward fix was claimed, none was before, and a journal is claimed from its own
\* pair, or goes on as it was.
LEMMA NoFixMoves ==
  ASSUME UpgradeInv, OwnershipInv, FixInv, [Next]_vars, ~FixClaimed', NEW u \in Targets
  PROVE  /\ ~FixClaimed /\ journal[u].predecessor = NoTarget
         /\ \/ Claim(u)
            \/ /\ journal'[u].backup = journal[u].backup
               /\ journal[u].identityStarted => journal'[u].identityStarted
               /\ journal[u].reopened => journal'[u].reopened
               /\ journal'[u].reopened => journal[u].reopened \/ (Reopen /\ u = actor.target)
               /\ \/ journal'[u].status = journal[u].status
                  \/ u \in Unfinished /\ journal'[u].status \in {"running", "failed"}
                  \/ Finish /\ u = actor.target /\ journal'[u].status = "complete"
                  \/ /\ u \in Unfinished /\ journal'[u].status = "abandoned"
                     /\ ~journal[u].identityStarted
<1>1. ~Fixing'
  BY DEF FixClaimed, Fixing
<1>2. ~Fixing /\ ~Supersede /\ ~ClaimFix(u)
  BY <1>1, FixingKept
<1>3. ~FixClaimed
  BY <1>2 DEF FixInv
<1> QED BY <1>2, <1>3, JournalMoves DEF FixClaimed

\* A claim is made from the pair of a fence whose configuration was read.
LEMMA ClaimMoves ==
  ASSUME UpgradeInv, NEW t \in Targets, Claim(t)
  PROVE  /\ actor.target = NoTarget /\ actor'.target = t
         /\ applying[t].begun /\ applying[t].predecessor = NoTarget
         /\ UNCHANGED <<active, gate, pending, maintenance, pairs>>
         /\ \E b \in Backups :
              /\ Continuous /\ pending.backup = b /\ maintenance = 0
              /\ pairs[b].taken /\ pairs[b].active = applying[t].active
              /\ journal'[t].backup = b /\ ~journal'[t].reopened
              /\ journal'[t].status = "running"
<1>0. journal \in [Targets -> Records]
  BY DEF UpgradeInv, TypeOK
<1>1. PICK b \in Backups :
        /\ FencedBy(t, b)
        /\ journal' = [journal EXCEPT ![t] = [NoJournal EXCEPT
                         !.status = "running", !.backup = b, !.run = t]]
  BY DEF Claim
<1>2. journal'[t].backup = b /\ ~journal'[t].reopened /\ journal'[t].status = "running"
  BY <1>0, <1>1 DEF NoJournal
<1>3. /\ Continuous /\ pending.backup = b /\ maintenance = 0
      /\ pairs[b].taken /\ pairs[b].active = applying[t].active
  BY <1>1 DEF FencedBy, Continuous, Closed
<1>4. /\ actor.target = NoTarget /\ actor'.target = t
      /\ applying[t].begun /\ applying[t].predecessor = NoTarget
      /\ UNCHANGED <<active, gate, pending, maintenance, pairs>>
  BY DEF Claim, Idle, Holding, fence
<1> QED BY <1>2, <1>3, <1>4

\* What is prepared while nothing holds its target is claimed by nobody yet.
LEMMA ClaimsAreNew ==
  ASSUME UpgradeInv, FixInv, NEW t \in Targets, Claim(t)
  PROVE  journal[t].status \in {"none", "abandoned", "superseded"}
<1>1. actor.target # t /\ applying[t].begun
  BY ClaimMoves, TargetsAssumption DEF NoTarget
<1> QED BY <1>1 DEF FixInv

\* An upgrade that ended stays ended.
LEMMA CompleteKept ==
  ASSUME UpgradeInv, OwnershipInv, FixInv, [Next]_vars, ~FixClaimed', NEW u \in Targets,
         journal[u].status = "complete"
  PROVE  journal'[u].status = "complete" /\ journal'[u].backup = journal[u].backup
<1>1. ~Claim(u)
  BY ClaimsAreNew
<1> QED BY <1>1, NoFixMoves DEF Unfinished

\* Another upgrade that acted on a later pair stays one.
LEMMA LaterKept ==
  ASSUME UpgradeInv, OwnershipInv, FixInv, [Next]_vars, ~FixClaimed'
  PROVE  \A b \in Backups, t \in Targets : LaterWrote(b, t) => LaterWrote(b, t)'
<1> SUFFICES ASSUME NEW b \in Backups, NEW t \in Targets, LaterWrote(b, t)
             PROVE  LaterWrote(b, t)'
  OBVIOUS
<1>1. PICK u \in Targets \ {t} :
        /\ journal[u].backup >= b
        /\ (u \in Unfinished /\ journal[u].identityStarted) \/ journal[u].status = "complete"
  BY DEF LaterWrote
<1>2. CASE journal[u].status = "complete"
  BY <1>1, <1>2, CompleteKept DEF LaterWrote
<1>3. CASE u \in Unfinished /\ journal[u].identityStarted
  <2>1. ~Claim(u)
    BY <1>3, ClaimsAreNew DEF Unfinished
  <2>2. /\ journal'[u].backup = journal[u].backup /\ journal'[u].identityStarted
        /\ journal'[u].status \in {"running", "failed", "complete"}
    BY <1>3, <2>1, NoFixMoves DEF Unfinished
  <2> QED BY <1>1, <2>2 DEF LaterWrote, Unfinished
<1> QED BY <1>1, <1>2, <1>3

\* The numbers of the pairs.
LEMMA PairNumbers ==
  ASSUME UpgradeInv
  PROVE  /\ Backups \subseteq Nat /\ active \in Nat /\ pending.backup \in Nat
         /\ \A u \in Targets : journal[u].backup \in Nat /\ u \in Nat /\ u # 0
  BY BoundsAssumption, TargetsAssumption
     DEF UpgradeInv, TypeOK, Records, Backups, Revisions

\* What is unfinished after a step was before, or is claimed from the pair the fence names.
LEMMA UnfinishedBefore ==
  ASSUME UpgradeInv, OwnershipInv, FixInv, [Next]_vars, ~FixClaimed', NEW u \in Unfinished'
  PROVE  Claim(u) \/ (u \in Unfinished /\ journal'[u].backup = journal[u].backup)
<1>1. u \in Targets
  BY DEF Unfinished
<1> QED BY <1>1, NoFixMoves DEF Unfinished

\* Upgrades on earlier pairs than b stay where they are, for a pair b that was taken.
LEMMA OrderKept ==
  ASSUME UpgradeInv, OwnershipInv, FixInv, TakenInv, [Next]_vars, ~FixClaimed'
  PROVE  \A b \in Backups : pairs[b].taken /\ Order(b) => Order(b)'
<1> SUFFICES ASSUME NEW b \in Backups, pairs[b].taken, Order(b)
             PROVE  Order(b)'
  OBVIOUS
<1>0. /\ b \in Nat /\ pending.backup \in Nat /\ 0 \notin Targets
      /\ \A u \in Targets : journal[u].backup \in Nat
  BY PairNumbers
<1>1. ASSUME NEW u \in Unfinished', journal'[u].backup < b
      PROVE  ~journal'[u].reopened /\ actor'.target # u /\ maintenance' # u
  <2>1. u \in Targets
    BY DEF Unfinished
  <2>2. ~Claim(u)
    BY <1>0, <1>1, <2>1, ClaimMoves DEF Order
  <2>3. u \in Unfinished /\ journal'[u].backup = journal[u].backup
    BY <2>2, UnfinishedBefore
  <2>4. ~journal[u].reopened /\ actor.target # u /\ maintenance # u
    BY <1>1, <2>3 DEF Order
  <2>5. ~journal'[u].reopened
    BY <2>1, <2>2, <2>4, NoFixMoves
  <2>6. journal[u].run = u /\ journal[u].predecessor = NoTarget
    BY <2>1, <2>3, NoFixMoves DEF OwnershipInv, ClaimsInv
  <2>7. ~FenceContinuous(journal[u])
    BY <1>0, <1>1, <2>1, <2>3, <2>4, <2>6 DEF FenceContinuous, Order, Continuous, Closed
  <2>8. ~ClaimFix(u)
    <3>1. ~FixClaimed /\ ~Fixing'
      BY <2>1, NoFixMoves DEF FixClaimed, Fixing
    <3> QED BY <2>1, <3>1, FixingKept
  <2>9. actor'.target # u
    BY <1>0, <2>1, <2>2, <2>4, <2>7, <2>8, LeaseMoves DEF Resume, Abandon, NoTarget
  <2>10. maintenance' # u
    <3>1. CASE Enter
      <4>1. actor.target \in Unfinished /\ actor.target \in Targets
        BY <3>1, HolderSteps DEF OwnershipInv, LeaseInv
      <4>2. Claimed.run = actor.target
        BY <4>1, NoFixMoves DEF OwnershipInv, ClaimsInv, Claimed
      <4> QED BY <2>4, <3>1, <4>2 DEF Enter
    <3>2. CASE ~Enter
      BY <1>0, <2>1, <2>4, <3>2, MaintenanceMoves
    <3> QED BY <3>1, <3>2
  <2> QED BY <2>5, <2>9, <2>10
<1>2. ASSUME Continuous' PROVE pending'.backup >= b
  <2>1. CASE UNCHANGED <<gate, pending>>
    BY <1>2, <2>1 DEF Order, Continuous, Closed
  <2>2. CASE Mark \/ CloseClaimed
    <3>1. actor.target \in Unfinished /\ actor.target \in Targets
      BY <2>2, HolderSteps DEF OwnershipInv, LeaseInv
    <3>2. pending'.backup = journal[actor.target].backup
      BY <2>2 DEF Mark, CloseClaimed, Claimed
    <3>3. ~(journal[actor.target].backup < b)
      BY <3>1 DEF Order
    <3> QED BY <1>0, <3>1, <3>2, <3>3
  <2>3. CASE PublishBackup
    <3>1. PICK c \in Backups : ~pairs[c].taken /\ pending'.backup = c
      BY <2>3 DEF PublishBackup
    <3>2. ~(c < b)
      BY <3>1 DEF TakenInv
    <3> QED BY <1>0, <3>1, <3>2, PairNumbers
  <2> QED BY <1>2, <2>1, <2>2, <2>3, ContinuousMoves
<1> QED BY <1>1, <1>2 DEF Order

\* Once everything that reopened has ended, no upgrade goes on and the gate is open.
LEMMA ReopenedEnds ==
  ASSUME UpgradeInv, OwnershipInv, FixInv, [Next]_vars, ~FixClaimed', SomeReopened
  PROVE  SomeReopened' \/ \A b \in Backups : Order(b)'
<1>1. PICK u \in Unfinished : journal[u].reopened
  BY DEF SomeReopened
<1>2. u \in Targets /\ ~Claim(u)
  BY <1>1, ClaimsAreNew DEF Unfinished
<1>3. journal[u].identityStarted
  BY <1>1, <1>2, NoFixMoves DEF OwnershipInv, ClaimsInv
<1>4. CASE ~Finish
  <2>1. journal'[u].reopened /\ journal'[u].status \in {"running", "failed"}
    BY <1>1, <1>2, <1>3, <1>4, NoFixMoves DEF Unfinished
  <2> QED BY <1>2, <2>1 DEF SomeReopened, Unfinished
<1>5. CASE Finish
  <2>1. /\ actor'.target = NoTarget /\ maintenance' = 0 /\ ~Continuous'
    BY <1>5 DEF Finish, Idle, Executing, At, OwnershipInv, PassedInv, fence, GateOpen,
                Continuous, Closed
  <2>2. ASSUME ~SomeReopened', NEW v \in Unfinished'
        PROVE  ~journal'[v].reopened /\ actor'.target # v /\ maintenance' # v
    BY <2>1, <2>2, PairNumbers DEF SomeReopened, Unfinished, NoTarget
  <2> QED BY <2>1, <2>2 DEF Order
<1> QED BY <1>4, <1>5

\* A backup is taken while no upgrade that has not reopened goes on.
LEMMA PublishedOrder ==
  ASSUME UpgradeInv, OwnershipInv, FixInv, [Next]_vars, ~FixClaimed', PublishBackup,
         ~SomeReopened, NEW b \in Backups, \A c \in Backups : c < b => pairs[c].taken,
         pending'.backup = b
  PROVE  Order(b)'
<1>1. actor'.target = NoTarget /\ maintenance' = 0
  BY DEF PublishBackup, At, Idle, UpgradeInv, ActorInv
<1>2. UNCHANGED journal
  BY DEF PublishBackup, journals
<1>3. \A u \in Unfinished' : ~journal'[u].reopened /\ actor'.target # u /\ maintenance' # u
  BY <1>1, <1>2, PairNumbers DEF SomeReopened, Unfinished, NoTarget
<1> QED BY <1>3, PairNumbers DEF Order

\* What a backup publishes.
LEMMA Published ==
  ASSUME UpgradeInv, PublishBackup
  PROVE  /\ UNCHANGED <<journal, active, applying>>
         /\ \E b \in Backups :
              /\ ~pairs[b].taken /\ \A c \in Backups : c < b => pairs[c].taken
              /\ pending'.backup = b
              /\ pairs'[b].taken /\ pairs'[b].active = active
              /\ \A c \in Backups \ {b} : pairs'[c] = pairs[c]
<1>0. pairs \in [Backups -> [taken : BOOLEAN, schema : Nat, active : Revisions]]
  BY DEF UpgradeInv, TypeOK
<1>1. PICK b \in Backups :
        /\ ~pairs[b].taken /\ \A c \in Backups : c < b => pairs[c].taken
        /\ pairs' = [pairs EXCEPT ![b] = [taken |-> TRUE, schema |-> schema, active |-> active]]
        /\ pending' = [phase |-> Fenced, backup |-> b]
  BY DEF PublishBackup
<1>2. pairs'[b] = [taken |-> TRUE, schema |-> schema, active |-> active]
  BY <1>0, <1>1
<1>3. UNCHANGED <<journal, active, applying>>
  BY DEF PublishBackup, journals
<1> QED BY <1>0, <1>1, <1>2, <1>3

\* Who writes ACTIVE has started the identity service of an unfinished upgrade.
LEMMA WriterActs ==
  ASSUME UpgradeInv, OwnershipInv, [Next]_vars, WriteActive \/ Finish
  PROVE  /\ actor.target \in Unfinished /\ actor.target \in Targets
         /\ journal[actor.target].identityStarted /\ ~applying[actor.target].begun
         /\ active' = actor.target
         /\ journal'[actor.target].backup = journal[actor.target].backup
         /\ \/ actor.target \in Unfinished' /\ journal'[actor.target].identityStarted
            \/ journal'[actor.target].status = "complete"
<1>0. journal \in [Targets -> Records]
  BY DEF UpgradeInv, TypeOK
<1>1. /\ actor.target \in Unfinished /\ actor.target \in Targets
      /\ journal[actor.target].identityStarted /\ ~applying[actor.target].begun
      /\ active' = actor.target
  BY DEF WriteActive, Finish, Executing, At, OwnershipInv, LeaseInv, PassedInv, Claimed,
         Unfinished
<1>2. CASE WriteActive
  BY <1>1, <1>2 DEF WriteActive, Unfinished
<1>3. CASE Finish
  <2>1. journal'[actor.target] = [journal[actor.target] EXCEPT !.status = "complete"]
    BY <1>0, <1>1, <1>3 DEF Finish, Written, Claimed
  <2> QED BY <1>0, <1>1, <2>1 DEF Records
<1> QED BY <1>1, <1>2, <1>3

\* Who writes ACTIVE is another upgrade's witness on the pairs that were ordered.
LEMMA WriterIsLater ==
  ASSUME UpgradeInv, OwnershipInv, [Next]_vars, WriteActive \/ Finish,
         NEW b \in Backups, Order(b), NEW t \in Targets, t # actor.target
  PROVE  LaterWrote(b, t)'
<1>1. ~(journal[actor.target].backup < b)
  BY WriterActs DEF Order
<1>2. journal[actor.target].backup >= b
  BY <1>1, WriterActs, PairNumbers
<1> QED BY <1>2, WriterActs DEF LaterWrote

\* ACTIVE names the installed revision, an upgrade that ended, or one that must go forward.
LEMMA ActiveKept ==
  ASSUME UpgradeInv, OwnershipInv, FixInv, [Next]_vars, ~FixClaimed', ActiveStands
  PROVE  ActiveStands'
<1>1. CASE active' = active /\ active # 0
  <2>1. active \in Targets
    BY <1>1 DEF UpgradeInv, TypeOK, Revisions
  <2>2. CASE journal[active].status = "complete"
    BY <1>1, <2>1, <2>2, CompleteKept DEF ActiveStands
  <2>3. CASE active \in Unfinished /\ journal[active].identityStarted
    <3>1. ~Claim(active)
      BY <2>1, <2>3, ClaimsAreNew DEF Unfinished
    <3>2. /\ journal'[active].identityStarted
          /\ journal'[active].status \in {"running", "failed", "complete"}
      BY <2>1, <2>3, <3>1, NoFixMoves DEF Unfinished
    <3> QED BY <1>1, <2>1, <3>2 DEF ActiveStands, Unfinished
  <2> QED BY <1>1, <2>2, <2>3 DEF ActiveStands
<1>2. CASE WriteActive \/ Finish
  BY <1>2, WriterActs DEF ActiveStands
<1>3. CASE active' = active /\ active = 0
  BY <1>3 DEF ActiveStands
<1> QED BY <1>1, <1>2, <1>3, ActiveMoves

\* Every pair is ordered, or something has reopened.
LEMMA PairsKept ==
  ASSUME UpgradeInv, OwnershipInv, FixInv, TakenInv, [Next]_vars, ~FixClaimed', PairsOrdered
  PROVE  PairsOrdered'
<1> SUFFICES ASSUME NEW b \in Backups, pairs'[b].taken, ~SomeReopened'
             PROVE  Order(b)'
  BY DEF PairsOrdered
<1>1. CASE SomeReopened
  BY <1>1, ReopenedEnds
<1>2. CASE ~SomeReopened /\ pairs[b].taken
  BY <1>2, OrderKept DEF PairsOrdered
<1>3. CASE ~SomeReopened /\ ~pairs[b].taken
  <2>1. PublishBackup
    BY <1>3, PairsMoves
  <2>2. (\A c \in Backups : c < b => pairs[c].taken) /\ pending'.backup = b
    BY <1>3, <2>1, Published
  <2> QED BY <1>3, <2>1, <2>2, PublishedOrder
<1> QED BY <1>1, <1>2, <1>3

\* An --apply that begins finds nothing unfinished, and every pair ordered.
LEMMA PrepareOrdered ==
  ASSUME UpgradeInv, OwnershipInv, FixInv, TakenInv, [Next]_vars, ~FixClaimed',
         ActiveStands, PairsOrdered, NEW t \in Targets, Prepare(t)
  PROVE  ApplyOrdered(t)'
<1>0. applying \in [Targets -> Applies]
  BY DEF UpgradeInv, TypeOK
<1>1. applying'[t].active = active
  BY <1>0 DEF Prepare, NoApply
<1>2. UNCHANGED <<journal, active, pairs>> /\ Unfinished = {} /\ active < t
  BY DEF Prepare, journals
<1>3. active = 0 \/ journal[active].status = "complete"
  BY <1>2 DEF ActiveStands
<1>4. ~SomeReopened /\ ~SomeReopened'
  BY <1>2 DEF SomeReopened, Unfinished
<1>5. \A b \in Backups : pairs[b].taken => Order(b)'
  BY <1>4, OrderKept DEF PairsOrdered
<1> QED BY <1>1, <1>2, <1>3, <1>4, <1>5 DEF ApplyOrdered

\* What an --apply has read stays in order while it is prepared.
LEMMA ApplyKept ==
  ASSUME UpgradeInv, OwnershipInv, FixInv, TakenInv, [Next]_vars, ~FixClaimed',
         NEW t \in Targets, applying[t].begun, applying'[t] = applying[t],
         applying[t].predecessor = NoTarget, ApplyOrdered(t)
  PROVE  ApplyOrdered(t)'
<1> DEFINE a == applying[t].active
<1>0. /\ applying \in [Targets -> Applies] /\ a \in Revisions
      /\ pairs \in [Backups -> [taken : BOOLEAN, schema : Nat, active : Revisions]]
  BY DEF UpgradeInv, TypeOK, Applies
<1>1. a = 0 \/ (a \in Targets /\ journal[a].status = "complete")
  BY <1>0 DEF ApplyOrdered, Revisions
<1>2. a = 0 \/ journal'[a].status = "complete"
  BY <1>1, CompleteKept
<1>3. actor.target # t
  BY DEF OwnershipInv, LeaseInv
<1>4. a # actor.target \/ ~(WriteActive \/ Finish)
  BY <1>1, WriterActs, PairNumbers DEF Unfinished
<1>5. active' = a => active = a
  BY <1>4, ActiveMoves
<1>6. active' = a => ~SomeReopened'
  <2> SUFFICES ASSUME active = a, SomeReopened' PROVE FALSE
    BY <1>5
  <2>1. PICK u \in Unfinished' : journal'[u].reopened
    BY DEF SomeReopened
  <2>2. u \in Targets /\ ~SomeReopened
    BY DEF ApplyOrdered, Unfinished
  <2>3. ~Claim(u)
    BY <2>1, <2>2, ClaimMoves
  <2>4. u \in Unfinished
    BY <2>3, UnfinishedBefore
  <2>5. Reopen
    BY <2>1, <2>2, <2>3, <2>4, NoFixMoves DEF SomeReopened
  <2>6. active = actor.target /\ actor.target \in Unfinished
    BY <2>5 DEF Reopen, Executing, At, TakenInv, OwnershipInv, LeaseInv
  <2> QED BY <1>1, <2>6, PairNumbers DEF Unfinished
<1>7. ASSUME NEW b \in Backups, pairs'[b].taken, pairs'[b].active = a
      PROVE  (active' = a /\ Order(b)') \/ LaterWrote(b, t)'
  <2>1. CASE pairs[b].taken
    <3>1. pairs[b].active = a
      <4>1. CASE UNCHANGED pairs
        BY <1>7, <4>1
      <4>2. CASE PublishBackup
        BY <1>7, <2>1, <4>2, Published
      <4> QED BY <4>1, <4>2, PairsMoves
    <3>2. CASE LaterWrote(b, t)
      BY <3>2, LaterKept
    <3>3. CASE active = a /\ Order(b) /\ active' = active
      BY <2>1, <3>3, OrderKept
    <3>4. CASE Order(b) /\ (WriteActive \/ Finish)
      BY <1>3, <3>4, WriterIsLater
    <3> QED BY <2>1, <3>1, <3>2, <3>3, <3>4, ActiveMoves DEF ApplyOrdered
  <2>2. CASE ~pairs[b].taken
    <3>1. PublishBackup
      BY <1>7, <2>2, PairsMoves
    <3>2. /\ (\A c \in Backups : c < b => pairs[c].taken) /\ pending'.backup = b
          /\ active' = active /\ pairs'[b].active = active
      BY <1>7, <2>2, <3>1, Published
    <3>3. active = a /\ ~SomeReopened
      BY <1>7, <3>2 DEF ApplyOrdered
    <3> QED BY <3>1, <3>2, <3>3, PublishedOrder
  <2> QED BY <2>1, <2>2
<1>8. a < t
  BY DEF ApplyOrdered
<1>9. applying'[t].active = a
  OBVIOUS
<1> HIDE DEF a
<1> QED BY <1>2, <1>6, <1>7, <1>8, <1>9 DEF ApplyOrdered

\* An unfinished upgrade is at least the active one, or not alone.
LEMMA ClaimOrderKept ==
  ASSUME UpgradeInv, OwnershipInv, FixInv, TakenInv, OrderInv, [Next]_vars, ~FixClaimed',
         NEW t \in Unfinished'
  PROVE  ClaimOrdered(t)'
<1>0. t \in Targets /\ ~FixClaimed /\ t \in Nat /\ active \in Nat
  BY NoFixMoves, PairNumbers DEF Unfinished
<1>1. CASE Claim(t)
  <2>1. PICK b \in Backups : /\ pairs[b].taken /\ pairs[b].active = applying[t].active
                             /\ journal'[t].backup = b
    BY <1>0, <1>1, ClaimMoves
  <2>2. /\ active' = active /\ applying[t].begun /\ applying[t].predecessor = NoTarget
    BY <1>0, <1>1, ClaimMoves
  <2>3. ApplyOrdered(t)
    BY <1>0, <2>2 DEF OrderInv
  <2>4. applying[t].active < t
    BY <2>3 DEF ApplyOrdered
  <2>5. CASE active = applying[t].active /\ Order(b)
    <3>1. Order(b)'
      BY <2>1, <2>5, OrderKept
    <3>2. active' <= t
      BY <1>0, <2>2, <2>4, <2>5
    <3> QED BY <2>1, <3>1, <3>2 DEF ClaimOrdered, Order
  <2>6. CASE LaterWrote(b, t)
    <3>1. LaterWrote(b, t)'
      BY <1>0, <2>6, LaterKept
    <3> QED BY <2>1, <3>1 DEF ClaimOrdered, LaterWrote
  <2> QED BY <2>1, <2>3, <2>5, <2>6 DEF ApplyOrdered
<1>2. CASE ~Claim(t)
  <2>1. t \in Unfinished /\ journal'[t].backup = journal[t].backup
    BY <1>2, UnfinishedBefore
  <2>2. journal[t].backup \in Backups /\ pairs[journal[t].backup].taken
    BY <1>0, <2>1, ClaimedPair DEF Unfinished
  <2>3. PICK b \in Backups : b = journal[t].backup
    BY <2>2
  <2>4. ClaimOrdered(t)
    BY <1>0, <2>1 DEF OrderInv
  <2>5. CASE LaterWrote(b, t)
    <3>1. LaterWrote(b, t)'
      BY <1>0, <2>5, LaterKept
    <3> QED BY <2>1, <2>3, <3>1 DEF ClaimOrdered, LaterWrote
  <2>6. CASE active <= t /\ Order(b) /\ (active' = active \/ t = actor.target)
    <3>1. Order(b)'
      BY <2>2, <2>3, <2>6, OrderKept
    <3>2. active' <= t
      BY <1>0, <2>6, ActiveMoves
    <3> QED BY <2>1, <2>3, <3>1, <3>2 DEF ClaimOrdered, Order
  <2>7. CASE Order(b) /\ (WriteActive \/ Finish) /\ t # actor.target
    <3>1. LaterWrote(b, t)'
      BY <1>0, <2>7, WriterIsLater
    <3> QED BY <2>1, <2>3, <3>1 DEF ClaimOrdered, LaterWrote
  <2> QED BY <2>3, <2>4, <2>5, <2>6, <2>7, ActiveMoves DEF ClaimOrdered
<1> QED BY <1>1, <1>2

\* The order of the upgrades is kept.
LEMMA OrderedKept ==
  ASSUME UpgradeInv, OwnershipInv, FixInv, TakenInv, OrderInv, [Next]_vars
  PROVE  OrderInv'
<1> SUFFICES ASSUME ~FixClaimed'
             PROVE  /\ ActiveStands'
                    /\ PairsOrdered'
                    /\ \A t \in Targets :
                         applying'[t].begun /\ applying'[t].predecessor = NoTarget =>
                           ApplyOrdered(t)'
                    /\ \A t \in Unfinished' : ClaimOrdered(t)'
  BY DEF OrderInv
<1>1. ~FixClaimed
  BY FixingKept DEF FixInv, FixClaimed, Fixing
<1>2. /\ ActiveStands /\ PairsOrdered
      /\ \A t \in Targets :
           applying[t].begun /\ applying[t].predecessor = NoTarget => ApplyOrdered(t)
  BY <1>1 DEF OrderInv
<1>3. ASSUME NEW t \in Targets, applying'[t].begun, applying'[t].predecessor = NoTarget
      PROVE  ApplyOrdered(t)'
  <2>1. applying \in [Targets -> Applies]
    BY DEF UpgradeInv, TypeOK
  <2>2. CASE Prepare(t)
    BY <1>2, <2>2, PrepareOrdered
  <2>3. ~\E p \in Targets : PrepareFix(t, p)
    <3> SUFFICES ASSUME NEW p \in Targets, PrepareFix(t, p) PROVE FALSE
      OBVIOUS
    <3>1. applying'[t].predecessor = p
      BY <2>1 DEF PrepareFix
    <3> QED BY <1>3, <3>1, PairNumbers DEF NoTarget
  <2>4. CASE applying'[t] = applying[t]
    BY <1>2, <1>3, <2>4, ApplyKept
  <2> QED BY <1>3, <2>2, <2>3, <2>4, ApplyMoves DEF NoApply
<1> QED BY <1>2, <1>3, ActiveKept, PairsKept, ClaimOrderKept

\* At first nothing is claimed and no pair is taken.
LEMMA OrderInit == Init => FixInv /\ TakenInv /\ OrderInv
<1> SUFFICES ASSUME Init PROVE FixInv /\ TakenInv /\ OrderInv
  OBVIOUS
<1>1. /\ \A t \in Targets : journal[t] = NoJournal /\ applying[t] = NoApply
      /\ \A b \in Backups : ~pairs[b].taken
      /\ ~Continuous /\ ~Executing("reopen") /\ active = 0
  BY DEF Init, Continuous, Closed, Executing, At, Idle
<1>2. FixInv /\ TakenInv
  BY <1>1 DEF FixInv, FixClaimed, TakenInv, NoJournal, NoApply, NoTarget
<1>3. OrderInv
  BY <1>1 DEF OrderInv, ActiveStands, PairsOrdered, Unfinished, NoJournal, NoApply
<1> QED BY <1>2, <1>3

\* The revisions go forward with the pairs, as long as no forward fix was claimed.
THEOREM OrderInvariant == Spec => [](FixInv /\ TakenInv /\ OrderInv)
<1>1. /\ UpgradeInv /\ OwnershipInv /\ (FixInv /\ TakenInv /\ OrderInv) /\ [Next]_vars
      => (FixInv /\ TakenInv /\ OrderInv)'
  BY FixKept, TakenKept, OrderedKept
<1> QED BY <1>1, OrderInit, UpgradeInvariant, OwnershipInvariant, PTL DEF Spec

\* An upgrade that no other overlaps never takes the active revision back: ACTIVE only moves
\* to a lower target when another upgrade has acted on the same pair or on a later one, or
\* when a forward fix was claimed.
THEOREM NoDowngradeAlone == Spec => NoDowngradeWhenAlone
<1>1. UpgradeInv /\ OwnershipInv /\ OrderInv /\ [Next]_vars =>
        [active' >= active \/ ~Alone(active') \/ FixClaimed]_vars
  <2> SUFFICES ASSUME UpgradeInv, OwnershipInv, OrderInv, [Next]_vars, ~FixClaimed,
                      ~(active' >= active)
               PROVE  ~Alone(active')
    OBVIOUS
  <2>1. WriteActive \/ Finish
    BY ActiveMoves, PairNumbers
  <2>2. actor.target \in Unfinished /\ actor.target \in Targets /\ active' = actor.target
    BY <2>1, WriterActs
  <2>3. LaterWrote(journal[actor.target].backup, actor.target)
    BY <2>2, PairNumbers DEF OrderInv, ClaimOrdered
  <2>4. PICK u \in Targets \ {actor.target} :
          /\ journal[u].backup >= journal[actor.target].backup
          /\ u \in Unfinished \/ journal[u].status = "complete"
    BY <2>3 DEF LaterWrote
  <2>5. journal[u].status \in {"running", "failed", "complete"}
    BY <2>4 DEF Unfinished
  <2>6. ~(journal[u].backup < journal[actor.target].backup)
    BY <2>2, <2>4, PairNumbers
  <2> QED BY <2>2, <2>4, <2>5, <2>6 DEF Alone
<1> QED BY <1>1, UpgradeInvariant, OwnershipInvariant, OrderInvariant, PTL
        DEF Spec, NoDowngradeWhenAlone

=============================================================================
