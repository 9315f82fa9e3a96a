------------------------------ MODULE Upgrade ------------------------------
(***************************************************************************)
(* The in-place upgrade of the private production runtime                  *)
(* (scripts/private_production_upgrade.py) over the write fence that the   *)
(* recovery actor keeps (deploy/public-production/bin/recovery).           *)
(*                                                                         *)
(* Everything durable is a variable: one journal per target, the pointer   *)
(* ACTIVE.json, the gate volume, the recovery journal PENDING.json, which  *)
(* roles can log in, the database's migrations and the containers that     *)
(* exist.  A command is a process that holds the recovery lease and moves  *)
(* through its steps; it may raise at any step, in which case it fences    *)
(* again and records the failure, or die, in which case whatever it did    *)
(* stays.  A migration container may outlive it.                           *)
(*                                                                         *)
(* Revisions are numbers: a later one is strictly ahead.  0 is installed.  *)
(***************************************************************************)
EXTENDS Naturals, FiniteSets

CONSTANTS
    Targets,      \* revisions that can be upgraded to
    Migrations,   \* Migrations[r]: how many migrations the source of r has
    MaxBackups,   \* bound: paired backups taken
    MaxFaults     \* bound: commands that raise or die

ASSUME TargetsAssumption == Targets \subseteq Nat \ {0}
ASSUME MigrationsAssumption ==
    /\ Migrations \in [Targets \union {0} -> Nat]
    /\ \A r, s \in Targets \union {0} : r < s => Migrations[r] <= Migrations[s]
ASSUME BoundsAssumption == MaxBackups \in Nat /\ MaxFaults \in Nat

Revisions == Targets \union {0}
NoTarget == 0          \* as a target or a predecessor
Backups == 1..MaxBackups
Runs == Targets \union {0}   \* a fence's owner: the target that first claimed it, or nobody

VARIABLES
    journal,      \* journal[t]: upgrades/<t>/upgrade.json
    planned,      \* targets whose upgrade-plan.json is durable
    active,       \* the revision ACTIVE.json names
    gate,         \* the gate volume's READY and PENDING.json
    pending,      \* the recovery actor's PENDING.json
    maintenance,  \* the run that IDENTITY-MAINTENANCE.json names
    logins,       \* the database roles that can log in
    schema,       \* migrations applied
    migrating,    \* the target of a running migration container
    image,        \* the revision of the containers that exist
    running,      \* the services that run
    pairs,        \* what each paired backup holds
    applying,     \* applying[t]: what an --apply of t has read, and not yet taken the lease
    actor,        \* the command that holds the recovery lease, and its step
    stale,        \* ghost: pairs after which the product wrote
    faults        \* bound counter

journals == <<journal, planned, active>>
fence == <<gate, pending, maintenance, logins>>
runtime == <<schema, migrating, image, running>>
vars == <<journals, fence, runtime, pairs, applying, actor, stale, faults>>

Statuses == {"none", "running", "failed", "complete", "abandoned", "superseded"}
Records ==
    [status : Statuses, backup : 0..MaxBackups, run : Runs, predecessor : Runs,
     migrationStarted : BOOLEAN, identityStarted : BOOLEAN, reopened : BOOLEAN]

NoJournal ==
    [status |-> "none", backup |-> 0, run |-> 0, predecessor |-> NoTarget,
     migrationStarted |-> FALSE, identityStarted |-> FALSE, reopened |-> FALSE]

Fenced == "backup-complete-writers-still-fenced"
NoPending == [phase |-> "none", backup |-> 0]
Roles == {"application", "migrator", "keycloak"}
Services == {"keycloak", "application"}   \* the edge and monitoring go with the application
Idle == [mode |-> "idle", target |-> NoTarget, step |-> "none"]
NoApply == [begun |-> FALSE, active |-> 0, predecessor |-> NoTarget, record |-> NoJournal]

Applies == [begun : BOOLEAN, active : Revisions, predecessor : Runs, record : Records]
Modes == {"idle", "execute", "fail", "abandon", "backup", "thaw"}
Steps ==
    {"none", "plan", "claim", "supersede", "quiesce", "drain", "mark", "enter", "migrate",
     "migrator", "migrated", "identity", "keycloak", "replace", "activate", "reopen", "login",
     "open", "clear", "release", "start", "finish", "record", "publish"}
Actors == [mode : Modes, target : Targets \union {NoTarget}, step : Steps]

Unfinished == {t \in Targets : journal[t].status \in {"running", "failed"}}
GateOpen == gate.ready /\ ~gate.pending

TypeOK ==
    /\ journal \in [Targets -> Records]
    /\ planned \subseteq Targets
    /\ active \in Revisions
    /\ gate \in [ready : BOOLEAN, pending : BOOLEAN]
    /\ pending \in [phase : {"none", "quiescing", Fenced, "upgrade"}, backup : 0..MaxBackups]
    /\ maintenance \in Runs
    /\ logins \subseteq Roles
    /\ schema \in Nat
    /\ migrating \in Targets \union {NoTarget}
    /\ image \in [Services -> Revisions]
    /\ running \subseteq Services
    /\ pairs \in [Backups -> [taken : BOOLEAN, schema : Nat, active : Revisions]]
    /\ applying \in [Targets -> Applies]
    /\ actor \in Actors
    /\ stale \subseteq Backups
    /\ faults \in 0..MaxFaults

Init ==
    /\ journal = [t \in Targets |-> NoJournal]
    /\ planned = {}
    /\ active = 0
    /\ gate = [ready |-> TRUE, pending |-> FALSE]
    /\ pending = NoPending
    /\ maintenance = 0
    /\ logins = Roles
    /\ schema = Migrations[0]
    /\ migrating = NoTarget
    /\ image = [s \in Services |-> 0]
    /\ running = Services
    /\ pairs = [b \in Backups |-> [taken |-> FALSE, schema |-> 0, active |-> 0]]
    /\ applying = [t \in Targets |-> NoApply]
    /\ actor = Idle
    /\ stale = {}
    /\ faults = 0

-----------------------------------------------------------------------------
(* Steps of the command that holds the lease.                              *)

At(mode, step) == actor.mode = mode /\ actor.step = step
Executing(step) == At("execute", step)
Moved(step) == actor' = [actor EXCEPT !.step = step]
Written(fields) == journal' = [journal EXCEPT ![actor.target] = fields]
Claimed == journal[actor.target]

(* A bug: a pair's fence is recognized by its phase and not by its backup. *)
FenceContinuousOfAnyPair(record) ==
    /\ ~gate.ready /\ gate.pending
    /\ \/ pending.phase = "quiescing" /\ maintenance = record.run
       \/ pending.phase \in {Fenced, "upgrade"}

(* A bug: only a fence that is complete is recognized. *)
CompleteFence(record) ==
    /\ ~gate.ready /\ gate.pending
    /\ pending.phase \in {Fenced, "upgrade"} /\ pending.backup = record.backup

(* Whether the pair still is the last write: the fence is closed, and the recovery journal
   names the pair, or is the first step of this upgrade's own fence. *)
FenceContinuous(record) ==
    /\ ~gate.ready /\ gate.pending
    /\ \/ pending.phase = "quiescing" /\ maintenance = record.run
       \/ pending.phase \in {Fenced, "upgrade"} /\ pending.backup = record.backup

-----------------------------------------------------------------------------
(* The canonical fence, in its steps, for whoever takes it: a backup, a    *)
(* refence before or after an upgrade's steps, an abandonment.             *)

Quiesce ==
    /\ actor.step = "quiesce"
    /\ gate' = [ready |-> FALSE, pending |-> TRUE]
    /\ pending' = [phase |-> "quiescing", backup |-> 0]
    /\ Moved("drain")
    /\ UNCHANGED <<journals, maintenance, logins, runtime, pairs, applying, stale, faults>>

(* NOLOGIN, the writers stopped, every session terminated: a migration that is still connected
   loses its session and ends. *)
Drain ==
    /\ actor.step = "drain"
    /\ logins' = {}
    /\ running' = {}
    /\ migrating' = NoTarget
    /\ Moved(IF actor.mode = "backup" THEN "publish" ELSE "mark")
    /\ UNCHANGED <<journals, gate, pending, maintenance, schema, image, pairs,
                   applying, stale, faults>>

(* refence() closes as this upgrade, abandon() as the backup. *)
Mark ==
    /\ actor.step = "mark"
    /\ gate' = [ready |-> FALSE, pending |-> TRUE]
    /\ pending' = [phase |-> IF actor.mode = "abandon" THEN Fenced ELSE "upgrade",
                   backup |-> Claimed.backup]
    /\ Moved(IF actor.mode = "abandon" THEN "release" ELSE "enter")
    /\ UNCHANGED <<journals, maintenance, logins, runtime, pairs, applying, stale, faults>>

Enter ==
    /\ actor.step = "enter"
    /\ maintenance \in {0, Claimed.run}
    /\ maintenance' = Claimed.run
    /\ Moved(IF actor.mode = "fail" THEN "record" ELSE "migrate")
    /\ UNCHANGED <<journals, gate, pending, logins, runtime, pairs, applying, stale, faults>>

(* Another run's identity fence: the refusal ends the command, or its cleanup. *)
FenceRefused ==
    /\ actor.step = "enter" \/ At("abandon", "release")
    /\ maintenance \notin {0, Claimed.run}
    /\ actor' = IF actor.mode = "fail" THEN [actor EXCEPT !.step = "record"] ELSE Idle
    /\ UNCHANGED <<journals, fence, runtime, pairs, applying, stale, faults>>

-----------------------------------------------------------------------------
(* Other actors of the runtime.  They wait while an identity fence is held. *)

Backup ==
    /\ actor = Idle /\ maintenance = 0
    /\ \E b \in Backups : ~pairs[b].taken
    /\ actor' = [mode |-> "backup", target |-> NoTarget, step |-> "quiesce"]
    /\ UNCHANGED <<journals, fence, runtime, pairs, applying, stale, faults>>

PublishBackup ==
    /\ At("backup", "publish")
    /\ \E b \in Backups :
        /\ ~pairs[b].taken /\ \A c \in Backups : c < b => pairs[c].taken
        /\ pairs' = [pairs EXCEPT ![b] = [taken |-> TRUE, schema |-> schema, active |-> active]]
        /\ pending' = [phase |-> Fenced, backup |-> b]
    /\ actor' = Idle
    /\ UNCHANGED <<journals, gate, maintenance, logins, runtime, applying, stale, faults>>

(* thaw() refuses every phase but the backup's own, and checks that the fence holds. *)
Thaw ==
    /\ actor = Idle /\ maintenance = 0
    /\ pending.phase = Fenced /\ logins = {}
    /\ actor' = [mode |-> "thaw", target |-> NoTarget, step |-> "login"]
    /\ UNCHANGED <<journals, fence, runtime, pairs, applying, stale, faults>>

(* The owner starts the stopped containers; the application's guard reads the gate. *)
StartServices ==
    /\ actor = Idle /\ GateOpen /\ logins = Roles
    /\ running # Services
    /\ running' = Services
    /\ UNCHANGED <<journals, fence, schema, migrating, image, pairs,
                   applying, actor, stale, faults>>

(* The product writes while the application runs: what it holds is no longer any pair's. *)
Write ==
    /\ "application" \in running
    /\ stale' = {b \in Backups : pairs[b].taken}
    /\ stale' # stale
    /\ UNCHANGED <<journals, fence, runtime, pairs, applying, actor, faults>>

-----------------------------------------------------------------------------
(* --apply reads the active revision and the journals, then builds the     *)
(* plan, and only then takes the lease.                                    *)

Fresh(t) == journal[t].status \in {"none", "abandoned"}

Prepare(t) ==
    /\ ~applying[t].begun
    /\ Fresh(t) /\ Unfinished = {}
    /\ t > active
    /\ applying' = [applying EXCEPT ![t] = [NoApply EXCEPT !.begun = TRUE, !.active = active]]
    /\ UNCHANGED <<journals, fence, runtime, pairs, actor, stale, faults>>

(* --forward-fix-of: the predecessor's journal is read here. *)
PrepareFix(t, p) ==
    /\ ~applying[t].begun
    /\ Fresh(t) /\ Unfinished = {p} /\ journal[p].migrationStarted
    /\ t > p
    /\ applying' = [applying EXCEPT ![t] =
                      [begun |-> TRUE, active |-> p, predecessor |-> p, record |-> journal[p]]]
    /\ UNCHANGED <<journals, fence, runtime, pairs, actor, stale, faults>>

(* The build is refused, or its operator gives up. *)
ApplyRefused(t) ==
    /\ applying[t].begun /\ actor.target # t
    /\ applying' = [applying EXCEPT ![t] = NoApply]
    /\ UNCHANGED <<journals, fence, runtime, pairs, actor, stale, faults>>

(* A bug: the pair's configuration is not compared with the one the plan starts from. *)
FencedByAnyPair(t, b) ==
    /\ pairs[b].taken /\ pending = [phase |-> Fenced, backup |-> b]
    /\ ~gate.ready /\ gate.pending /\ maintenance = 0
    /\ logins = {} /\ running = {} /\ pairs[b].schema = schema

(* verify_fence(): the backup's own fence, still closed, over what the pair holds. *)
FencedBy(t, b) ==
    /\ pairs[b].taken /\ pending = [phase |-> Fenced, backup |-> b]
    /\ pairs[b].active = applying[t].active
    /\ ~gate.ready /\ gate.pending /\ maintenance = 0
    /\ logins = {} /\ running = {} /\ pairs[b].schema = schema

Holding(t) == [mode |-> "execute", target |-> t, step |-> "plan"]

Claim(t) ==
    /\ actor = Idle
    /\ applying[t].begun /\ applying[t].predecessor = NoTarget
    /\ \E b \in Backups :
        /\ FencedBy(t, b)
        /\ journal' = [journal EXCEPT ![t] = [NoJournal EXCEPT
                         !.status = "running", !.backup = b, !.run = t]]
    /\ actor' = Holding(t)
    /\ applying' = [applying EXCEPT ![t] = NoApply]
    /\ UNCHANGED <<planned, active, fence, runtime, pairs, stale, faults>>

(* A forward fix inherits the pair, the fence's run and whether it reopened. *)
ClaimFix(t) ==
    LET before == applying[t].record IN
    /\ actor = Idle
    /\ applying[t].begun /\ applying[t].predecessor # NoTarget
    /\ before.reopened \/ FenceContinuous(before)
    /\ journal' = [journal EXCEPT ![t] = [NoJournal EXCEPT
                     !.status = "running", !.backup = before.backup, !.run = before.run,
                     !.predecessor = applying[t].predecessor, !.reopened = before.reopened]]
    /\ actor' = Holding(t)
    /\ UNCHANGED <<planned, active, fence, runtime, pairs, applying, stale, faults>>

(* The journal is durable before the plan it names. *)
WritePlan ==
    /\ Executing("plan")
    /\ planned' = planned \union {actor.target}
    /\ Moved(IF Claimed.predecessor = NoTarget THEN "claim" ELSE "supersede")
    /\ UNCHANGED <<journal, active, fence, runtime, pairs, applying, stale, faults>>

CloseClaimed ==
    /\ Executing("claim")
    /\ gate' = [ready |-> FALSE, pending |-> TRUE]
    /\ pending' = [phase |-> "upgrade", backup |-> Claimed.backup]
    /\ Moved("enter")
    /\ UNCHANGED <<journals, maintenance, logins, runtime, pairs, applying, stale, faults>>

(* The predecessor's journal is written back as it was read, superseded. *)
Supersede ==
    /\ Executing("supersede")
    /\ journal' = [journal EXCEPT ![Claimed.predecessor] =
                     [applying[actor.target].record EXCEPT !.status = "superseded"]]
    /\ applying' = [applying EXCEPT ![actor.target] = NoApply]
    /\ Moved("quiesce")
    /\ UNCHANGED <<planned, active, fence, runtime, pairs, stale, faults>>

-----------------------------------------------------------------------------
(* execute()                                                               *)

(* migrate(): nothing pending, or the migrator may log in and its container starts. *)
Migrate ==
    /\ Executing("migrate")
    /\ migrating = NoTarget
    /\ schema <= Migrations[actor.target]
    /\ IF schema = Migrations[actor.target]
       THEN Moved("identity") /\ UNCHANGED journal
       ELSE Moved("migrator") /\ Written([Claimed EXCEPT !.migrationStarted = TRUE])
    /\ UNCHANGED <<planned, active, fence, runtime, pairs, applying, stale, faults>>

StartMigration ==
    /\ Executing("migrator")
    /\ logins' = logins \union {"migrator"}
    /\ migrating' = actor.target
    /\ Moved("migrated")
    /\ UNCHANGED <<journals, gate, pending, maintenance, schema, image, running, pairs, applying,
                   stale, faults>>

(* One migration, in its own transaction; the container may have no parent any more. *)
ApplyMigration ==
    /\ migrating # NoTarget
    /\ schema < Migrations[migrating]
    /\ schema' = schema + 1
    /\ UNCHANGED <<journals, fence, migrating, image, running, pairs,
                   applying, actor, stale, faults>>

(* The container ends when nothing is pending. *)
MigrationEnds ==
    /\ migrating # NoTarget
    /\ schema = Migrations[migrating]
    /\ migrating' = NoTarget
    /\ UNCHANGED <<journals, fence, schema, image, running, pairs, applying, actor, stale, faults>>

Migrated ==
    /\ Executing("migrated")
    /\ migrating = NoTarget /\ schema = Migrations[actor.target]
    /\ logins' = logins \ {"migrator"}
    /\ Moved("identity")
    /\ UNCHANGED <<journals, gate, pending, maintenance, runtime, pairs, applying, stale, faults>>

(* A bug: the start of the identity service is not recorded before it starts. *)
IdentityUnrecorded ==
    /\ Executing("identity")
    /\ logins' = logins \union {"keycloak"}
    /\ Moved("keycloak")
    /\ UNCHANGED <<journals, gate, pending, maintenance, runtime, pairs, applying, stale, faults>>

(* identity(): from here only forward. *)
Identity ==
    /\ Executing("identity")
    /\ logins' = logins \union {"keycloak"}
    /\ Written([Claimed EXCEPT !.identityStarted = TRUE])
    /\ Moved("keycloak")
    /\ UNCHANGED <<planned, active, gate, pending, maintenance, runtime, pairs,
                   applying, stale, faults>>

StartKeycloak ==
    /\ Executing("keycloak")
    /\ image' = [image EXCEPT !["keycloak"] = actor.target]
    /\ running' = running \union {"keycloak"}
    /\ Moved("replace")
    /\ UNCHANGED <<journals, fence, schema, migrating, pairs, applying, stale, faults>>

(* A bug: the superseded containers are not replaced before anything can log in. *)
ReplaceNothing ==
    /\ Executing("replace")
    /\ Moved("activate")
    /\ UNCHANGED <<journals, fence, runtime, pairs, applying, stale, faults>>

(* replace_superseded(): no superseded container remains to start ... *)
Replace ==
    /\ Executing("replace")
    /\ image' = [image EXCEPT !["application"] = actor.target]
    /\ Moved("activate")
    /\ UNCHANGED <<journals, fence, schema, migrating, running, pairs, applying, stale, faults>>

(* ... and ACTIVE names the target. *)
WriteActive ==
    /\ Executing("activate")
    /\ active' = actor.target
    /\ Moved("reopen")
    /\ UNCHANGED <<journal, planned, fence, runtime, pairs, applying, stale, faults>>

(* reopen(): the record first, then what thaw() does. *)
Reopen ==
    /\ Executing("reopen")
    /\ Written([Claimed EXCEPT !.reopened = TRUE])
    /\ Moved("login")
    /\ UNCHANGED <<planned, active, fence, runtime, pairs, applying, stale, faults>>

RoleLogin ==
    /\ actor.step = "login"
    /\ logins' = Roles
    /\ Moved("open")
    /\ UNCHANGED <<journals, gate, pending, maintenance, runtime, pairs, applying, stale, faults>>

OpenGate ==
    /\ actor.step = "open"
    /\ gate' = [ready |-> TRUE, pending |-> FALSE]
    /\ Moved("clear")
    /\ UNCHANGED <<journals, pending, maintenance, logins, runtime, pairs, applying, stale, faults>>

(* The end of a thaw, or of an upgrade's reopening. *)
ClearPending ==
    /\ actor.step = "clear"
    /\ pending' = NoPending
    /\ actor' = IF actor.mode = "thaw" THEN Idle ELSE [actor EXCEPT !.step = "release"]
    /\ UNCHANGED <<journals, gate, maintenance, logins, runtime, pairs, applying, stale, faults>>

(* maintenance-exit, by activate() and by abandon(). *)
Release ==
    /\ actor.step = "release"
    /\ maintenance \in {0, Claimed.run}
    /\ maintenance' = 0
    /\ Moved(IF actor.mode = "abandon" THEN "record" ELSE "start")
    /\ UNCHANGED <<journals, gate, pending, logins, runtime, pairs, applying, stale, faults>>

StartTarget ==
    /\ Executing("start")
    /\ running' = Services
    /\ Moved("finish")
    /\ UNCHANGED <<journals, fence, schema, migrating, image, pairs, applying, stale, faults>>

(* smoke() and finish(): ACTIVE again, and the outcome. *)
Finish ==
    /\ Executing("finish")
    /\ migrating = NoTarget
    /\ active' = actor.target
    /\ Written([Claimed EXCEPT !.status = "complete"])
    /\ actor' = Idle
    /\ UNCHANGED <<planned, fence, runtime, pairs, applying, stale, faults>>

-----------------------------------------------------------------------------
(* Failures.                                                               *)

InExecute == actor.mode = "execute" /\ actor.step \in
    {"migrate", "migrator", "migrated", "identity", "keycloak", "replace", "activate", "reopen",
     "login", "open", "clear", "release", "start", "finish"}

(* The checks at the start of migrate() or of the release refuse. *)
Refused ==
    \/ Executing("migrate") /\ (migrating # NoTarget \/ schema > Migrations[actor.target])
    \/ Executing("release") /\ maintenance \notin {0, Claimed.run}

Failing == actor' = [actor EXCEPT !.mode = "fail", !.step = "quiesce"]

(* A step of execute() raises: fail() fences again. *)
Fail ==
    /\ InExecute
    /\ \/ Refused /\ UNCHANGED faults
       \/ faults < MaxFaults /\ faults' = faults + 1
    /\ Failing
    /\ UNCHANGED <<journals, fence, runtime, pairs, applying, stale>>

(* The cleanup raises: containment is inconclusive, and the failure is recorded all the same. *)
CleanupFails ==
    /\ actor.mode = "fail" /\ actor.step # "record"
    /\ faults < MaxFaults /\ faults' = faults + 1
    /\ Moved("record")
    /\ UNCHANGED <<journals, fence, runtime, pairs, applying, stale>>

(* A command dies: its lease goes with it. *)
Die ==
    /\ actor # Idle
    /\ faults < MaxFaults /\ faults' = faults + 1
    /\ actor' = Idle
    /\ applying' = [t \in Targets |-> IF t = actor.target THEN NoApply ELSE applying[t]]
    /\ UNCHANGED <<journals, fence, runtime, pairs, stale>>

Record ==
    /\ actor.step = "record"
    /\ Written([Claimed EXCEPT !.status = IF actor.mode = "fail" THEN "failed" ELSE "abandoned"])
    /\ actor' = Idle
    /\ UNCHANGED <<planned, active, fence, runtime, pairs, applying, stale, faults>>

(* --resume: fence again, then the same steps. *)
Resume(t) ==
    /\ actor = Idle
    /\ t \in Unfinished /\ t \in planned
    /\ migrating = NoTarget
    /\ journal[t].reopened \/ FenceContinuous(journal[t])
    /\ journal' = [journal EXCEPT ![t].status = "running"]
    /\ actor' = [mode |-> "execute", target |-> t, step |-> "quiesce"]
    /\ UNCHANGED <<planned, active, fence, runtime, pairs, applying, stale, faults>>

(* The identity service's own schema is compared too; here no revision changes it. *)
Abandonable(t) ==
    /\ actor = Idle /\ t \in Unfinished
    /\ ~journal[t].identityStarted /\ journal[t].predecessor = NoTarget
    /\ migrating = NoTarget
    /\ schema = pairs[journal[t].backup].schema

(* --abandon: back to the backup's own fence ... *)
Abandon(t) ==
    /\ Abandonable(t)
    /\ FenceContinuous(journal[t])
    /\ actor' = [mode |-> "abandon", target |-> t, step |-> "quiesce"]
    /\ UNCHANGED <<journals, fence, runtime, pairs, applying, stale, faults>>

(* ... unless others wrote since, when the fence is left as it is. *)
AbandonStale(t) ==
    /\ Abandonable(t)
    /\ ~FenceContinuous(journal[t])
    /\ journal' = [journal EXCEPT ![t].status = "abandoned"]
    /\ UNCHANGED <<planned, active, fence, runtime, pairs, applying, actor, stale, faults>>

-----------------------------------------------------------------------------
Fencing == Quiesce \/ Drain \/ Mark \/ Enter \/ FenceRefused
Others == Backup \/ PublishBackup \/ Thaw \/ StartServices \/ Write
Migrating == Migrate \/ StartMigration \/ ApplyMigration \/ MigrationEnds \/ Migrated
Replacing == Identity \/ StartKeycloak \/ Replace \/ WriteActive
Reopening == Reopen \/ RoleLogin \/ OpenGate \/ ClearPending \/ Release \/ StartTarget \/ Finish
Failures == Fail \/ CleanupFails \/ Die \/ Record

Next ==
    \/ Fencing \/ Others \/ Migrating \/ Replacing \/ Reopening \/ Failures
    \/ WritePlan \/ CloseClaimed \/ Supersede
    \/ \E t \in Targets :
        \/ Prepare(t) \/ ApplyRefused(t) \/ Claim(t) \/ ClaimFix(t)
        \/ Resume(t) \/ Abandon(t) \/ AbandonStale(t)
        \/ \E p \in Targets : PrepareFix(t, p)

(* A command that runs goes on, a migration container runs to its end, and an operator who
   finds an unfinished upgrade resumes it, or abandons it when that is refused. *)
Progress == Fencing \/ PublishBackup \/ Migrating \/ Replacing \/ Reopening \/ Record
            \/ WritePlan \/ CloseClaimed \/ Supersede \/ (Refused /\ Fail)

Spec == Init /\ [][Next]_vars

FairSpec ==
    /\ Spec
    /\ WF_vars(Progress)
    /\ \A t \in Targets : SF_vars(Resume(t)) /\ SF_vars(Abandon(t) \/ AbandonStale(t))

-----------------------------------------------------------------------------
(* What the upgrade promises.                                              *)

(* Every other upgrade came before t: none has claimed t's pair or a later one, as a forward
   fix of t does, or another --apply that looked for unfinished upgrades before t was claimed. *)
Alone(t) ==
    \A u \in Targets \ {t} :
        \/ journal[u].status \in {"none", "abandoned"}
        \/ journal[u].status = "complete" /\ journal[u].backup < journal[t].backup

(* While an upgrade that starts from its own pair has not reopened, and acts on the databases
   or the containers, the product has written nothing after the pair: whatever thaws, backups,
   deaths and resumptions came before, that pair is the recovery point.  (Once another upgrade
   overlaps it, both may be resumed: see NoDowngrade.) *)
PairIsRecoveryPoint ==
    \A t \in Targets :
        /\ actor.mode = "execute" /\ actor.target = t
        /\ actor.step \in {"migrate", "migrator", "migrated", "identity", "keycloak", "replace",
                           "activate", "reopen"}
        /\ journal[t].predecessor = NoTarget /\ Alone(t) /\ ~journal[t].reopened
        => journal[t].backup \notin stale

(* Whoever finds the gate open finds containers of the revision whose migrations the database
   has: no interruption lets a superseded application start on an advanced schema. *)
OpenGateFindsItsSchema == GateOpen => Migrations[image["application"]] = schema

(* An abandoned target has left nothing behind: none of its containers exists, and its
   migration container does not run. *)
AbandonedLeftNothing ==
    \A t \in Targets : journal[t].status = "abandoned" =>
        migrating # t /\ \A s \in Services : image[s] # t

FixClaimed == \E u \in Targets : journal[u].predecessor # NoTarget

(* The active revision never goes back, whatever order upgrades are prepared, claimed and
   resumed in, by an upgrade that no other overlaps, as long as no forward fix was claimed.
   (A fix reads the journal of its predecessor before it takes the lease: one that claims it
   once the predecessor was abandoned and claimed again runs under the same fence, and may
   complete, on the earlier pair, between two interruptions of the later claim.) *)
NoDowngradeWhenAlone ==
    [][active' >= active \/ ~Alone(active') \/ FixClaimed]_vars

(* An upgrade that was interrupted ends, if no other overlaps it and no forward fix was
   claimed: commands that are resumed, or abandoned where that is allowed, do not go round in
   circles. *)
UpgradeSettles ==
    \A t \in Targets :
        t \in Unfinished /\ journal[t].predecessor = NoTarget
            ~> t \notin Unfinished \/ ~Alone(t) \/ FixClaimed

(* What the tool says of itself: the target is strictly ahead, and a superseded image is never
   started again. *)
NoDowngrade == [][active' >= active]_vars

=============================================================================
