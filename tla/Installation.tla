---------------------------- MODULE Installation ----------------------------
(***************************************************************************)
(* The one first installation of production                                *)
(* (scripts/install_private_production.py over                             *)
(* scripts/private_production_control.py).                                 *)
(*                                                                         *)
(* A controller claims the only attempt, borrows the kernel lock of the    *)
(* recovery gate from a helper container (which hands it a duplicate of    *)
(* the locked descriptor), opens the gate, starts the services, and ends   *)
(* in a handshake that leaves the gate open and the lease released.  Every *)
(* failure fences the gate and stops exactly this attempt's containers,    *)
(* under the same lock.  A second command only reconciles what an          *)
(* interrupted attempt left, and the owner's acceptance                     *)
(* (scripts/private_production_acceptance.py) makes an installed runtime    *)
(* restart by itself.                                                       *)
(***************************************************************************)
EXTENDS Naturals, FiniteSets

CONSTANTS
    Services,    \* the services the attempt starts
    Guarded,     \* those whose entry point asks the gate first
    MaxFaults    \* bound: processes killed, writes and host commands that fail

ASSUME InstallationAssumption ==
    Guarded \subseteq Services /\ MaxFaults \in Nat

VARIABLES
    ctl,     \* the command: its step, its lease, whether it was cancelled
    helper,  \* the helper of its lease
    orphan,  \* whether a helper whose stdin is closed still has to fence the gate
    holders, \* the descriptors of the locked ACTOR.lock
    gate,    \* the volume of the gate
    record,  \* the durable claims and journals under the administration directory
    late,    \* the services a request of the command to the daemon may still start
    asked,   \* those a request of the acceptance may still start
    running, \* the attempt's containers that run
    verdict, \* what the last shutdown concluded
    accept,  \* the acceptance: its command, its record, whether the services restart, and
             \* whether a request outlived its command
    faults   \* bound counter

vars == <<ctl, helper, orphan, holders, gate, record, late, asked, running, verdict, accept,
          faults>>
lease == <<helper, orphan, holders>>
host == <<late, asked, running, verdict, accept>>

Resting == {"idle", "dead", "ended", "installed"}

InstallationInit ==
    /\ ctl = [pc |-> "idle", command |-> "install", lease |-> "initial", next |-> "idle",
              cancel |-> FALSE, uncertain |-> FALSE, torn |-> FALSE]
    /\ helper = "none" /\ orphan = FALSE /\ holders = {}
    /\ gate = [ready |-> FALSE, pending |-> FALSE, maintenance |-> FALSE, owner |-> "none"]
    /\ record = [intent |-> FALSE, runtime |-> FALSE, outcome |-> "none", sidecar |-> "none"]
    /\ late = {} /\ asked = {} /\ running = {} /\ verdict = "none"
    /\ accept = [pc |-> "none", restart |-> FALSE, status |-> "none", stray |-> FALSE]
    /\ faults = 0

At(step) == ctl.pc = step
Goto(step) == ctl' = [ctl EXCEPT !.pc = step]
Open == gate.ready /\ ~gate.pending /\ ~gate.maintenance

(* One more thing that goes wrong. *)
Fault == faults < MaxFaults /\ faults' = faults + 1
NoFault == UNCHANGED faults

-----------------------------------------------------------------------------
(* The attempt's claim.                                                    *)

(* The intent is created exclusively: there is one attempt, ever. *)
ClaimIntent ==
    /\ At("idle") /\ ~record.intent
    /\ record' = [record EXCEPT !.intent = TRUE]
    /\ Goto("intent")
    /\ UNCHANGED <<lease, gate, host, faults>>

(* The journal and the labelled runtime configuration. *)
ClaimJournal ==
    /\ At("intent") /\ ~ctl.cancel
    /\ record' = [record EXCEPT !.runtime = TRUE, !.outcome = "running"]
    /\ Goto("claimed")
    /\ UNCHANGED <<lease, gate, host, faults>>

(* The images are pulled; the lease is asked for. *)
Pull ==
    /\ At("claimed") /\ ~ctl.cancel
    /\ ctl' = [ctl EXCEPT !.pc = "asking", !.lease = "initial"]
    /\ UNCHANGED <<lease, gate, record, host, faults>>

(* Nothing to shut down yet. *)
ClaimFails ==
    /\ ctl.pc \in {"intent", "claimed"}
    /\ Goto("sidecar")
    /\ UNCHANGED <<lease, gate, record, host, faults>>

-----------------------------------------------------------------------------
(* The lease.                                                              *)

(* What the helper asks of the gate before it serves: an empty gate, or    *)
(* this attempt's, with no fence but its own.                              *)
Admits ==
    CASE ctl.lease = "initial" ->
            gate.owner = "none" /\ ~gate.ready /\ ~gate.pending /\ ~gate.maintenance
      [] ctl.lease = "reconcile" -> gate.owner # "none" /\ ~gate.maintenance

HelperLocks ==
    /\ At("asking") /\ holders = {} /\ Admits
    /\ helper' = "locked" /\ holders' = {"helper"}
    /\ gate' = IF ctl.lease = "initial" THEN [gate EXCEPT !.owner = "claimed"] ELSE gate
    /\ Goto("handoff")
    /\ UNCHANGED <<orphan, record, host, faults>>

(* A bug: the controller relies on the helper to keep the lock. *)
HandOffNothing ==
    /\ At("handoff") /\ helper = "locked"
    /\ Goto(IF ctl.lease = "initial" THEN "leased" ELSE "closing")
    /\ UNCHANGED <<lease, gate, record, host, faults>>

(* The controller receives a duplicate of the locked descriptor. *)
HandOff ==
    /\ At("handoff") /\ helper = "locked"
    /\ holders' = holders \union {"controller"}
    /\ Goto(IF ctl.lease = "initial" THEN "leased" ELSE "closing")
    /\ UNCHANGED <<helper, orphan, gate, record, host, faults>>

(* A bug: the helper does not notice that its stdin is closed. *)
AbandonUnnoticed ==
    /\ helper' = "none"
    /\ UNCHANGED orphan

(* The helper's stdin is closed: it serves nobody and has to fence. *)
Abandon ==
    /\ orphan' = (orphan \/ helper # "none")
    /\ helper' = "none"

Abandoned == IF helper # "none" THEN (holders \ {"helper"}) \union {"orphan"} ELSE holders

(* A lease refused, or not handed over in time. *)
AfterClose == IF ctl.command = "install" THEN "sidecar" ELSE "ended"

LeaseFails ==
    /\ ctl.pc \in {"asking", "handoff"}
    /\ Abandon /\ holders' = Abandoned
    /\ Goto(AfterClose)
    /\ verdict' = IF ctl.lease = "reconcile" THEN "inconclusive" ELSE verdict
    /\ UNCHANGED <<gate, record, late, asked, running, accept, faults>>

(* The helper's finally clause: the gate closes before the lock is free. *)
HelperFences ==
    /\ orphan
    /\ gate' = [gate EXCEPT !.ready = FALSE, !.pending = TRUE, !.owner = "interrupted"]
    /\ orphan' = FALSE /\ holders' = holders \ {"orphan"}
    /\ UNCHANGED <<ctl, helper, record, host, faults>>

(* The controller closes the helper's stdin, then its own descriptor. *)
Leave(next) == ctl' = [ctl EXCEPT !.pc = "leaving", !.next = next]

DropDescriptor ==
    /\ At("leaving")
    /\ holders' = holders \ {"controller"}
    /\ ctl' = [ctl EXCEPT !.pc = ctl.next,
                          !.lease = IF ctl.next = "asking" THEN "reconcile" ELSE @]
    /\ UNCHANGED <<helper, orphan, gate, record, host, faults>>

-----------------------------------------------------------------------------
(* The installation, under the lease.                                      *)

Initialize ==
    /\ At("leased") /\ ~ctl.cancel
    /\ gate' = [gate EXCEPT !.ready = TRUE, !.pending = FALSE]
    /\ Goto("up")
    /\ UNCHANGED <<lease, record, host, faults>>

(* up() and migrate(): the gate is open, then the daemon is asked for a service. *)
RequestUp ==
    /\ At("up") /\ ~ctl.cancel /\ Open
    /\ \E s \in Services \ running : late' = late \union {s}
    /\ Goto("waiting")
    /\ UNCHANGED <<lease, gate, record, asked, running, verdict, accept, faults>>

(* The daemon serves a request, whoever still waits for it. *)
DaemonStarts ==
    /\ \E s \in late \union asked :
          /\ late' = late \ {s} /\ asked' = asked \ {s}
          /\ running' = IF s \in Guarded /\ (~gate.ready \/ gate.pending)
                        THEN running ELSE running \union {s}
    /\ UNCHANGED <<ctl, lease, gate, record, verdict, accept, faults>>

(* ... or drops one nobody waits for. *)
DaemonDrops ==
    /\ \/ /\ ~At("waiting")
          /\ \E s \in late : late' = late \ {s}
          /\ UNCHANGED asked
       \/ /\ accept.pc # "waiting"
          /\ \E s \in asked : asked' = asked \ {s}
          /\ UNCHANGED late
    /\ UNCHANGED <<ctl, lease, gate, record, running, verdict, accept, faults>>

UpDone ==
    /\ At("waiting") /\ ~ctl.cancel /\ late = {}
    /\ Goto("up")
    /\ UNCHANGED <<lease, gate, record, host, faults>>

(* run() times out or is cancelled: the daemon may still work on the request. *)
UpAbandoned ==
    /\ At("waiting")
    /\ ctl' = [ctl EXCEPT !.pc = "closing", !.uncertain = TRUE]
    /\ UNCHANGED <<lease, gate, record, host, faults>>

(* smoke(): everything runs, behind an open gate. *)
Smoke ==
    /\ At("up") /\ ~ctl.cancel /\ Open /\ running = Services
    /\ Goto("smoked")
    /\ UNCHANGED <<lease, gate, record, host, faults>>

Prepare ==
    /\ At("smoked")
    /\ record' = [record EXCEPT !.outcome = "prepared"]
    /\ Goto("prepared")
    /\ UNCHANGED <<lease, gate, host, faults>>

(* Any step under the lease can fail, and fails once cancelled. *)
InstallFails ==
    /\ ctl.pc \in {"leased", "up", "smoked"}
    /\ Goto("closing")
    /\ UNCHANGED <<lease, gate, record, host, faults>>

-----------------------------------------------------------------------------
(* The handshake.                                                          *)

Commit ==
    /\ At("prepared") /\ ~ctl.cancel
    /\ Goto("commit")
    /\ UNCHANGED <<lease, gate, record, host, faults>>

HelperCommits ==
    /\ At("commit") /\ helper = "locked"
    /\ helper' = "committed"
    /\ gate' = [gate EXCEPT !.owner = "commit-acknowledged"]
    /\ UNCHANGED <<ctl, orphan, holders, record, host, faults>>

Committed ==
    /\ At("commit") /\ helper = "committed"
    /\ Goto("release")
    /\ UNCHANGED <<lease, gate, record, host, faults>>

HelperReleases ==
    /\ At("release") /\ helper = "committed"
    /\ helper' = "none" /\ holders' = holders \ {"helper"}
    /\ gate' = [gate EXCEPT !.owner = "released"]
    /\ UNCHANGED <<ctl, orphan, record, host, faults>>

Released ==
    /\ At("release") /\ helper = "none" /\ gate.owner = "released"
    /\ holders' = holders \ {"controller"}
    /\ Goto("exited")
    /\ UNCHANGED <<helper, orphan, gate, record, host, faults>>

(* Cancelled before COMMIT, or an acknowledgement does not come: the lease *)
(* is gone and the attempt is shut down under a new one.                   *)
HandshakeFails ==
    /\ ctl.pc \in {"commit", "release"} \/ (At("prepared") /\ ctl.cancel)
    /\ Abandon /\ holders' = Abandoned
    /\ Leave("asking")
    /\ UNCHANGED <<gate, record, host, faults>>

RecordSuccess ==
    /\ At("exited") /\ ~ctl.cancel
    /\ record' = [record EXCEPT !.outcome = "success"]
    /\ Goto("installed")
    /\ UNCHANGED <<lease, gate, host, faults>>

(* Cancelled after the release, or the write fails, before or after it     *)
(* replaces the journal.                                                   *)
SuccessFails ==
    /\ At("exited")
    /\ \/ ctl.cancel /\ NoFault /\ UNCHANGED record
       \/ /\ Fault
          /\ \E o \in {"prepared", "success"} : record' = [record EXCEPT !.outcome = o]
    /\ ctl' = [ctl EXCEPT !.pc = "asking", !.lease = "reconcile"]
    /\ UNCHANGED <<lease, gate, host>>

-----------------------------------------------------------------------------
(* close(): under the lease, fence, then stop exactly this attempt.        *)

(* FENCE: its own fence only, never over identity maintenance. *)
CloseFence ==
    /\ At("closing")
    /\ \/ /\ ~gate.maintenance
          /\ gate' = [gate EXCEPT !.ready = FALSE, !.pending = TRUE]
          /\ Goto("journal") /\ NoFault
          /\ UNCHANGED <<lease, record, host>>
       \/ /\ gate.maintenance \/ faults < MaxFaults
          /\ IF gate.maintenance THEN NoFault ELSE Fault
          /\ Abandon /\ holders' = Abandoned
          /\ Leave(AfterClose) /\ verdict' = "inconclusive"
          /\ UNCHANGED <<gate, record, late, asked, running, accept>>

(* The recovery journal; a write that fails does not skip the stop. *)
CloseJournal ==
    /\ At("journal")
    /\ \/ Goto("stopping") /\ NoFault
       \/ ctl' = [ctl EXCEPT !.pc = "stopping", !.torn = TRUE] /\ Fault
    /\ UNCHANGED <<lease, gate, record, host>>

(* stop_owned(): the containers of the inventory are stopped, and killed. *)
CloseStop ==
    /\ At("stopping")
    /\ running' = {}
    /\ Goto("verifying")
    /\ UNCHANGED <<lease, gate, record, late, asked, verdict, accept, faults>>

(* The last inventory; what may be in flight stays inconclusive. *)
CloseVerify ==
    /\ At("verifying")
    /\ verdict' = IF running = {} /\ ~ctl.uncertain /\ ~ctl.torn
                  THEN "confirmed" ELSE "inconclusive"
    /\ Abandon /\ holders' = Abandoned
    /\ Leave(AfterClose)
    /\ UNCHANGED <<gate, record, late, asked, running, accept, faults>>

(* failed_attempt(): the sidecar, then the journal; each write may fail. *)
WriteSidecar ==
    /\ At("sidecar")
    /\ \/ /\ record' = [record EXCEPT !.sidecar =
                           IF ctl.uncertain THEN "inconclusive" ELSE "observed"]
          /\ NoFault
       \/ Fault /\ UNCHANGED record
    /\ Goto("failure")
    /\ UNCHANGED <<lease, gate, host>>

WriteFailure ==
    /\ At("failure")
    /\ \/ record' = [record EXCEPT !.outcome = "failure"] /\ NoFault
       \/ Fault /\ UNCHANGED record
    /\ Goto("ended")
    /\ UNCHANGED <<lease, gate, host>>

-----------------------------------------------------------------------------
(* The second command, signals, and the rest of the host.                  *)

(* A bug: a journal left running or prepared says nothing of the daemon. *)
ReconcileCertain ==
    /\ ctl.pc \in {"dead", "ended"} /\ record.intent /\ record.runtime
    /\ record.outcome # "success" \/ record.sidecar # "none"
    /\ ctl' = [pc |-> "asking", command |-> "reconcile", lease |-> "reconcile", next |-> "idle",
               cancel |-> FALSE, uncertain |-> record.sidecar = "inconclusive", torn |-> FALSE]
    /\ UNCHANGED <<lease, gate, record, host, faults>>

(* reconcile_interrupted(): the earlier process is gone, the attempt did   *)
(* not succeed; it stops, and never starts.                                *)
Reconcile ==
    /\ ctl.pc \in {"dead", "ended"} /\ record.intent /\ record.runtime
    /\ record.outcome # "success" \/ record.sidecar # "none"
    /\ ctl' = [pc |-> "asking", command |-> "reconcile", lease |-> "reconcile", next |-> "idle",
               cancel |-> FALSE, torn |-> FALSE,
               uncertain |-> IF record.sidecar # "none" THEN record.sidecar = "inconclusive"
                             ELSE record.outcome \in {"running", "prepared"}]
    /\ UNCHANGED <<lease, gate, record, host, faults>>

(* A signal, the session's end, or the helper found gone. *)
Cancel ==
    /\ ctl.pc \notin Resting /\ ~ctl.cancel
    /\ ctl' = [ctl EXCEPT !.cancel = TRUE]
    /\ UNCHANGED <<lease, gate, record, host, faults>>

(* SIGKILL: the descriptors close, the request the command waited for does not. *)
ControllerDies ==
    /\ ctl.pc \notin Resting /\ Fault
    /\ Abandon /\ holders' = Abandoned \ {"controller"}
    /\ ctl' = [ctl EXCEPT !.pc = "dead", !.cancel = FALSE, !.uncertain = FALSE, !.torn = FALSE]
    /\ UNCHANGED <<gate, record, host>>

(* The helper's container is killed: its finally clause does not run. *)
HelperDies ==
    /\ Fault
    /\ \/ /\ helper # "none"
          /\ helper' = "none" /\ holders' = holders \ {"helper"} /\ UNCHANGED orphan
       \/ /\ orphan
          /\ orphan' = FALSE /\ holders' = holders \ {"orphan"} /\ UNCHANGED helper
    /\ UNCHANGED <<ctl, gate, record, host>>

(* Identity maintenance of an open runtime, under the same lock. *)
MaintenanceEnters ==
    /\ holders = {} /\ gate.ready /\ ~gate.pending /\ ~gate.maintenance
    /\ gate' = [gate EXCEPT !.maintenance = TRUE]
    /\ UNCHANGED <<ctl, lease, record, host, faults>>

MaintenanceExits ==
    /\ holders = {} /\ gate.maintenance
    /\ gate' = [gate EXCEPT !.maintenance = FALSE]
    /\ UNCHANGED <<ctl, lease, record, host, faults>>

-----------------------------------------------------------------------------
(* The acceptance of the installed runtime.                                *)

(* load(): the evidence of one completed attempt, read before the lock. *)
AcceptLoads ==
    /\ accept.pc = "none"
    /\ record.outcome = "success" /\ record.sidecar = "none"
    /\ accept' = [accept EXCEPT !.pc = "loaded"]
    /\ UNCHANGED <<ctl, lease, gate, record, late, asked, running, verdict, faults>>

(* apply() under the lock: an open gate, released by this attempt, and the *)
(* services as they were reviewed, unless an application is resumed.       *)
AcceptBegins ==
    /\ accept.pc = "loaded" /\ holders = {}
    /\ Open /\ gate.owner = "released"
    /\ accept.status # "none" \/ running = Services
    /\ holders' = {"other"}
    /\ accept' = [accept EXCEPT !.pc = "held", !.status = "applying"]
    /\ UNCHANGED <<ctl, helper, orphan, gate, record, late, asked, running, verdict, faults>>

(* up(): the daemon is asked to recreate a service, or to start one that stopped. *)
AcceptRequest ==
    /\ accept.pc = "held"
    /\ \E s \in Services :
          asked' = asked \union {s} /\ running' \in {running, running \ {s}}
    /\ accept' = [accept EXCEPT !.pc = "waiting"]
    /\ UNCHANGED <<ctl, lease, gate, record, late, verdict, faults>>

AcceptAnswered ==
    /\ accept.pc = "waiting" /\ asked = {}
    /\ accept' = [accept EXCEPT !.pc = "held"]
    /\ UNCHANGED <<ctl, lease, gate, record, late, asked, running, verdict, faults>>

(* Everything runs: the policy of the others. *)
AcceptUp ==
    /\ accept.pc = "held" /\ running = Services
    /\ accept' = [accept EXCEPT !.pc = "up", !.restart = TRUE]
    /\ UNCHANGED <<ctl, lease, gate, record, late, asked, running, verdict, faults>>

AcceptApplied ==
    /\ accept.pc = "up"
    /\ accept' = [accept EXCEPT !.pc = "none", !.status = "applied"]
    /\ holders' = {}
    /\ UNCHANGED <<ctl, helper, orphan, gate, record, late, asked, running, verdict, faults>>

(* Refused, failing, timed out or dead at any step: the record stays as it *)
(* is, and so does a request the daemon still works on.                    *)
AcceptFails ==
    /\ accept.pc # "none"
    /\ accept' = [accept EXCEPT !.pc = "none", !.stray = @ \/ asked # {}]
    /\ holders' = holders \ {"other"}
    /\ UNCHANGED <<ctl, helper, orphan, gate, record, late, asked, running, verdict, faults>>

(* revert_restart(): the record, then the policy; also behind a closed     *)
(* gate.  It may fail in between.                                          *)
Revert ==
    /\ accept.status # "none" /\ accept.pc = "none" /\ holders = {} /\ ~gate.maintenance
    /\ \E r \in {accept.restart, FALSE} :
          accept' = [accept EXCEPT !.status = "restart-reverted", !.restart = r]
    /\ UNCHANGED <<ctl, lease, gate, record, late, asked, running, verdict, faults>>

Controller ==
    \/ ClaimJournal \/ Pull \/ ClaimFails \/ HelperLocks \/ HandOff \/ LeaseFails \/ DropDescriptor
    \/ Initialize \/ RequestUp \/ UpDone \/ UpAbandoned \/ Smoke \/ Prepare \/ InstallFails
    \/ Commit \/ Committed \/ Released \/ HandshakeFails \/ RecordSuccess \/ SuccessFails
    \/ CloseFence \/ CloseJournal \/ CloseStop \/ CloseVerify \/ WriteSidecar \/ WriteFailure
Helper == HelperCommits \/ HelperReleases \/ HelperFences
InstallationNext ==
    \/ ClaimIntent \/ Controller \/ Helper \/ DaemonStarts \/ DaemonDrops \/ Reconcile \/ Cancel
    \/ ControllerDies \/ HelperDies \/ MaintenanceEnters \/ MaintenanceExits
    \/ AcceptLoads \/ AcceptBegins \/ AcceptRequest \/ AcceptAnswered \/ AcceptUp
    \/ AcceptApplied \/ AcceptFails \/ Revert

InstallationSpec == InstallationInit /\ [][InstallationNext]_vars

(* A living command goes on: each of its waits has a timeout.  A helper    *)
(* that lives reads its stdin.  Nothing makes an operator reconcile.       *)
InstallationFairSpec == InstallationSpec /\ WF_vars(Controller) /\ WF_vars(Helper)

-----------------------------------------------------------------------------
(* Properties.                                                             *)

(* Until the attempt is prepared, one lost process, one failed write or one *)
(* failed command never leaves its gate open with nobody holding the lock:  *)
(* another recovery actor would take the half-built runtime for an          *)
(* installed one.                                                           *)
UnpreparedGateIsHeld ==
    faults <= 1 /\ gate.ready /\ gate.owner # "released" /\ record.outcome = "running"
        => holders # {}

(* A shutdown that concludes confirmed is the end: no container of the      *)
(* attempt runs, and no request in flight can still start one, whatever     *)
(* the evidence it was concluded from was left by.  There are two           *)
(* exceptions.  A failure recorded in the journal alone: that a command was *)
(* uncertain is only in the sidecar, whose write failed.  And a request     *)
(* that outlived the acceptance that made it, of which nothing is recorded  *)
(* where a shutdown looks.                                                  *)
ConfirmedIsFinal ==
    verdict = "confirmed" /\ ~(record.outcome = "failure" /\ record.sidecar = "none")
                          /\ ~accept.stray
        => running = {} /\ late = {} /\ asked = {}

(* Until it is prepared, a gate that was opened for the attempt is closed   *)
(* again, or the attempt goes on to be prepared, whatever single process    *)
(* dies or single write fails.                                              *)
OpenGateSettles ==
    (gate.ready /\ record.outcome = "running" /\ faults <= 1)
        ~> (~gate.ready \/ record.outcome = "prepared" \/ faults > 1)
=============================================================================
