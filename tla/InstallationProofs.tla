------------------------- MODULE InstallationProofs -------------------------
(***************************************************************************)
(* The two invariants of the first installation, for any services and any  *)
(* number of faults.                                                       *)
(*                                                                         *)
(* Both follow from who holds the lock of the gate.  Every descriptor of   *)
(* it belongs to a process that is at a step where it has one, so that the *)
(* acceptance and the command are never inside together, and a gate that   *)
(* is open for an unfinished attempt is left to a command that will close  *)
(* it or to a helper that has to.  What a shutdown concludes rests on the  *)
(* evidence: as long as the daemon may still serve a request, the command  *)
(* knows it, or the records it leaves make the next command uncertain.     *)
(***************************************************************************)
EXTENDS Installation, TLAPS

(* The steps of a command that has the lock, and of the attempt itself. *)
Attempting == {"leased", "up", "waiting", "smoked"}
Handshaking == {"prepared", "commit", "release"}
Closing == {"closing", "journal", "stopping", "verifying"}
Locked == Attempting \union Handshaking \union Closing \union {"leaving"}
Early == {"idle", "intent", "claimed"}
Steps == Early \union Locked \union {"asking", "handoff", "exited", "sidecar", "failure",
                                     "ended", "installed", "dead"}

Initially == ctl.pc \in {"asking", "handoff"} /\ ctl.lease = "initial"

Commands == [pc : Steps, command : {"install", "reconcile"}, lease : {"initial", "reconcile"},
             next : {"idle", "asking", "sidecar", "ended"}, cancel : BOOLEAN,
             uncertain : BOOLEAN, torn : BOOLEAN]
Gates == [ready : BOOLEAN, pending : BOOLEAN, maintenance : BOOLEAN,
          owner : {"none", "claimed", "interrupted", "commit-acknowledged", "released"}]
Records == [intent : BOOLEAN, runtime : BOOLEAN,
            outcome : {"none", "running", "prepared", "success", "failure"},
            sidecar : {"none", "observed", "inconclusive"}]
Acceptances == [pc : {"none", "loaded", "held", "waiting", "up"}, restart : BOOLEAN,
                stray : BOOLEAN,
                status : {"none", "applying", "applied", "restart-reverted"}]

InstallationTypes ==
    /\ ctl \in Commands
    /\ helper \in {"none", "locked", "committed"}
    /\ orphan \in BOOLEAN
    /\ holders \subseteq {"helper", "controller", "orphan", "other"}
    /\ gate \in Gates
    /\ record \in Records
    /\ late \subseteq Services
    /\ asked \subseteq Services
    /\ running \subseteq Services
    /\ verdict \in {"none", "confirmed", "inconclusive"}
    /\ accept \in Acceptances
    /\ faults \in Nat

(* Where a command goes once it has left the lease. *)
Onward ==
    /\ ctl.pc = "leaving" => ctl.next # "idle"
    /\ ctl.command = "reconcile" =>
        /\ ctl.lease = "reconcile"
        /\ ctl.pc \in Closing \union {"asking", "handoff", "leaving", "ended", "dead"}
        /\ ctl.pc = "leaving" => ctl.next = "ended"

(* Who has a descriptor of the lock. *)
Descriptors ==
    /\ "helper" \in holders <=> helper # "none"
    /\ "orphan" \in holders <=> orphan
    /\ "controller" \in holders <=> ctl.pc \in Locked
    /\ "other" \in holders <=> accept.pc \in {"held", "waiting", "up"}
    /\ "other" \in holders => holders = {"other"}
    /\ helper # "none" => ~orphan /\ ctl.pc \in (Locked \ {"leaving"}) \union {"handoff"}
    /\ gate.maintenance => holders = {}
    /\ faults = 0 /\ ctl.pc \in Attempting \union {"closing"} => helper # "none"

(* A gate that is open for an unfinished attempt is left to somebody. *)
OpenGateIsLeft ==
    /\ ctl.pc \in Early => ~gate.ready
    /\ faults <= 1 /\ gate.ready /\ record.outcome = "running" =>
        orphan \/ ctl.pc \in Attempting \union {"closing"}
    /\ faults = 0 /\ gate.ready /\ record.outcome = "running" =>
        ctl.pc \in Attempting \union {"closing"}

(* A shutdown is after the attempt, and behind a fence that stays. *)
ShutDown ==
    /\ ctl.pc \in {"journal", "stopping", "verifying"} => gate.pending
    /\ accept.pc \in {"held", "waiting"} => ~gate.pending
    /\ verdict # "none" =>
        ctl.pc \notin Early \union Attempting \union Handshaking /\ ~Initially
    /\ verdict = "confirmed" => gate.pending

(* A request of the acceptance is waited for, or known to have outlived it. *)
Outlived == asked # {} => accept.stray \/ accept.pc = "waiting"

(* What the records say of a request that the daemon may still serve. *)
Unrecorded == record.outcome = "failure" /\ record.sidecar = "none"
Doubt == record.sidecar = "inconclusive"
         \/ (record.sidecar = "none" /\ record.outcome \in {"running", "prepared"})

Evidence ==
    /\ ctl.pc \in Early => record.sidecar = "none"
    /\ ctl.pc \in Attempting \union {"claimed"} \/ Initially =>
        record.outcome = "running" /\ record.sidecar = "none"
    /\ record.outcome = "failure" => ctl.pc \in {"ended", "dead"} \/ ctl.command = "reconcile"
    /\ late # {} =>
        /\ Unrecorded \/ Doubt
        /\ Unrecorded \/ ctl.pc \in {"waiting", "dead", "ended"}
                      \/ (ctl.uncertain /\ ctl.pc \notin Attempting \union {"exited", "installed"}
                            \union Handshaking \union Early)
    /\ Initially \/ ctl.pc \in Early \union Handshaking \union {"exited", "installed", "up",
                                                           "smoked", "leased"} => late = {}

InstallationInv ==
    /\ InstallationTypes
    /\ Onward
    /\ Descriptors
    /\ OpenGateIsLeft
    /\ ShutDown
    /\ Outlived
    /\ Evidence
    /\ ConfirmedIsFinal

-----------------------------------------------------------------------------
(* The steps.                                                              *)

(* Before the first command nothing is open, held, served or running. *)
LEMMA InitInstallationInv == InstallationInit => InstallationInv
<1> SUFFICES ASSUME InstallationInit PROVE InstallationInv
  OBVIOUS
<1> USE DEF InstallationInit, Steps, Early, Locked, Attempting, Handshaking, Closing, Initially
<1>1. InstallationTypes
  BY DEF InstallationTypes, Commands, Gates, Records, Acceptances
<1>2. Onward /\ Descriptors /\ OpenGateIsLeft
  BY DEF Onward, Descriptors, OpenGateIsLeft
<1>3. ShutDown /\ Outlived /\ Evidence /\ ConfirmedIsFinal
  BY DEF ShutDown, Outlived, Evidence, ConfirmedIsFinal
<1> QED
  BY <1>1, <1>2, <1>3 DEF InstallationInv

(* The command is always at one of its steps. *)
LEMMA CtlStep ==
  ASSUME ctl \in Commands, [InstallationNext]_vars
  PROVE  ctl' \in Commands
<1> USE DEF Commands, Steps, Early, Locked, Attempting, Handshaking, Closing, At, Goto
<1>1. CASE ClaimIntent \/ ClaimJournal \/ ClaimFails \/ HelperLocks \/ HandOff \/ LeaseFails \/
          Initialize \/ RequestUp \/ UpDone \/ Smoke \/ Prepare \/ InstallFails \/ Commit \/
          Committed \/ Released \/ RecordSuccess \/ CloseStop \/ WriteSidecar \/ WriteFailure
  BY <1>1 DEF ClaimIntent, ClaimJournal, ClaimFails, HelperLocks, HandOff, LeaseFails,
     Initialize, RequestUp, UpDone, Smoke, Prepare, InstallFails, Commit, Committed, Released,
     RecordSuccess, CloseStop, WriteSidecar, WriteFailure, AfterClose
<1>2. CASE Pull \/ DropDescriptor \/ UpAbandoned \/ HandshakeFails \/ SuccessFails
  <2>1. CASE Pull \/ UpAbandoned
    BY <2>1 DEF Pull, UpAbandoned
  <2>2. CASE DropDescriptor
    BY <2>2 DEF DropDescriptor
  <2>3. CASE HandshakeFails
    BY <2>3 DEF HandshakeFails, Leave
  <2>4. CASE SuccessFails
    BY <2>4 DEF SuccessFails
  <2> QED
    BY <1>2, <2>1, <2>2, <2>3, <2>4
<1>3. CASE CloseFence \/ CloseVerify
  BY <1>3 DEF CloseFence, CloseVerify, Leave, AfterClose
<1>4. CASE CloseJournal
  BY <1>4 DEF CloseJournal
<1>5. CASE Cancel \/ ControllerDies
  BY <1>5 DEF Cancel, ControllerDies
<1>6. CASE Reconcile
  <2> DEFINE doubt == IF record.sidecar # "none" THEN record.sidecar = "inconclusive"
                      ELSE record.outcome \in {"running", "prepared"}
  <2>1. doubt \in BOOLEAN
    <3>1. CASE record.sidecar # "none"
      BY <3>1
    <3>2. CASE record.sidecar = "none"
      BY <3>2
    <3> QED
      BY <3>1, <3>2
  <2>2. ctl' = [pc |-> "asking", command |-> "reconcile", lease |-> "reconcile", next |-> "idle",
                cancel |-> FALSE, torn |-> FALSE, uncertain |-> doubt]
    BY <1>6 DEF Reconcile
  <2> HIDE DEF doubt
  <2> QED
    BY <2>1, <2>2
<1>7. CASE UNCHANGED ctl
  BY <1>7
<1> QED
  BY <1>1, <1>2, <1>3, <1>4, <1>5, <1>6, <1>7 DEF InstallationNext, Controller, Helper, vars,
     lease, host, HelperCommits, HelperReleases, HelperFences, DaemonStarts, DaemonDrops,
     HelperDies, MaintenanceEnters, MaintenanceExits, AcceptLoads, AcceptBegins, AcceptRequest,
     AcceptAnswered, AcceptUp, AcceptApplied, AcceptFails, Revert

(* The gate is a gate. *)
LEMMA GateStep ==
  ASSUME gate \in Gates, [InstallationNext]_vars
  PROVE  gate' \in Gates
<1> USE DEF Gates
<1>1. CASE HelperLocks
  BY <1>1 DEF HelperLocks
<1>2. CASE Initialize \/ CloseFence
  BY <1>2 DEF Initialize, CloseFence
<1>3. CASE HelperFences \/ HelperCommits \/ HelperReleases
  BY <1>3 DEF HelperFences, HelperCommits, HelperReleases
<1>4. CASE MaintenanceEnters \/ MaintenanceExits
  BY <1>4 DEF MaintenanceEnters, MaintenanceExits
<1>5. CASE UNCHANGED gate
  BY <1>5
<1> QED
  BY <1>1, <1>2, <1>3, <1>4, <1>5 DEF InstallationNext, Controller, Helper, vars, lease, host,
     ClaimIntent, ClaimJournal, Pull, ClaimFails, HandOff, LeaseFails, DropDescriptor,
     RequestUp, UpDone, UpAbandoned, Smoke, Prepare, InstallFails, Commit, Committed, Released,
     HandshakeFails, RecordSuccess, SuccessFails, CloseJournal, CloseStop, CloseVerify,
     WriteSidecar, WriteFailure, DaemonStarts, DaemonDrops, Reconcile, Cancel, ControllerDies,
     HelperDies, AcceptLoads, AcceptBegins, AcceptRequest,
     AcceptAnswered, AcceptUp, AcceptApplied, AcceptFails, Revert

(* So are the records. *)
LEMMA RecordStep ==
  ASSUME record \in Records, [InstallationNext]_vars
  PROVE  record' \in Records
<1> USE DEF Records
<1>1. CASE ClaimIntent \/ ClaimJournal
  BY <1>1 DEF ClaimIntent, ClaimJournal
<1>2. CASE Prepare \/ RecordSuccess \/ SuccessFails
  BY <1>2 DEF Prepare, RecordSuccess, SuccessFails
<1>3. CASE WriteSidecar \/ WriteFailure
  BY <1>3 DEF WriteSidecar, WriteFailure
<1>4. CASE UNCHANGED record
  BY <1>4
<1> QED
  BY <1>1, <1>2, <1>3, <1>4 DEF InstallationNext, Controller, Helper, vars, lease, host, Pull,
     ClaimFails, HelperLocks, HandOff, LeaseFails, DropDescriptor, Initialize, RequestUp,
     UpDone, UpAbandoned, Smoke, InstallFails, Commit, Committed, Released, HandshakeFails,
     CloseFence, CloseJournal, CloseStop, CloseVerify, HelperCommits, HelperReleases,
     HelperFences, DaemonStarts, DaemonDrops, Reconcile, Cancel, ControllerDies, HelperDies,
     MaintenanceEnters, MaintenanceExits, AcceptLoads, AcceptBegins, AcceptRequest,
     AcceptAnswered, AcceptUp, AcceptApplied,
     AcceptFails, Revert

(* And the acceptance. *)
LEMMA AcceptStep ==
  ASSUME accept \in Acceptances, [InstallationNext]_vars
  PROVE  accept' \in Acceptances
<1> USE DEF Acceptances
<1>1. CASE AcceptLoads \/ AcceptBegins \/ AcceptRequest \/ AcceptAnswered \/ AcceptUp
  BY <1>1 DEF AcceptLoads, AcceptBegins, AcceptRequest, AcceptAnswered, AcceptUp
<1>2. CASE AcceptApplied \/ AcceptFails
  BY <1>2 DEF AcceptApplied, AcceptFails
<1>3. CASE Revert
  BY <1>3 DEF Revert
<1>4. CASE UNCHANGED accept
  BY <1>4
<1> QED
  BY <1>1, <1>2, <1>3, <1>4 DEF InstallationNext, Controller, Helper, vars, lease, host,
     ClaimIntent, ClaimJournal, Pull, ClaimFails, HelperLocks, HandOff, LeaseFails,
     DropDescriptor, Initialize, RequestUp, UpDone, UpAbandoned, Smoke, Prepare, InstallFails,
     Commit, Committed, Released, HandshakeFails, RecordSuccess, SuccessFails, CloseFence,
     CloseJournal, CloseStop, CloseVerify, WriteSidecar, WriteFailure, HelperCommits,
     HelperReleases, HelperFences, DaemonStarts, DaemonDrops, Reconcile, Cancel, ControllerDies,
     HelperDies, MaintenanceEnters, MaintenanceExits

(* The helper, its successor and the descriptors of the lock. *)
LEMMA LeaseStep ==
  ASSUME InstallationInv, [InstallationNext]_vars
  PROVE  /\ helper' \in {"none", "locked", "committed"}
         /\ orphan' \in BOOLEAN
         /\ holders' \subseteq {"helper", "controller", "orphan", "other"}
<1> USE DEF InstallationInv, InstallationTypes
<1>1. CASE HelperLocks \/ HandOff \/ HelperCommits \/ HelperReleases \/ Released \/ HelperFences
          \/ DropDescriptor
  BY <1>1 DEF HelperLocks, HandOff, HelperCommits, HelperReleases, Released, HelperFences,
     DropDescriptor
<1>2. CASE LeaseFails \/ HandshakeFails \/ CloseVerify \/ ControllerDies
  BY <1>2 DEF LeaseFails, HandshakeFails, CloseVerify, ControllerDies, Abandon, Abandoned
<1>3. CASE CloseFence
  BY <1>3 DEF CloseFence, Abandon, Abandoned, NoFault, lease
<1>4. CASE HelperDies
  BY <1>4 DEF HelperDies
<1>5. CASE AcceptBegins \/ AcceptApplied \/ AcceptFails
  BY <1>5 DEF AcceptBegins, AcceptApplied, AcceptFails
<1>6. CASE UNCHANGED lease
  BY <1>6 DEF lease
<1> QED
  BY <1>1, <1>2, <1>3, <1>4, <1>5, <1>6 DEF InstallationNext, Controller, Helper, vars, lease,
     host, ClaimIntent, ClaimJournal, Pull, ClaimFails, Initialize, RequestUp, UpDone,
     UpAbandoned, Smoke, Prepare, InstallFails, Commit, Committed, RecordSuccess, SuccessFails,
     CloseJournal, CloseStop, WriteSidecar, WriteFailure, DaemonStarts, DaemonDrops, Reconcile,
     Cancel, MaintenanceEnters, MaintenanceExits, AcceptLoads, AcceptRequest, AcceptAnswered,
     AcceptUp, Revert

(* Services, verdicts and faults. *)
LEMMA HostStep ==
  ASSUME InstallationInv, [InstallationNext]_vars
  PROVE  /\ late' \subseteq Services /\ asked' \subseteq Services /\ running' \subseteq Services
         /\ verdict' \in {"none", "confirmed", "inconclusive"}
         /\ faults' \in Nat
<1> USE DEF InstallationInv, InstallationTypes, Fault, NoFault, host
<1>1. CASE RequestUp \/ DaemonStarts \/ DaemonDrops \/ AcceptRequest
  BY <1>1 DEF RequestUp, DaemonStarts, DaemonDrops, AcceptRequest
<1>2. CASE LeaseFails \/ CloseVerify
  BY <1>2 DEF LeaseFails, CloseVerify
<1>3. CASE CloseFence
  BY <1>3 DEF CloseFence
<1>4. CASE CloseStop \/ AcceptUp
  BY <1>4 DEF CloseStop, AcceptUp
<1>5. CASE SuccessFails \/ CloseJournal \/ WriteSidecar \/ WriteFailure
  BY <1>5 DEF SuccessFails, CloseJournal, WriteSidecar, WriteFailure
<1>6. CASE ControllerDies \/ HelperDies
  BY <1>6 DEF ControllerDies, HelperDies
<1>7. CASE UNCHANGED <<late, asked, running, verdict, faults>>
  BY <1>7
<1> QED
  BY <1>1, <1>2, <1>3, <1>4, <1>5, <1>6, <1>7 DEF InstallationNext, Controller, Helper, vars,
     lease, host, ClaimIntent, ClaimJournal, Pull, ClaimFails, HelperLocks, HandOff,
     DropDescriptor, Initialize, UpDone, UpAbandoned, Smoke, Prepare, InstallFails, Commit,
     Committed, Released, HandshakeFails, RecordSuccess, HelperCommits, HelperReleases,
     HelperFences, Reconcile, Cancel, MaintenanceEnters, MaintenanceExits, AcceptLoads,
     AcceptBegins, AcceptAnswered, AcceptApplied, AcceptFails, Revert

(* The types together. *)
LEMMA TypesStep ==
  ASSUME InstallationInv, [InstallationNext]_vars PROVE InstallationTypes'
<1>1. ctl' \in Commands /\ gate' \in Gates /\ record' \in Records /\ accept' \in Acceptances
  BY CtlStep, GateStep, RecordStep, AcceptStep DEF InstallationInv, InstallationTypes
<1> QED
  BY <1>1, LeaseStep, HostStep DEF InstallationTypes

(* A command goes on where it has to. *)
LEMMA OnwardStep ==
  ASSUME InstallationInv, [InstallationNext]_vars
  PROVE  Onward'
<1> USE DEF InstallationInv, InstallationTypes, Commands, Onward, Steps, Early, Locked,
        Attempting, Handshaking, Closing, At, Goto
<1>1. CASE ClaimIntent \/ ClaimJournal \/ Pull \/ ClaimFails \/ HelperLocks \/ HandOff \/
          Initialize \/ RequestUp \/ UpDone \/ UpAbandoned \/ Smoke \/ Prepare \/ InstallFails
  BY <1>1 DEF ClaimIntent, ClaimJournal, Pull, ClaimFails, HelperLocks, HandOff, Initialize,
     RequestUp, UpDone, UpAbandoned, Smoke, Prepare, InstallFails
<1>2. CASE Commit \/ Committed \/ Released \/ RecordSuccess \/ SuccessFails \/ CloseStop \/
          WriteSidecar \/ WriteFailure
  BY <1>2 DEF Commit, Committed, Released, RecordSuccess, SuccessFails, CloseStop, WriteSidecar,
     WriteFailure
<1>3. CASE LeaseFails \/ DropDescriptor \/ HandshakeFails \/ CloseVerify
  BY <1>3 DEF LeaseFails, DropDescriptor, HandshakeFails, CloseVerify, AfterClose, Leave
<1>4. CASE CloseFence
  BY <1>4 DEF CloseFence, AfterClose, Leave
<1>5. CASE CloseJournal
  BY <1>5 DEF CloseJournal
<1>6. CASE Reconcile
  BY <1>6 DEF Reconcile
<1>7. CASE Cancel \/ ControllerDies
  BY <1>7 DEF Cancel, ControllerDies
<1>8. CASE UNCHANGED ctl
  BY <1>8
<1> QED
  BY <1>1, <1>2, <1>3, <1>4, <1>5, <1>6, <1>7, <1>8 DEF InstallationNext, Controller, Helper,
     vars, lease, host, HelperCommits, HelperReleases, HelperFences, DaemonStarts, DaemonDrops,
     HelperDies, MaintenanceEnters, MaintenanceExits, AcceptLoads, AcceptBegins, AcceptRequest,
     AcceptAnswered, AcceptUp, AcceptApplied, AcceptFails, Revert

(* The helper that is left keeps its descriptor until it has fenced. *)
LEMMA AbandonEffect ==
  ASSUME InstallationInv, Abandon
  PROVE  /\ helper' = "none" /\ (orphan' <=> orphan \/ helper # "none")
         /\ "helper" \notin Abandoned
         /\ "orphan" \in Abandoned <=> orphan'
         /\ "controller" \in Abandoned <=> "controller" \in holders
         /\ "other" \in Abandoned <=> "other" \in holders
         /\ "other" \in Abandoned => Abandoned = {"other"}
         /\ holders = {} => Abandoned = {}
  BY DEF InstallationInv, InstallationTypes, Descriptors, Abandon, Abandoned

(* The fence closes the gate, or fails and the lease is left. *)
FenceCloses ==
    /\ At("closing") /\ Goto("journal")
    /\ ~gate.maintenance
    /\ gate' = [gate EXCEPT !.ready = FALSE, !.pending = TRUE]
    /\ UNCHANGED <<lease, record, host, faults>>
FenceFails ==
    /\ At("closing") /\ Leave(AfterClose)
    /\ Abandon /\ holders' = Abandoned
    /\ verdict' = "inconclusive"
    /\ faults' = IF gate.maintenance THEN faults ELSE faults + 1
    /\ UNCHANGED <<gate, record, late, asked, running, accept>>

(* The journal is written, or its write fails. *)
JournalWritten ==
    /\ At("journal") /\ Goto("stopping")
    /\ UNCHANGED <<lease, gate, record, host, faults>>
JournalTorn ==
    /\ At("journal") /\ ctl' = [ctl EXCEPT !.pc = "stopping", !.torn = TRUE]
    /\ faults' = faults + 1
    /\ UNCHANGED <<lease, gate, record, host>>

(* The two ends of each. *)
LEMMA CloseCases ==
  /\ CloseFence => FenceCloses \/ FenceFails
  /\ CloseJournal => JournalWritten \/ JournalTorn
  BY DEF CloseFence, CloseJournal, FenceCloses, FenceFails, JournalWritten, JournalTorn, Fault,
         NoFault

(* Each process keeps the descriptors of its step. *)
LEMMA DescriptorsStep ==
  ASSUME InstallationInv, [InstallationNext]_vars
  PROVE  Descriptors'
<1> USE DEF InstallationInv, InstallationTypes, Commands, Onward, Gates, Acceptances,
        Descriptors, lease, host, Steps, Early, Locked, Attempting, Handshaking, Closing, At,
        Goto
<1>1. CASE ClaimIntent \/ ClaimJournal
  BY <1>1 DEF ClaimIntent, ClaimJournal
<1>2. CASE Pull
  BY <1>2 DEF Pull
<1>3. CASE ClaimFails
  BY <1>3 DEF ClaimFails
<1>4. CASE UpDone \/ Smoke \/ Prepare \/ InstallFails
  BY <1>4 DEF UpDone, Smoke, Prepare, InstallFails
<1>5. CASE Commit \/ Committed \/ RecordSuccess \/ WriteSidecar \/ WriteFailure \/ CloseStop
  BY <1>5 DEF Commit, Committed, RecordSuccess, WriteSidecar, WriteFailure, CloseStop, Fault,
     NoFault
<1>6. CASE UpAbandoned
  BY <1>6 DEF UpAbandoned
<1>7. CASE RequestUp
  BY <1>7 DEF RequestUp
<1>8. CASE SuccessFails
  BY <1>8 DEF SuccessFails, Fault, NoFault
<1>9. CASE Reconcile
  BY <1>9 DEF Reconcile
<1>10. CASE Cancel
  BY <1>10 DEF Cancel, Resting
<1>11. CASE HelperLocks
  BY <1>11 DEF HelperLocks, Admits
<1>12. CASE HandOff
  BY <1>12 DEF HandOff
<1>13. CASE LeaseFails
  BY <1>13, AbandonEffect DEF LeaseFails, AfterClose
<1>14. CASE DropDescriptor
  BY <1>14 DEF DropDescriptor
<1>15. CASE Initialize
  BY <1>15 DEF Initialize
<1>16. CASE HelperCommits \/ HelperReleases \/ Released
  BY <1>16 DEF HelperCommits, HelperReleases, Released
<1>17. CASE HelperFences
  BY <1>17 DEF HelperFences
<1>18. CASE HandshakeFails
  BY <1>18, AbandonEffect DEF HandshakeFails, Leave
<1>19. CASE CloseVerify
  BY <1>19, AbandonEffect DEF CloseVerify, Leave, AfterClose
<1>20. CASE CloseFence
  <2>1. CASE FenceCloses
    BY <2>1 DEF FenceCloses
  <2>2. CASE FenceFails
    BY <2>2, AbandonEffect DEF FenceFails, Leave, AfterClose
  <2> QED
    BY <1>20, <2>1, <2>2, CloseCases
<1>21. CASE CloseJournal
  <2>1. CASE JournalWritten
    BY <2>1 DEF JournalWritten
  <2>2. CASE JournalTorn
    BY <2>2 DEF JournalTorn
  <2> QED
    BY <1>21, <2>1, <2>2, CloseCases
<1>22. CASE ControllerDies
  BY <1>22, AbandonEffect DEF ControllerDies, Fault, Resting
<1>23. CASE HelperDies
  BY <1>23 DEF HelperDies, Fault
<1>24. CASE MaintenanceEnters \/ MaintenanceExits
  BY <1>24 DEF MaintenanceEnters, MaintenanceExits
<1>25. CASE AcceptLoads
  BY <1>25 DEF AcceptLoads
<1>26. CASE AcceptRequest \/ AcceptAnswered \/ AcceptUp
  <2>1. CASE AcceptRequest
    BY <2>1 DEF AcceptRequest
  <2>2. CASE AcceptAnswered
    BY <2>2 DEF AcceptAnswered
  <2>3. CASE AcceptUp
    BY <2>3 DEF AcceptUp
  <2> QED
    BY <1>26, <2>1, <2>2, <2>3
<1>27. CASE Revert
  BY <1>27 DEF Revert
<1>28. CASE AcceptBegins
  BY <1>28 DEF AcceptBegins, Open
<1>29. CASE AcceptApplied
  BY <1>29 DEF AcceptApplied
<1>30. CASE AcceptFails
  BY <1>30 DEF AcceptFails
<1>31. CASE UNCHANGED <<ctl, helper, orphan, holders, gate, accept, faults>>
  BY <1>31
<1> QED
  BY <1>1, <1>2, <1>3, <1>4, <1>5, <1>6, <1>7, <1>8, <1>9, <1>10, <1>11, <1>12, <1>13, <1>14,
     <1>15, <1>16, <1>17, <1>18, <1>19, <1>20, <1>21, <1>22, <1>23, <1>24, <1>25, <1>26, <1>27,
     <1>28, <1>29, <1>30, <1>31 DEF InstallationNext, Controller, Helper, vars, lease, host,
     DaemonStarts, DaemonDrops

(* An intent and a sidecar leave the journal alone. *)
LEMMA JournalKept ==
  ASSUME InstallationInv, ClaimIntent \/ WriteSidecar
  PROVE  record'.outcome = record.outcome /\ (ClaimIntent => record'.sidecar = record.sidecar)
  BY DEF ClaimIntent, WriteSidecar, InstallationInv, InstallationTypes, Records

(* An open gate is closed before it is left to nobody. *)
LEMMA OpenGateStep ==
  ASSUME InstallationInv, [InstallationNext]_vars
  PROVE  OpenGateIsLeft'
<1> USE DEF InstallationInv, InstallationTypes, Commands, lease, host, Gates, Records, Onward,
        Descriptors, OpenGateIsLeft, Steps, Early, Locked, Attempting, Handshaking, Closing, At,
        Goto
<1>1. CASE ClaimJournal
  BY <1>1 DEF ClaimJournal
<1>2. CASE Pull
  BY <1>2 DEF Pull
<1>3. CASE ClaimFails
  BY <1>3 DEF ClaimFails
<1>4. CASE UpDone \/ RequestUp
  BY <1>4 DEF UpDone, RequestUp, lease, host
<1>5. CASE Smoke
  BY <1>5 DEF Smoke, lease, host
<1>6. CASE Prepare
  BY <1>6 DEF Prepare, lease, host
<1>7. CASE InstallFails
  BY <1>7 DEF InstallFails, lease, host
<1>8. CASE Commit \/ Committed \/ CloseStop
  BY <1>8 DEF Commit, Committed, CloseStop
<1>9. CASE Released
  BY <1>9 DEF Released
<1>10. CASE RecordSuccess
  BY <1>10 DEF RecordSuccess, lease
<1>11. CASE WriteFailure
  BY <1>11 DEF WriteFailure, lease, NoFault, Fault
<1>12. CASE UpAbandoned
  BY <1>12 DEF UpAbandoned, lease, host
<1>13. CASE SuccessFails
  BY <1>13 DEF SuccessFails, lease, Fault, NoFault
<1>14. CASE Reconcile
  BY <1>14 DEF Reconcile, lease
<1>15. CASE Cancel
  BY <1>15 DEF Cancel, lease, host, Resting
<1>16. CASE HelperLocks
  BY <1>16 DEF HelperLocks, Admits
<1>17. CASE HandOff
  BY <1>17 DEF HandOff
<1>18. CASE LeaseFails
  BY <1>18, AbandonEffect DEF LeaseFails, AfterClose
<1>19. CASE DropDescriptor
  BY <1>19 DEF DropDescriptor
<1>20. CASE Initialize
  BY <1>20 DEF Initialize, lease
<1>21. CASE HelperCommits \/ HelperReleases
  BY <1>21 DEF HelperCommits, HelperReleases, host
<1>22. CASE HelperFences
  BY <1>22 DEF HelperFences
<1>23. CASE HandshakeFails
  BY <1>23, AbandonEffect DEF HandshakeFails, Leave
<1>24. CASE CloseVerify
  BY <1>24, AbandonEffect DEF CloseVerify, Leave, AfterClose
<1>25. CASE CloseFence
  <2>1. CASE FenceCloses
    BY <2>1 DEF FenceCloses, lease, host
  <2>2. CASE FenceFails
    BY <2>2, AbandonEffect DEF FenceFails, Leave, AfterClose, lease, host
  <2> QED
    BY <1>25, <2>1, <2>2, CloseCases
<1>26. CASE CloseJournal
  <2>1. CASE JournalWritten
    BY <2>1 DEF JournalWritten, lease, host
  <2>2. CASE JournalTorn
    BY <2>2 DEF JournalTorn, lease, host
  <2> QED
    BY <1>26, <2>1, <2>2, CloseCases
<1>27. CASE ControllerDies
  BY <1>27, AbandonEffect DEF ControllerDies, Fault, Resting
<1>28. CASE HelperDies
  BY <1>28 DEF HelperDies, Fault
<1>29. CASE MaintenanceEnters \/ MaintenanceExits
  BY <1>29 DEF MaintenanceEnters, MaintenanceExits, lease, host
<1>30. CASE ClaimIntent \/ WriteSidecar
  <2>1. CASE At("idle") /\ Goto("intent") /\ UNCHANGED <<lease, gate, host, faults>> /\
            record'.outcome = record.outcome
    BY <2>1
  <2>2. CASE At("sidecar") /\ Goto("failure") /\ UNCHANGED <<lease, gate, host>> /\ faults' \in
            {faults, faults + 1} /\ record'.outcome = record.outcome
    BY <2>2
  <2> QED
    BY <1>30, <2>1, <2>2, JournalKept DEF ClaimIntent, WriteSidecar, Fault, NoFault, host
<1>31. CASE UNCHANGED <<ctl, orphan, gate, record, faults>>
  BY <1>31
<1> QED
  BY <1>1, <1>2, <1>3, <1>4, <1>5, <1>6, <1>7, <1>8, <1>9, <1>10, <1>11, <1>12, <1>13, <1>14,
     <1>15, <1>16, <1>17, <1>18, <1>19, <1>20, <1>21, <1>22, <1>23, <1>24, <1>25, <1>26, <1>27,
     <1>28, <1>29, <1>30, <1>31 DEF InstallationNext, Controller, Helper, vars, lease, host,
     DaemonStarts, DaemonDrops, AcceptLoads, AcceptBegins, AcceptRequest,
     AcceptAnswered, AcceptUp, AcceptApplied, AcceptFails,
     Revert

(* A shutdown stays behind its fence. *)
LEMMA ShutDownStep ==
  ASSUME InstallationInv, [InstallationNext]_vars
  PROVE  ShutDown'
<1> USE DEF InstallationInv, InstallationTypes, Commands, Gates, Acceptances, Onward,
        Descriptors, ShutDown, Initially, Steps, Early, Locked, Attempting, Handshaking,
        Closing, At, Goto
<1>1. CASE ClaimIntent
  BY <1>1 DEF ClaimIntent, host
<1>2. CASE ClaimJournal
  BY <1>2 DEF ClaimJournal, host
<1>3. CASE Pull
  BY <1>3 DEF Pull, host
<1>4. CASE ClaimFails
  BY <1>4 DEF ClaimFails, host
<1>5. CASE UpDone \/ RequestUp
  BY <1>5 DEF UpDone, RequestUp, lease, host
<1>6. CASE Smoke \/ Prepare
  BY <1>6 DEF Smoke, Prepare, lease, host
<1>7. CASE InstallFails
  BY <1>7 DEF InstallFails, lease, host
<1>8. CASE Commit \/ Committed \/ CloseStop
  BY <1>8 DEF Commit, Committed, CloseStop, host
<1>9. CASE Released
  BY <1>9 DEF Released, host
<1>10. CASE RecordSuccess
  BY <1>10 DEF RecordSuccess, host
<1>11. CASE WriteSidecar
  BY <1>11 DEF WriteSidecar, host
<1>12. CASE WriteFailure
  BY <1>12 DEF WriteFailure, host
<1>13. CASE UpAbandoned
  BY <1>13 DEF UpAbandoned, host
<1>14. CASE SuccessFails
  BY <1>14 DEF SuccessFails, host
<1>15. CASE Reconcile
  BY <1>15 DEF Reconcile, host
<1>16. CASE Cancel
  BY <1>16 DEF Cancel, host, Resting
<1>17. CASE HelperLocks
  BY <1>17 DEF HelperLocks, Admits, host
<1>18. CASE HandOff
  BY <1>18 DEF HandOff, host
<1>19. CASE LeaseFails
  BY <1>19 DEF LeaseFails, AfterClose
<1>20. CASE DropDescriptor
  BY <1>20 DEF DropDescriptor, host
<1>21. CASE Initialize
  BY <1>21 DEF Initialize, host
<1>22. CASE HelperCommits \/ HelperReleases
  BY <1>22 DEF HelperCommits, HelperReleases, host
<1>23. CASE HelperFences
  BY <1>23 DEF HelperFences, host
<1>24. CASE HandshakeFails
  BY <1>24 DEF HandshakeFails, Leave, host
<1>25. CASE CloseVerify
  BY <1>25 DEF CloseVerify, Leave, AfterClose
<1>26. CASE CloseFence
  <2>1. CASE FenceCloses
    BY <2>1 DEF FenceCloses, lease, host
  <2>2. CASE FenceFails
    BY <2>2, AbandonEffect DEF FenceFails, Leave, AfterClose, lease, host
  <2> QED
    BY <1>26, <2>1, <2>2, CloseCases
<1>27. CASE CloseJournal
  <2>1. CASE JournalWritten
    BY <2>1 DEF JournalWritten, lease, host
  <2>2. CASE JournalTorn
    BY <2>2 DEF JournalTorn, lease, host
  <2> QED
    BY <1>27, <2>1, <2>2, CloseCases
<1>28. CASE ControllerDies
  BY <1>28 DEF ControllerDies, host, Resting
<1>29. CASE MaintenanceEnters \/ MaintenanceExits
  BY <1>29 DEF MaintenanceEnters, MaintenanceExits, host
<1>30. CASE AcceptLoads
  BY <1>30 DEF AcceptLoads
<1>31. CASE AcceptRequest \/ AcceptAnswered \/ AcceptUp
  BY <1>31 DEF AcceptRequest, AcceptAnswered, AcceptUp
<1>32. CASE Revert
  BY <1>32 DEF Revert
<1>33. CASE AcceptBegins
  BY <1>33 DEF AcceptBegins, Open
<1>34. CASE AcceptApplied \/ AcceptFails
  <2>1. CASE AcceptApplied
    BY <2>1 DEF AcceptApplied
  <2>2. CASE AcceptFails
    BY <2>2 DEF AcceptFails
  <2> QED
    BY <1>34, <2>1, <2>2
<1>35. CASE UNCHANGED <<ctl, holders, gate, verdict, accept>>
  BY <1>35
<1> QED
  BY <1>1, <1>2, <1>3, <1>4, <1>5, <1>6, <1>7, <1>8, <1>9, <1>10, <1>11, <1>12, <1>13, <1>14,
     <1>15, <1>16, <1>17, <1>18, <1>19, <1>20, <1>21, <1>22, <1>23, <1>24, <1>25, <1>26, <1>27,
     <1>28, <1>29, <1>30, <1>31, <1>32, <1>33, <1>34, <1>35 DEF InstallationNext, Controller,
     Helper, vars, lease, host, DaemonStarts, DaemonDrops, HelperDies

(* A request of the acceptance outlives it only where that is noted. *)
LEMMA OutlivedStep ==
  ASSUME InstallationInv, [InstallationNext]_vars
  PROVE  Outlived'
<1> USE DEF InstallationInv, InstallationTypes, Acceptances, Outlived
<1>1. CASE AcceptRequest \/ AcceptAnswered \/ AcceptFails
  BY <1>1 DEF AcceptRequest, AcceptAnswered, AcceptFails
<1>2. CASE DaemonStarts \/ DaemonDrops
  BY <1>2 DEF DaemonStarts, DaemonDrops
<1>3. CASE AcceptLoads \/ AcceptBegins \/ AcceptUp \/ AcceptApplied \/ Revert
  BY <1>3 DEF AcceptLoads, AcceptBegins, AcceptUp, AcceptApplied, Revert
<1>4. CASE UNCHANGED <<asked, accept>>
  BY <1>4
<1> QED
  BY <1>1, <1>2, <1>3, <1>4 DEF InstallationNext, Controller, Helper, vars, lease, host,
     ClaimIntent, ClaimJournal, Pull, ClaimFails, HelperLocks, HandOff, LeaseFails,
     DropDescriptor, Initialize, RequestUp, UpDone, UpAbandoned, Smoke, Prepare, InstallFails,
     Commit, Committed, Released, HandshakeFails, RecordSuccess, SuccessFails, CloseFence,
     CloseJournal, CloseStop, CloseVerify, WriteSidecar, WriteFailure, HelperCommits,
     HelperReleases, HelperFences, Reconcile, Cancel, ControllerDies, HelperDies,
     MaintenanceEnters, MaintenanceExits

(* What may still be served is known, or recorded. *)
LEMMA EvidenceStep ==
  ASSUME InstallationInv, [InstallationNext]_vars
  PROVE  Evidence'
<1> USE DEF InstallationInv, InstallationTypes, Commands, Records, Onward, Evidence, Initially,
        Unrecorded, Doubt, Steps, Early, Locked, Attempting, Handshaking, Closing, At, Goto
<1>1. CASE ClaimIntent
  <2>1. CASE At("idle") /\ Goto("intent") /\ UNCHANGED late /\ record'.outcome = record.outcome
            /\ record'.sidecar = record.sidecar
    BY <2>1
  <2> QED
    BY <1>1, <2>1, JournalKept DEF ClaimIntent, Fault, NoFault, host
<1>2. CASE ClaimJournal
  BY <1>2 DEF ClaimJournal, host
<1>3. CASE Pull
  BY <1>3 DEF Pull, host
<1>4. CASE ClaimFails
  BY <1>4 DEF ClaimFails, host
<1>5. CASE UpDone
  BY <1>5 DEF UpDone, host
<1>6. CASE RequestUp
  BY <1>6 DEF RequestUp, host
<1>7. CASE Smoke \/ Prepare
  BY <1>7 DEF Smoke, Prepare, host
<1>8. CASE InstallFails
  BY <1>8 DEF InstallFails, host
<1>9. CASE Commit \/ Committed \/ CloseStop
  BY <1>9 DEF Commit, Committed, CloseStop, host
<1>10. CASE Released
  BY <1>10 DEF Released, host
<1>11. CASE RecordSuccess
  BY <1>11 DEF RecordSuccess, host
<1>12. CASE WriteSidecar
  BY <1>12 DEF WriteSidecar, host, NoFault
<1>13. CASE WriteFailure
  BY <1>13 DEF WriteFailure, host
<1>14. CASE UpAbandoned
  BY <1>14 DEF UpAbandoned, host
<1>15. CASE SuccessFails
  BY <1>15 DEF SuccessFails, host
<1>16. CASE Reconcile
  BY <1>16 DEF Reconcile, host
<1>17. CASE Cancel
  BY <1>17 DEF Cancel, host, Resting
<1>18. CASE HelperLocks
  BY <1>18 DEF HelperLocks, host
<1>19. CASE HandOff
  <2>1. CASE At("handoff") /\ Goto("leased") /\ UNCHANGED <<late, record>> /\ late = {} /\
            record.outcome = "running" /\ record.sidecar = "none"
    BY <2>1
  <2>2. CASE At("handoff") /\ ctl.lease # "initial" /\ Goto("closing") /\ UNCHANGED <<late,
            record>>
    BY <2>2
  <2>3. CASE ctl.lease = "initial"
    <3>1. At("handoff") /\ Goto("leased") /\ UNCHANGED <<late, record>>
      BY <1>19, <2>3 DEF HandOff, host
    <3>2. Initially
      BY <2>3, <3>1
    <3>3. late = {} /\ record.outcome = "running" /\ record.sidecar = "none"
      BY <3>2
    <3> QED
      BY <2>1, <3>1, <3>3
  <2>4. CASE ctl.lease # "initial"
    BY <1>19, <2>2, <2>4 DEF HandOff, host
  <2> QED
    BY <2>3, <2>4
<1>20. CASE LeaseFails
  BY <1>20 DEF LeaseFails, AfterClose
<1>21. CASE DropDescriptor
  BY <1>21 DEF DropDescriptor, host
<1>22. CASE Initialize
  BY <1>22 DEF Initialize, host
<1>23. CASE HandshakeFails
  BY <1>23 DEF HandshakeFails, Leave, host
<1>24. CASE CloseVerify
  BY <1>24 DEF CloseVerify, Leave, AfterClose
<1>25. CASE CloseFence
  <2>1. CASE FenceCloses
    BY <2>1 DEF FenceCloses, lease, host
  <2>2. CASE FenceFails
    BY <2>2 DEF FenceFails, Leave, AfterClose, lease, host
  <2> QED
    BY <1>25, <2>1, <2>2, CloseCases
<1>26. CASE CloseJournal
  <2>1. CASE JournalWritten
    BY <2>1 DEF JournalWritten, lease, host
  <2>2. CASE JournalTorn
    BY <2>2 DEF JournalTorn, lease, host
  <2> QED
    BY <1>26, <2>1, <2>2, CloseCases
<1>27. CASE ControllerDies
  BY <1>27 DEF ControllerDies, host, Resting
<1>28. CASE DaemonStarts \/ DaemonDrops
  BY <1>28 DEF DaemonStarts, DaemonDrops
<1>29. CASE UNCHANGED <<ctl, record, late>>
  BY <1>29
<1> QED
  BY <1>1, <1>2, <1>3, <1>4, <1>5, <1>6, <1>7, <1>8, <1>9, <1>10, <1>11, <1>12, <1>13, <1>14,
     <1>15, <1>16, <1>17, <1>18, <1>19, <1>20, <1>21, <1>22, <1>23, <1>24, <1>25, <1>26, <1>27,
     <1>28, <1>29 DEF InstallationNext, Controller, Helper, vars, lease, host, HelperCommits,
     HelperReleases, HelperFences, HelperDies, MaintenanceEnters, MaintenanceExits, AcceptLoads,
     AcceptBegins, AcceptRequest, AcceptAnswered, AcceptUp, AcceptApplied, AcceptFails, Revert

(* An acceptance that is not left with a request changes none of it. *)
LEMMA StrayKept ==
  ASSUME accept \in Acceptances,
         AcceptLoads \/ AcceptBegins \/ AcceptAnswered \/ AcceptUp \/ AcceptApplied \/ Revert
  PROVE  accept'.stray = accept.stray /\ UNCHANGED <<record, late, asked, running, verdict>>
<1> USE DEF Acceptances
<1>1. CASE AcceptLoads
  BY <1>1 DEF AcceptLoads
<1>2. CASE AcceptBegins
  BY <1>2 DEF AcceptBegins
<1>3. CASE AcceptAnswered
  BY <1>3 DEF AcceptAnswered
<1>4. CASE AcceptUp
  BY <1>4 DEF AcceptUp
<1>5. CASE AcceptApplied
  BY <1>5 DEF AcceptApplied
<1>6. CASE Revert
  BY <1>6 DEF Revert
<1> QED
  BY <1>1, <1>2, <1>3, <1>4, <1>5, <1>6

(* Nothing runs again, and nothing may, once a shutdown was confirmed. *)
LEMMA ConfirmedStep ==
  ASSUME InstallationInv, [InstallationNext]_vars
  PROVE  ConfirmedIsFinal'
<1> USE DEF InstallationInv, InstallationTypes, Commands, Records, Acceptances, Onward,
        Descriptors, ShutDown, Outlived, Evidence, ConfirmedIsFinal, Initially, Unrecorded,
        Doubt, Steps, Early, Locked, Attempting, Handshaking, Closing, At, Goto
<1>1. CASE ClaimIntent \/ ClaimJournal
  BY <1>1 DEF ClaimIntent, ClaimJournal, host
<1>2. CASE RequestUp
  BY <1>2 DEF RequestUp, host
<1>3. CASE Prepare
  BY <1>3 DEF Prepare, host
<1>4. CASE RecordSuccess \/ SuccessFails
  BY <1>4 DEF RecordSuccess, SuccessFails, host
<1>5. CASE WriteSidecar
  BY <1>5 DEF WriteSidecar, host
<1>6. CASE WriteFailure
  BY <1>6 DEF WriteFailure, host
<1>7. CASE LeaseFails
  BY <1>7 DEF LeaseFails
<1>8. CASE CloseVerify
  BY <1>8 DEF CloseVerify
<1>9. CASE CloseFence
  <2>1. CASE FenceCloses
    BY <2>1 DEF FenceCloses, FenceFails, host
  <2>2. CASE FenceFails
    BY <2>2 DEF FenceFails, host
  <2> QED
    BY <1>9, <2>1, <2>2, CloseCases
<1>10. CASE CloseStop
  BY <1>10 DEF CloseStop, host
<1>11. CASE DaemonStarts \/ DaemonDrops
  BY <1>11 DEF DaemonStarts, DaemonDrops
<1>12. CASE AcceptRequest
  BY <1>12 DEF AcceptRequest
<1>13. CASE AcceptFails
  BY <1>13 DEF AcceptFails
<1>14. ASSUME UNCHANGED <<record, late, asked, running, verdict>>, accept'.stray = accept.stray
       PROVE  ConfirmedIsFinal'
  BY <1>14
<1>15. CASE AcceptLoads \/ AcceptBegins \/ AcceptAnswered \/ AcceptUp \/ AcceptApplied \/ Revert
  BY <1>14, <1>15, StrayKept
<1>16. CASE UNCHANGED <<record, late, asked, running, verdict, accept>>
  BY <1>14, <1>16
<1> QED
  BY <1>1, <1>2, <1>3, <1>4, <1>5, <1>6, <1>7, <1>8, <1>9, <1>10, <1>11, <1>12, <1>13, <1>14,
     <1>15, <1>16 DEF InstallationNext, Controller, Helper, vars, lease, host, Pull, ClaimFails,
     HelperLocks, HandOff, DropDescriptor, Initialize, UpDone, UpAbandoned, Smoke, InstallFails,
     Commit, Committed, Released, HandshakeFails, CloseJournal, HelperCommits, HelperReleases,
     HelperFences, Reconcile, Cancel, ControllerDies, HelperDies, MaintenanceEnters,
     MaintenanceExits

(* Every step keeps the invariant. *)
LEMMA InstallationInvStep == InstallationInv /\ [InstallationNext]_vars => InstallationInv'
  BY TypesStep, OnwardStep, DescriptorsStep, OpenGateStep, ShutDownStep, OutlivedStep, EvidenceStep,
     ConfirmedStep DEF InstallationInv

(* The invariant of the installation. *)
THEOREM InstallationInvariant == InstallationSpec => []InstallationInv
  BY InitInstallationInv, InstallationInvStep, PTL DEF InstallationSpec

(* scripts/install_private_production.py, close() and the helper's finally   *)
(* clause: until the attempt is prepared, one lost process, failed write or  *)
(* failed command never leaves its gate open with nobody holding the lock.   *)
THEOREM OpenGateIsHeld == InstallationSpec => []UnpreparedGateIsHeld
<1>1. InstallationInv => UnpreparedGateIsHeld
  BY DEF InstallationInv, Descriptors, OpenGateIsLeft, UnpreparedGateIsHeld, Locked, Closing,
         Attempting
<1> QED
  BY <1>1, InstallationInvariant, PTL

(* scripts/private_production_control.py, close() and                        *)
(* reconcile_interrupted(): a shutdown concludes confirmed only when no      *)
(* container runs and no request may still start one, however many commands, *)
(* failures and acceptances come before and after it.                        *)
THEOREM ConfirmedStaysFinal == InstallationSpec => []ConfirmedIsFinal
<1>1. InstallationInv => ConfirmedIsFinal
  BY DEF InstallationInv
<1> QED
  BY <1>1, InstallationInvariant, PTL
=============================================================================
