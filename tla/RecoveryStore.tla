--------------------------- MODULE RecoveryStore ---------------------------
(***************************************************************************)
(* The off-host store of recovery pairs (deploy/public-production/lib/     *)
(* recovery_s3.py): a versioned bucket whose versions are locked for a     *)
(* while, the uploads that publish a pair into it, and the expiry that     *)
(* deletes what is no longer locked.                                       *)
(*                                                                         *)
(* An upload has its own prefix, so it never meets another's keys.  Any    *)
(* call may fail, before or after it took effect.                          *)
(***************************************************************************)
EXTENDS Naturals, FiniteSets

CONSTANTS
    Files,        \* the encrypted files of a pair
    MaxUploads,   \* bound: upload attempts
    Window,       \* how long after its recovery point a pair may be uploaded
    Lock,         \* how long the bucket locks a version
    MaxTime       \* bound: the clock

Receipt == "receipt.json"

ASSUME StoreAssumption ==
    /\ MaxUploads \in Nat /\ IsFiniteSet(Files) /\ Files # {} /\ Receipt \notin Files
    /\ Window \in Nat \ {0} /\ Lock \in Nat /\ MaxTime \in Nat

Uploads == 1..MaxUploads

VARIABLES
    clock,      \* provider and host clocks, which agree within a minute
    upload,     \* upload[u]: the attempt's pair, its recovery point, and whether it still runs
    versions,   \* versions in the bucket: the upload, the file and the end of its lock
    expiry      \* what the execution of the expiry still has to delete

storeVars == <<clock, upload, versions, expiry>>

NoUpload == [state |-> "none", pair |-> 0, point |-> 0]

StoreInit ==
    /\ clock = 0
    /\ upload = [u \in Uploads |-> NoUpload]
    /\ versions = {}
    /\ expiry = {}

Tick ==
    /\ clock < MaxTime
    /\ clock' = clock + 1
    /\ UNCHANGED <<upload, versions, expiry>>

-----------------------------------------------------------------------------
(* Uploads.                                                                *)

FilesOf(u) == {v.file : v \in {w \in versions : w.upload = u}}
Admitted(u) == clock < upload[u].point + Window
Version(u, file) == [upload |-> u, file |-> file, until |-> clock + Lock]

(* A bug: the receipt does not wait for the files. *)
PutReceiptAnyTime(u) ==
    /\ upload[u].state = "publishing" /\ Admitted(u)
    /\ Receipt \notin FilesOf(u)
    /\ versions' = versions \union {Version(u, Receipt)}
    /\ UNCHANGED <<clock, upload, expiry>>

(* put(): the version is durable, under the bucket's own lock. *)
PutFile(u) ==
    /\ upload[u].state = "publishing" /\ Admitted(u)
    /\ \E f \in Files \ FilesOf(u) : versions' = versions \union {Version(u, f)}
    /\ UNCHANGED <<clock, upload, expiry>>

(* publish(): every file has its version's acknowledgement before the receipt is put. *)
PutReceipt(u) ==
    /\ upload[u].state = "publishing" /\ Admitted(u)
    /\ Files \subseteq FilesOf(u) /\ Receipt \notin FilesOf(u)
    /\ versions' = versions \union {Version(u, Receipt)}
    /\ UNCHANGED <<clock, upload, expiry>>

(* The last put ends with one more look at the window. *)
Published(u) ==
    /\ upload[u].state = "publishing" /\ Receipt \in FilesOf(u) /\ Admitted(u)
    /\ upload' = [upload EXCEPT ![u].state = "done"]
    /\ UNCHANGED <<clock, versions, expiry>>

(* A call fails, or its acknowledgement is lost: whatever was put stays. *)
UploadFails(u) ==
    /\ upload[u].state = "publishing"
    /\ upload' = [upload EXCEPT ![u].state = "failed"]
    /\ UNCHANGED <<clock, versions, expiry>>

-----------------------------------------------------------------------------
(* expire()                                                                *)

(* Two scans of the whole bucket that agree, or nothing: the versions whose lock is over. *)
PlanExpiry ==
    /\ expiry = {}
    /\ expiry' = {v \in versions : v.until <= clock}
    /\ expiry' # expiry
    /\ UNCHANGED <<clock, upload, versions>>

(* One exact version at a time, in any order here, after another look. *)
DeleteAcknowledged(v) ==
    /\ v \in expiry /\ v.until <= clock
    /\ versions' = versions \ {v}
    /\ expiry' = expiry \ {v}
    /\ UNCHANGED <<clock, upload>>

(* The delete, its acknowledgement or the process is lost: the execution ends. *)
DeleteUnconfirmed(v) ==
    /\ v \in expiry
    /\ \E deleted \in {{}, {v}} : versions' = versions \ deleted
    /\ expiry' = {}
    /\ UNCHANGED <<clock, upload>>

StoreNext ==
    \/ Tick
    \/ \E u \in Uploads : PutFile(u) \/ PutReceipt(u) \/ Published(u) \/ UploadFails(u)
    \/ PlanExpiry
    \/ \E v \in expiry : DeleteAcknowledged(v) \/ DeleteUnconfirmed(v)

-----------------------------------------------------------------------------
Whole(u) == Files \union {Receipt} \subseteq FilesOf(u)

(* Whoever finds a receipt in the bucket finds the pair's files, until the lock of one of
   them can be over: neither a failed upload nor an expiry leaves a receipt of nothing. *)
ReceiptFindsItsFiles ==
    \A v \in versions :
        v.file = Receipt /\ clock < upload[v.upload].point + Lock => Whole(v.upload)

=============================================================================
