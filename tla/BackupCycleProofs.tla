-------------------------- MODULE BackupCycleProofs --------------------------
(***************************************************************************)
(* The safety of the scheduled backup and of the store it uploads to, for  *)
(* any files, windows, locks, captures, uploads, fences and deaths.        *)
(*                                                                         *)
(* Three parts make the invariant: what the bucket keeps (Stored), who may *)
(* touch a fence (Fenced), and which pair the journal and a running upload *)
(* speak of (Booked).                                                      *)
(***************************************************************************)
EXTENDS BackupCycle, TLAPS

UploadRecord ==
    [state : {"none", "publishing", "done", "failed"}, pair : Nat, point : Nat]
VersionRecord == [upload : Uploads, file : Files \cup {Receipt}, until : Nat]

Held == {"close", "journal", "drain", "dump", "complete", "login", "open", "clear", "start"}
Steps == Held \cup {"none", "converge", "converged", "preflight", "admission", "lock", "upload",
                    "publishing"}
CallRecord == [step : Steps, upload : Nat]
Statuses == Fencing \cup {"idle", "owner-required", "upload-pending", "not yet", "gone"}
JournalRecord ==
    [status : Statuses, run : 0..MaxCaptures, entered : BOOLEAN, attempts : Nat,
     uploaded : 0..MaxCaptures]
PairRecord == [state : {"none", "verified", "pruned"}, point : Nat]

StoreTypeInv ==
    /\ clock \in Nat
    /\ upload \in [Uploads -> UploadRecord]
    /\ versions \subseteq VersionRecord
    /\ expiry \subseteq VersionRecord

CycleTypeInv ==
    /\ call \in CallRecord
    /\ loaded \in [Late -> JournalRecord]
    /\ captures \in 0..MaxCaptures
    /\ pairs \in [Captures -> PairRecord]

Begun(u) == upload[u].state # "none"
StillKept(u) == clock < upload[u].point + Lock

(* A version outlives what the bucket promises for its pair, an expiry only has what is over,   *)
(* and a receipt, or an upload that ended well, has all its files as long as the promise lasts.  *)
Stored ==
    /\ StoreTypeInv
    /\ \A u \in Uploads : upload[u].point <= clock
    /\ \A v \in versions : Begun(v.upload) /\ upload[v.upload].point + Lock <= v.until
    /\ \A v \in expiry : v.until <= clock
    /\ ReceiptFindsItsFiles
    /\ \A u \in Uploads : upload[u].state = "done" /\ StillKept(u) => Whole(u)

(* Whoever works inside a fence holds the lease, and the owner has not left its own closed.      *)
Fenced ==
    /\ OwnersFenceStands
    /\ call.step \in Held => lease = "cycle" /\ owner # "fenced"
    /\ lease = "owner" => ~open

Naming == Held \cup {"lock", "upload", "publishing"}
Ahead == {"lock", "close", "journal", "drain", "dump"}

(* What a record of the journal says is so, however old it is: it speaks of captures there were, *)
(* and the pair it names as uploaded was uploaded to the end.                                    *)
Sound(record) ==
    /\ record \in JournalRecord
    /\ record.run <= captures /\ record.uploaded <= captures
    /\ record.status \in Fencing \cup {"upload-pending"} => record.run # 0
    /\ record.uploaded # 0 => \E u \in Uploads :
         /\ upload[u].state = "done"
         /\ upload[u].pair = record.uploaded
         /\ upload[u].point = pairs[record.uploaded].point

(* The records somebody may still save. *)
Records == {journal, memory} \cup {loaded[c] : c \in Late}

(* Every record is sound; a capture under way is the last one, which none of them names as       *)
(* uploaded until it has been dumped; and the running upload is of the pair of the call.         *)
Booked ==
    /\ CycleTypeInv
    /\ \A p \in Captures : pairs[p].point <= clock
    /\ \A j \in Records : Sound(j)
    /\ call.step \in Naming => memory.run # 0
    /\ call.step \in Ahead =>
         memory.run = captures /\ \A j \in Records : j.uploaded < captures
    /\ call.step = "publishing" =>
         /\ call.upload \in Uploads
         /\ Begun(call.upload)
         /\ upload[call.upload].pair = memory.run
         /\ upload[call.upload].point = pairs[memory.run].point

Inv == Stored /\ Fenced /\ Booked

-----------------------------------------------------------------------------
(* The store.                                                                *)

(* No step forgets a file of an upload while its pair is still kept. *)
LEMMA FilesStay ==
    ASSUME Stored, NEW u \in Uploads, StillKept(u),
           \A v \in versions : v \notin versions' => v.until <= clock
    PROVE  \A f \in FilesOf(u) : \E v \in versions' : v.upload = u /\ v.file = f
<1>1. ASSUME NEW v \in versions, v.upload = u PROVE v \in versions'
  <2>1. upload[u].point + Lock <= v.until
      BY <1>1 DEF Stored
  <2>2. clock \in Nat /\ v.until \in Nat /\ upload[u].point \in Nat /\ Lock \in Nat
      BY StoreAssumption DEF Stored, StoreTypeInv, VersionRecord, UploadRecord
  <2> QED BY <2>1, <2>2 DEF StillKept
<1> QED BY <1>1 DEF FilesOf

(* What the files of one upload are after a step. *)
LEMMA WholeStays ==
    ASSUME Stored, NEW u \in Uploads, StillKept(u), Whole(u),
           \A v \in versions : v \notin versions' => v.until <= clock
    PROVE  Whole(u)'
<1>1. \A f \in FilesOf(u) : f \in FilesOf(u)'
    BY FilesStay DEF FilesOf
<1> QED BY <1>1 DEF Whole

(* The clock and the deletions keep what is stored. *)
LEMMA DeletionKeeps ==
    ASSUME Stored, clock' \in Nat, clock <= clock', UNCHANGED upload,
           versions' \subseteq versions, expiry' \subseteq VersionRecord,
           \A v \in versions : v \notin versions' => v.until <= clock,
           \A v \in expiry' : v.until <= clock'
    PROVE  Stored'
<1>1. StoreTypeInv'
    BY DEF Stored, StoreTypeInv
<1>2. \A u \in Uploads : upload'[u].point <= clock'
    BY DEF Stored, StoreTypeInv, UploadRecord
<1>3. \A v \in versions' : Begun(v.upload)' /\ upload'[v.upload].point + Lock <= v.until
    BY DEF Stored, Begun
<1>4. ASSUME NEW u \in Uploads, StillKept(u)' PROVE StillKept(u)
  <2>1. clock \in Nat /\ upload[u].point \in Nat /\ Lock \in Nat
      BY StoreAssumption DEF Stored, StoreTypeInv, UploadRecord
  <2> QED BY <1>4, <2>1 DEF StillKept
<1>5. ReceiptFindsItsFiles'
  <2>1. ASSUME NEW v \in versions', v.file = Receipt, clock' < upload'[v.upload].point + Lock
        PROVE  Whole(v.upload)'
    <3>1. v \in versions /\ v.upload \in Uploads
        BY DEF Stored, StoreTypeInv, VersionRecord
    <3>2. StillKept(v.upload)
        BY <1>4, <2>1, <3>1 DEF StillKept
    <3>3. Whole(v.upload)
        BY <2>1, <3>1, <3>2 DEF Stored, ReceiptFindsItsFiles, StillKept
    <3> QED BY <3>1, <3>2, <3>3, WholeStays
  <2> QED BY <2>1 DEF ReceiptFindsItsFiles
<1>6. \A u \in Uploads : upload'[u].state = "done" /\ StillKept(u)' => Whole(u)'
    BY <1>4, WholeStays DEF Stored
<1> QED BY <1>1, <1>2, <1>3, <1>5, <1>6 DEF Stored

(* A put under the window is locked for as long as its pair is kept. *)
LEMMA PutKeeps ==
    ASSUME Stored, NEW u \in Uploads, upload[u].state = "publishing",
           NEW f \in Files \cup {Receipt}, f = Receipt => Files \subseteq FilesOf(u),
           versions' = versions \cup {Version(u, f)}, UNCHANGED <<clock, upload, expiry>>
    PROVE  Stored'
<1> DEFINE new == Version(u, f)
<1>1. /\ new \in VersionRecord
      /\ new.upload = u
      /\ new.file = f
      /\ new.until = clock + Lock
    BY StoreAssumption DEF Stored, StoreTypeInv, Version, VersionRecord
<1>2. versions' = versions \cup {new}
    OBVIOUS
<1> HIDE DEF new
<1>3. StoreTypeInv'
    BY <1>1, <1>2 DEF Stored, StoreTypeInv
<1>4. \A w \in Uploads : upload'[w].point <= clock'
    BY DEF Stored
<1>5. \A v \in versions' : Begun(v.upload)' /\ upload'[v.upload].point + Lock <= v.until
  <2>1. upload[u].point + Lock <= new.until
    <3>1. upload[u].point <= clock /\ upload[u].point \in Nat /\ clock \in Nat /\ Lock \in Nat
        BY StoreAssumption DEF Stored, StoreTypeInv, UploadRecord
    <3> QED BY <1>1, <3>1
  <2> QED BY <1>1, <1>2, <2>1 DEF Stored, Begun
<1>6. \A v \in expiry' : v.until <= clock'
    BY DEF Stored
<1>7. ASSUME NEW w PROVE FilesOf(w) \subseteq FilesOf(w)'
    BY <1>2 DEF FilesOf
<1>8. ReceiptFindsItsFiles'
  <2>1. ASSUME NEW v \in versions', v.file = Receipt, clock' < upload'[v.upload].point + Lock
        PROVE  Whole(v.upload)'
    <3>1. CASE v \in versions
        BY <1>7, <2>1, <3>1 DEF Stored, ReceiptFindsItsFiles, Whole
    <3>2. CASE v = new
      <4>1. f = Receipt /\ Files \subseteq FilesOf(u)'
          BY <1>1, <1>7, <2>1, <3>2
      <4>2. Receipt \in FilesOf(u)'
          BY <1>1, <1>2, <4>1 DEF FilesOf
      <4> QED BY <1>1, <3>2, <4>1, <4>2 DEF Whole
    <3> QED BY <1>2, <3>1, <3>2
  <2> QED BY <2>1 DEF ReceiptFindsItsFiles
<1>9. \A w \in Uploads : upload'[w].state = "done" /\ StillKept(w)' => Whole(w)'
    BY <1>7 DEF Stored, Whole, StillKept
<1> QED BY <1>3, <1>4, <1>5, <1>6, <1>8, <1>9 DEF Stored

(* An upload ends: well, with its receipt and so with its files, or not. *)
LEMMA EndKeeps ==
    ASSUME Stored, NEW u \in Uploads, upload[u].state = "publishing",
           NEW state \in {"done", "failed"}, state = "done" => Receipt \in FilesOf(u),
           upload' = [upload EXCEPT ![u].state = state], UNCHANGED <<clock, versions, expiry>>
    PROVE  Stored'
<1>1. upload[u] \in UploadRecord
    BY DEF Stored, StoreTypeInv
<1> DEFINE ended == [upload[u] EXCEPT !.state = state]
<1>2. ended \in UploadRecord /\ ended.state = state /\ ended.point = upload[u].point
    BY <1>1 DEF UploadRecord
<1>3. upload' = [upload EXCEPT ![u] = ended]
    OBVIOUS
<1> HIDE DEF ended
<1>4. /\ upload' \in [Uploads -> UploadRecord]
      /\ upload'[u].state = state
      /\ \A w \in Uploads : upload'[w].point = upload[w].point
      /\ \A w \in Uploads \ {u} : upload'[w] = upload[w]
    BY <1>2, <1>3 DEF Stored, StoreTypeInv
<1>5. \A w \in Uploads : Begun(w) => Begun(w)'
    BY <1>4 DEF Begun
<1>6. \A v \in versions : v.upload \in Uploads
    BY DEF Stored, StoreTypeInv, VersionRecord
<1>7. \A w \in Uploads : (StillKept(w)' => StillKept(w)) /\ (Whole(w) => Whole(w)')
    BY <1>4 DEF StillKept, Whole, FilesOf
<1>8. ReceiptFindsItsFiles'
    BY <1>4, <1>6, <1>7 DEF Stored, ReceiptFindsItsFiles
<1>9. ASSUME NEW w \in Uploads, upload'[w].state = "done", StillKept(w)' PROVE Whole(w)'
  <2>1. CASE w = u
    <3>1. PICK v \in versions : v.upload = u /\ v.file = Receipt
        BY <1>4, <1>9, <2>1 DEF FilesOf
    <3>2. clock < upload[v.upload].point + Lock
        BY <1>7, <1>9, <2>1, <3>1 DEF StillKept
    <3> QED BY <1>7, <2>1, <3>1, <3>2 DEF Stored, ReceiptFindsItsFiles
  <2>2. CASE w # u
      BY <1>4, <1>7, <1>9, <2>2 DEF Stored
  <2> QED BY <2>1, <2>2
<1>10. /\ StoreTypeInv'
       /\ \A w \in Uploads : upload'[w].point <= clock'
       /\ \A v \in versions' : Begun(v.upload)' /\ upload'[v.upload].point + Lock <= v.until
       /\ \A v \in expiry' : v.until <= clock'
    BY <1>4, <1>5, <1>6 DEF Stored, StoreTypeInv
<1> QED BY <1>8, <1>9, <1>10 DEF Stored

(* Each step of the store keeps what it promises. *)
LEMMA StoreKeeps ==
    ASSUME Stored, StoreNext
    PROVE  Stored'
<1>1. CASE Tick
  <2>1. clock \in Nat /\ clock' = clock + 1 /\ UNCHANGED <<upload, versions, expiry>>
      BY <1>1 DEF Tick, Stored, StoreTypeInv
  <2>2. \A v \in expiry' : v.until <= clock'
      BY <2>1 DEF Stored, StoreTypeInv, VersionRecord
  <2> QED BY <2>1, <2>2, DeletionKeeps DEF Stored, StoreTypeInv
<1>2. ASSUME NEW u \in Uploads, PutFile(u) PROVE Stored'
  <2>1. PICK f \in Files \ FilesOf(u) : versions' = versions \cup {Version(u, f)}
      BY <1>2 DEF PutFile
  <2>2. f \in Files \cup {Receipt} /\ (f = Receipt => Files \subseteq FilesOf(u))
      BY StoreAssumption
  <2> QED BY <1>2, <2>1, <2>2, PutKeeps DEF PutFile
<1>3. ASSUME NEW u \in Uploads, PutReceipt(u) PROVE Stored'
    BY <1>3, PutKeeps DEF PutReceipt
<1>4. ASSUME NEW u \in Uploads, Published(u) PROVE Stored'
    BY <1>4, EndKeeps DEF Published
<1>5. ASSUME NEW u \in Uploads, UploadFails(u) PROVE Stored'
    BY <1>5, EndKeeps DEF UploadFails
<1>6. CASE PlanExpiry
    BY <1>6, DeletionKeeps DEF PlanExpiry, Stored, StoreTypeInv
<1>7. ASSUME NEW v \in expiry, DeleteAcknowledged(v) PROVE Stored'
  <2>1. /\ versions' = versions \ {v}
        /\ expiry' = expiry \ {v}
        /\ v.until <= clock
        /\ UNCHANGED <<clock, upload>>
      BY <1>7 DEF DeleteAcknowledged
  <2>2. clock \in Nat /\ expiry' \subseteq VersionRecord /\ \A w \in expiry' : w.until <= clock'
      BY <2>1 DEF Stored, StoreTypeInv
  <2> QED BY <2>1, <2>2, DeletionKeeps
<1>8. ASSUME NEW v \in expiry, DeleteUnconfirmed(v) PROVE Stored'
  <2>1. /\ versions' \subseteq versions
        /\ \A w \in versions : w \notin versions' => w = v
        /\ expiry' = {}
        /\ UNCHANGED <<clock, upload>>
      BY <1>8 DEF DeleteUnconfirmed
  <2>2. v.until <= clock
      BY <1>8 DEF Stored
  <2> QED BY <2>1, <2>2, DeletionKeeps DEF Stored, StoreTypeInv
<1> QED BY <1>1, <1>2, <1>3, <1>4, <1>5, <1>6, <1>7, <1>8 DEF StoreNext

-----------------------------------------------------------------------------
(* The fence.                                                                *)

(* Goto is where the call goes on. *)
LEMMA GotoTaken ==
    ASSUME NEW step \in Steps, Goto(step)
    PROVE  call' \in CallRecord /\ call'.step = step
    BY DEF Goto, NoCall, CallRecord

(* Return ends it. *)
LEMMA ReturnTaken ==
    ASSUME Return
    PROVE  call' \in CallRecord /\ call'.step = "none" /\ memory' = Blank
    BY DEF Return, NoCall, CallRecord, Steps

(* Whoever has no call in a fence, and leaves it as it is, keeps it. *)
LEMMA OutsideKeeps ==
    ASSUME Fenced, UNCHANGED <<product, owner>>, call'.step \notin Held,
           lease' = "owner" => lease = "owner"
    PROVE  Fenced'
    BY DEF Fenced, OwnersFenceStands, product

(* Whoever holds the lease inside a fence that is not the owner's may do with it what it wants. *)
LEMMA InsideKeeps ==
    ASSUME Fenced, call.step \in Held, UNCHANGED owner,
           call'.step \in Held => lease' = "cycle",
           lease' \in {"cycle", "free"}
    PROVE  Fenced'
    BY DEF Fenced, OwnersFenceStands

(* Each step of the cycle, of its owner and of the store keeps the fence. *)
LEMMA FencedKeeps ==
    ASSUME CycleTypeInv, Fenced, [CycleNext]_vars
    PROVE  Fenced'
<1>1. call \in CallRecord
    BY DEF CycleTypeInv
<1>2. CASE Call
    BY <1>1, <1>2, GotoTaken, OutsideKeeps DEF Call, others, Steps, Held
<1>3. CASE Reopening
  <2>1. call.step \in Held
      BY <1>3 DEF Reopening, Login, OpenGate, ClearPending, StartServices, At, Held
  <2>2. CASE Login
      BY <1>1, <2>1, <2>2, GotoTaken, InsideKeeps DEF Login, others, Steps, Held, Fenced
  <2>3. CASE OpenGate
      BY <1>1, <2>1, <2>3, GotoTaken, InsideKeeps DEF OpenGate, others, Steps, Held, Fenced
  <2>4. CASE ClearPending
      BY <1>1, <2>1, <2>4, GotoTaken, InsideKeeps DEF ClearPending, others, Steps, Held, Fenced
  <2>5. CASE StartServices
    <3>1. call'.step \notin Held
        BY <1>1, <2>5, GotoTaken DEF StartServices, Steps, Held
    <3> QED BY <2>1, <2>5, <3>1, InsideKeeps DEF StartServices, others
  <2> QED BY <1>3, <2>2, <2>3, <2>4, <2>5 DEF Reopening
<1>4. CASE Capturing
  <2>1. call.step \in Held
      BY <1>4 DEF Capturing, CloseGate, WritePending, Drain, Dump, CompletePending, At, Held
  <2>2. CASE CloseGate
      BY <1>1, <2>1, <2>2, GotoTaken, InsideKeeps DEF CloseGate, others, Steps, Held, Fenced
  <2>3. CASE WritePending
      BY <1>1, <2>1, <2>3, GotoTaken, InsideKeeps DEF WritePending, others, Steps, Held, Fenced
  <2>4. CASE Drain
      BY <1>1, <2>1, <2>4, GotoTaken, InsideKeeps DEF Drain, others, Steps, Held, Fenced
  <2>5. CASE Dump
      BY <1>1, <2>1, <2>5, GotoTaken, InsideKeeps DEF Dump, others, Steps, Held, Fenced
  <2>6. CASE CompletePending
      BY <1>1, <2>1, <2>6, GotoTaken, InsideKeeps DEF CompletePending, others, Steps, Held, Fenced
  <2> QED BY <1>4, <2>2, <2>3, <2>4, <2>5, <2>6 DEF Capturing
<1>5. CASE Converging
  <2>1. CASE Converge
    <3>1. CASE UNCHANGED lease /\ Goto("converged")
        BY <1>1, <2>1, <3>1, GotoTaken, OutsideKeeps DEF Converge, others, Steps, Held
    <3>2. CASE /\ lease' = "cycle"
               /\ pending = NoPending \/ Owned
               /\ \E step \in {"login", "start"} : Goto(step)
      <4>1. owner # "fenced"
          BY <3>2 DEF Fenced, OwnersFenceStands, NoPending, Owned
      <4> QED BY <2>1, <3>2, <4>1 DEF Converge, Fenced, OwnersFenceStands, others
    <3> QED BY <2>1, <3>1, <3>2 DEF Converge
  <2>2. CASE ConvergeRefused
      BY <2>2, ReturnTaken, OutsideKeeps DEF ConvergeRefused, others, Held
  <2>3. CASE NothingToConverge
    <3>1. call'.step \notin Held
        BY <1>1, <2>3, GotoTaken DEF NothingToConverge, Steps, Held
    <3> QED BY <2>3, <3>1, OutsideKeeps DEF NothingToConverge, others
  <2>4. CASE Converged
      BY <2>4, ReturnTaken, OutsideKeeps DEF Converged, others, Held
  <2>5. CASE Run
      BY <1>1, <2>5, GotoTaken, OutsideKeeps DEF Run, others, Steps, Held
  <2> QED BY <1>5, <2>1, <2>2, <2>3, <2>4, <2>5 DEF Converging
<1>6. CASE Deciding
  <2>1. CASE Preflight
    <3>1. call'.step \notin Held
        BY <1>1, <2>1, GotoTaken, ReturnTaken DEF Preflight, Steps, Held
    <3> QED BY <2>1, <3>1, OutsideKeeps DEF Preflight, others
  <2>2. CASE Admission
    <3>1. call'.step \notin Held
        BY <1>1, <2>2, GotoTaken, ReturnTaken DEF Admission, Steps, Held
    <3> QED BY <2>2, <3>1, OutsideKeeps DEF Admission, others
  <2>3. CASE EnterFence
      BY <2>3 DEF EnterFence, Fenced, OwnersFenceStands, product, others
  <2>4. CASE CaptureSkipped
      BY <2>4, ReturnTaken, OutsideKeeps DEF CaptureSkipped, others, Held
  <2> QED BY <1>6, <2>1, <2>2, <2>3, <2>4 DEF Deciding
<1>7. CASE Uploading
  <2>1. CASE UploadWindowClosed
      BY <1>1, <2>1, GotoTaken, OutsideKeeps DEF UploadWindowClosed, others, Steps, Held
  <2>2. CASE UploadDeferred
      BY <2>2, ReturnTaken, OutsideKeeps DEF UploadDeferred, others, Held
  <2>3. CASE BeginUpload
    <3>1. call'.step = "publishing"
        BY <1>1, <2>3 DEF BeginUpload, CallRecord
    <3> QED BY <2>3, <3>1, OutsideKeeps DEF BeginUpload, others, Held
  <2>4. CASE Uploaded
      BY <1>1, <2>4, GotoTaken, OutsideKeeps DEF Uploaded, others, Steps, Held
  <2>5. CASE UploadFailed
      BY <2>5, ReturnTaken, OutsideKeeps DEF UploadFailed, others, Held
  <2>6. CASE UploadOfNothing
      BY <2>6, ReturnTaken, OutsideKeeps DEF UploadOfNothing, others, Held
  <2> QED BY <1>7, <2>1, <2>2, <2>3, <2>4, <2>5, <2>6 DEF Uploading
<1>8. CASE Faults
  <2>1. CASE CaptureFails
    <3>1. call.step \in Held
        BY <2>1 DEF CaptureFails, Held
    <3> QED BY <1>1, <2>1, <3>1, GotoTaken, InsideKeeps
            DEF CaptureFails, others, Fenced, Steps, Held
  <2>2. CASE ReopenFails
      BY <2>2, ReturnTaken, OutsideKeeps DEF ReopenFails, others, Held
  <2>3. CASE Die
      BY <2>3, ReturnTaken, OutsideKeeps DEF Die, others, Held
  <2> QED BY <1>8, <2>1, <2>2, <2>3 DEF Faults
<1>9. CASE Acknowledge
    BY <1>9 DEF Acknowledge, Fenced, OwnersFenceStands, product, others
<1>10. CASE Owners
  <2>1. CASE OwnerCloses
      BY <2>1 DEF OwnerCloses, Free, Fenced, OwnersFenceStands
  <2>2. CASE OwnerFences
      BY <2>2 DEF OwnerFences, Fenced, OwnersFenceStands
  <2>3. CASE OwnerDies
      BY <2>3 DEF OwnerDies, Fenced, OwnersFenceStands, product, others
  <2>4. CASE OwnerReopens
      BY <2>4 DEF OwnerReopens, Free, Fenced, OwnersFenceStands
  <2>5. CASE OwnerMaintains
      BY <2>5 DEF OwnerMaintains, Free, Fenced, OwnersFenceStands, product
  <2>6. CASE OwnerFinishes
      BY <2>6 DEF OwnerFinishes, Fenced, OwnersFenceStands, product
  <2> QED BY <1>10, <2>1, <2>2, <2>3, <2>4, <2>5, <2>6 DEF Owners
<1>11. CASE Store
    BY <1>11 DEF Store, cycleVars, product, others, Fenced, OwnersFenceStands
<1>12. CASE UNCHANGED vars
    BY <1>12 DEF vars, product, others, Fenced, OwnersFenceStands
<1>13. CASE LateCalls
  <2>1. PICK c \in Late : Load(c) \/ LateRefused(c) \/ LateCall(c) \/ LateAcknowledge(c)
      BY <1>13 DEF LateCalls
  <2>2. CASE LateCall(c)
      BY <2>2, GotoTaken, OutsideKeeps DEF LateCall, others, Steps, Held
  <2>3. CASE Load(c) \/ LateRefused(c) \/ LateAcknowledge(c)
      BY <2>3 DEF Load, LateRefused, LateAcknowledge, Fenced, OwnersFenceStands, product, others
  <2> QED BY <2>1, <2>2, <2>3
<1> QED BY <1>2, <1>3, <1>4, <1>5, <1>6, <1>7, <1>8, <1>9, <1>10, <1>11, <1>12, <1>13
        DEF CycleNext

-----------------------------------------------------------------------------
(* The journal.                                                              *)

(* A pruned pair has the recovery point it had. *)
LEMMA PrunedTaken ==
    ASSUME pairs \in [Captures -> PairRecord], NEW keep, pairs' = Pruned(keep)
    PROVE  /\ pairs' \in [Captures -> PairRecord]
           /\ \A p \in Captures : pairs'[p].point = pairs[p].point
<1>1. ASSUME NEW p \in Captures
      PROVE  Pruned(keep)[p] \in PairRecord /\ Pruned(keep)[p].point = pairs[p].point
  <2>1. pairs[p] \in PairRecord
      OBVIOUS
  <2>2. [pairs[p] EXCEPT !.state = "pruned"] \in PairRecord
        /\ [pairs[p] EXCEPT !.state = "pruned"].point = pairs[p].point
      BY <2>1 DEF PairRecord
  <2> QED BY <2>1, <2>2 DEF Pruned
<1>2. pairs' = [p \in Captures |-> pairs'[p]]
    BY DEF Pruned
<1> QED BY <1>1, <1>2

(* What the next record may be: of a capture there was, and with an upload some record names. *)
Follows(record) ==
    /\ record \in JournalRecord
    /\ record.run <= captures
    /\ record.status \in Fencing \cup {"upload-pending"} => record.run # 0
    /\ record.uploaded # 0 => \E j \in Records : j.uploaded = record.uploaded

(* A sound record stays so while the uploads that ended well, and their points, stay. *)
LEMMA SoundStays ==
    ASSUME NEW j, Sound(j), captures \in Nat, captures' \in Nat, captures <= captures',
           j.uploaded # 0 => pairs'[j.uploaded].point = pairs[j.uploaded].point,
           \A u \in Uploads : upload[u].state = "done" =>
             /\ upload'[u].state = "done"
             /\ upload'[u].pair = upload[u].pair
             /\ upload'[u].point = upload[u].point
    PROVE  Sound(j)'
<1>1. j.run <= captures' /\ j.uploaded <= captures'
    BY DEF Sound, JournalRecord
<1> QED BY <1>1 DEF Sound

(* A record of no run. *)
NoRun(record, status, uploaded) ==
    /\ record \in JournalRecord
    /\ record.run = 0 /\ record.status = status /\ record.uploaded = uploaded

LEMMA BlankTaken ==
    ASSUME NEW status \in Statuses, NEW uploaded \in 0..MaxCaptures
    PROVE  /\ NoRun(Blank, "idle", 0)
           /\ NoRun([Blank EXCEPT !.status = status], status, 0)
           /\ NoRun([Blank EXCEPT !.uploaded = uploaded], "idle", uploaded)
           /\ NoRun([Blank EXCEPT !.status = status, !.uploaded = uploaded], status, uploaded)
<1>1. 0 \in 0..MaxCaptures /\ 0 \in Nat
    BY CycleAssumption
<1>2. "idle" \in Statuses
    BY DEF Statuses
<1>3. NoRun(Blank, "idle", 0)
    BY <1>1, <1>2 DEF Blank, JournalRecord, NoRun
<1>4. Blank \in JournalRecord /\ Blank.run = 0 /\ Blank.status = "idle" /\ Blank.uploaded = 0
    BY <1>3 DEF NoRun
<1>5. NoRun([Blank EXCEPT !.status = status], status, 0)
    BY <1>4 DEF JournalRecord, NoRun
<1>6. NoRun([Blank EXCEPT !.uploaded = uploaded], "idle", uploaded)
    BY <1>4 DEF JournalRecord, NoRun
<1>7. NoRun([Blank EXCEPT !.status = status, !.uploaded = uploaded], status, uploaded)
    BY <1>4 DEF JournalRecord, NoRun
<1> QED BY <1>3, <1>5, <1>6, <1>7

(* The records there are may be the next ones, and so may one that nobody has written. *)
LEMMA KnownFollow ==
    ASSUME Booked
    PROVE  /\ \A j \in Records : Follows(j)
           /\ Follows(Blank) /\ Follows(NotYet) /\ Follows(Gone)
<1>1. \A j \in Records : Follows(j)
    BY DEF Booked, Sound, Follows
<1>2. captures \in Nat /\ 0 <= captures
    BY CycleAssumption DEF Booked, CycleTypeInv
<1>3. "not yet" \in Statuses /\ "gone" \in Statuses /\ 0 \in 0..MaxCaptures
    BY CycleAssumption DEF Statuses
<1>4. NoRun(Blank, "idle", 0) /\ NoRun(NotYet, "not yet", 0) /\ NoRun(Gone, "gone", 0)
    BY <1>3, BlankTaken DEF NotYet, Gone
<1>5. ASSUME NEW j, NEW status \in {"idle", "not yet", "gone"}, NoRun(j, status, 0)
      PROVE  Follows(j)
  <2>1. j.status \notin Fencing \cup {"upload-pending"}
      BY <1>5 DEF Fencing, NoRun
  <2>2. j \in JournalRecord /\ j.uploaded = 0
      BY <1>5 DEF NoRun
  <2>3. j.run <= captures
    <3>1. j.run = 0
        BY <1>5 DEF NoRun
    <3> QED BY <1>2, <3>1, Zenon
  <2> QED BY <2>1, <2>2, <2>3 DEF Follows
<1> QED BY <1>1, <1>4, <1>5

(* An ended record keeps its upload ... *)
LEMMA EndedFollows ==
    ASSUME Booked, NEW j \in Records, NEW status \in {"idle", "owner-required"}
    PROVE  Follows(Ended(j, status))
<1>1. captures \in Nat /\ j \in JournalRecord
    BY CycleAssumption DEF Booked, CycleTypeInv, Sound
<1>2. /\ Ended(j, status) \in JournalRecord
      /\ Ended(j, status).run = 0
      /\ Ended(j, status).status = status
      /\ Ended(j, status).uploaded = j.uploaded
  <2>1. status \in Statuses /\ j.uploaded \in 0..MaxCaptures
      BY <1>1 DEF Statuses, JournalRecord
  <2>2. NoRun(Ended(j, status), status, j.uploaded)
      BY <2>1, BlankTaken DEF Ended
  <2> QED BY <2>2 DEF NoRun
<1> QED BY <1>1, <1>2 DEF Follows, Fencing

(* ... and one of the same run and upload follows, whatever else it says. *)
LEMMA SameRunFollows ==
    ASSUME Booked, memory.run # 0, NEW j \in JournalRecord,
           j.run = memory.run, j.uploaded = memory.uploaded
    PROVE  Follows(j)
    BY DEF Booked, Sound, Follows, Records

(* The records after a step that leaves those of the late calls. *)
LEMMA RecordsTaken ==
    ASSUME Booked, UNCHANGED loaded, Follows(journal'), Follows(memory')
    PROVE  \A j \in Records' : Follows(j)
<1>1. \A c \in Late : Follows(loaded'[c])
    BY KnownFollow DEF Records
<1> QED BY <1>1 DEF Records

(* A step that speaks of the captures there were and of no upload. *)
LEMMA FollowingKeeps ==
    ASSUME Booked, UNCHANGED <<clock, upload, captures>>,
           call' \in CallRecord, loaded' \in [Late -> JournalRecord],
           pairs' \in [Captures -> PairRecord],
           \A p \in Captures : pairs'[p].point = pairs[p].point,
           \A j \in Records' : Follows(j),
           call'.step \in Naming => memory'.run # 0,
           call'.step \in Ahead =>
             memory'.run = captures /\ \A j \in Records : j.uploaded < captures,
           call'.step # "publishing"
    PROVE  Booked'
<1>1. CycleTypeInv' /\ \A p \in Captures : pairs'[p].point <= clock'
    BY DEF Booked, CycleTypeInv
<1>2. captures \in Nat
    BY CycleAssumption DEF Booked, CycleTypeInv
<1>3. ASSUME NEW j \in Records' PROVE Sound(j)'
  <2>1. Follows(j)
      OBVIOUS
  <2>2. j.uploaded # 0 => j.uploaded \in Captures
      BY <2>1, CycleAssumption DEF Follows, JournalRecord, Captures
  <2>3. j.uploaded <= captures
      BY <1>2, <2>1 DEF Follows, Booked, Sound
  <2>4. j.uploaded # 0 => \E u \in Uploads :
          /\ upload'[u].state = "done"
          /\ upload'[u].pair = j.uploaded
          /\ upload'[u].point = pairs'[j.uploaded].point
      BY <2>1, <2>2 DEF Follows, Booked, Sound
  <2> QED BY <2>1, <2>3, <2>4 DEF Follows, Sound
<1>4. call'.step \in Ahead => \A j \in Records' : j.uploaded < captures
  <2>1. ASSUME call'.step \in Ahead, NEW j \in Records', j.uploaded = 0 PROVE j.uploaded < captures
    <3>1. memory'.run = captures /\ memory.uploaded < captures /\ memory.uploaded \in Nat
        BY <2>1, CycleAssumption DEF Booked, Records, Sound, JournalRecord
    <3> QED BY <1>2, <2>1, <3>1
  <2>2. ASSUME call'.step \in Ahead, NEW j \in Records', j.uploaded # 0 PROVE j.uploaded < captures
      BY <2>2 DEF Follows
  <2> QED BY <2>1, <2>2
<1> QED BY <1>1, <1>3, <1>4 DEF Booked

(* A step that leaves the records, call and pairs, and no upload that has begun another pair. *)
LEMMA OtherKeeps ==
    ASSUME Stored, Booked, UNCHANGED <<journal, memory, loaded, captures, call, pairs>>,
           clock' \in Nat, clock <= clock',
           \A u \in Uploads :
             /\ Begun(u) => Begun(u)'
             /\ upload[u].state = "done" => upload'[u].state = "done"
             /\ upload'[u].pair = upload[u].pair
             /\ upload'[u].point = upload[u].point
    PROVE  Booked'
<1>1. \A p \in Captures : pairs'[p].point <= clock'
    BY DEF Stored, StoreTypeInv, Booked, CycleTypeInv, PairRecord
<1>2. captures \in Nat
    BY CycleAssumption DEF Booked, CycleTypeInv
<1>3. Records' = Records
    BY DEF Records
<1>4. \A j \in Records' : Sound(j)'
    BY <1>2, <1>3, SoundStays DEF Booked
<1> QED BY <1>1, <1>3, <1>4 DEF Booked, CycleTypeInv

(* Each step of the reopening and of the capture. *)
LEMMA FenceBooked ==
    ASSUME Stored, Booked, Reopening \/ Capturing
    PROVE  Booked'
<1>1. /\ call \in CallRecord
      /\ loaded \in [Late -> JournalRecord]
      /\ pairs \in [Captures -> PairRecord]
      /\ journal \in Records /\ memory \in Records
      /\ memory \in JournalRecord
    BY DEF Booked, CycleTypeInv, Records, Sound
<1>2. call.step \in Held /\ memory.run # 0
    BY DEF Reopening, Login, OpenGate, ClearPending, StartServices, Capturing, CloseGate,
           WritePending, Drain, Dump, CompletePending, At, Held, Booked, Naming
<1>3. memory.run \in Captures
    BY <1>1, <1>2, CycleAssumption DEF JournalRecord, Captures
<1>4. UNCHANGED book => \A j \in Records' : UNCHANGED loaded => Follows(j)
    BY <1>1, KnownFollow, RecordsTaken DEF book
<1>5. ASSUME UNCHANGED <<book, storeVars, calls, pairs>>, NEW step \in Steps, Goto(step),
             step \in Ahead => call.step \in Ahead, step # "publishing"
      PROVE  Booked'
    BY <1>1, <1>2, <1>4, <1>5, GotoTaken, FollowingKeeps DEF book, storeVars, calls, Booked
<1>6. CASE Login
    BY <1>5, <1>6 DEF Login, Ahead, Steps, Held
<1>7. CASE OpenGate
    BY <1>5, <1>7 DEF OpenGate, Ahead, Steps, Held
<1>8. CASE ClearPending
  <2>1. /\ memory' \in JournalRecord
        /\ memory'.run = memory.run
        /\ memory'.uploaded = memory.uploaded
        /\ journal' = memory'
      BY <1>1, <1>8 DEF ClearPending, Saved, Save, JournalRecord, Statuses, Fencing
  <2>2. \A j \in Records' : Follows(j)
      BY <1>2, <1>8, <2>1, SameRunFollows, RecordsTaken DEF ClearPending, calls
  <2>3. call' \in CallRecord /\ call'.step = "start"
      BY <1>8, GotoTaken DEF ClearPending, Steps, Held
  <2> QED BY <1>1, <1>2, <1>8, <2>1, <2>2, <2>3, FollowingKeeps
          DEF ClearPending, Ahead, storeVars, calls
<1>9. CASE StartServices
  <2> DEFINE captured == pairs[memory.run].state = "verified"
             pended == [memory EXCEPT !.status = "upload-pending", !.attempts = 0]
  <2>1. /\ pended \in JournalRecord
        /\ pended.run = memory.run
        /\ pended.uploaded = memory.uploaded
      BY <1>1 DEF JournalRecord, Statuses
  <2>2. Follows(pended)
      BY <1>2, <2>1, SameRunFollows
  <2>3. Follows(Ended(memory, "idle"))
      BY <1>1, EndedFollows
  <2>4. /\ captured => memory' = pended /\ Goto("upload")
        /\ ~captured => memory' = Ended(memory, "idle") /\ Goto("converged")
        /\ journal' = memory'
        /\ UNCHANGED <<clock, upload, captures, loaded, pairs>>
      BY <1>9 DEF StartServices, Saved, Save, storeVars, calls
  <2> HIDE DEF captured, pended
  <2>5. \A j \in Records' : Follows(j)
      BY <2>2, <2>3, <2>4, RecordsTaken
  <2>6. call' \in CallRecord /\ call'.step \in {"upload", "converged"}
        /\ (call'.step = "upload" => memory'.run # 0)
      BY <1>2, <2>1, <2>4, GotoTaken DEF Steps
  <2> QED BY <1>1, <2>4, <2>5, <2>6, FollowingKeeps DEF Ahead, Naming, Held
<1>10. CASE CloseGate
    BY <1>5, <1>10 DEF CloseGate, At, Ahead, Steps, Held
<1>11. CASE WritePending
    BY <1>5, <1>11 DEF WritePending, At, Ahead, Steps, Held
<1>12. CASE Drain
    BY <1>5, <1>12 DEF Drain, At, Ahead, Steps, Held
<1>13. CASE Dump
  <2> DEFINE pair == [state |-> "verified", point |-> clock]
  <2>1. pair \in PairRecord /\ pair.point = clock
      BY DEF Stored, StoreTypeInv, PairRecord
  <2>2. pairs' = [pairs EXCEPT ![memory.run] = pair]
      BY <1>13 DEF Dump
  <2> HIDE DEF pair
  <2>3. /\ pairs' \in [Captures -> PairRecord]
        /\ pairs'[memory.run].point = clock
        /\ \A p \in Captures \ {memory.run} : pairs'[p] = pairs[p]
      BY <1>1, <1>3, <2>1, <2>2
  <2>4. call' \in CallRecord /\ call'.step = "complete"
      BY <1>13, GotoTaken DEF Dump, Steps, Held
  <2>5. UNCHANGED <<clock, upload, journal, memory, captures, loaded>>
      BY <1>13 DEF Dump, storeVars, book, calls
  <2>6. memory.run = captures /\ captures \in Nat /\ \A j \in Records : j.uploaded < captures
      BY <1>13, CycleAssumption DEF Dump, At, Booked, Ahead, CycleTypeInv
  <2>7. \A p \in Captures : pairs'[p].point <= clock'
    <3>1. clock \in Nat
        BY DEF Stored, StoreTypeInv
    <3> QED BY <2>3, <2>5, <3>1 DEF Booked
  <2>8. ASSUME NEW j \in Records' PROVE Sound(j)'
    <3>1. j \in Records /\ Sound(j)
        BY <2>5 DEF Records, Booked
    <3>2. j.uploaded # 0 => j.uploaded \in Captures \ {memory.run}
        BY <2>6, <3>1, CycleAssumption DEF Sound, JournalRecord, Captures
    <3> QED BY <2>3, <2>5, <2>6, <3>1, <3>2, SoundStays
  <2> QED BY <1>1, <1>2, <2>3, <2>4, <2>5, <2>7, <2>8 DEF Booked, CycleTypeInv, Ahead
<1>14. CASE CompletePending
    BY <1>5, <1>14 DEF CompletePending, Ahead, Steps, Held
<1> QED BY <1>6, <1>7, <1>8, <1>9, <1>10, <1>11, <1>12, <1>13, <1>14 DEF Reopening, Capturing

(* A step to where no capture is under way. *)
LEMMA StepKeeps ==
    ASSUME Booked, UNCHANGED <<clock, upload, captures, loaded>>,
           pairs' \in [Captures -> PairRecord],
           \A p \in Captures : pairs'[p].point = pairs[p].point,
           call' \in CallRecord, call'.step \notin Ahead \cup {"publishing"},
           Follows(journal'), Follows(memory'),
           call'.step \in Naming => memory'.run # 0
    PROVE  Booked'
<1>1. loaded' \in [Late -> JournalRecord]
    BY DEF Booked, CycleTypeInv
<1> QED BY <1>1, RecordsTaken, FollowingKeeps

(* Each step of what a call finds and decides. *)
LEMMA CallBooked ==
    ASSUME Stored, Booked, Call \/ Converging \/ Deciding
    PROVE  Booked'
<1>1. /\ call \in CallRecord
      /\ loaded \in [Late -> JournalRecord]
      /\ captures \in 0..MaxCaptures /\ captures \in Nat
      /\ pairs \in [Captures -> PairRecord]
      /\ journal \in Records /\ memory \in Records
      /\ memory \in JournalRecord
    BY CycleAssumption DEF Booked, CycleTypeInv, Records, Sound
<1>2. memory.status \in Fencing \cup {"upload-pending"} => memory.run # 0
    BY <1>1 DEF Booked, Sound
<1>3. Follows(journal) /\ Follows(memory) /\ Follows(Blank)
    BY <1>1, KnownFollow
<1>4. CASE Call
  <2>1. call' \in CallRecord /\ call'.step = "converge"
      BY <1>4, GotoTaken DEF Call, Steps
  <2> QED BY <1>1, <1>3, <1>4, <2>1, StepKeeps DEF Call, Naming, Ahead, Held, storeVars, calls
<1>5. CASE Converge
  <2> DEFINE reopening == [memory EXCEPT !.status = "reopening"]
  <2>1. memory.run # 0 /\ UNCHANGED <<clock, upload, pairs, captures, loaded>>
      BY <1>2, <1>5 DEF Converge, storeVars, calls
  <2>2. /\ reopening \in JournalRecord
        /\ reopening.run = memory.run
        /\ reopening.uploaded = memory.uploaded
      BY <1>1 DEF JournalRecord, Statuses, Fencing
  <2>3. Follows(reopening) /\ Follows(Ended(memory, "idle"))
        /\ Follows(Ended(memory, "owner-required"))
      BY <1>1, <2>1, <2>2, SameRunFollows, EndedFollows
  <2>4. journal' = memory'
        /\ \/ /\ memory' \in {Ended(memory, "idle"), Ended(memory, "owner-required")}
              /\ Goto("converged")
           \/ /\ memory' = reopening
              /\ \E step \in {"login", "start"} : Goto(step)
      BY <1>5 DEF Converge, Saved, Save
  <2> HIDE DEF reopening
  <2>5. Follows(journal') /\ Follows(memory')
      BY <2>3, <2>4
  <2>6. /\ call' \in CallRecord /\ call'.step \in {"converged", "login", "start"}
        /\ call'.step # "converged" => memory'.run # 0
      BY <2>1, <2>2, <2>4, GotoTaken DEF Steps, Held
  <2> QED BY <1>1, <2>1, <2>5, <2>6, StepKeeps DEF Naming, Ahead, Held
<1>6. CASE ConvergeRefused
    BY <1>1, <1>3, <1>6, ReturnTaken, StepKeeps
       DEF ConvergeRefused, Naming, Ahead, Held, storeVars, calls
<1>7. CASE NothingToConverge
  <2>1. \/ Goto("upload") /\ memory.run # 0
        \/ Goto("converged")
      BY <1>2, <1>7 DEF NothingToConverge
  <2>2. /\ call' \in CallRecord
        /\ call'.step \in {"upload", "converged"}
        /\ call'.step = "upload" => memory.run # 0
      BY <2>1, GotoTaken DEF Steps
  <2> QED BY <1>1, <1>3, <1>7, <2>2, StepKeeps
          DEF NothingToConverge, Naming, Ahead, Held, storeVars, book, calls
<1>8. CASE Converged
  <2>1. Follows(journal')
      BY <1>3, <1>8 DEF Converged, MaybeSkipped
  <2> QED BY <1>1, <1>3, <1>8, <2>1, ReturnTaken, StepKeeps
          DEF Converged, Naming, Ahead, Held, storeVars, calls
<1>9. CASE Run
  <2>1. /\ pairs' \in [Captures -> PairRecord]
        /\ \A p \in Captures : pairs'[p].point = pairs[p].point
      BY <1>1, <1>9, PrunedTaken DEF Run
  <2>2. call' \in CallRecord /\ call'.step = "preflight"
      BY <1>9, GotoTaken DEF Run, Steps
  <2> QED BY <1>1, <1>3, <1>9, <2>1, <2>2, StepKeeps
          DEF Run, Naming, Ahead, Held, storeVars, book, calls
<1>10. CASE Preflight
  <2>1. /\ call' \in CallRecord /\ call'.step \in {"admission", "none"}
        /\ Follows(journal') /\ Follows(memory')
      BY <1>3, <1>10, GotoTaken, ReturnTaken DEF Preflight, Save, book, Steps
  <2> QED BY <1>1, <1>10, <2>1, StepKeeps DEF Preflight, Naming, Ahead, Held, storeVars, calls
<1>11. CASE Admission
  <2>1. CASE Save(memory) /\ Return /\ UNCHANGED captures
      BY <1>1, <1>3, <1>11, <2>1, ReturnTaken, StepKeeps
         DEF Admission, Save, Naming, Ahead, Held, storeVars
  <2>2. CASE /\ captures < MaxCaptures /\ captures' = captures + 1
             /\ Saved([memory EXCEPT !.status = "capturing", !.run = captures + 1,
                                     !.entered = FALSE, !.attempts = 0])
             /\ Goto("lock")
    <3> DEFINE run == captures + 1
    <3>1. run \in 0..MaxCaptures /\ run # 0 /\ captures < run /\ captures' = run
        BY <1>1, <2>2, CycleAssumption
    <3>2. journal' = memory'
          /\ memory' = [memory EXCEPT !.status = "capturing", !.run = run,
                                      !.entered = FALSE, !.attempts = 0]
        BY <2>2 DEF Saved, Save
    <3> HIDE DEF run
    <3>3. /\ memory' \in JournalRecord
          /\ memory'.run = run
          /\ memory'.uploaded = memory.uploaded
        BY <1>1, <3>1, <3>2 DEF JournalRecord, Statuses, Fencing
    <3>4. call' \in CallRecord /\ call'.step = "lock"
        BY <2>2, GotoTaken DEF Steps
    <3>5. UNCHANGED <<clock, upload, pairs, loaded>>
        BY <1>11 DEF Admission, storeVars
    <3>6. run \in Nat
        BY <1>1, <2>2 DEF run
    <3>7. \A j \in Records : Sound(j)' /\ j.uploaded < run
      <4>1. ASSUME NEW j \in Records PROVE Sound(j)' /\ j.uploaded < run
        <5>1. Sound(j)
            BY DEF Booked
        <5>2. j.uploaded < run
            BY <1>1, <3>1, <3>6, <5>1 DEF Sound, JournalRecord
        <5> QED BY <1>1, <3>1, <3>5, <3>6, <5>1, <5>2, SoundStays
      <4> QED BY <4>1
    <3>8. Sound(memory)'
        BY <1>1, <3>1, <3>3, <3>6, <3>7 DEF Sound, Fencing, JournalRecord
    <3>9. \A j \in Records' : Sound(j)' /\ j.uploaded < run
      <4>1. Records' = {memory'} \cup {loaded[c] : c \in Late}
          BY <3>2, <3>5 DEF Records
      <4>2. \A j \in {loaded[c] : c \in Late} : Sound(j)' /\ j.uploaded < run
          BY <3>7 DEF Records
      <4>3. memory'.uploaded < run
          BY <1>1, <3>3, <3>7
      <4> QED BY <3>8, <4>1, <4>2, <4>3
    <3>10. CycleTypeInv' /\ \A q \in Captures : pairs'[q].point <= clock'
        BY <1>1, <3>1, <3>4, <3>5 DEF Booked, CycleTypeInv
    <3> QED BY <3>1, <3>3, <3>4, <3>9, <3>10 DEF Booked
  <2> QED BY <1>11, <2>1, <2>2 DEF Admission
<1>12. CASE EnterFence
  <2> DEFINE entered == [memory EXCEPT !.entered = TRUE]
  <2>1. /\ entered \in JournalRecord
        /\ entered.run = memory.run
        /\ entered.uploaded = memory.uploaded
      BY <1>1 DEF JournalRecord
  <2>2. journal' = entered /\ memory' = entered
      BY <1>12 DEF EnterFence, Saved, Save
  <2> HIDE DEF entered
  <2>3. call' \in CallRecord /\ call'.step = "close"
      BY <1>12, GotoTaken DEF EnterFence, Steps, Held
  <2>4. memory.run # 0 /\ memory.run = captures /\ \A j \in Records : j.uploaded < captures
      BY <1>12 DEF EnterFence, At, Booked, Naming, Ahead
  <2>5. \A j \in Records' : Follows(j)
      BY <1>12, <2>1, <2>2, <2>4, SameRunFollows, RecordsTaken DEF EnterFence, calls
  <2> QED BY <1>1, <1>12, <2>1, <2>2, <2>3, <2>4, <2>5, FollowingKeeps
          DEF EnterFence, storeVars, calls
<1>13. CASE CaptureSkipped
  <2>1. journal' = Ended(memory, "idle") /\ Return
      BY <1>13 DEF CaptureSkipped, Save
  <2> QED BY <1>1, <1>3, <1>13, <2>1, EndedFollows, ReturnTaken, StepKeeps
          DEF CaptureSkipped, Naming, Ahead, Held, storeVars, calls
<1> QED BY <1>4, <1>5, <1>6, <1>7, <1>8, <1>9, <1>10, <1>11, <1>12, <1>13
        DEF Converging, Deciding

(* Each step of a late call until it has the lock, or its acknowledgement is done. *)
LEMMA LateBooked ==
    ASSUME Stored, Booked, LateCalls
    PROVE  Booked'
<1>1. PICK c \in Late : Load(c) \/ LateRefused(c) \/ LateCall(c) \/ LateAcknowledge(c)
    BY DEF LateCalls
<1>2. /\ call \in CallRecord
      /\ loaded \in [Late -> JournalRecord]
      /\ pairs \in [Captures -> PairRecord]
      /\ journal \in Records /\ memory \in Records /\ loaded[c] \in Records
      /\ \A j \in Records : Follows(j) /\ j \in JournalRecord
      /\ Follows(NotYet) /\ Follows(Gone)
      /\ NotYet \in JournalRecord /\ Gone \in JournalRecord
    BY KnownFollow DEF Booked, CycleTypeInv, Records, Sound, Follows
<1>3. PICK slot \in {journal, NotYet, Gone} : loaded' = [loaded EXCEPT ![c] = slot]
    BY <1>1 DEF Load, LateRefused, LateCall, LateAcknowledge, Takes
<1>4. /\ loaded' \in [Late -> JournalRecord]
      /\ \A d \in Late : Follows(loaded'[d])
  <2>1. slot \in JournalRecord /\ Follows(slot)
      BY <1>2
  <2>2. \A d \in Late : loaded'[d] \in {slot, loaded[d]} /\ loaded[d] \in Records
      BY <1>2, <1>3 DEF Records
  <2> QED BY <1>2, <1>3, <2>1, <2>2
<1>5. Follows(journal') /\ Follows(memory')
  <2>1. Follows(Ended(loaded[c], "idle"))
      BY <1>2, EndedFollows
  <2> QED BY <1>1, <1>2, <2>1 DEF Load, LateRefused, LateCall, LateAcknowledge, Save, book
<1>6. UNCHANGED <<clock, upload, captures, pairs>>
    BY <1>1 DEF Load, LateRefused, LateCall, LateAcknowledge, storeVars
<1>7. \A j \in Records' : Follows(j)
    BY <1>4, <1>5 DEF Records
<1>8. CASE LateCall(c)
  <2>1. call' \in CallRecord /\ call'.step = "converge"
      BY <1>8, GotoTaken DEF LateCall, Steps
  <2> QED BY <1>2, <1>4, <1>6, <1>7, <2>1, FollowingKeeps DEF Naming, Ahead, Held
<1>9. CASE LateAcknowledge(c)
  <2>1. call' \in CallRecord /\ call'.step = "none"
      BY <1>2, <1>9 DEF LateAcknowledge, NoCall
  <2> QED BY <1>2, <1>4, <1>6, <1>7, <2>1, FollowingKeeps DEF Naming, Ahead, Held
<1>10. CASE Load(c) \/ LateRefused(c)
  <2>1. UNCHANGED <<journal, memory, call>>
      BY <1>10 DEF Load, LateRefused, book
  <2>2. CASE call.step # "publishing"
      BY <1>2, <1>4, <1>6, <1>7, <2>1, <2>2, FollowingKeeps DEF Booked
  <2>3. CASE call.step = "publishing"
    <3>1. CycleTypeInv' /\ \A p \in Captures : pairs'[p].point <= clock'
        BY <1>4, <1>6, <2>1 DEF Booked, CycleTypeInv
    <3>2. ASSUME NEW j \in Records' PROVE Sound(j)'
      <4>1. j \in Records \cup {NotYet, Gone}
          BY <1>2, <1>3, <2>1 DEF Records
      <4>2. Sound(j)
        <5>1. CASE j \in Records
            BY <5>1 DEF Booked
        <5>2. CASE j \in {NotYet, Gone}
          <6>1. j.uploaded = 0 /\ j.status \notin Fencing \cup {"upload-pending"}
              BY <5>2 DEF NotYet, Gone, Blank, Fencing
          <6>2. captures \in Nat
              BY CycleAssumption DEF Booked, CycleTypeInv
          <6> QED BY <1>2, <5>2, <6>1, <6>2 DEF Sound, Follows
        <5> QED BY <4>1, <5>1, <5>2
      <4> QED BY <1>6, <4>2 DEF Sound
    <3> QED BY <1>6, <2>1, <2>3, <3>1, <3>2 DEF Booked, Begun, Naming, Ahead, Held
  <2> QED BY <2>2, <2>3
<1> QED BY <1>1, <1>8, <1>9, <1>10

(* What an upload that begins is: of the call's pair, with its recovery point. *)
LEMMA BeginTaken ==
    ASSUME Stored, Booked, BeginUpload
    PROVE  \E u \in Uploads :
        /\ ~Begun(u)
        /\ Begun(u)'
        /\ upload' \in [Uploads -> UploadRecord]
        /\ \A w \in Uploads \ {u} : upload'[w] = upload[w]
        /\ upload'[u].state = "publishing"
        /\ upload'[u].pair = memory.run
        /\ upload'[u].point = pairs[memory.run].point
        /\ upload'[u].point <= clock
        /\ call' \in CallRecord /\ call'.step = "publishing" /\ call'.upload = u
        /\ journal' = memory
        /\ UNCHANGED <<clock, versions, expiry, memory, loaded, captures, pairs>>
<1>1. /\ call \in CallRecord
      /\ memory \in JournalRecord
      /\ pairs \in [Captures -> PairRecord]
    BY DEF Booked, CycleTypeInv, Records, Sound
<1>2. memory.run \in Captures
    BY <1>1, CycleAssumption DEF BeginUpload, At, Booked, Naming, JournalRecord, Captures
<1> DEFINE new == [state |-> "publishing", pair |-> memory.run,
                   point |-> pairs[memory.run].point]
<1>3. PICK u \in Uploads :
        /\ upload[u] = NoUpload
        /\ upload' = [upload EXCEPT ![u] = new]
        /\ call' = [call EXCEPT !.step = "publishing", !.upload = u]
    BY DEF BeginUpload
<1>4. /\ new \in UploadRecord
      /\ new.state = "publishing"
      /\ new.pair = memory.run
      /\ new.point = pairs[memory.run].point
  <2>1. pairs[memory.run].point \in Nat /\ memory.run \in Nat
      BY <1>1, <1>2 DEF PairRecord, JournalRecord
  <2> QED BY <2>1 DEF UploadRecord
<1> HIDE DEF new
<1>5. /\ upload' \in [Uploads -> UploadRecord]
      /\ upload'[u] = new
      /\ \A w \in Uploads \ {u} : upload'[w] = upload[w]
    BY <1>3, <1>4 DEF Stored, StoreTypeInv
<1>6. call' \in CallRecord /\ call'.step = "publishing" /\ call'.upload = u
  <2>1. u \in Nat
      BY <1>3, StoreAssumption DEF Uploads
  <2> QED BY <1>1, <1>3, <2>1 DEF CallRecord, Steps
<1>7. ~Begun(u) /\ Begun(u)'
    BY <1>3, <1>4, <1>5 DEF Begun, NoUpload
<1>8. pairs[memory.run].point <= clock
    BY <1>2 DEF Booked
<1>9. journal' = memory /\ UNCHANGED <<clock, versions, expiry, memory, loaded, captures, pairs>>
    BY DEF BeginUpload, Saved, Save, calls
<1> QED BY <1>4, <1>5, <1>6, <1>7, <1>8, <1>9

(* Each step of an upload, seen from the call. *)
LEMMA UploadBooked ==
    ASSUME Stored, Booked, Uploading
    PROVE  Booked'
<1>1. /\ call \in CallRecord
      /\ loaded \in [Late -> JournalRecord]
      /\ pairs \in [Captures -> PairRecord]
      /\ captures \in Nat
      /\ journal \in Records /\ memory \in Records
      /\ memory \in JournalRecord
    BY CycleAssumption DEF Booked, CycleTypeInv, Records, Sound
<1>2. Follows(journal) /\ Follows(memory) /\ Follows(Blank)
    BY <1>1, KnownFollow
<1>3. CASE UploadWindowClosed
  <2>1. journal' = Ended(memory, "idle") /\ memory' = Ended(memory, "idle")
      BY <1>3 DEF UploadWindowClosed, Saved, Save
  <2>2. call' \in CallRecord /\ call'.step = "converged"
      BY <1>3, GotoTaken DEF UploadWindowClosed, Steps
  <2>3. Follows(journal') /\ Follows(memory')
      BY <1>1, <2>1, EndedFollows
  <2> QED BY <1>1, <1>3, <2>2, <2>3, StepKeeps
          DEF UploadWindowClosed, Naming, Ahead, Held, storeVars, calls
<1>4. CASE UploadDeferred
  <2>1. Follows(journal')
      BY <1>2, <1>4 DEF UploadDeferred, MaybeSkipped
  <2> QED BY <1>1, <1>2, <1>4, <2>1, ReturnTaken, StepKeeps
          DEF UploadDeferred, Naming, Ahead, Held, storeVars, calls
<1>5. CASE UploadOfNothing \/ UploadFailed
  <2>1. journal' = memory /\ Return /\ UNCHANGED <<storeVars, calls, pairs>>
      BY <1>5 DEF UploadOfNothing, UploadFailed, Save
  <2> QED BY <1>1, <1>2, <2>1, ReturnTaken, StepKeeps DEF Naming, Ahead, Held, storeVars, calls
<1>6. CASE BeginUpload
  <2>1. PICK u \in Uploads :
          /\ ~Begun(u)
          /\ Begun(u)'
          /\ \A w \in Uploads \ {u} : upload'[w] = upload[w]
          /\ upload'[u].pair = memory.run
          /\ upload'[u].point = pairs[memory.run].point
          /\ call' \in CallRecord /\ call'.step = "publishing" /\ call'.upload = u
          /\ journal' = memory
          /\ UNCHANGED <<clock, memory, loaded, captures, pairs>>
      BY <1>6, BeginTaken
  <2>2. memory.run # 0
      BY <1>6 DEF BeginUpload, At, Booked, Naming
  <2>3. Records' \subseteq Records
      BY <1>1, <2>1 DEF Records
  <2>4. \A w \in Uploads : upload[w].state = "done" => upload'[w] = upload[w]
      BY <2>1 DEF Begun
  <2>5. \A j \in Records' : Sound(j)'
      BY <1>1, <2>1, <2>3, <2>4, SoundStays DEF Booked
  <2>6. CycleTypeInv' /\ \A p \in Captures : pairs'[p].point <= clock'
      BY <1>1, <2>1 DEF Booked, CycleTypeInv
  <2> QED BY <2>1, <2>2, <2>5, <2>6 DEF Booked, Ahead
<1>7. CASE Uploaded
  <2>1. /\ journal' = [Blank EXCEPT !.uploaded = memory.run]
        /\ memory' = journal'
        /\ UNCHANGED <<clock, upload, captures, loaded>>
        /\ upload[call.upload].state = "done"
      BY <1>7 DEF Uploaded, Saved, Save, storeVars, calls
  <2>2. /\ journal' \in JournalRecord
        /\ journal'.run = 0
        /\ journal'.uploaded = memory.run
        /\ journal'.status = "idle"
    <3>1. memory.run \in 0..MaxCaptures /\ "idle" \in Statuses
        BY <1>1 DEF JournalRecord, Statuses
    <3>2. NoRun(journal', "idle", memory.run)
        BY <2>1, <3>1, BlankTaken
    <3> QED BY <3>2 DEF NoRun
  <2>3. /\ pairs' \in [Captures -> PairRecord]
        /\ \A p \in Captures : pairs'[p].point = pairs[p].point
      BY <1>1, <1>7, PrunedTaken DEF Uploaded
  <2>4. call' \in CallRecord /\ call'.step = "converged"
      BY <1>7, GotoTaken DEF Uploaded, Steps
  <2>5. /\ memory.run # 0
        /\ call.upload \in Uploads
        /\ upload[call.upload].pair = memory.run
        /\ upload[call.upload].point = pairs[memory.run].point
      BY <1>7 DEF Uploaded, At, Booked, Naming
  <2>6. memory.run \in Captures
      BY <1>1, <2>5, CycleAssumption DEF JournalRecord, Captures
  <2>7. Sound(journal)'
    <3>1. \E u \in Uploads :
            /\ upload'[u].state = "done"
            /\ upload'[u].pair = journal'.uploaded
            /\ upload'[u].point = pairs'[journal'.uploaded].point
        BY <2>1, <2>2, <2>3, <2>5, <2>6
    <3>2. journal'.run <= captures' /\ journal'.uploaded <= captures'
        BY <1>1, <2>1, <2>2 DEF Booked, Sound
    <3> QED BY <2>2, <3>1, <3>2 DEF Sound, Fencing
  <2>8. ASSUME NEW j \in Records' PROVE Sound(j)'
    <3>1. CASE j = journal'
        BY <2>7, <3>1
    <3>2. CASE j \in {loaded[c] : c \in Late}
      <4>1. j \in Records /\ Sound(j)
          BY <3>2 DEF Records, Booked
      <4>2. j.uploaded # 0 => j.uploaded \in Captures
          BY <4>1, CycleAssumption DEF Sound, JournalRecord, Captures
      <4> QED BY <1>1, <2>1, <2>3, <4>1, <4>2, SoundStays
    <3> QED BY <2>1, <3>1, <3>2 DEF Records
  <2>9. CycleTypeInv' /\ \A p \in Captures : pairs'[p].point <= clock'
      BY <2>1, <2>3, <2>4 DEF Booked, CycleTypeInv
  <2> QED BY <2>4, <2>8, <2>9 DEF Booked, Naming, Ahead, Held
<1> QED BY <1>3, <1>4, <1>5, <1>6, <1>7 DEF Uploading

(* Each failure, and the owner's acknowledgement. *)
LEMMA FaultBooked ==
    ASSUME Stored, Booked, Faults \/ Acknowledge
    PROVE  Booked'
<1>1. /\ call \in CallRecord
      /\ loaded \in [Late -> JournalRecord]
      /\ pairs \in [Captures -> PairRecord]
      /\ journal \in Records /\ memory \in Records
      /\ memory \in JournalRecord
    BY DEF Booked, CycleTypeInv, Records, Sound
<1>2. memory.status \in Fencing \cup {"upload-pending"} => memory.run # 0
    BY <1>1 DEF Booked, Sound
<1>3. Follows(journal) /\ Follows(memory) /\ Follows(Blank)
    BY <1>1, KnownFollow
<1>4. CASE CaptureFails
  <2> DEFINE reopening == [memory EXCEPT !.status = "reopening"]
  <2>1. /\ reopening \in JournalRecord
        /\ reopening.run = memory.run
        /\ reopening.uploaded = memory.uploaded
      BY <1>1 DEF JournalRecord, Statuses, Fencing
  <2>2. memory.run # 0
      BY <1>2, <1>4 DEF CaptureFails, Fencing
  <2>3. journal' = reopening /\ memory' = reopening
      BY <1>4 DEF CaptureFails, Saved, Save
  <2> HIDE DEF reopening
  <2>4. Follows(journal') /\ Follows(memory')
      BY <2>1, <2>2, <2>3, SameRunFollows
  <2>5. call' \in CallRecord /\ call'.step = "login"
      BY <1>4, GotoTaken DEF CaptureFails, Steps, Held
  <2> QED BY <1>1, <1>4, <2>1, <2>2, <2>3, <2>4, <2>5, StepKeeps
          DEF CaptureFails, Ahead, storeVars, calls
<1>5. CASE ReopenFails
  <2> DEFINE attempts == memory.attempts + 1
             again == [memory EXCEPT !.attempts = attempts]
  <2>1. journal' \in {Ended(memory, "owner-required"), again} /\ Return
      BY <1>5 DEF ReopenFails, Save
  <2>2. attempts \in Nat
      BY <1>1 DEF JournalRecord
  <2> HIDE DEF attempts
  <2>3. /\ again \in JournalRecord
        /\ again.run = memory.run
        /\ again.uploaded = memory.uploaded
      BY <1>1, <2>2 DEF JournalRecord
  <2>4. memory.run # 0
      BY <1>2, <1>5 DEF ReopenFails, Fencing
  <2> HIDE DEF again
  <2>5. Follows(journal')
      BY <1>1, <2>1, <2>3, <2>4, SameRunFollows, EndedFollows
  <2> QED BY <1>1, <1>3, <1>5, <2>1, <2>5, ReturnTaken, StepKeeps
          DEF ReopenFails, Naming, Ahead, Held, storeVars, calls
<1>6. CASE Die
    BY <1>1, <1>3, <1>6, ReturnTaken, StepKeeps DEF Die, Naming, Ahead, Held, storeVars, calls
<1>7. CASE Acknowledge
  <2>1. journal' = Ended(journal, "idle") /\ call = NoCall
      BY <1>7 DEF Acknowledge, Save
  <2>2. call' \in CallRecord /\ call'.step = "none"
      BY <1>1, <1>7 DEF Acknowledge, NoCall
  <2> QED BY <1>1, <1>3, <1>7, <2>1, <2>2, EndedFollows, StepKeeps
          DEF Acknowledge, Naming, Ahead, Held, storeVars, calls
<1> QED BY <1>4, <1>5, <1>6, <1>7 DEF Faults

(* What the store does to an upload that has begun. *)
LEMMA StoreBooked ==
    ASSUME Stored, Booked, Store
    PROVE  Booked'
<1>1. UNCHANGED <<journal, memory, loaded, captures, call, pairs>>
    BY DEF Store, cycleVars, book, calls
<1>2. clock \in Nat /\ upload \in [Uploads -> UploadRecord]
    BY DEF Stored, StoreTypeInv
<1>3. clock' \in Nat /\ clock <= clock'
    BY <1>2 DEF Store, StoreNext, Tick, PutFile, PutReceipt, Published, UploadFails, PlanExpiry,
                DeleteAcknowledged, DeleteUnconfirmed
<1>4. ASSUME NEW u \in Uploads
      PROVE  /\ Begun(u) => Begun(u)'
             /\ upload[u].state = "done" => upload'[u].state = "done"
             /\ upload'[u].pair = upload[u].pair
             /\ upload'[u].point = upload[u].point
  <2>1. CASE UNCHANGED upload
      BY <2>1 DEF Begun
  <2>2. ASSUME NEW w \in Uploads, upload[w].state = "publishing",
               NEW state \in {"done", "failed"}, upload' = [upload EXCEPT ![w].state = state]
        PROVE  /\ Begun(u) => Begun(u)'
               /\ upload[u].state = "done" => upload'[u].state = "done"
               /\ upload'[u].pair = upload[u].pair
               /\ upload'[u].point = upload[u].point
      BY <1>2, <2>2 DEF Begun, UploadRecord
  <2> QED BY <2>1, <2>2 DEF Store, StoreNext, Tick, PutFile, PutReceipt, Published, UploadFails,
             PlanExpiry, DeleteAcknowledged, DeleteUnconfirmed
<1> QED BY <1>1, <1>3, <1>4, OtherKeeps

-----------------------------------------------------------------------------
(* The invariant.                                                            *)

(* Nothing begun, nothing stored, nothing closed. *)
LEMMA InitInv == CycleInit => Inv
<1> SUFFICES ASSUME CycleInit PROVE Inv
    OBVIOUS
<1>1. Stored
    BY DEF CycleInit, StoreInit, Stored, StoreTypeInv, UploadRecord, NoUpload,
           ReceiptFindsItsFiles
<1>2. Fenced
    BY DEF CycleInit, Fenced, OwnersFenceStands, NoCall, Held
<1>3. Booked
  <2>1. NoRun(Blank, "idle", 0) /\ NoRun(NotYet, "not yet", 0)
    <3>1. "not yet" \in Statuses /\ 0 \in 0..MaxCaptures
        BY CycleAssumption DEF Statuses
    <3> QED BY <3>1, BlankTaken DEF NotYet
  <2>2. CycleTypeInv
    <3>1. loaded \in [Late -> JournalRecord]
        BY <2>1 DEF NoRun, CycleInit
    <3>2. captures \in 0..MaxCaptures
        BY CycleAssumption DEF CycleInit
    <3>3. pairs \in [Captures -> PairRecord]
        BY DEF CycleInit, PairRecord, NoPair
    <3> QED BY <3>1, <3>2, <3>3 DEF CycleInit, CycleTypeInv, CallRecord, NoCall, Steps
  <2>3. Records \subseteq {Blank, NotYet}
      BY DEF CycleInit, Records
  <2>4. captures = 0 /\ 0 <= captures
      BY DEF CycleInit
  <2>5. \A j \in {Blank, NotYet} : Sound(j)
    <3>1. ASSUME NEW j, NEW status \in {"idle", "not yet"}, NoRun(j, status, 0) PROVE Sound(j)
      <4>1. j.status \notin Fencing \cup {"upload-pending"}
          BY <3>1 DEF Fencing, NoRun
      <4>2. j \in JournalRecord /\ j.run = 0 /\ j.uploaded = 0
          BY <3>1 DEF NoRun
      <4>3. j.run <= captures /\ j.uploaded <= captures
          BY <2>4, <4>2, Zenon
      <4> QED BY <4>1, <4>2, <4>3 DEF Sound
    <3> QED BY <2>1, <3>1
  <2> QED BY <2>2, <2>3, <2>5
          DEF CycleInit, StoreInit, Booked, NoCall, NoPair, Naming, Ahead, Held
<1> QED BY <1>1, <1>2, <1>3 DEF Inv

(* A begun upload keeps what is stored. *)
LEMMA BeginKeeps ==
    ASSUME Stored, Booked, BeginUpload
    PROVE  Stored'
<1>1. PICK u \in Uploads :
        /\ ~Begun(u)
        /\ Begun(u)'
        /\ upload' \in [Uploads -> UploadRecord]
        /\ \A w \in Uploads \ {u} : upload'[w] = upload[w]
        /\ upload'[u].state = "publishing"
        /\ upload'[u].point <= clock
        /\ UNCHANGED <<clock, versions, expiry>>
    BY BeginTaken
<1>2. \A v \in versions : v.upload \in Uploads \ {u}
    BY <1>1 DEF Stored, StoreTypeInv, VersionRecord
<1>3. /\ StoreTypeInv'
      /\ \A w \in Uploads : upload'[w].point <= clock'
      /\ \A v \in expiry' : v.until <= clock'
    BY <1>1 DEF Stored, StoreTypeInv
<1>4. \A v \in versions' : Begun(v.upload)' /\ upload'[v.upload].point + Lock <= v.until
    BY <1>1, <1>2 DEF Stored, Begun
<1>5. \A w : Whole(w) => Whole(w)'
    BY <1>1 DEF Whole, FilesOf
<1>6. ReceiptFindsItsFiles'
    BY <1>1, <1>2, <1>5 DEF Stored, ReceiptFindsItsFiles
<1>7. \A w \in Uploads : upload'[w].state = "done" /\ StillKept(w)' => Whole(w)'
  <2>1. ASSUME NEW w \in Uploads, upload'[w].state = "done", StillKept(w)'
        PROVE  upload'[w] = upload[w] /\ StillKept(w)
      BY <1>1, <2>1 DEF StillKept
  <2> QED BY <1>5, <2>1 DEF Stored
<1> QED BY <1>3, <1>4, <1>6, <1>7 DEF Stored

(* Every step keeps the invariant. *)
LEMMA NextInv == Inv /\ [CycleNext]_vars => Inv'
<1> SUFFICES ASSUME Inv, [CycleNext]_vars PROVE Inv'
    OBVIOUS
<1>1. Stored /\ Fenced /\ Booked /\ CycleTypeInv
    BY DEF Inv, Booked
<1>2. Fenced'
    BY <1>1, FencedKeeps
<1>3. Stored'
  <2>1. CASE Store
      BY <1>1, <2>1, StoreKeeps DEF Store
  <2>2. CASE BeginUpload
      BY <1>1, <2>2, BeginKeeps
  <2>3. CASE UNCHANGED storeVars
    <3>1. UNCHANGED <<clock, upload, versions, expiry>>
        BY <2>3 DEF storeVars
    <3> QED BY <1>1, <3>1, DeletionKeeps DEF Stored, StoreTypeInv
  <2>4. CASE Reopening \/ Capturing
      BY <2>3, <2>4 DEF Reopening, Login, OpenGate, ClearPending, StartServices, Capturing,
                        CloseGate, WritePending, Drain, Dump, CompletePending
  <2>5. CASE Call \/ Converging \/ Deciding
      BY <2>3, <2>5 DEF Call, Converging, Converge, ConvergeRefused, NothingToConverge, Converged,
                        Run, Deciding, Preflight, Admission, EnterFence, CaptureSkipped
  <2>6. CASE Uploading
      BY <2>2, <2>3, <2>6 DEF Uploading, UploadWindowClosed, UploadDeferred, UploadOfNothing,
                              Uploaded, UploadFailed
  <2>7. CASE Faults \/ Acknowledge
      BY <2>3, <2>7 DEF Faults, CaptureFails, ReopenFails, Die, Acknowledge
  <2>8. CASE Owners
      BY <2>3, <2>8 DEF Owners, OwnerCloses, OwnerFences, OwnerDies, OwnerReopens, OwnerMaintains,
                        OwnerFinishes
  <2>9. CASE UNCHANGED vars
      BY <2>3, <2>9 DEF vars
  <2>10. CASE LateCalls
      BY <2>3, <2>10 DEF LateCalls, Load, LateRefused, LateCall, LateAcknowledge
  <2> QED BY <2>1, <2>4, <2>5, <2>6, <2>7, <2>8, <2>9, <2>10 DEF CycleNext
<1>4. Booked'
  <2>1. CASE Owners \/ UNCHANGED vars
    <3>1. UNCHANGED <<journal, memory, loaded, captures, call, pairs, clock, upload>>
        BY <2>1 DEF Owners, OwnerCloses, OwnerFences, OwnerDies, OwnerReopens, OwnerMaintains,
                    OwnerFinishes, vars, storeVars, book, calls
    <3> QED BY <1>1, <3>1, OtherKeeps DEF Stored, StoreTypeInv, Begun
  <2> QED BY <1>1, <2>1, CallBooked, LateBooked, FenceBooked, UploadBooked, FaultBooked, StoreBooked
          DEF CycleNext
<1> QED BY <1>2, <1>3, <1>4 DEF Inv

(* The invariant holds in every state of every behaviour. *)
THEOREM CycleInvariant == CycleSpec => []Inv
<1> QED BY InitInv, NextInv, PTL DEF CycleSpec

-----------------------------------------------------------------------------
(* What it is for.                                                           *)

(* OwnersFenceStands: a fence the owner left closed stays closed, whatever call of backup-cycle  *)
(* finds it (converge, run): whoever works inside a fence holds the lease, and an owner that      *)
(* leaves its own closed takes the lease first.                                                  *)
THEOREM OwnersFenceIsLeft == CycleSpec => []OwnersFenceStands
<1>1. Inv => OwnersFenceStands
    BY DEF Inv, Fenced
<1> QED BY <1>1, CycleInvariant, PTL

(* ReceiptFindsItsFiles: a receipt in the bucket (publish, expire of recovery_s3) has its pair's *)
(* files as long as a version put in its window is locked.                                       *)
THEOREM ReceiptsAreHonest == CycleSpec => []ReceiptFindsItsFiles
<1>1. Inv => ReceiptFindsItsFiles
    BY DEF Inv, Stored
<1> QED BY <1>1, CycleInvariant, PTL

(* LastUploadIsRecoverable: the pair that the journal of backup-cycle names as uploaded is whole *)
(* in the store while its lock lasts, although a later capture, upload or expiry is under way.   *)
THEOREM LastUploadCanBeFetched == CycleSpec => []LastUploadIsRecoverable
<1>1. Inv => LastUploadIsRecoverable
  <2> SUFFICES ASSUME Inv, journal.uploaded # 0, clock < pairs[journal.uploaded].point + Lock
               PROVE  \E u \in Uploads : upload[u].pair = journal.uploaded /\ Whole(u)
      BY DEF LastUploadIsRecoverable
  <2>1. PICK u \in Uploads :
          /\ upload[u].state = "done"
          /\ upload[u].pair = journal.uploaded
          /\ upload[u].point = pairs[journal.uploaded].point
      BY DEF Inv, Booked, Records, Sound
  <2> QED BY <2>1 DEF Inv, Stored, StillKept
<1> QED BY <1>1, CycleInvariant, PTL
=============================================================================
