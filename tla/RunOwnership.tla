---------------------------- MODULE RunOwnership ----------------------------
(***************************************************************************)
(* What run ownership promises to the rest of the catalogue, without the   *)
(* table, the heartbeats or the workers that provide it: at most one run   *)
(* owns the provider, only the owner publishes Games, ownership once lost  *)
(* never returns, and the record of which run last read a day changes only *)
(* for a whole interval, at the moment its owner gives ownership up.       *)
(* SyncRun is shown to implement this specification.                       *)
(***************************************************************************)
CONSTANTS
    Runs,     \* runs that may ask for ownership
    Games,    \* provider Games
    Days,     \* days that coverage is recorded for
    Window,   \* Window[r]: the days of the interval run r was asked to read
    NoRun     \* no run

VARIABLES
    owner,      \* the run that owns the provider, or NoRun
    ended,      \* runs that owned it and no longer do
    published,  \* published[r]: the Games run r has published
    scan        \* scan[d]: the run whose reading of day d is the latest, or NoRun

ownershipVars == <<owner, ended, published, scan>>

OwnershipInit ==
    /\ owner = NoRun
    /\ ended = {}
    /\ published = [r \in Runs |-> {}]
    /\ scan = [d \in Days |-> NoRun]

(* A new run takes ownership; a previous owner is evicted for good. *)
TakeOwnership(r) ==
    /\ r # owner
    /\ r \notin ended
    /\ owner' = r
    /\ ended' = ended \union ({owner} \ {NoRun})
    /\ UNCHANGED <<published, scan>>

Publish(r, g) ==
    /\ owner = r
    /\ published' = [published EXCEPT ![r] = @ \union {g}]
    /\ UNCHANGED <<owner, ended, scan>>

(* The owner is evicted or ends without having read its interval. *)
EndUncovered(r) ==
    /\ owner = r
    /\ owner' = NoRun
    /\ ended' = ended \union {r}
    /\ UNCHANGED <<published, scan>>

EndCovered(r) ==
    /\ owner = r
    /\ owner' = NoRun
    /\ ended' = ended \union {r}
    /\ scan' = [d \in Days |-> IF d \in Window[r] THEN r ELSE scan[d]]
    /\ UNCHANGED published

OwnershipNext ==
    \E r \in Runs :
        \/ TakeOwnership(r)
        \/ \E g \in Games : Publish(r, g)
        \/ EndUncovered(r)
        \/ EndCovered(r)

OwnershipSpec == OwnershipInit /\ [][OwnershipNext]_ownershipVars
=============================================================================
