------------------------------ MODULE Personal ------------------------------
(***************************************************************************)
(* Personal ratings, the community score they project, and the deletion of *)
(* an account: the changes of signed-in users (SecurityContextCurrentUser, *)
(* SessionRevocation, JdbcPersonalRatingStore), the start-up projection    *)
(* (CommunityScoreBackfill), the persisted deletion requests               *)
(* (JdbcAccountDeletionStore), the endpoint an executor claims and         *)
(* acknowledges them through, and the erasure the owner's side runs        *)
(* (personal-data-self-service-runner, personal-data-ledger,               *)
(* personal-data), against the identity provider.                          *)
(*                                                                         *)
(* One Game is modelled: a rating write locks one Game, and nothing relates*)
(* the scores of two. A rating is its version token, 0 when there is none; *)
(* a score is the aggregate it was computed from, the version of every     *)
(* user's rating.                                                          *)
(***************************************************************************)
EXTENDS Naturals, FiniteSets

CONSTANTS
    Users,       \* product users, each with an account of the identity provider
    Sessions,    \* browser sessions at a time, each with at most one change in progress
    Browsers,    \* the users the browsers of the sessions may belong to
    Leaving,     \* the users who may ask for the deletion of their account
    Executors,   \* runners of the erasure, of which one should be started
    Rated,       \* the users who rated the Game before it had a projected score
    Versions,    \* bound: 1..Versions are the version tokens, taken again once forgotten
    MaxFaults    \* bound: restarts, lost answers, failed steps and late executors

ASSUME PersonalAssumption ==
    /\ Browsers \subseteq [Sessions -> Users]
    /\ Leaving \subseteq Users
    /\ Rated \subseteq Users
    /\ Versions \in Nat \ {0}
    /\ MaxFaults \in Nat

VARIABLES
    account,   \* identity provider: "enabled", "disabled" or "absent"
    userOf,    \* whose browser each session is
    session,   \* the session registry: "none", "pending", "live" or "ended"
    rating,    \* ratings.rating: the version of the user's rating, 0 when none
    score,     \* catalogue.game_community_score: the aggregate it was projected from
    lock,      \* who holds the Game's advisory transaction lock
    request,   \* the change each session has in progress
    startup,   \* the start-up projection: "idle", "found", "locked" or "read"
    scanned,   \* the aggregate it has read
    deletion,  \* identity.account_deletion: state, claim and next_attempt_at <= now
    ledger,    \* the deletion ledger: "none", "requested" or "completed"
    executor,  \* the runners
    faults

identity == <<userOf, account, session>>
rows     == <<rating, score, lock>>
serving  == <<request, startup, scanned>>
erasing  == <<deletion, ledger, executor>>
vars     == <<identity, rows, serving, erasing, faults>>

NoOne   == "none"
StartUp == "startup"

\* A session, an executor and the start-up projection are never taken for one another.
ASSUME HoldersAssumption ==
    /\ Sessions \cap Executors = {}
    /\ {NoOne, StartUp} \cap (Sessions \cup Executors) = {}

NoScore == [u \in Users |-> 0]
NoRequest == [at |-> "idle"]
NoWork    == [at |-> "idle"]

Changing == {"active", "owner", "locked", "written"}

----------------------------------------------------------------------------
(* Sessions and the fence of a requested deletion. *)

Blocked(u) == deletion[u].state # "none"

InFlight(s) == request[s].at # "idle"

\* Who holds the shared side of SessionRevocation.changes, and whether its exclusive side,
\* which an executor's revocation waits for, is free to take.
Readers == {s \in Sessions : request[s].at \in Changing}
Settled == Readers = {}

\* An exclusive waiter at the head of the queue keeps new readers out.
ExclusiveQueued == \E e \in Executors : executor[e].at # "idle" /\ executor[e].waiting

LiveSessions(u) == {s \in Sessions : userOf[s] = u /\ session[s] = "live"}

\* revoke: every registered session of the user is expired, settled or not.
Expired(u) ==
    [s \in Sessions |-> IF s \in LiveSessions(u) THEN "ended" ELSE session[s]]

\* The identity provider accepts a code exchange; the application registers the session later.
SignIn(s) ==
    /\ session[s] = "none"
    /\ account[userOf[s]] = "enabled"
    /\ session' = [session EXCEPT ![s] = "pending"]
    /\ UNCHANGED <<userOf, account, rows, serving, erasing, faults>>

Register(s) ==
    /\ session[s] = "pending"
    /\ session' = [session EXCEPT ![s] = "live"]
    /\ UNCHANGED <<userOf, account, rows, serving, erasing, faults>>

\* A request of a user whose deletion is recorded: the fence ends its session.
Fence(s) ==
    /\ session[s] = "live"
    /\ Blocked(userOf[s])
    /\ session' = [session EXCEPT ![s] = "ended"]
    /\ UNCHANGED <<userOf, account, rows, serving, erasing, faults>>

----------------------------------------------------------------------------
(* A request that changes personal state. *)

\* Past the session filter and the fence. The client has read its rating: it creates one, or
\* replaces or deletes the version it saw; or it asks for the deletion of the account.
Arrive(s, op) ==
    /\ ~InFlight(s)
    /\ session[s] = "live"
    /\ ~Blocked(userOf[s])
    /\ op = "delete" => rating[userOf[s]] # 0
    /\ op = "forget" => userOf[s] \in Leaving
    /\ request' = [request EXCEPT ![s] =
        [at |-> "filtered", op |-> op, next |-> 0, seen |-> NoScore,
         expected |-> IF op = "forget" THEN 0 ELSE rating[userOf[s]]]]
    /\ UNCHANGED <<identity, rows, startup, scanned, erasing, faults>>

Moves(s, at) == request' = [request EXCEPT ![s].at = at]
Ends(s) == request' = [request EXCEPT ![s] = NoRequest]

\* whileActive: the shared lock, then the session is read again.
Enter(s) ==
    /\ request[s].at = "filtered"
    /\ ~ExclusiveQueued
    /\ session[s] = "live"
    /\ Moves(s, "active")
    /\ UNCHANGED <<identity, rows, startup, scanned, erasing, faults>>

\* The fence is read again inside it.
Recheck(s) ==
    /\ request[s].at = "active"
    /\ ~Blocked(userOf[s])
    /\ Moves(s, "owner")
    /\ UNCHANGED <<identity, rows, startup, scanned, erasing, faults>>

\* Refused: no longer active, blocked, an invalid command, a Game not eligible, a stale version.
Refuse(s) ==
    /\ request[s].at \in {"filtered", "active", "owner"}
    /\ Ends(s)
    /\ UNCHANGED <<identity, rows, startup, scanned, erasing, faults>>

\* requestMyAccountDeletion: one row per user; the request's own session ends.
Admit(s) ==
    /\ request[s].at = "owner"
    /\ request[s].op = "forget"
    /\ ~Blocked(userOf[s])
    /\ deletion' = [deletion EXCEPT ![userOf[s]] =
                       [state |-> "pending", claim |-> NoOne, due |-> TRUE]]
    /\ session' = [session EXCEPT ![s] = "ended"]
    /\ Ends(s)
    /\ UNCHANGED <<userOf, account, rows, startup, scanned, ledger, executor, faults>>

(* A bug: the aggregate is read and projected without the Game's lock. *)
AcquiredUnheld(holder) == lock' = holder

\* CommunityScoreLock.acquire: one transaction of the Game at a time.
Acquired(holder) == lock = NoOne /\ lock' = holder
Released == lock' = NoOne

Lock(s) ==
    /\ request[s].at = "owner"
    /\ request[s].op # "forget"
    /\ Acquired(s)
    /\ Moves(s, "locked")
    /\ UNCHANGED <<identity, rating, score, startup, scanned, erasing, faults>>

(* A bug: a write replaces whatever version it finds. *)
CurrentUnchecked(s) == TRUE

\* requireCurrentVersion, and the conditional statement after it.
Current(s) == rating[userOf[s]] = request[s].expected

\* The version tokens of a user's rating that the row or a client still knows; a new one is
\* none of them.
Known(u) == {rating[u]} \cup
            {request[s].expected : s \in {x \in Sessions : userOf[x] = u /\ InFlight(x)}}
Unused(u) == (1..Versions) \ Known(u)

\* The row is written and the aggregate read, inside the transaction.
Write(s) ==
    /\ request[s].at = "locked"
    /\ Current(s)
    /\ request[s].op = "put" => Unused(userOf[s]) # {}
    /\ LET next == IF request[s].op = "put" THEN CHOOSE v \in Unused(userOf[s]) : TRUE ELSE 0
       IN  request' = [request EXCEPT ![s].at = "written", ![s].next = next,
                                      ![s].seen = [rating EXCEPT ![userOf[s]] = next]]
    /\ UNCHANGED <<identity, rating, score, lock, startup, scanned, erasing, faults>>

\* The row and the projected score commit together.
Commit(s) ==
    /\ request[s].at = "written"
    /\ rating' = [rating EXCEPT ![userOf[s]] = request[s].next]
    /\ score' = request[s].seen
    /\ Released
    /\ Ends(s)
    /\ UNCHANGED <<identity, startup, scanned, erasing, faults>>

Rollback(s) ==
    /\ request[s].at \in {"locked", "written"}
    /\ Released
    /\ Ends(s)
    /\ UNCHANGED <<identity, rating, score, startup, scanned, erasing, faults>>

----------------------------------------------------------------------------
(* CommunityScoreBackfill: Games rated before their score was projected. *)

Unprojected == rating # NoScore /\ score = NoScore

FindUnprojected ==
    /\ startup = "idle"
    /\ startup' = IF Unprojected THEN "found" ELSE "done"
    /\ UNCHANGED <<identity, rows, request, scanned, erasing, faults>>

LockUnprojected ==
    /\ startup = "found"
    /\ Acquired(StartUp)
    /\ startup' = "locked"
    /\ UNCHANGED <<identity, rating, score, request, scanned, erasing, faults>>

ReadAggregate ==
    /\ startup = "locked"
    /\ scanned' = rating
    /\ startup' = "read"
    /\ UNCHANGED <<identity, rows, request, erasing, faults>>

Project ==
    /\ startup = "read"
    /\ score' = scanned
    /\ scanned' = NoScore
    /\ Released
    /\ startup' = "done"
    /\ UNCHANGED <<identity, rating, request, erasing, faults>>

----------------------------------------------------------------------------
(* The executor: claims a request, erases the account step by step, reports. *)

Works(e) == executor[e].at # "idle"
Working(u) == \E e \in Executors : Works(e) /\ executor[e].user = u

Steps(e, at) == executor' = [executor EXCEPT ![e].at = at, ![e].waiting = FALSE]
Reports(e, verified) ==
    executor' = [executor EXCEPT ![e].at = "report", ![e].verified = verified,
                                 ![e].waiting = FALSE]
Stops(e) == executor' = [executor EXCEPT ![e] = NoWork]

(* A bug: a claim whose executor died is nobody's to take again. *)
ClaimableUnclaimed(u) ==
    deletion[u].state = "pending" /\ deletion[u].due /\ deletion[u].claim = NoOne

\* JdbcAccountDeletionStore.claim: pending, and its next attempt is due.
Claimable(u) == deletion[u].state = "pending" /\ deletion[u].due

Claim(e, u) ==
    /\ ~Works(e)
    /\ Claimable(u)
    /\ deletion' = [deletion EXCEPT ![u].claim = e, ![u].due = FALSE]
    /\ executor' = [executor EXCEPT ![e] =
                      [at |-> "claimed", user |-> u, waiting |-> FALSE, verified |-> FALSE]]
    /\ UNCHANGED <<identity, rows, serving, ledger, faults>>

\* The next attempt falls due; under a working executor only when that is late.
FallDue(u) ==
    /\ deletion[u].state = "pending"
    /\ ~deletion[u].due
    /\ Working(u) => faults < MaxFaults
    /\ faults' = IF Working(u) THEN faults + 1 ELSE faults
    /\ deletion' = [deletion EXCEPT ![u].due = TRUE]
    /\ UNCHANGED <<identity, rows, serving, ledger, executor>>

\* SessionRevocation.revoke of the claim, of the first step (twice) and of the verification.
Revoking == {"claimed", "end", "check", "verify", "confirm"}

Await(e) ==
    /\ executor[e].at \in Revoking
    /\ ~executor[e].waiting
    /\ executor' = [executor EXCEPT ![e].waiting = TRUE]
    /\ UNCHANGED <<identity, rows, serving, deletion, ledger, faults>>

Revokes(e) == session' = Expired(executor[e].user)

\* A revocation that found running changes to the end of its wait.
TimesOut(e) ==
    /\ executor[e].at \in Revoking
    /\ executor[e].waiting
    /\ ~Settled
    /\ faults < MaxFaults
    /\ faults' = faults + 1
    /\ Revokes(e)

\* The attempt of this claim failed: the row is released until the next one.
FailAttempt(e) ==
    LET u == executor[e].user
    IN  deletion' = IF deletion[u].state = "pending" /\ deletion[u].claim = e
                    THEN [deletion EXCEPT ![u].claim = NoOne, ![u].due = FALSE]
                    ELSE deletion

(* A bug: the endpoint hands the work over although changes are still running. *)
HandOverUnsettled(e) ==
    /\ executor[e].at = "claimed"
    /\ executor[e].waiting
    /\ Revokes(e)
    /\ Steps(e, "start")
    /\ UNCHANGED <<userOf, account, rows, serving, deletion, ledger, faults>>

\* The endpoint hands the work over once the user's changes have settled.
HandOver(e) ==
    /\ executor[e].at = "claimed"
    /\ executor[e].waiting
    /\ Settled
    /\ Revokes(e)
    /\ Steps(e, "start")
    /\ UNCHANGED <<userOf, account, rows, serving, deletion, ledger, faults>>

HandOverTimesOut(e) ==
    /\ executor[e].at = "claimed"
    /\ TimesOut(e)
    /\ FailAttempt(e)
    /\ Stops(e)
    /\ UNCHANGED <<userOf, account, rows, serving, ledger>>

\* command_erase holds the ledger from its opening to the last step.
Erasing == {"disable", "end", "check", "select", "lock", "erase", "remove", "verify"}
LedgerFree == \A e \in Executors : executor[e].at \notin Erasing

\* A request already completed is only confirmed again.
Start(e) ==
    LET u == executor[e].user
    IN  /\ executor[e].at = "start"
        /\ LedgerFree
        /\ ledger' = [ledger EXCEPT ![u] = IF @ = "none" THEN "requested" ELSE @]
        /\ Steps(e, IF ledger[u] = "completed" THEN "confirm" ELSE "disable")
        /\ UNCHANGED <<identity, rows, serving, deletion, faults>>

\* revoke: no new sign-in, then the sessions end, and none may be left the second time.
Disable(e) ==
    LET u == executor[e].user
    IN  /\ executor[e].at = "disable"
        /\ account' = [account EXCEPT ![u] = IF @ = "enabled" THEN "disabled" ELSE @]
        /\ Steps(e, "end")
        /\ UNCHANGED <<userOf, session, rows, serving, deletion, ledger, faults>>

EndSessions(e) ==
    /\ executor[e].at = "end"
    /\ executor[e].waiting
    /\ Settled
    /\ Revokes(e)
    /\ Steps(e, "check")
    /\ UNCHANGED <<userOf, account, rows, serving, deletion, ledger, faults>>

\* Settled, and the revocation found no session to end.
NoneLeft(e) ==
    /\ executor[e].waiting
    /\ Settled
    /\ LiveSessions(executor[e].user) = {}

CheckSessions(e) ==
    /\ executor[e].at = "check"
    /\ NoneLeft(e)
    /\ Steps(e, "select")
    /\ UNCHANGED <<identity, rows, serving, deletion, ledger, faults>>

\* erase-rating-batch.sql: the rated Games are selected, locked, then emptied and projected.
SelectRatings(e) ==
    LET u == executor[e].user
    IN  /\ executor[e].at = "select"
        /\ account[u] # "enabled"
        /\ Steps(e, IF rating[u] = 0 THEN "remove" ELSE "lock")
        /\ UNCHANGED <<identity, rows, serving, deletion, ledger, faults>>

LockErased(e) ==
    /\ executor[e].at = "lock"
    /\ Acquired(e)
    /\ Steps(e, "erase")
    /\ UNCHANGED <<identity, rating, score, serving, deletion, ledger, faults>>

Erase(e) ==
    /\ executor[e].at = "erase"
    /\ rating' = [rating EXCEPT ![executor[e].user] = 0]
    /\ score' = rating'
    /\ Released
    /\ Steps(e, "remove")
    /\ UNCHANGED <<identity, serving, deletion, ledger, faults>>

\* delete_identity refuses while ratings remain.
Remove(e) ==
    LET u == executor[e].user
    IN  /\ executor[e].at = "remove"
        /\ rating[u] = 0
        /\ account' = [account EXCEPT ![u] = "absent"]
        /\ Steps(e, "verify")
        /\ UNCHANGED <<userOf, session, rows, serving, deletion, ledger, faults>>

Gone(e) ==
    /\ account[executor[e].user] = "absent"
    /\ rating[executor[e].user] = 0
    /\ NoneLeft(e)

Verify(e) ==
    /\ executor[e].at = "verify"
    /\ Gone(e)
    /\ ledger' = [ledger EXCEPT ![executor[e].user] = "completed"]
    /\ Steps(e, "confirm")
    /\ UNCHANGED <<identity, rows, serving, deletion, faults>>

\* execute verifies the running system once more after it has read the completed entry.
Confirm(e) ==
    /\ executor[e].at = "confirm"
    /\ Gone(e)
    /\ Reports(e, TRUE)
    /\ UNCHANGED <<identity, rows, serving, deletion, ledger, faults>>

----------------------------------------------------------------------------
(* How an attempt fails, and what reaches the deletion row. *)

\* What a step finds against it: the ledger is taken, a session is left, a rating or the account.
Contradicted(e) ==
    \/ executor[e].at = "start" /\ ~LedgerFree
    \/ executor[e].at = "check" /\ executor[e].waiting /\ Settled /\ ~NoneLeft(e)
    \/ executor[e].at = "select" /\ account[executor[e].user] = "enabled"
    \/ executor[e].at = "remove" /\ rating[executor[e].user] # 0
    \/ executor[e].at \in {"verify", "confirm"} /\ executor[e].waiting /\ Settled /\ ~Gone(e)

FailStep(e) ==
    /\ Contradicted(e)
    /\ session' = IF executor[e].at \in Revoking THEN Expired(executor[e].user) ELSE session
    /\ Reports(e, FALSE)
    /\ UNCHANGED <<userOf, account, rows, serving, deletion, ledger, faults>>

StepTimesOut(e) ==
    /\ executor[e].at # "claimed"
    /\ TimesOut(e)
    /\ Reports(e, FALSE)
    /\ UNCHANGED <<userOf, account, rows, serving, deletion, ledger>>

LeaveLock(e) == lock' = IF lock = e THEN NoOne ELSE lock

(* A bug: a child that was cut off counts as one that verified the erasure. *)
CutOffVerified(e) ==
    /\ Works(e)
    /\ executor[e].at \notin {"claimed", "report"}
    /\ faults < MaxFaults
    /\ faults' = faults + 1
    /\ LeaveLock(e)
    /\ Reports(e, TRUE)
    /\ UNCHANGED <<identity, rating, score, serving, deletion, ledger>>

\* A step, or the whole child, is cut off.
CutOff(e) ==
    /\ Works(e)
    /\ executor[e].at \notin {"claimed", "report"}
    /\ faults < MaxFaults
    /\ faults' = faults + 1
    /\ LeaveLock(e)
    /\ Reports(e, FALSE)
    /\ UNCHANGED <<identity, rating, score, serving, deletion, ledger>>

\* The runner dies, or the claimed work or the report never reaches the other side.
Crash(e) ==
    /\ Works(e)
    /\ faults < MaxFaults
    /\ faults' = faults + 1
    /\ LeaveLock(e)
    /\ Stops(e)
    /\ UNCHANGED <<identity, rating, score, serving, deletion, ledger>>

(* A bug: a report counts whatever has become of its claim. *)
ClaimUnchecked(e) == TRUE

\* JdbcAccountDeletionStore.acknowledge: a report counts while its claim is current.
ClaimIsCurrent(e) ==
    /\ deletion[executor[e].user].state = "pending"
    /\ deletion[executor[e].user].claim = e
    /\ ~deletion[executor[e].user].due

Acknowledge(e) ==
    LET u == executor[e].user
    IN  /\ executor[e].at = "report"
        /\ deletion' = IF ClaimIsCurrent(e)
                       THEN [deletion EXCEPT ![u] =
                              [state |-> IF executor[e].verified THEN "complete" ELSE "pending",
                               claim |-> NoOne, due |-> FALSE]]
                       ELSE deletion
        /\ Stops(e)
        /\ UNCHANGED <<identity, rows, serving, ledger, faults>>

\* The application restarts: its sessions, its locks and its transactions go with it.
Restart ==
    /\ faults < MaxFaults
    /\ faults' = faults + 1
    /\ session' = [s \in Sessions |-> "none"]
    /\ request' = [s \in Sessions |-> NoRequest]
    /\ startup' = "idle"
    /\ scanned' = NoScore
    /\ lock' = IF lock \in Executors THEN lock ELSE NoOne
    /\ executor' = [e \in Executors |->
                      IF executor[e].at = "claimed" THEN NoWork ELSE executor[e]]
    /\ UNCHANGED <<userOf, account, rating, score, deletion, ledger>>

----------------------------------------------------------------------------
Init ==
    /\ userOf \in Browsers
    /\ account = [u \in Users |-> "enabled"]
    /\ session = [s \in Sessions |-> "none"]
    /\ rating = [u \in Users |-> IF u \in Rated THEN 1 ELSE 0]
    /\ score = NoScore
    /\ lock = NoOne
    /\ request = [s \in Sessions |-> NoRequest]
    /\ startup = "idle"
    /\ scanned = NoScore
    /\ deletion = [u \in Users |-> [state |-> "none", claim |-> NoOne, due |-> FALSE]]
    /\ ledger = [u \in Users |-> "none"]
    /\ executor = [e \in Executors |-> NoWork]
    /\ faults = 0

SessionStep(s) == SignIn(s) \/ Register(s) \/ Fence(s)

Ending(s) == Refuse(s) \/ Admit(s) \/ Write(s) \/ Commit(s) \/ Rollback(s)

RequestStep(s) ==
    \/ \E op \in {"put", "delete", "forget"} : Arrive(s, op)
    \/ Enter(s)
    \/ Recheck(s)
    \/ Lock(s)
    \/ Ending(s)

StartUpStep == FindUnprojected \/ LockUnprojected \/ ReadAggregate \/ Project

Proceed(e) ==
    \/ \E u \in Users : Claim(e, u)
    \/ Await(e)
    \/ HandOver(e)
    \/ Start(e)
    \/ Disable(e)
    \/ EndSessions(e)
    \/ CheckSessions(e)
    \/ SelectRatings(e)
    \/ LockErased(e)
    \/ Erase(e)
    \/ Remove(e)
    \/ Verify(e)
    \/ Confirm(e)
    \/ FailStep(e)
    \/ Acknowledge(e)

Disturb(e) == HandOverTimesOut(e) \/ StepTimesOut(e) \/ CutOff(e) \/ Crash(e)

Next ==
    \/ \E s \in Sessions : SessionStep(s) \/ RequestStep(s)
    \/ StartUpStep
    \/ \E e \in Executors : Proceed(e) \/ Disturb(e)
    \/ \E u \in Users : FallDue(u)
    \/ Restart

Spec == Init /\ [][Next]_vars

\* A change ends, and so does a begun projection; time passes; an executor is kept running and
\* gets its turn at the Game's lock. Nobody has to sign in, to ask for anything, or to disturb.
Fairness ==
    /\ \A s \in Sessions : WF_vars(Ending(s))
    /\ WF_vars(ReadAggregate \/ Project)
    /\ \A e \in Executors : SF_vars(Proceed(e))
    /\ \A u \in Leaving : WF_vars(FallDue(u))

FairSpec == Spec /\ Fairness

----------------------------------------------------------------------------
(* Properties. *)

\* A completed deletion stays one: no rating, no account, and no running change of the user that
\* could bring a rating back, whatever its requests, its sign-ins and the executors were doing.
ErasedStaysErased ==
    \A u \in Users : deletion[u].state = "complete" =>
        /\ rating[u] = 0
        /\ account[u] = "absent"
        /\ \A s \in Sessions : request[s].at \in {"owner", "locked", "written"} => userOf[s] # u

\* "no change by a revoked session is running or can start, so deleting its data cannot be undone
\* by a late request": once the work is handed over, the user's rating only disappears.
NoWriteOnceSettled ==
    [][\A e \in Executors :
         Works(e) /\ executor[e].at # "claimed" =>
           rating'[executor[e].user] \in {rating[executor[e].user], 0}]_vars

\* The projected score is the aggregate of the committed ratings, whoever wrote last; it is only
\* missing for a Game nobody has touched since before scores were projected.
ScoreIsCurrent ==
    score = rating \/ (score = NoScore /\ rating = [u \in Users |-> IF u \in Rated THEN 1 ELSE 0])

\* A write of a user replaces or deletes exactly the version that user's client had seen.
NoLostUpdate ==
    [][\A s \in Sessions : request[s].at = "written" /\ ~InFlight(s)' /\ rating' # rating
         => rating[userOf[s]] = request[s].expected]_vars

\* A completed deletion never reopens: a late report of an expired claim changes nothing.
CompletionIsFinal ==
    [][\A u \in Users : deletion[u].state = "complete" => deletion'[u].state = "complete"]_vars

\* Whatever attempts fail, an admitted deletion is completed.
DeletionCompletes ==
    \A u \in Leaving : deletion[u].state = "pending" ~> deletion[u].state = "complete"
=============================================================================
