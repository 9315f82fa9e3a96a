--------------------------- MODULE PersonalProofs ---------------------------
(***************************************************************************)
(* The safety of ratings, score and erasure, for any users, sessions,      *)
(* executors, tokens and faults.                                           *)
(*                                                                         *)
(* ScoreIsCurrent depends on what a transaction has read while it held the *)
(* Game's lock, and ErasedStaysErased on nothing being left that could     *)
(* write, from the moment the work is handed over.  The invariant below    *)
(* states both: who holds the lock (Held), that what was read under it is  *)
(* still so (Fresh), and that a claimed account is closed to new changes   *)
(* and, once handed over, has none left (Settling).                        *)
(***************************************************************************)
EXTENDS Personal, TLAPS

Change ==
    [at : {"filtered"} \cup Changing, op : {"put", "delete", "forget"},
     next : Nat, seen : [Users -> Nat], expected : Nat]
Work ==
    [at : {"claimed", "start", "confirm", "report"} \cup Erasing,
     user : Users, waiting : BOOLEAN, verified : BOOLEAN]
Deletion ==
    [state : {"none", "pending", "complete"}, claim : Executors \cup {NoOne}, due : BOOLEAN]

TypeInv ==
    /\ userOf \in [Sessions -> Users]
    /\ account \in [Users -> {"enabled", "disabled", "absent"}]
    /\ rating \in [Users -> Nat]
    /\ score \in [Users -> Nat]
    /\ scanned \in [Users -> Nat]
    /\ request \in [Sessions -> {NoRequest} \cup Change]
    /\ deletion \in [Users -> Deletion]
    /\ executor \in [Executors -> {NoWork} \cup Work]

Writing == {"locked", "written"}

(* Whoever is between its lock and the end of its transaction holds the lock. *)
Held ==
    /\ \A s \in Sessions : request[s].at \in Writing => lock = s
    /\ startup \in {"locked", "read"} => lock = StartUp
    /\ \A e \in Executors : executor[e].at = "erase" => lock = e

(* What was read under the lock is still so. *)
Fresh ==
    /\ \A s \in Sessions : request[s].at = "written" =>
        /\ request[s].seen = [rating EXCEPT ![userOf[s]] = request[s].next]
        /\ rating[userOf[s]] = request[s].expected
    /\ startup = "read" => scanned = rating

(* No change of the user is left that could write, and none can become one. *)
Drained(u) ==
    /\ Blocked(u)
    /\ \A s \in Sessions : request[s].at \in {"owner"} \cup Writing => userOf[s] # u
Erased(u) == Drained(u) /\ rating[u] = 0 /\ account[u] = "absent"

Settling ==
    /\ \A e \in Executors : Works(e) =>
        /\ Blocked(executor[e].user)
        /\ executor[e].at # "claimed" => Drained(executor[e].user)
        /\ executor[e].verified => Erased(executor[e].user)
    /\ \A u \in Users : deletion[u].state = "complete" => Erased(u)

Inv == TypeInv /\ Held /\ Fresh /\ Settling /\ ScoreIsCurrent

-----------------------------------------------------------------------------
(* What an update of one record does. *)

(* Moves changes where a change is, and nothing else of it or of the others. *)
LEMMA MovesTaken ==
    ASSUME TypeInv, NEW s \in Sessions, request[s].at # "idle",
           NEW at \in {"filtered"} \cup Changing, Moves(s, at)
    PROVE  /\ request' \in [Sessions -> {NoRequest} \cup Change]
           /\ \A t \in Sessions \ {s} : request'[t] = request[t]
           /\ request'[s].at = at
<1>1. request[s] \in Change
    BY DEF TypeInv, NoRequest
<1>2. [request[s] EXCEPT !.at = at] \in Change
    BY <1>1 DEF Change
<1>3. request' = [request EXCEPT ![s] = [request[s] EXCEPT !.at = at]]
    BY DEF Moves
<1>4. request'[s] = [request[s] EXCEPT !.at = at]
    BY <1>3 DEF TypeInv
<1>5. [request[s] EXCEPT !.at = at].at = at
    BY <1>1 DEF Change
<1> QED BY <1>2, <1>3, <1>4, <1>5 DEF TypeInv

(* Ends leaves no change in progress in s, and the others as they are. *)
LEMMA EndsTaken ==
    ASSUME TypeInv, NEW s \in Sessions, Ends(s)
    PROVE  /\ request' \in [Sessions -> {NoRequest} \cup Change]
           /\ \A t \in Sessions \ {s} : request'[t] = request[t]
           /\ request'[s].at = "idle"
    BY DEF TypeInv, Ends, NoRequest

(* Steps moves an executor on with the same work. *)
LEMMA StepsTaken ==
    ASSUME TypeInv, NEW e \in Executors, Works(e),
           NEW at \in {"claimed", "start", "confirm", "report"} \cup Erasing, Steps(e, at)
    PROVE  /\ executor' \in [Executors -> {NoWork} \cup Work]
           /\ \A f \in Executors \ {e} : executor'[f] = executor[f]
           /\ executor'[e].at = at
           /\ executor'[e].user = executor[e].user
           /\ executor'[e].verified = executor[e].verified
<1>1. executor[e] \in Work
    BY DEF TypeInv, NoWork, Works
<1> DEFINE next == [executor[e] EXCEPT !.at = at, !.waiting = FALSE]
<1>2. next \in Work /\ next.at = at /\ next.user = executor[e].user
      /\ next.verified = executor[e].verified
    BY <1>1 DEF Work
<1>3. executor' = [executor EXCEPT ![e] = next]
    BY DEF Steps, TypeInv
<1>4. executor'[e] = next
    BY <1>3 DEF TypeInv
<1> HIDE DEF next
<1> QED BY <1>2, <1>3, <1>4 DEF TypeInv

(* Reports ends an executor's work with an answer. *)
LEMMA ReportsTaken ==
    ASSUME TypeInv, NEW e \in Executors, Works(e), NEW v \in BOOLEAN, Reports(e, v)
    PROVE  /\ executor' \in [Executors -> {NoWork} \cup Work]
           /\ \A f \in Executors \ {e} : executor'[f] = executor[f]
           /\ executor'[e].at = "report"
           /\ executor'[e].user = executor[e].user
           /\ executor'[e].verified = v
<1>1. executor[e] \in Work
    BY DEF TypeInv, NoWork, Works
<1> DEFINE next == [executor[e] EXCEPT !.at = "report", !.verified = v, !.waiting = FALSE]
<1>2. next \in Work /\ next.at = "report" /\ next.user = executor[e].user /\ next.verified = v
    BY <1>1 DEF Work
<1>3. executor' = [executor EXCEPT ![e] = next]
    BY DEF Reports, TypeInv
<1>4. executor'[e] = next
    BY <1>3 DEF TypeInv
<1> HIDE DEF next
<1> QED BY <1>2, <1>3, <1>4 DEF TypeInv

(* Await keeps an executor where it is. *)
LEMMA AwaitTaken ==
    ASSUME TypeInv, NEW e \in Executors, Await(e)
    PROVE  /\ Works(e)
           /\ executor' \in [Executors -> {NoWork} \cup Work]
           /\ \A f \in Executors \ {e} : executor'[f] = executor[f]
           /\ executor'[e].at = executor[e].at
           /\ executor'[e].user = executor[e].user
           /\ executor'[e].verified = executor[e].verified
<1>1. executor[e] \in Work /\ Works(e)
    BY DEF TypeInv, NoWork, Await, Revoking, Works
<1> DEFINE next == [executor[e] EXCEPT !.waiting = TRUE]
<1>2. next \in Work /\ next.at = executor[e].at /\ next.user = executor[e].user
      /\ next.verified = executor[e].verified
    BY <1>1 DEF Work
<1>3. executor' = [executor EXCEPT ![e] = next]
    BY DEF Await, TypeInv
<1>4. executor'[e] = next
    BY <1>3 DEF TypeInv
<1> HIDE DEF next
<1> QED BY <1>1, <1>2, <1>3, <1>4 DEF TypeInv

(* Stops leaves an executor without work. *)
LEMMA StopsTaken ==
    ASSUME TypeInv, NEW e \in Executors, Stops(e)
    PROVE  /\ executor' \in [Executors -> {NoWork} \cup Work]
           /\ \A f \in Executors \ {e} : executor'[f] = executor[f]
           /\ executor'[e].at = "idle"
    BY DEF TypeInv, Stops, NoWork

(* A new token is a token. *)
LEMMA UnusedIsToken ==
    ASSUME NEW u, Unused(u) # {}
    PROVE  (CHOOSE v \in Unused(u) : TRUE) \in Nat
<1>1. PICK v \in Unused(u) : TRUE
    OBVIOUS
<1>2. (CHOOSE w \in Unused(u) : TRUE) \in Unused(u)
    BY <1>1
<1> QED BY <1>2, PersonalAssumption DEF Unused

-----------------------------------------------------------------------------
(* What a step of one request, and of one executor, must keep to. *)

(* A request that enters "owner" is of a user without a deletion, one that writes holds the     *)
(* lock, and what it has read is the committed state: then the invariant is kept, as long as     *)
(* no deletion is withdrawn or completed and nobody else's lock is taken.                        *)
LEMMA RequestKeeps ==
    ASSUME Inv, NEW s \in Sessions,
           UNCHANGED <<userOf, account, rating, score, startup, scanned, executor>>,
           request' \in [Sessions -> {NoRequest} \cup Change],
           \A t \in Sessions \ {s} : request'[t] = request[t],
           request'[s].at \in {"owner"} \cup Writing =>
               request[s].at \in {"owner"} \cup Writing \/ ~Blocked(userOf[s])',
           request'[s].at \in Writing => lock' = s,
           request'[s].at = "written" =>
               /\ request'[s].seen = [rating EXCEPT ![userOf[s]] = request'[s].next]
               /\ rating[userOf[s]] = request'[s].expected,
           \A h \in Sessions \cup Executors \cup {StartUp} : h # s /\ lock = h => lock' = h,
           deletion' \in [Users -> Deletion],
           \A u \in Users : Blocked(u) => Blocked(u)',
           \A u \in Users : deletion'[u].state = "complete" => deletion[u].state = "complete"
    PROVE  Inv'
<1>1. TypeInv'
    BY DEF Inv, TypeInv
<1>2. Held'
    BY HoldersAssumption DEF Inv, Held, Writing, StartUp
<1>3. Fresh'
  <2>1. ASSUME NEW t \in Sessions, request'[t].at = "written"
        PROVE  /\ request'[t].seen = [rating EXCEPT ![userOf[t]] = request'[t].next]
               /\ rating[userOf[t]] = request'[t].expected
      BY <2>1 DEF Inv, Fresh
  <2> QED BY <2>1 DEF Inv, Fresh
<1>4. ASSUME NEW u \in Users, Drained(u) PROVE Drained(u)'
    BY <1>4 DEF Drained
<1>5. ASSUME NEW u \in Users, Erased(u) PROVE Erased(u)'
    BY <1>4, <1>5 DEF Erased
<1>6. Settling'
  <2>1. ASSUME NEW e \in Executors, Works(e)
        PROVE  executor[e].user \in Users
      BY <2>1 DEF Inv, TypeInv, NoWork, Work, Works
  <2> QED BY <1>4, <1>5, <2>1 DEF Inv, Settling, Works
<1>7. ScoreIsCurrent'
    BY DEF Inv, ScoreIsCurrent
<1> QED BY <1>1, <1>2, <1>3, <1>6, <1>7 DEF Inv

(* An executor's work is for an admitted deletion, drained once it has been handed over and     *)
(* erased once verified, and it erases under the lock: then the invariant is kept, as long as    *)
(* no account returns, no deletion is withdrawn or completed without being erased, and nobody    *)
(* else's lock is taken.                                                                         *)
LEMMA ExecutorKeeps ==
    ASSUME Inv, NEW e \in Executors,
           UNCHANGED <<userOf, rating, score, request, startup, scanned>>,
           account' \in [Users -> {"enabled", "disabled", "absent"}],
           \A u \in Users : account[u] = "absent" => account'[u] = "absent",
           deletion' \in [Users -> Deletion],
           \A u \in Users : Blocked(u) => Blocked(u)',
           \A u \in Users : deletion'[u].state = "complete" => Erased(u),
           executor' \in [Executors -> {NoWork} \cup Work],
           \A f \in Executors \ {e} : executor'[f] = executor[f],
           Works(e)' => /\ Blocked(executor'[e].user)
                        /\ executor'[e].at # "claimed" => Drained(executor'[e].user)
                        /\ executor'[e].verified => Erased(executor'[e].user)
                        /\ executor'[e].at = "erase" => lock' = e,
           \A h \in Sessions \cup Executors \cup {StartUp} : h # e /\ lock = h => lock' = h
    PROVE  Inv'
<1>1. TypeInv'
    BY DEF Inv, TypeInv
<1>2. Held'
    BY HoldersAssumption DEF Inv, Held, Writing, StartUp, Works
<1>3. Fresh'
    BY DEF Inv, Fresh
<1>4. ASSUME NEW u \in Users, Drained(u) PROVE Drained(u)'
    BY <1>4 DEF Drained
<1>5. ASSUME NEW u \in Users, Erased(u) PROVE Erased(u)'
    BY <1>4, <1>5 DEF Erased
<1>6. Settling'
  <2>1. ASSUME NEW f \in Executors, executor'[f].at # "idle"
        PROVE  executor'[f].user \in Users
      BY <2>1 DEF NoWork, Work
  <2>2. ASSUME NEW f \in Executors, executor'[f].at # "idle"
        PROVE  /\ Blocked(executor'[f].user)
               /\ executor'[f].at # "claimed" => Drained(executor'[f].user)
               /\ executor'[f].verified => Erased(executor'[f].user)
      BY <2>2 DEF Inv, Settling, Works
  <2>3. \A f \in Executors : executor'[f].at # "idle" =>
            /\ Blocked(executor[f].user)'
            /\ executor'[f].at # "claimed" => Drained(executor[f].user)'
            /\ executor'[f].verified => Erased(executor[f].user)'
      BY <1>4, <1>5, <2>1, <2>2
  <2>4. \A u \in Users : deletion'[u].state = "complete" => Erased(u)'
      BY <1>5
  <2> QED BY <2>3, <2>4 DEF Settling, Works
<1>7. ScoreIsCurrent'
    BY DEF Inv, ScoreIsCurrent
<1> QED BY <1>1, <1>2, <1>3, <1>6, <1>7 DEF Inv

-----------------------------------------------------------------------------
(* The steps, group by group. *)

(* A session or an executor's wait is no part of what is shown. *)
LEMMA NothingTouchedKeeps ==
    ASSUME Inv,
           UNCHANGED <<userOf, account, rating, score, lock, request, startup, scanned,
                       deletion, executor>>
    PROVE  Inv'
    BY DEF Inv, TypeInv, Held, Fresh, Settling, ScoreIsCurrent, Drained, Erased, Blocked, Works

(* Each step of a request up to its commit keeps the invariant. *)
LEMMA RequestStepsKeep ==
    ASSUME Inv, NEW s \in Sessions, RequestStep(s), ~Commit(s)
    PROVE  Inv'
<1>1. TypeInv /\ userOf[s] \in Users
    BY DEF Inv, TypeInv
<1>2. ASSUME UNCHANGED deletion
      PROVE  /\ deletion' \in [Users -> Deletion]
             /\ \A u \in Users : Blocked(u) => Blocked(u)'
             /\ \A u \in Users : deletion'[u].state = "complete" => deletion[u].state = "complete"
    BY <1>1, <1>2 DEF TypeInv, Blocked
<1>3. CASE \E op \in {"put", "delete", "forget"} : Arrive(s, op)
  <2>1. PICK op \in {"put", "delete", "forget"} : Arrive(s, op)
      BY <1>3
  <2> DEFINE change == [at |-> "filtered", op |-> op, next |-> 0, seen |-> NoScore,
                        expected |-> IF op = "forget" THEN 0 ELSE rating[userOf[s]]]
  <2>2. change \in Change /\ change.at = "filtered"
      BY <1>1 DEF TypeInv, Change, NoScore
  <2>3. request' = [request EXCEPT ![s] = change]
      BY <2>1 DEF Arrive
  <2> HIDE DEF change
  <2>4. /\ request' \in [Sessions -> {NoRequest} \cup Change]
        /\ \A t \in Sessions \ {s} : request'[t] = request[t]
        /\ request'[s].at = "filtered"
      BY <1>1, <2>2, <2>3 DEF TypeInv
  <2>5. UNCHANGED <<userOf, account, rating, score, lock, startup, scanned, executor, deletion>>
      BY <2>1 DEF Arrive, identity, rows, erasing
  <2> QED BY <1>2, <2>4, <2>5, RequestKeeps DEF Writing
<1>4. CASE Enter(s)
  <2>1. UNCHANGED <<userOf, account, rating, score, lock, startup, scanned, executor, deletion>>
      BY <1>4 DEF Enter, identity, rows, erasing
  <2>2. /\ request' \in [Sessions -> {NoRequest} \cup Change]
        /\ \A t \in Sessions \ {s} : request'[t] = request[t]
        /\ request'[s].at = "active"
      BY <1>1, <1>4, MovesTaken DEF Enter, Changing
  <2> QED BY <1>2, <2>1, <2>2, RequestKeeps DEF Writing
<1>5. CASE Recheck(s)
  <2>1. UNCHANGED <<userOf, account, rating, score, lock, startup, scanned, executor, deletion>>
      BY <1>5 DEF Recheck, identity, rows, erasing
  <2>2. /\ request' \in [Sessions -> {NoRequest} \cup Change]
        /\ \A t \in Sessions \ {s} : request'[t] = request[t]
        /\ request'[s].at = "owner"
      BY <1>1, <1>5, MovesTaken DEF Recheck, Changing
  <2>3. ~Blocked(userOf[s])'
      BY <1>5, <2>1 DEF Recheck, Blocked
  <2> QED BY <1>2, <2>1, <2>2, <2>3, RequestKeeps DEF Writing
<1>6. CASE Refuse(s)
  <2>1. UNCHANGED <<userOf, account, rating, score, lock, startup, scanned, executor, deletion>>
      BY <1>6 DEF Refuse, identity, rows, erasing
  <2> QED BY <1>1, <1>2, <1>6, <2>1, EndsTaken, RequestKeeps DEF Refuse, Writing
<1>7. CASE Admit(s)
  <2>1. UNCHANGED <<userOf, account, rating, score, lock, startup, scanned, executor>>
      BY <1>7 DEF Admit, rows
  <2>2. /\ deletion' \in [Users -> Deletion]
        /\ \A u \in Users : Blocked(u) => Blocked(u)'
        /\ \A u \in Users : deletion'[u].state = "complete" => deletion[u].state = "complete"
      BY <1>1, <1>7 DEF Admit, TypeInv, Deletion, Blocked
  <2> QED BY <1>1, <1>7, <2>1, <2>2, EndsTaken, RequestKeeps DEF Admit, Writing
<1>8. CASE Lock(s)
  <2>1. UNCHANGED <<userOf, account, rating, score, startup, scanned, executor, deletion>>
      BY <1>8 DEF Lock, identity, erasing
  <2>2. /\ request' \in [Sessions -> {NoRequest} \cup Change]
        /\ \A t \in Sessions \ {s} : request'[t] = request[t]
        /\ request'[s].at = "locked"
      BY <1>1, <1>8, MovesTaken DEF Lock, Changing
  <2>3. lock = NoOne /\ lock' = s /\ request[s].at = "owner"
      BY <1>8 DEF Lock, Acquired
  <2>4. \A h \in Sessions \cup Executors \cup {StartUp} : lock # h
      BY <2>3, HoldersAssumption DEF NoOne, StartUp
  <2> QED BY <1>2, <2>1, <2>2, <2>3, <2>4, RequestKeeps DEF Writing
<1>9. CASE Write(s)
  <2>1. request[s].at = "locked"
      BY <1>9 DEF Write
  <2>2. request[s] \in Change /\ request[s].at = "locked"
      BY <1>1, <2>1 DEF TypeInv, NoRequest
  <2> DEFINE next == IF request[s].op = "put" THEN CHOOSE v \in Unused(userOf[s]) : TRUE ELSE 0
             seen == [rating EXCEPT ![userOf[s]] = next]
             change == [request[s] EXCEPT !.at = "written", !.next = next, !.seen = seen]
  <2>3. next \in Nat
      BY <1>9, UnusedIsToken DEF Write
  <2>4. request' = [request EXCEPT ![s] = change]
      BY <1>9 DEF Write
  <2> HIDE DEF next
  <2>5. seen \in [Users -> Nat]
      BY <1>1, <2>3 DEF TypeInv
  <2> HIDE DEF seen
  <2>6. /\ change \in Change
        /\ change.at = "written"
        /\ change.next = next
        /\ change.seen = seen
        /\ change.expected = request[s].expected
      BY <2>2, <2>3, <2>5 DEF Change, Changing
  <2> HIDE DEF change
  <2>7. /\ request' \in [Sessions -> {NoRequest} \cup Change]
        /\ \A t \in Sessions \ {s} : request'[t] = request[t]
        /\ request'[s] = change
      BY <1>1, <2>4, <2>6 DEF TypeInv
  <2>8. UNCHANGED <<userOf, account, rating, score, lock, startup, scanned, executor, deletion>>
      BY <1>9 DEF Write, identity, erasing
  <2>9. lock = s
      BY <2>2 DEF Inv, Held, Writing
  <2>10. seen = [rating EXCEPT ![userOf[s]] = next]
      BY DEF seen
  <2>11. rating[userOf[s]] = request'[s].expected
      BY <1>9, <2>6, <2>7 DEF Write, Current
  <2> QED BY <1>2, <2>2, <2>6, <2>7, <2>8, <2>9, <2>10, <2>11, RequestKeeps DEF Writing
<1>10. CASE Rollback(s)
  <2>1. UNCHANGED <<userOf, account, rating, score, startup, scanned, executor, deletion>>
      BY <1>10 DEF Rollback, identity, erasing
  <2>2. lock = s
      BY <1>10 DEF Rollback, Inv, Held, Writing
  <2> QED BY <1>1, <1>2, <1>10, <2>1, <2>2, EndsTaken, RequestKeeps DEF Rollback, Writing
<1> QED BY <1>3, <1>4, <1>5, <1>6, <1>7, <1>8, <1>9, <1>10 DEF RequestStep, Ending

(* Whoever commits is the only one under the lock, and what it has read is what it leaves. *)
LEMMA CommitKeeps ==
    ASSUME Inv, NEW s \in Sessions, Commit(s)
    PROVE  Inv'
<1>1. TypeInv /\ userOf[s] \in Users /\ lock = s
    BY DEF Inv, TypeInv, Held, Writing, Commit
<1>2. request[s] \in Change
    BY <1>1 DEF TypeInv, NoRequest, Commit
<1>3. /\ request' \in [Sessions -> {NoRequest} \cup Change]
      /\ \A t \in Sessions \ {s} : request'[t] = request[t]
      /\ request'[s].at = "idle"
    BY <1>1, EndsTaken DEF Commit
<1>4. UNCHANGED <<userOf, account, startup, scanned, deletion, executor>>
    BY DEF Commit, identity, erasing
<1>5. /\ rating' = [rating EXCEPT ![userOf[s]] = request[s].next]
      /\ score' = rating'
    BY DEF Commit, Inv, Fresh
<1>6. rating' \in [Users -> Nat]
    BY <1>1, <1>2, <1>5 DEF TypeInv, Change
<1>7. TypeInv'
    BY <1>1, <1>3, <1>4, <1>5, <1>6 DEF TypeInv
<1>8. /\ \A t \in Sessions \ {s} : request[t].at \notin Writing
      /\ startup \notin {"locked", "read"}
      /\ \A e \in Executors : executor[e].at # "erase"
    BY <1>1, HoldersAssumption DEF Inv, Held, StartUp
<1>9. Held' /\ Fresh'
    BY <1>3, <1>4, <1>8 DEF Held, Fresh, Writing
<1>10. ASSUME NEW u \in Users, Drained(u) PROVE Drained(u)'
    BY <1>3, <1>4, <1>10 DEF Drained, Blocked, Writing
<1>11. ASSUME NEW u \in Users, Erased(u) PROVE Erased(u)'
  <2>1. userOf[s] # u
      BY <1>11 DEF Erased, Drained, Writing, Commit
  <2> QED BY <1>1, <1>4, <1>5, <1>10, <1>11, <2>1 DEF Erased, TypeInv
<1>12. Settling'
  <2>1. ASSUME NEW e \in Executors, Works(e)
        PROVE  executor[e].user \in Users
      BY <1>1, <2>1 DEF TypeInv, NoWork, Work, Works
  <2> QED BY <1>4, <1>10, <1>11, <2>1 DEF Inv, Settling, Works, Blocked
<1>13. ScoreIsCurrent'
    BY <1>5 DEF ScoreIsCurrent
<1> QED BY <1>7, <1>9, <1>12, <1>13 DEF Inv

(* The start-up projection reads and projects under the lock. *)
LEMMA StartUpKeeps ==
    ASSUME Inv, StartUpStep
    PROVE  Inv'
<1>1. UNCHANGED <<userOf, account, rating, request, deletion, executor>>
    BY DEF StartUpStep, FindUnprojected, LockUnprojected, ReadAggregate, Project, identity, rows,
           erasing
<1>2. TypeInv'
    BY <1>1 DEF Inv, TypeInv, NoScore, StartUpStep, FindUnprojected, LockUnprojected,
                ReadAggregate, Project, rows
<1>3. Settling'
    BY <1>1 DEF Inv, Settling, Drained, Erased, Blocked, Works
<1>4. Held' /\ Fresh' /\ ScoreIsCurrent'
  <2>1. CASE FindUnprojected
      BY <1>1, <2>1 DEF Inv, Held, Fresh, ScoreIsCurrent, FindUnprojected, rows
  <2>2. CASE LockUnprojected
      BY <1>1, <2>2, HoldersAssumption
         DEF Inv, Held, Fresh, ScoreIsCurrent, LockUnprojected, Acquired, Writing
  <2>3. CASE ReadAggregate
      BY <1>1, <2>3 DEF Inv, Held, Fresh, ScoreIsCurrent, ReadAggregate, rows
  <2>4. CASE Project
    <3>1. lock = StartUp /\ scanned = rating
        BY <2>4 DEF Inv, Held, Fresh, Project
    <3> QED BY <1>1, <2>4, <3>1, HoldersAssumption
               DEF Inv, Held, Fresh, ScoreIsCurrent, Project, Writing
  <2> QED BY <2>1, <2>2, <2>3, <2>4 DEF StartUpStep
<1> QED BY <1>2, <1>3, <1>4 DEF Inv

(* An executor that is neither claiming nor stopping: its deletion is blocked, drained unless it *)
(* is only claimed, and erased if it has been verified.                                          *)
LEMMA AtWork ==
    ASSUME Inv, NEW e \in Executors, Works(e)
    PROVE  /\ executor[e] \in Work
           /\ executor[e].user \in Users
           /\ Blocked(executor[e].user)
           /\ executor[e].at # "claimed" => Drained(executor[e].user)
           /\ executor[e].verified => Erased(executor[e].user)
<1>1. executor[e] \in Work
    BY DEF Inv, TypeInv, NoWork, Works
<1> QED BY <1>1 DEF Inv, Settling, Work

(* A step that only moves an executor on, and perhaps takes the lock it erases under. *)
LEMMA MovingOnKeeps ==
    ASSUME Inv, NEW e \in Executors, Works(e),
           NEW at \in {"claimed", "start", "confirm", "report"} \cup Erasing, Steps(e, at),
           UNCHANGED <<userOf, rating, score, request, startup, scanned, deletion>>,
           account' \in [Users -> {"enabled", "disabled", "absent"}],
           \A u \in Users : account[u] = "absent" => account'[u] = "absent",
           Drained(executor[e].user),
           at = "erase" => lock' = e,
           \A h \in Sessions \cup Executors \cup {StartUp} : h # e /\ lock = h => lock' = h
    PROVE  Inv'
<1>1. TypeInv
    BY DEF Inv
<1>2. /\ executor' \in [Executors -> {NoWork} \cup Work]
      /\ \A f \in Executors \ {e} : executor'[f] = executor[f]
      /\ executor'[e].at = at
      /\ executor'[e].user = executor[e].user
      /\ executor'[e].verified = executor[e].verified
    BY <1>1, StepsTaken
<1>3. /\ deletion' \in [Users -> Deletion]
      /\ \A u \in Users : Blocked(u) => Blocked(u)'
      /\ \A u \in Users : deletion'[u].state = "complete" => Erased(u)
    BY DEF Inv, TypeInv, Settling, Blocked
<1> QED BY <1>2, <1>3, AtWork, ExecutorKeeps

(* A step that ends an executor's work with an answer, or with none. *)
LEMMA AnsweringKeeps ==
    ASSUME Inv, NEW e \in Executors, Works(e),
           UNCHANGED <<userOf, account, rating, score, request, startup, scanned, deletion>>,
           \/ Stops(e)
           \/ /\ Drained(executor[e].user)
              /\ \E v \in BOOLEAN : Reports(e, v) /\ (v => Erased(executor[e].user)),
           \A h \in Sessions \cup Executors \cup {StartUp} : h # e /\ lock = h => lock' = h
    PROVE  Inv'
<1>1. TypeInv
    BY DEF Inv
<1>2. /\ deletion' \in [Users -> Deletion]
      /\ \A u \in Users : Blocked(u) => Blocked(u)'
      /\ \A u \in Users : deletion'[u].state = "complete" => Erased(u)
      /\ account' \in [Users -> {"enabled", "disabled", "absent"}]
      /\ \A u \in Users : account[u] = "absent" => account'[u] = "absent"
    BY DEF Inv, TypeInv, Settling, Blocked
<1>3. CASE Stops(e)
  <2>1. /\ executor' \in [Executors -> {NoWork} \cup Work]
        /\ \A f \in Executors \ {e} : executor'[f] = executor[f]
        /\ ~Works(e)'
      BY <1>1, <1>3, StopsTaken DEF Works
  <2> QED BY <1>2, <2>1, ExecutorKeeps
<1>4. ASSUME Drained(executor[e].user), NEW v \in BOOLEAN, Reports(e, v),
             v => Erased(executor[e].user)
      PROVE  Inv'
  <2>1. /\ executor' \in [Executors -> {NoWork} \cup Work]
        /\ \A f \in Executors \ {e} : executor'[f] = executor[f]
        /\ executor'[e].at = "report"
        /\ executor'[e].user = executor[e].user
        /\ executor'[e].verified = v
      BY <1>1, <1>4, ReportsTaken
  <2> QED BY <1>2, <1>4, <2>1, AtWork, ExecutorKeeps
<1> QED BY <1>3, <1>4

(* Each step of an executor that does not empty the rating keeps the invariant. *)
LEMMA ProceedKeeps ==
    ASSUME Inv, NEW e \in Executors, Proceed(e), ~Erase(e)
    PROVE  Inv'
<1>1. TypeInv
    BY DEF Inv
<1>2. ASSUME UNCHANGED account
      PROVE  /\ account' \in [Users -> {"enabled", "disabled", "absent"}]
             /\ \A u \in Users : account[u] = "absent" => account'[u] = "absent"
    BY <1>1, <1>2 DEF TypeInv
<1>3. ASSUME Works(e), executor[e].at # "claimed" PROVE Drained(executor[e].user)
    BY <1>3, AtWork
<1>4. CASE \E u \in Users : Claim(e, u)
  <2>1. PICK u \in Users : Claim(e, u)
      BY <1>4
  <2>2. UNCHANGED <<userOf, account, rating, score, lock, request, startup, scanned>>
      BY <2>1 DEF Claim, identity, rows, serving
  <2> DEFINE work == [at |-> "claimed", user |-> u, waiting |-> FALSE, verified |-> FALSE]
  <2>3. work \in Work /\ work.at = "claimed" /\ work.user = u /\ work.verified = FALSE
      BY DEF Work
  <2>4. executor' = [executor EXCEPT ![e] = work]
      BY <2>1 DEF Claim
  <2> HIDE DEF work
  <2>5. /\ executor' \in [Executors -> {NoWork} \cup Work]
        /\ \A f \in Executors \ {e} : executor'[f] = executor[f]
        /\ executor'[e] = work
      BY <1>1, <2>3, <2>4 DEF TypeInv
  <2>6. deletion[u] \in Deletion /\ deletion[u].state = "pending"
      BY <1>1, <2>1 DEF TypeInv, Claim, Claimable
  <2>7. [deletion[u] EXCEPT !.claim = e, !.due = FALSE] \in Deletion
      BY <2>6 DEF Deletion
  <2>8. deletion' = [deletion EXCEPT ![u] = [deletion[u] EXCEPT !.claim = e, !.due = FALSE]]
      BY <2>1 DEF Claim
  <2>9. [deletion[u] EXCEPT !.claim = e, !.due = FALSE].state = "pending"
      BY <2>6 DEF Deletion
  <2>10. /\ deletion' \in [Users -> Deletion]
         /\ \A v \in Users : Blocked(v) => Blocked(v)'
         /\ \A v \in Users : deletion'[v].state = "complete" => Erased(v)
      BY <1>1, <2>7, <2>8, <2>9 DEF Inv, TypeInv, Settling, Blocked
  <2>11. Blocked(u)
      BY <2>6 DEF Blocked
  <2> QED BY <1>2, <2>2, <2>3, <2>5, <2>10, <2>11, ExecutorKeeps
<1>5. CASE Await(e)
  <2>1. UNCHANGED <<userOf, account, rating, score, lock, request, startup, scanned, deletion>>
      BY <1>5 DEF Await, identity, rows, serving
  <2>2. /\ deletion' \in [Users -> Deletion]
        /\ \A u \in Users : Blocked(u) => Blocked(u)'
        /\ \A u \in Users : deletion'[u].state = "complete" => Erased(u)
      BY <2>1 DEF Inv, TypeInv, Settling, Blocked
  <2>3. executor'[e].at = "erase" => lock' = e
      BY <1>1, <1>5, <2>1, AwaitTaken DEF Inv, Held
  <2> QED BY <1>1, <1>2, <1>5, <2>1, <2>2, <2>3, AwaitTaken, AtWork, ExecutorKeeps
<1>6. CASE HandOver(e)
  <2>1. UNCHANGED <<userOf, account, rating, score, lock, request, startup, scanned, deletion>>
      BY <1>6 DEF HandOver, rows, serving
  <2>2. Works(e) /\ Steps(e, "start")
      BY <1>6 DEF HandOver, Works
  <2>3. \A s \in Sessions : request[s].at \notin Changing
      BY <1>6 DEF HandOver, Settled, Readers
  <2>4. Drained(executor[e].user)
      BY <2>2, <2>3, AtWork DEF Drained, Changing, Writing
  <2> QED BY <1>2, <2>1, <2>2, <2>4, MovingOnKeeps
<1>7. CASE Start(e)
  <2> DEFINE at == IF ledger[executor[e].user] = "completed" THEN "confirm" ELSE "disable"
  <2>1. UNCHANGED <<userOf, account, rating, score, lock, request, startup, scanned, deletion>>
      BY <1>7 DEF Start, identity, rows, serving
  <2>2. Works(e) /\ executor[e].at = "start" /\ Steps(e, at)
      BY <1>7 DEF Start, Works
  <2>3. at \in {"confirm", "disable"}
      OBVIOUS
  <2> HIDE DEF at
  <2> QED BY <1>2, <1>3, <2>1, <2>2, <2>3, MovingOnKeeps DEF Erasing
<1>8. CASE Disable(e)
  <2>1. UNCHANGED <<userOf, rating, score, lock, request, startup, scanned, deletion>>
      BY <1>8 DEF Disable, rows, serving
  <2>2. Works(e) /\ executor[e].at = "disable" /\ Steps(e, "end")
      BY <1>8 DEF Disable, Works
  <2>3. /\ account' \in [Users -> {"enabled", "disabled", "absent"}]
        /\ \A u \in Users : account[u] = "absent" => account'[u] = "absent"
      BY <1>1, <1>8, <2>2, AtWork DEF TypeInv, Disable
  <2> QED BY <1>3, <2>1, <2>2, <2>3, MovingOnKeeps DEF Erasing
<1>9. CASE EndSessions(e)
  <2>1. UNCHANGED <<userOf, account, rating, score, lock, request, startup, scanned, deletion>>
      BY <1>9 DEF EndSessions, rows, serving
  <2>2. Works(e) /\ executor[e].at = "end" /\ Steps(e, "check")
      BY <1>9 DEF EndSessions, Works
  <2> QED BY <1>2, <1>3, <2>1, <2>2, MovingOnKeeps DEF Erasing
<1>10. CASE CheckSessions(e)
  <2>1. UNCHANGED <<userOf, account, rating, score, lock, request, startup, scanned, deletion>>
      BY <1>10 DEF CheckSessions, identity, rows, serving
  <2>2. Works(e) /\ executor[e].at = "check" /\ Steps(e, "select")
      BY <1>10 DEF CheckSessions, Works
  <2> QED BY <1>2, <1>3, <2>1, <2>2, MovingOnKeeps DEF Erasing
<1>11. CASE SelectRatings(e)
  <2> DEFINE at == IF rating[executor[e].user] = 0 THEN "remove" ELSE "lock"
  <2>1. UNCHANGED <<userOf, account, rating, score, lock, request, startup, scanned, deletion>>
      BY <1>11 DEF SelectRatings, identity, rows, serving
  <2>2. Works(e) /\ executor[e].at = "select" /\ Steps(e, at)
      BY <1>11 DEF SelectRatings, Works
  <2>3. at \in {"remove", "lock"}
      OBVIOUS
  <2> HIDE DEF at
  <2> QED BY <1>2, <1>3, <2>1, <2>2, <2>3, MovingOnKeeps DEF Erasing
<1>12. CASE LockErased(e)
  <2>1. UNCHANGED <<userOf, account, rating, score, request, startup, scanned, deletion>>
      BY <1>12 DEF LockErased, identity, serving
  <2>2. Works(e) /\ executor[e].at = "lock" /\ Steps(e, "erase")
      BY <1>12 DEF LockErased, Works
  <2>3. lock = NoOne /\ lock' = e
      BY <1>12 DEF LockErased, Acquired
  <2>4. \A h \in Sessions \cup Executors \cup {StartUp} : lock # h
      BY <2>3, HoldersAssumption DEF NoOne, StartUp
  <2> QED BY <1>2, <1>3, <2>1, <2>2, <2>3, <2>4, MovingOnKeeps DEF Erasing
<1>13. CASE Remove(e)
  <2>1. UNCHANGED <<userOf, rating, score, lock, request, startup, scanned, deletion>>
      BY <1>13 DEF Remove, rows, serving
  <2>2. Works(e) /\ executor[e].at = "remove" /\ Steps(e, "verify")
      BY <1>13 DEF Remove, Works
  <2>3. /\ account' \in [Users -> {"enabled", "disabled", "absent"}]
        /\ \A u \in Users : account[u] = "absent" => account'[u] = "absent"
      BY <1>1, <1>13, <2>2, AtWork DEF TypeInv, Remove
  <2> QED BY <1>3, <2>1, <2>2, <2>3, MovingOnKeeps DEF Erasing
<1>14. CASE Verify(e)
  <2>1. UNCHANGED <<userOf, account, rating, score, lock, request, startup, scanned, deletion>>
      BY <1>14 DEF Verify, identity, rows, serving
  <2>2. Works(e) /\ executor[e].at = "verify" /\ Steps(e, "confirm")
      BY <1>14 DEF Verify, Works
  <2> QED BY <1>2, <1>3, <2>1, <2>2, MovingOnKeeps
<1>15. CASE Confirm(e)
  <2>1. UNCHANGED <<userOf, account, rating, score, lock, request, startup, scanned, deletion>>
      BY <1>15 DEF Confirm, identity, rows, serving
  <2>2. Works(e) /\ executor[e].at = "confirm" /\ Reports(e, TRUE)
      BY <1>15 DEF Confirm, Works
  <2>3. Erased(executor[e].user)
      BY <1>3, <1>15, <2>2 DEF Confirm, Gone, Erased
  <2> QED BY <1>3, <2>1, <2>2, <2>3, AnsweringKeeps
<1>16. CASE FailStep(e)
  <2>1. UNCHANGED <<userOf, account, rating, score, lock, request, startup, scanned, deletion>>
      BY <1>16 DEF FailStep, rows, serving
  <2>2. Works(e) /\ executor[e].at # "claimed" /\ Reports(e, FALSE)
      BY <1>16 DEF FailStep, Contradicted, Works
  <2> QED BY <1>3, <2>1, <2>2, AnsweringKeeps
<1>17. CASE Acknowledge(e)
  <2>1. UNCHANGED <<userOf, account, rating, score, lock, request, startup, scanned>>
      BY <1>17 DEF Acknowledge, identity, rows, serving
  <2>2. Works(e) /\ Stops(e)
      BY <1>17 DEF Acknowledge, Works
  <2>3. /\ executor' \in [Executors -> {NoWork} \cup Work]
        /\ \A f \in Executors \ {e} : executor'[f] = executor[f]
        /\ ~Works(e)'
      BY <1>1, <2>2, StopsTaken DEF Works
  <2>4. /\ deletion' \in [Users -> Deletion]
        /\ \A u \in Users : Blocked(u) => Blocked(u)'
        /\ \A u \in Users : deletion'[u].state = "complete" => Erased(u)
    <3>1. CASE ClaimIsCurrent(e)
      <4> DEFINE row == [state |-> IF executor[e].verified THEN "complete" ELSE "pending",
                         claim |-> NoOne, due |-> FALSE]
      <4>1. deletion' = [deletion EXCEPT ![executor[e].user] = row]
          BY <1>17, <3>1 DEF Acknowledge
      <4>2. /\ row \in Deletion
            /\ row.state # "none"
            /\ row.state = "complete" => Erased(executor[e].user)
          BY <2>2, AtWork DEF Deletion
      <4> HIDE DEF row
      <4> QED BY <1>1, <2>2, <4>1, <4>2, AtWork DEF Inv, TypeInv, Settling, Blocked
    <3>2. CASE ~ClaimIsCurrent(e)
        BY <1>1, <1>17, <3>2 DEF Acknowledge, Inv, TypeInv, Settling, Blocked
    <3> QED BY <3>1, <3>2
  <2> QED BY <1>2, <2>1, <2>3, <2>4, ExecutorKeeps
<1> QED BY <1>4, <1>5, <1>6, <1>7, <1>8, <1>9, <1>10, <1>11, <1>12, <1>13, <1>14, <1>15, <1>16,
           <1>17 DEF Proceed

(* Whoever empties the rating is the only one under the lock. *)
LEMMA EraseKeeps ==
    ASSUME Inv, NEW e \in Executors, Erase(e)
    PROVE  Inv'
<1>1. /\ TypeInv
      /\ lock = e
      /\ Works(e)
      /\ executor[e].user \in Users
      /\ Drained(executor[e].user)
      /\ executor[e].verified => Erased(executor[e].user)
    BY AtWork DEF Inv, Held, Erase, Works
<1>2. /\ executor' \in [Executors -> {NoWork} \cup Work]
      /\ \A f \in Executors \ {e} : executor'[f] = executor[f]
      /\ executor'[e].at = "remove"
      /\ executor'[e].user = executor[e].user
      /\ executor'[e].verified = executor[e].verified
    BY <1>1, StepsTaken DEF Erase, Erasing
<1>3. UNCHANGED <<userOf, account, request, startup, scanned, deletion>>
    BY DEF Erase, identity, serving
<1>4. /\ rating' = [rating EXCEPT ![executor[e].user] = 0]
      /\ score' = rating'
    BY DEF Erase
<1>5. rating' \in [Users -> Nat]
    BY <1>1, <1>4 DEF TypeInv
<1>6. TypeInv'
    BY <1>1, <1>2, <1>3, <1>4, <1>5 DEF TypeInv
<1>7. /\ \A s \in Sessions : request[s].at \notin Writing
      /\ startup \notin {"locked", "read"}
      /\ \A f \in Executors \ {e} : executor[f].at # "erase"
    BY <1>1, HoldersAssumption DEF Inv, Held, StartUp
<1>8. Held' /\ Fresh'
    BY <1>2, <1>3, <1>7 DEF Held, Fresh, Writing
<1>9. ASSUME NEW u \in Users, Drained(u) PROVE Drained(u)'
    BY <1>3, <1>9 DEF Drained, Blocked
<1>10. ASSUME NEW u \in Users, Erased(u) PROVE Erased(u)'
    BY <1>1, <1>3, <1>4, <1>9, <1>10 DEF Erased, TypeInv
<1>11. Settling'
  <2>1. ASSUME NEW f \in Executors, Works(f)
        PROVE  executor[f].user \in Users
      BY <1>1, <2>1 DEF TypeInv, NoWork, Work, Works
  <2>2. ASSUME NEW f \in Executors, Works(f)'
        PROVE  /\ Works(f)
               /\ executor'[f].user = executor[f].user
               /\ executor'[f].at # "claimed" => Drained(executor[f].user)
               /\ executor'[f].verified => Erased(executor[f].user)
      BY <1>1, <1>2, <2>2 DEF Inv, Settling, Works
  <2>3. ASSUME NEW f \in Executors, Works(f)'
        PROVE  /\ Blocked(executor[f].user)'
               /\ executor'[f].at # "claimed" => Drained(executor[f].user)'
               /\ executor'[f].verified => Erased(executor[f].user)'
    <3>1. Blocked(executor[f].user)
        BY <2>2, <2>3 DEF Inv, Settling
    <3>2. executor'[f].at # "claimed" => Drained(executor[f].user)
        BY <2>2, <2>3
    <3>3. executor'[f].verified => Erased(executor[f].user)
        BY <2>2, <2>3
    <3>4. executor[f].user \in Users /\ executor'[f].user = executor[f].user
        BY <2>1, <2>2, <2>3
    <3> QED BY <1>3, <1>9, <1>10, <3>1, <3>2, <3>3, <3>4 DEF Blocked
  <2>4. \A u \in Users : deletion'[u].state = "complete" => Erased(u)'
      BY <1>3, <1>10 DEF Inv, Settling
  <2> QED BY <2>3, <2>4 DEF Settling, Works
<1>12. ScoreIsCurrent'
    BY <1>4 DEF ScoreIsCurrent
<1> QED BY <1>6, <1>8, <1>11, <1>12 DEF Inv

(* A lost, late or dead executor keeps the invariant. *)
LEMMA DisturbKeeps ==
    ASSUME Inv, NEW e \in Executors, Disturb(e)
    PROVE  Inv'
<1>1. TypeInv
    BY DEF Inv
<1>2. ASSUME LeaveLock(e)
      PROVE  \A h \in Sessions \cup Executors \cup {StartUp} : h # e /\ lock = h => lock' = h
    BY <1>2 DEF LeaveLock
<1>3. ASSUME Works(e), executor[e].at # "claimed" PROVE Drained(executor[e].user)
    BY <1>3, AtWork
<1>4. CASE HandOverTimesOut(e)
  <2>1. UNCHANGED <<userOf, account, rating, score, lock, request, startup, scanned>>
      BY <1>4 DEF HandOverTimesOut, rows, serving
  <2>2. Works(e) /\ Stops(e)
      BY <1>4 DEF HandOverTimesOut, Works
  <2>3. /\ executor' \in [Executors -> {NoWork} \cup Work]
        /\ \A f \in Executors \ {e} : executor'[f] = executor[f]
        /\ ~Works(e)'
      BY <1>1, <2>2, StopsTaken DEF Works
  <2>4. /\ deletion' \in [Users -> Deletion]
        /\ \A u \in Users : Blocked(u) => Blocked(u)'
        /\ \A u \in Users : deletion'[u].state = "complete" => Erased(u)
    <3> DEFINE u == executor[e].user
               row == [deletion[u] EXCEPT !.claim = NoOne, !.due = FALSE]
    <3>1. CASE deletion[u].state = "pending" /\ deletion[u].claim = e
      <4>1. deletion' = [deletion EXCEPT ![u] = row]
          BY <1>4, <3>1 DEF HandOverTimesOut, FailAttempt
      <4>2. deletion[u] \in Deletion /\ u \in Users
          BY <1>1, <2>2, AtWork DEF TypeInv
      <4>3. row \in Deletion /\ row.state = "pending"
          BY <3>1, <4>2 DEF Deletion
      <4> HIDE DEF u, row
      <4> QED BY <1>1, <4>1, <4>2, <4>3 DEF Inv, TypeInv, Settling, Blocked
    <3>2. CASE ~(deletion[u].state = "pending" /\ deletion[u].claim = e)
      <4>1. deletion' = deletion
          BY <1>4, <3>2 DEF HandOverTimesOut, FailAttempt
      <4> QED BY <1>1, <4>1 DEF Inv, TypeInv, Settling, Blocked
    <3> QED BY <3>1, <3>2
  <2>5. /\ account' \in [Users -> {"enabled", "disabled", "absent"}]
        /\ \A u \in Users : account[u] = "absent" => account'[u] = "absent"
      BY <1>1, <2>1 DEF TypeInv
  <2> QED BY <2>1, <2>3, <2>4, <2>5, ExecutorKeeps
<1>5. CASE StepTimesOut(e)
  <2>1. UNCHANGED <<userOf, account, rating, score, lock, request, startup, scanned, deletion>>
      BY <1>5 DEF StepTimesOut, rows, serving
  <2>2. Works(e) /\ executor[e].at # "claimed" /\ Reports(e, FALSE)
      BY <1>5 DEF StepTimesOut, TimesOut, Revoking, Works
  <2> QED BY <1>3, <2>1, <2>2, AnsweringKeeps
<1>6. CASE CutOff(e)
  <2>1. UNCHANGED <<userOf, account, rating, score, request, startup, scanned, deletion>>
      BY <1>6 DEF CutOff, identity, serving
  <2>2. Works(e) /\ executor[e].at # "claimed" /\ Reports(e, FALSE) /\ LeaveLock(e)
      BY <1>6 DEF CutOff
  <2> QED BY <1>2, <1>3, <2>1, <2>2, AnsweringKeeps
<1>7. CASE Crash(e)
  <2>1. UNCHANGED <<userOf, account, rating, score, request, startup, scanned, deletion>>
      BY <1>7 DEF Crash, identity, serving
  <2>2. Works(e) /\ Stops(e) /\ LeaveLock(e)
      BY <1>7 DEF Crash
  <2> QED BY <1>2, <2>1, <2>2, AnsweringKeeps
<1> QED BY <1>4, <1>5, <1>6, <1>7 DEF Disturb

(* A deletion that falls due is the same deletion. *)
LEMMA FallDueKeeps ==
    ASSUME Inv, NEW u \in Users, FallDue(u)
    PROVE  Inv'
<1>1. UNCHANGED <<userOf, account, rating, score, lock, request, startup, scanned, executor>>
    BY DEF FallDue, identity, rows, serving
<1>2. deletion[u] \in Deletion
    BY DEF Inv, TypeInv
<1> DEFINE row == [deletion[u] EXCEPT !.due = TRUE]
<1>3. row \in Deletion /\ row.state = deletion[u].state
    BY <1>2 DEF Deletion
<1>4. deletion' = [deletion EXCEPT ![u] = row]
    BY DEF FallDue
<1> HIDE DEF row
<1>5. /\ deletion' \in [Users -> Deletion]
      /\ \A v \in Users : deletion'[v].state = deletion[v].state
    BY <1>3, <1>4 DEF Inv, TypeInv
<1>6. TypeInv'
    BY <1>1, <1>5 DEF Inv, TypeInv
<1>7. Held' /\ Fresh' /\ ScoreIsCurrent'
    BY <1>1 DEF Inv, Held, Fresh, ScoreIsCurrent
<1>8. ASSUME NEW v \in Users
      PROVE  /\ Blocked(v) => Blocked(v)'
             /\ Drained(v) => Drained(v)'
             /\ Erased(v) => Erased(v)'
    BY <1>1, <1>5 DEF Drained, Erased, Blocked
<1>9. Settling'
  <2>1. ASSUME NEW e \in Executors, Works(e)
        PROVE  executor[e].user \in Users
      BY <2>1, AtWork
  <2> QED BY <1>1, <1>5, <1>8, <2>1 DEF Inv, Settling, Works
<1> QED BY <1>6, <1>7, <1>9 DEF Inv

(* A restart leaves no change and no projection running, and no executor its unreceived work. *)
LEMMA RestartKeeps ==
    ASSUME Inv, Restart
    PROVE  Inv'
<1>1. UNCHANGED <<userOf, account, rating, score, deletion>>
    BY DEF Restart
<1>2. \A s \in Sessions : request'[s] = NoRequest
    BY DEF Restart
<1>3. ASSUME NEW e \in Executors
      PROVE  \/ executor'[e] = NoWork
             \/ executor'[e] = executor[e]
    BY DEF Restart
<1>4. executor' \in [Executors -> {NoWork} \cup Work]
    BY DEF Inv, TypeInv, Restart
<1>5. TypeInv'
    BY <1>1, <1>4 DEF Inv, TypeInv, Restart, NoScore
<1>6. Held'
    BY <1>2, <1>3 DEF Inv, Held, Restart, NoRequest, NoWork, Writing
<1>7. Fresh'
    BY <1>2 DEF Fresh, Restart, NoRequest
<1>8. ASSUME NEW u \in Users
      PROVE  /\ Blocked(u) => Blocked(u)'
             /\ Drained(u) => Drained(u)'
             /\ Erased(u) => Erased(u)'
    BY <1>1, <1>2 DEF Drained, Erased, Blocked, NoRequest, Writing
<1>9. Settling'
  <2>1. ASSUME NEW e \in Executors, Works(e)'
        PROVE  /\ Blocked(executor[e].user)'
               /\ executor'[e].at # "claimed" => Drained(executor[e].user)'
               /\ executor'[e].verified => Erased(executor[e].user)'
    <3>1. executor'[e] = executor[e] /\ Works(e)
        BY <1>3, <2>1 DEF Works, NoWork
    <3> QED BY <1>8, <3>1, AtWork
  <2>2. \A u \in Users : deletion'[u].state = "complete" => Erased(u)'
      BY <1>1, <1>8 DEF Inv, Settling
  <2> QED BY <2>1, <2>2 DEF Settling
<1>10. ScoreIsCurrent'
    BY <1>1 DEF Inv, ScoreIsCurrent
<1> QED BY <1>5, <1>6, <1>7, <1>9, <1>10 DEF Inv

-----------------------------------------------------------------------------
(* The invariant. *)

(* Before anybody has signed in. *)
LEMMA InitInv == Init => Inv
<1> SUFFICES ASSUME Init PROVE Inv
    OBVIOUS
<1>1. TypeInv
    BY PersonalAssumption DEF Init, TypeInv, NoScore, NoRequest, NoWork, Deletion
<1>2. Held /\ Fresh
    BY DEF Init, Held, Fresh, NoRequest, NoWork, Writing
<1>3. Settling
    BY DEF Init, Settling, Works, NoWork
<1>4. ScoreIsCurrent
    BY DEF Init, ScoreIsCurrent
<1> QED BY <1>1, <1>2, <1>3, <1>4 DEF Inv

(* Every step keeps the invariant. *)
LEMMA NextInv == Inv /\ [Next]_vars => Inv'
<1> SUFFICES ASSUME Inv, [Next]_vars PROVE Inv'
    OBVIOUS
<1>1. ASSUME NEW s \in Sessions, SessionStep(s) PROVE Inv'
  <2>1. UNCHANGED <<userOf, account, rating, score, lock, request, startup, scanned, deletion,
                    executor>>
      BY <1>1 DEF SessionStep, SignIn, Register, Fence, rows, serving, erasing
  <2> QED BY <2>1, NothingTouchedKeeps
<1>2. ASSUME NEW s \in Sessions, RequestStep(s) PROVE Inv'
    BY <1>2, RequestStepsKeep, CommitKeeps
<1>3. CASE StartUpStep
    BY <1>3, StartUpKeeps
<1>4. ASSUME NEW e \in Executors, Proceed(e) \/ Disturb(e) PROVE Inv'
    BY <1>4, ProceedKeeps, EraseKeeps, DisturbKeeps
<1>5. ASSUME NEW u \in Users, FallDue(u) PROVE Inv'
    BY <1>5, FallDueKeeps
<1>6. CASE Restart
    BY <1>6, RestartKeeps
<1>7. CASE UNCHANGED vars
    BY <1>7, NothingTouchedKeeps DEF vars, identity, rows, serving, erasing
<1> QED BY <1>1, <1>2, <1>3, <1>4, <1>5, <1>6, <1>7 DEF Next

(* The invariant holds in every state of every behaviour. *)
THEOREM PersonalInvariant == Spec => []Inv
<1> QED BY InitInv, NextInv, PTL DEF Spec

-----------------------------------------------------------------------------
(* What it is for. *)

(* ScoreIsCurrent: a write, an erasure and the start-up projection each project the aggregate    *)
(* they read under the Game's lock (CommunityScoreLock), so the projected score is always the    *)
(* aggregate of the committed ratings.                                                           *)
THEOREM ScoreStaysCurrent == Spec => []ScoreIsCurrent
<1>1. Inv => ScoreIsCurrent
    BY DEF Inv
<1> QED BY <1>1, PersonalInvariant, PTL

(* ErasedStaysErased: a deletion that is acknowledged complete leaves no rating, no account and  *)
(* no change that could write one (AccountDeletionFence, SessionRevocation, the last             *)
(* verification).                                                                                *)
THEOREM CompletionErases == Spec => []ErasedStaysErased
<1>1. Inv => ErasedStaysErased
    BY DEF Inv, Settling, Erased, Drained, Writing, ErasedStaysErased
<1> QED BY <1>1, PersonalInvariant, PTL

(* Only a commit and an erasure change a rating. *)
LEMMA RatingChanges ==
    ASSUME Inv, [Next]_vars, rating' # rating
    PROVE  \/ \E s \in Sessions : Commit(s)
           \/ \E e \in Executors : Erase(e)
<1>1. CASE \E s \in Sessions : SessionStep(s)
    BY <1>1 DEF SessionStep, SignIn, Register, Fence, rows
<1>2. CASE \E s \in Sessions : RequestStep(s)
    BY <1>2 DEF RequestStep, Ending, Arrive, Enter, Recheck, Refuse, Admit, Lock, Write, Rollback,
                rows
<1>3. CASE StartUpStep
    BY <1>3 DEF StartUpStep, FindUnprojected, LockUnprojected, ReadAggregate, Project, rows
<1>4. CASE \E e \in Executors : Proceed(e)
    BY <1>4 DEF Proceed, Claim, Await, HandOver, Start, Disable, EndSessions, CheckSessions,
                SelectRatings, LockErased, Remove, Verify, Confirm, FailStep, Acknowledge, rows
<1>5. CASE \E e \in Executors : Disturb(e)
    BY <1>5 DEF Disturb, HandOverTimesOut, StepTimesOut, CutOff, Crash, rows
<1>6. CASE \E u \in Users : FallDue(u)
    BY <1>6 DEF FallDue, rows
<1>7. CASE Restart
    BY <1>7 DEF Restart
<1>8. CASE UNCHANGED vars
    BY <1>8 DEF vars, rows
<1> QED BY <1>1, <1>2, <1>3, <1>4, <1>5, <1>6, <1>7, <1>8 DEF Next

(* NoWriteOnceSettled: once an executor has been handed the work (AccountDeletionExecutor), the  *)
(* rating of its user only disappears.                                                           *)
THEOREM HandedOverIsSettled == Spec => NoWriteOnceSettled
<1>1. ASSUME Inv, [Next]_vars, NEW e \in Executors, Works(e), executor[e].at # "claimed"
      PROVE  rating'[executor[e].user] \in {rating[executor[e].user], 0}
  <2>1. Drained(executor[e].user) /\ executor[e].user \in Users /\ TypeInv
      BY <1>1, AtWork DEF Inv
  <2>2. ASSUME NEW s \in Sessions, Commit(s)
        PROVE  rating'[executor[e].user] = rating[executor[e].user]
    <3>1. userOf[s] # executor[e].user
        BY <2>1, <2>2 DEF Drained, Writing, Commit
    <3> QED BY <2>1, <2>2, <3>1 DEF Commit, TypeInv
  <2>3. ASSUME NEW f \in Executors, Erase(f)
        PROVE  rating'[executor[e].user] \in {rating[executor[e].user], 0}
      BY <2>1, <2>3 DEF Erase, TypeInv
  <2>4. CASE rating' = rating
      BY <2>4
  <2> QED BY <1>1, <2>2, <2>3, <2>4, RatingChanges
<1>2. Inv /\ [Next]_vars =>
        [\A e \in Executors : Works(e) /\ executor[e].at # "claimed" =>
            rating'[executor[e].user] \in {rating[executor[e].user], 0}]_vars
    BY <1>1
<1> QED BY <1>2, PersonalInvariant, PTL DEF Spec, NoWriteOnceSettled

(* NoLostUpdate: a write (requireCurrentVersion) replaces the version its client had seen, also  *)
(* when other sessions of the user were writing in the meantime.                                 *)
THEOREM WritesReplaceWhatTheySaw == Spec => NoLostUpdate
<1>1. Inv /\ [Next]_vars =>
        [\A s \in Sessions : request[s].at = "written" /\ ~InFlight(s)' /\ rating' # rating
            => rating[userOf[s]] = request[s].expected]_vars
    BY DEF Inv, Fresh
<1> QED BY <1>1, PersonalInvariant, PTL DEF Spec, NoLostUpdate

(* CompletionIsFinal: no claim, failure or late report (JdbcAccountDeletionStore) reopens a      *)
(* completed deletion.                                                                           *)
THEOREM CompletionStays == Spec => CompletionIsFinal
<1>1. ASSUME Inv, [Next]_vars, NEW u \in Users, deletion[u].state = "complete"
      PROVE  deletion'[u].state = "complete"
  <2>1. deletion \in [Users -> Deletion]
      BY <1>1 DEF Inv, TypeInv
  <2>2. ASSUME NEW s \in Sessions, SessionStep(s) \/ RequestStep(s)
        PROVE  deletion'[u].state = "complete"
      BY <1>1, <2>1, <2>2
         DEF SessionStep, SignIn, Register, Fence, RequestStep, Ending, Arrive, Enter, Recheck,
             Refuse, Admit, Lock, Write, Commit, Rollback, Blocked, erasing
  <2>3. CASE StartUpStep
      BY <1>1, <2>3
         DEF StartUpStep, FindUnprojected, LockUnprojected, ReadAggregate, Project, erasing
  <2>4. ASSUME NEW e \in Executors, Proceed(e)
        PROVE  deletion'[u].state = "complete"
    <3>1. ASSUME NEW v \in Users, Claim(e, v)
          PROVE  deletion'[u].state = "complete"
        BY <1>1, <2>1, <3>1 DEF Claim, Claimable
    <3>2. CASE Acknowledge(e)
        BY <1>1, <2>1, <3>2 DEF Acknowledge, ClaimIsCurrent
    <3> QED BY <1>1, <2>4, <3>1, <3>2
            DEF Proceed, Await, HandOver, Start, Disable, EndSessions, CheckSessions,
                SelectRatings, LockErased, Erase, Remove, Verify, Confirm, FailStep
  <2>5. ASSUME NEW e \in Executors, Disturb(e)
        PROVE  deletion'[u].state = "complete"
      BY <1>1, <2>1, <2>5
         DEF Disturb, HandOverTimesOut, FailAttempt, StepTimesOut, CutOff, Crash
  <2>6. ASSUME NEW v \in Users, FallDue(v)
        PROVE  deletion'[u].state = "complete"
      BY <1>1, <2>1, <2>6 DEF FallDue
  <2>7. CASE Restart
      BY <1>1, <2>7 DEF Restart
  <2>8. CASE UNCHANGED vars
      BY <1>1, <2>8 DEF vars, erasing
  <2> QED BY <1>1, <2>2, <2>3, <2>4, <2>5, <2>6, <2>7, <2>8 DEF Next
<1>2. Inv /\ [Next]_vars =>
        [\A u \in Users : deletion[u].state = "complete" => deletion'[u].state = "complete"]_vars
    BY <1>1
<1> QED BY <1>2, PersonalInvariant, PTL DEF Spec, CompletionIsFinal
=============================================================================
