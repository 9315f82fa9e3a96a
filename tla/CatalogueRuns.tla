---------------------------- MODULE CatalogueRuns ----------------------------
(***************************************************************************)
(* What the callers of catalogue synchronization see of runs: start()      *)
(* gives one of them the provider or says that it is taken, the owned run  *)
(* ends with an assessment, and a run whose process is gone keeps the      *)
(* provider until its heartbeat is old enough to be abandoned.  SyncRun    *)
(* models how; the backfill and the scheduler build on this module.        *)
(***************************************************************************)
EXTENDS Naturals, FiniteSets

CONSTANTS
    Days,     \* periods that coverage is recorded for
    MaxRuns,  \* bound: runs started
    NoRun     \* no run

Runs == [n : 1..MaxRuns, days : SUBSET Days]
ASSUME RunsAssumption == MaxRuns \in Nat /\ NoRun \notin Runs

VARIABLES
    owner,      \* the run whose row is running, or NoRun
    started,    \* every run that has owned the provider
    stopAsked,  \* the owner's row has stop_requested_at
    dead,       \* nobody executes the owner any more
    scan        \* the run that last covered each period

runVars == <<owner, started, stopAsked, dead, scan>>

RunsInit ==
    /\ owner = NoRun
    /\ started = {}
    /\ stopAsked = FALSE
    /\ dead = FALSE
    /\ scan = [d \in Days |-> NoRun]

NewRun(days) == [n |-> Cardinality(started) + 1, days |-> days]

(* start(): Started when no run owns the provider, Skipped otherwise. *)
BeginRun(days) ==
    /\ owner = NoRun
    /\ Cardinality(started) < MaxRuns
    /\ owner' = NewRun(days)
    /\ started' = started \union {NewRun(days)}
    /\ UNCHANGED <<stopAsked, dead, scan>>

Busy == owner # NoRun /\ UNCHANGED runVars

Assessments == {"clean", "stopped", "attention"}

(* A bug: a run that was taken over completes all the same. *)
EndRunUnfenced(r, assessment) ==
    /\ assessment = "stopped" => stopAsked
    /\ owner' = NoRun
    /\ stopAsked' = FALSE
    /\ \/ assessment # "stopped" /\ scan' = [d \in Days |-> IF d \in r.days THEN r ELSE scan[d]]
       \/ assessment # "clean" /\ UNCHANGED scan
    /\ UNCHANGED <<started, dead>>

(* execute() returns the report of run r.  A stop is honoured at a safe     *)
(* point, or comes too late; a run that needs attention may have covered.   *)
EndRun(r, assessment) ==
    /\ owner = r
    /\ assessment = "stopped" => stopAsked
    /\ owner' = NoRun
    /\ stopAsked' = FALSE
    /\ \/ assessment # "stopped" /\ scan' = [d \in Days |-> IF d \in r.days THEN r ELSE scan[d]]
       \/ assessment # "clean" /\ UNCHANGED scan
    /\ UNCHANGED <<started, dead>>

(* The process of run r stops, or its completion fails: its row stays. *)
Orphan(r) ==
    /\ dead' = (dead \/ (owner = r /\ owner # NoRun))
    /\ UNCHANGED <<owner, started, stopAsked, scan>>

(* requestStop(): only a running row takes it. *)
AskStop(r) ==
    /\ stopAsked' = (stopAsked \/ (owner = r /\ owner # NoRun))
    /\ UNCHANGED <<owner, started, dead, scan>>

(* A run is abandoned by the start that takes over from it, or by an operator. *)
Evict ==
    /\ owner # NoRun
    /\ owner' = NoRun
    /\ stopAsked' = FALSE
    /\ dead' = FALSE
    /\ UNCHANGED <<started, scan>>

Abandon == dead /\ Evict

(* These steps are steps of run ownership, which SyncRun implements. *)
Ownership == INSTANCE RunOwnership WITH
    Games <- {},
    Window <- [r \in Runs |-> r.days],
    ended <- started \ {owner},
    published <- [r \in Runs |-> {}]
=============================================================================
