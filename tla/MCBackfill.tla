----------------------------- MODULE MCBackfill -----------------------------
(* Windows of the scheduled policies span the last month of the target. *)
EXTENDS Backfill
CONSTANTS near
EnabledOf == [i \in Instances |-> Policies]
RecentOf == [p \in Policies |-> {LastMonth}]
=============================================================================
