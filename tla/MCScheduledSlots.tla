--------------------------- MODULE MCScheduledSlots ---------------------------
(* Two instances that enable one policy and disable another, whose slot may   *)
(* be left over.  Two days let a request of the day before meet a newer one;  *)
(* a lost turn lets two drains overlap.                                       *)
EXTENDS ScheduledSlots
CONSTANTS near, upcoming
EnabledOf == [i \in Instances |-> {near}]
RecentOf == [p \in Policies |-> {1}]
=============================================================================
