------------------------------ MODULE MCPersonal ------------------------------
(* The user who may leave has both sessions, or another user has one of them. *)
EXTENDS Personal

OneOrTwoUsers == {b \in [Sessions -> Users] : b["s1"] = "u1"}
===============================================================================
