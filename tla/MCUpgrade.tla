----------------------------- MODULE MCUpgrade -----------------------------
(* Two targets, the first of which adds a migration and the second none. *)
EXTENDS Upgrade, TLC

MCTargets == {1, 2}
MCSame == (0 :> 0) @@ (1 :> 1) @@ (2 :> 1)
=============================================================================
