------------------------------ MODULE MCPanel ------------------------------
(* An instance of Panel for TLC: the older release has left two pools with  *)
(* one username, one of them with members.                                  *)
EXTENDS Panel

CONSTANT u1

MCUpgraded == {[rows |-> [p \in P |-> [user |-> u1, on |-> TRUE]], members |-> {1},
                last |-> MaxPools, legacy |-> TRUE]}
=============================================================================
