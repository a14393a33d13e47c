--------------------------- MODULE MCSubscriptions ---------------------------
(* An instance of Subscriptions for TLC: a1 and a2 differ in the name only;  *)
(* one source changes, the other always serves the same list.                *)
EXTENDS Subscriptions

CONSTANTS a1, a2, b, u1, u2

MCFingerprint == [raw \in Raws |-> IF raw = b THEN "b" ELSE "a"]
MCOffers == [u \in Urls |->
  IF u = u1 THEN {<<>>, <<a1, a2>>, <<a2, a1>>, <<b, a1, a1>>} ELSE {<<a2, a1>>}]
=============================================================================
