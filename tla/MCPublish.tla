------------------------------ MODULE MCPublish ------------------------------
(* Instances of Publish for TLC: ids and goroutines are model values, and no  *)
(* secret differs from the other.                                             *)
EXTENDS Publish, TLC

CONSTANTS
  p1,
  Budget  \* bound: edits so far and contexts that are over, together

Symmetric == Permutations(Secrets)

\* One pool exists from the start; the other may be created, and fit no port.
MCInit == Init /\ table[p1] = "on"
MCNext == Next /\ edits' + Cardinality({g \in Publishers : late'[g]}) <= Budget

MCSpec == MCInit /\ [][MCNext]_vars
=============================================================================
