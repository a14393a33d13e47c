------------------------------- MODULE MCProbe -------------------------------
(* Instances of Probe for TLC: tests and nodes are model values.             *)
EXTENDS Probe

CONSTANTS
  l1, s1, s2, s3, n1, n2,
  Budget  \* bound: tests, edits and resets of the configuration in all

\* The first speed test and the latency test are about the same node.
MCInit ==
  /\ Init
  /\ table = [n \in Nodes |-> "on"] /\ status = [n \in Nodes |-> "rest"]
  /\ node[s1] = n1 /\ node[s3] = n1 /\ node[l1] = n1
  /\ setting = [y \in Types |-> IF y = "speed" THEN MaxSetting ELSE 1]

\* Users enqueue the speed tests in turn, and stop when the budget is spent.
Used == {j \in Jobs : pc'[j] # "idle"}
MCNext ==
  /\ Next
  /\ Cardinality(Used) + edits' + publishes' <= Budget
  /\ (s2 \in Used => s1 \in Used) /\ (s3 \in Used => s2 \in Used)

MCSpec == MCInit /\ [][MCNext]_vars /\ Fairness
=============================================================================
