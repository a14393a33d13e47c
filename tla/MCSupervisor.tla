---------------------------- MODULE MCSupervisor ----------------------------
(* Instances of Supervisor for TLC: calls and process incarnations are       *)
(* model values.                                                             *)
EXTENDS Supervisor

\* A timer that changes no delay might as well not have fired yet: only
\* StableRun reads the timers.
MCNext == Next /\ (backoff' = backoff => timers \subseteq timers')
MCSpec == Init /\ [][MCNext]_vars /\ Fairness
=============================================================================
