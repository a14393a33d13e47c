------------------------------- MODULE NodeIds -------------------------------
(* What the rest of the program relies on when it names a node by its id:     *)
(* proxy_pool_members and probe_history keep source_node_id without a foreign *)
(* key (internal/db/db.go:141-151), and so do queued tests. An id names one   *)
(* node of one owner until that node is gone, and is then never given again.  *)
(* A node comes switched on, and only its user turns the switch.              *)
CONSTANTS
  Owners,  \* subscriptions
  Prints   \* what a node is, whatever it is called: its fingerprint

VARIABLES
  alive,  \* the nodes there are
  used    \* the ids that have been given

Init == alive = {} /\ used = {}

Of(s) == {n \in alive : n.owner = s}

\* The nodes of s are renewed: some go, some come under ids of their own.
Renew(s) ==
  /\ used \subseteq used'
  /\ \E gone \in SUBSET Of(s),
        come \in SUBSET [id : used' \ used, owner : {s}, print : Prints, on : {TRUE}] :
       /\ \A m, n \in come : m.id = n.id => m = n
       /\ alive' = (alive \ gone) \cup come

Turn(n) == /\ alive' = (alive \ {n}) \cup {[n EXCEPT !.on = ~@]}
           /\ UNCHANGED used

Next == (\E s \in Owners : Renew(s)) \/ (\E n \in alive : Turn(n))

Spec == Init /\ [][Next]_<<alive, used>>
=============================================================================
