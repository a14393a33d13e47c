----------------------------- MODULE NodeMatching -----------------------------
(***************************************************************************)
(* How a sync of a subscription pairs the nodes it has fetched with the    *)
(* rows already stored (internal/subscriptions/service.go:343-397 and      *)
(* 681-723).  A row keeps its id, its switch and its test results when it  *)
(* is paired; pool members and queued tests name it by that id.            *)
(*                                                                         *)
(* A node is its raw payload.  Equal payloads are equal nodes, and have    *)
(* equal fingerprints.  Others may share a fingerprint: it leaves out the  *)
(* key "name" of the normalized form (service.go:695), so that most        *)
(* protocols' renamed nodes keep theirs; a vmess node's name stays in its  *)
(* "ps", and renamed it is a new node.  Any function on Raws is allowed.   *)
(***************************************************************************)
EXTENDS Naturals, Sequences, FiniteSets

CONSTANTS
  Raws,        \* raw payloads
  Fingerprint  \* the fingerprint of each

ASSUME FingerprintAssumption == DOMAIN Fingerprint = Raws

Fingerprints == {Fingerprint[raw] : raw \in Raws}

\* The columns of subscription_nodes that a sync reads or writes, id apart.
Row == [id : Nat \ {0}, raw : Raws, on : BOOLEAN]

\* Rows are loaded in the order of their ids.
Lowest(items) == CHOOSE x \in items : \A y \in items : x.id <= y.id

\* Mutant of Candidates: a renamed node is a new one.
ExactCandidates(left, raw) == {x \in left : x.raw = raw}

\* The stored rows not yet paired that have the fingerprint of raw.
Candidates(left, raw) == {x \in left : Fingerprint[x.raw] = Fingerprint[raw]}

Exact(items, raw) == {x \in items : x.raw = raw}

\* Mutant of Pop: the first row is taken at once.
PopFirst(items, raw) == Lowest(items)

\* popStoredSubscriptionNode: the first row with the very payload, else the first.
Pop(items, raw) ==
  Lowest(IF Exact(items, raw) # {} THEN Exact(items, raw) ELSE items)

\* removeStoredSubscriptionNode: a row is paired once.
RemoveStored(left, x) == left \ {x}

\* Mutant of Updated: the normalized form goes into raw_payload.
Normalized(x, raw) == [x EXCEPT !.raw = Fingerprint[raw]]

\* What UPDATE leaves of a paired row: everything but the payload's columns.
Updated(x, raw) == [x EXCEPT !.raw = raw]

Inserted(id, raw) == [id |-> id, raw |-> raw, on |-> TRUE]

\* One fetched node: its row is updated, or a new one inserted.
Place(acc, raw) ==
  LET items == Candidates(acc.left, raw)
      x     == Pop(items, raw)
  IN  IF items = {}
      THEN [left |-> acc.left,
            rows |-> acc.rows \cup {Inserted(acc.next, raw)},
            next |-> acc.next + 1]
      ELSE [left |-> RemoveStored(acc.left, x),
            rows |-> {y \in acc.rows : y.id # x.id} \cup {Updated(x, raw)},
            next |-> acc.next]

\* What the first i nodes of the list have made of the stored rows and of the
\* next free id: the rows not yet paired, and the rows written.
Placed(stored, list, next) ==
  LET after[i \in 0 .. Len(list)] ==
        IF i = 0 THEN [left |-> stored, rows |-> {}, next |-> next]
                 ELSE Place(after[i - 1], list[i])
  IN  after

\* Mutant of Match: without AUTOINCREMENT the next id is one above those in use.
MatchReusing(stored, list, next) ==
  LET m == Placed(stored, list, next)[Len(list)]
  IN  [m EXCEPT !.next = 1 + CHOOSE n \in {x.id : x \in m.rows} : \A x \in m.rows : x.id <= n]

\* The whole list in its order. The rows left over at the end are deleted.
Match(stored, list, next) == Placed(stored, list, next)[Len(list)]

(* What a pairing is worth.                                                *)

\* How often a payload is in a list.
Occurrences(list, raw) == Cardinality({i \in DOMAIN list : list[i] = raw})

Alike(items, f) == {x \in items : Fingerprint[x.raw] = f}

\* y is the row that x was: its id, its fingerprint and its switch.
Same(x, y) == /\ y.id = x.id /\ y.on = x.on
              /\ Fingerprint[y.raw] = Fingerprint[x.raw]

Kept(x, items) == \E y \in items : Same(x, y)

Least(m, n) == IF m <= n THEN m ELSE n

\* The rows of one subscription: as many as have been inserted, told apart by
\* their ids.
Keyed(items, next) ==
  /\ items \subseteq Row /\ IsFiniteSet(items)
  /\ \A x \in items : x.id < next
  /\ \A x, y \in items : x.id = y.id => x = y
=============================================================================
