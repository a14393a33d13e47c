-------------------------- MODULE NodeMatchingProofs --------------------------
(***************************************************************************)
(* What the pairing of fetched nodes with stored rows does, for any rows,  *)
(* any list and any fingerprints.  Match goes through the list one node    *)
(* after another, so the proofs are inductions over the list.  Induction   *)
(* is had from the theorems that take no operator: the naturals are well-  *)
(* founded and a well-founded order has minimal elements.                  *)
(***************************************************************************)
EXTENDS NodeMatching, FiniteSetTheorems, WellFoundedInduction, TLAPS

(* Induction over the naturals, for a set instead of a predicate.          *)

Less == {p \in Nat \X Nat : p[1] < p[2]}

LEMMA LessWellFounded == IsWellFoundedOn(Less, Nat)
<1>1. OpToRel(<, Nat) = Less
  BY DEF OpToRel, Less
<1> QED
  BY <1>1, NatLessThanWellFounded

LEMMA LeastNumber ==
  ASSUME NEW T \in SUBSET Nat, T # {}
  PROVE  \E n \in T : \A m \in T : n <= m
<1>1. PICK n \in T : \A m \in T : <<m, n>> \notin Less
  BY LessWellFounded, WFMin
<1>2. ASSUME NEW m \in T PROVE n <= m
  <2>1. m \in Nat /\ n \in Nat
    OBVIOUS
  <2>2. m < n => <<m, n>> \in Less
    BY <2>1 DEF Less
  <2> QED
    BY <1>1, <2>1, <2>2
<1> QED
  BY <1>2

LEMMA Induction ==
  ASSUME NEW T \in SUBSET Nat, 0 \in T, \A n \in T : n + 1 \in T
  PROVE  T = Nat
<1> SUFFICES ASSUME Nat \ T # {} PROVE FALSE
  OBVIOUS
<1>1. PICK n \in Nat \ T : \A m \in Nat \ T : n <= m
  BY LeastNumber
<1>2. n # 0 /\ n - 1 \in Nat /\ n - 1 \notin Nat \ T
  BY <1>1
<1> QED
  BY <1>1, <1>2

\* The same up to a bound: what holds of 0 and goes over from each number below n
\* to the next one holds of n.
LEMMA InductionUpTo ==
  ASSUME NEW n \in Nat, NEW T, 0 \in T, \A i \in 0 .. n - 1 : i \in T => i + 1 \in T
  PROVE  n \in T
<1> DEFINE U == {i \in Nat : i <= n => i \in T}
<1>1. 0 \in U
  OBVIOUS
<1>2. ASSUME NEW i \in U PROVE i + 1 \in U
  OBVIOUS
<1>3. U \in SUBSET Nat
  OBVIOUS
<1> HIDE DEF U
<1>4. U = Nat
  BY <1>1, <1>2, <1>3, Induction
<1> QED
  BY <1>4 DEF U

-----------------------------------------------------------------------------
(* The recursion of Placed is well-defined.                                *)

Start(stored, next) == [left |-> stored, rows |-> {}, next |-> next]

\* h is what Placed is meant to be, for the first k nodes.
Recursion(stored, list, next, k, h) ==
  h = [i \in 0 .. k |-> IF i = 0 THEN [left |-> stored, rows |-> {}, next |-> next]
                                 ELSE Place(h[i - 1], list[i])]

LEMMA RecursionExists ==
  ASSUME NEW stored, NEW list, NEW next, NEW k \in Nat
  PROVE  \E h : Recursion(stored, list, next, k, h)
<1> DEFINE T == {n \in Nat : \E h : Recursion(stored, list, next, n, h)}
<1>1. 0 \in T
  <2>1. Recursion(stored, list, next, 0, [i \in {0} |-> Start(stored, next)])
    BY DEF Recursion, Start
  <2> QED
    BY <2>1
<1>2. ASSUME NEW n \in T PROVE n + 1 \in T
  <2>1. PICK h : Recursion(stored, list, next, n, h)
    OBVIOUS
  <2> DEFINE g == [i \in 0 .. n + 1 |-> IF i = n + 1 THEN Place(h[n], list[n + 1]) ELSE h[i]]
  <2>2. \A i \in 0 .. n + 1 :
          g[i] = IF i = 0 THEN Start(stored, next) ELSE Place(g[i - 1], list[i])
    <3>1. \A i \in 0 .. n : h[i] = IF i = 0 THEN Start(stored, next)
                                             ELSE Place(h[i - 1], list[i])
      BY <2>1 DEF Recursion, Start
    <3>2. n \in Nat
      OBVIOUS
    <3>3. \A i \in 0 .. n : g[i] = h[i]
      BY <3>2
    <3>4. g[n + 1] = Place(h[n], list[n + 1]) /\ g[n] = h[n]
      BY <3>2
    <3> HIDE DEF g, T
    <3> SUFFICES ASSUME NEW i \in 0 .. n + 1
                 PROVE  g[i] = IF i = 0 THEN Start(stored, next) ELSE Place(g[i - 1], list[i])
      OBVIOUS
    <3>5. CASE i = n + 1
      BY <3>2, <3>4, <3>5
    <3>6. CASE i = 0
      BY <3>1, <3>2, <3>3, <3>6
    <3>7. CASE i \in 1 .. n
      <4>1. i - 1 \in 0 .. n /\ i \in 0 .. n /\ i # 0
        BY <3>2, <3>7
      <4> QED
        BY <3>1, <3>3, <4>1
    <3> QED
      BY <3>2, <3>5, <3>6, <3>7
  <2>3. g = [i \in 0 .. n + 1 |-> IF i = 0 THEN Start(stored, next)
                                           ELSE Place(g[i - 1], list[i])]
    BY <2>2
  <2>4. Recursion(stored, list, next, n + 1, g)
    BY <2>3 DEF Recursion, Start
  <2> HIDE DEF g
  <2> QED
    BY <2>4
<1>3. T \in SUBSET Nat
  OBVIOUS
<1> HIDE DEF T
<1>4. T = Nat
  BY <1>1, <1>2, <1>3, Induction
<1> QED
  BY <1>4 DEF T

LEMMA PlacedRecursion ==
  ASSUME NEW stored, NEW list \in Seq(Raws), NEW next
  PROVE  /\ Placed(stored, list, next)[0] = Start(stored, next)
         /\ \A i \in 0 .. Len(list) - 1 :
              Placed(stored, list, next)[i + 1] = Place(Placed(stored, list, next)[i], list[i + 1])
<1> DEFINE h == Placed(stored, list, next)
<1>1. Len(list) \in Nat
  OBVIOUS
<1>2. Recursion(stored, list, next, Len(list), h)
  <2>1. h = CHOOSE g : Recursion(stored, list, next, Len(list), g)
    BY DEF Placed, Recursion
  <2>2. \E g : Recursion(stored, list, next, Len(list), g)
    BY <1>1, RecursionExists
  <2> HIDE DEF h
  <2> QED
    BY <2>1, <2>2
<1> HIDE DEF h
<1>3. h[0] = Start(stored, next)
  BY <1>1, <1>2 DEF Recursion, Start
<1>4. ASSUME NEW i \in 0 .. Len(list) - 1 PROVE h[i + 1] = Place(h[i], list[i + 1])
  <2>1. \A j \in 0 .. Len(list) : j # 0 => h[j] = Place(h[j - 1], list[j])
    BY <1>1, <1>2 DEF Recursion
  <2>2. i + 1 \in 0 .. Len(list) /\ i + 1 # 0 /\ (i + 1) - 1 = i
    BY <1>1
  <2> QED
    BY <2>1, <2>2
<1> QED
  BY <1>3, <1>4 DEF h

-----------------------------------------------------------------------------
(* One node.                                                               *)

LEMMA LowestChosen ==
  ASSUME NEW items, items \subseteq Row, items # {}
  PROVE  Lowest(items) \in items
<1> DEFINE ids == {x.id : x \in items}
<1>1. ids \in SUBSET Nat /\ ids # {}
  BY DEF Row
<1> HIDE DEF ids
<1>2. PICK n \in ids : \A m \in ids : n <= m
  BY <1>1, LeastNumber
<1>3. \E x \in items : \A y \in items : x.id <= y.id
  BY <1>2 DEF ids
<1> QED
  BY <1>3 DEF Lowest

\* Where a row written comes from: it is a stored one still, or has an id never used
\* before.
Explained(y, stored, next) == (\E x \in stored : Same(x, y)) \/ (y.on /\ next <= y.id)

\* What holds on the way through a list: the rows written are told apart by their
\* ids, also from the stored rows not yet paired; the paired ones have been kept.
Partway(a, stored, next) ==
  /\ a \in [left : SUBSET stored, rows : SUBSET Row, next : Nat \ {0}]
  /\ next <= a.next /\ Keyed(a.rows, a.next)
  /\ \A x \in a.left : \A y \in a.rows : x.id # y.id
  /\ \A x \in stored \ a.left : Kept(x, a.rows)
  /\ \A y \in a.rows : Explained(y, stored, next)

\* A new row, when no stored one has the fingerprint.
Inserts(a, b, raw) ==
  /\ Candidates(a.left, raw) = {}
  /\ b = [left |-> a.left, rows |-> a.rows \cup {Inserted(a.next, raw)},
          next |-> a.next + 1]

\* Or a stored row, the one with the very payload if there is one.
Updates(a, b, raw, x) ==
  /\ x \in a.left /\ Fingerprint[x.raw] = Fingerprint[raw]
  /\ Exact(a.left, raw) # {} => x.raw = raw
  /\ b = [left |-> a.left \ {x}, rows |-> a.rows \cup {Updated(x, raw)},
          next |-> a.next]

LEMMA PlaceCases ==
  ASSUME NEW next \in Nat \ {0}, NEW stored, Keyed(stored, next),
         NEW a, Partway(a, stored, next), NEW raw \in Raws
  PROVE  \/ Inserts(a, Place(a, raw), raw)
         \/ \E x \in a.left : Updates(a, Place(a, raw), raw, x)
<1> DEFINE items == Candidates(a.left, raw)
           x     == Pop(items, raw)
<1>1. a.left \subseteq Row
  BY DEF Partway, Keyed
<1>2. CASE items = {}
  BY <1>2 DEF Place, Inserts
<1>3. CASE items # {}
  <2>1. items \subseteq a.left /\ items \subseteq Row
    BY <1>1 DEF Candidates
  <2>2. Exact(items, raw) = Exact(a.left, raw)
    BY DEF Exact, Candidates
  <2>3. x \in items /\ (Exact(items, raw) # {} => x.raw = raw)
    <3>1. CASE Exact(items, raw) = {}
      BY <1>3, <2>1, <3>1, LowestChosen DEF Pop
    <3>2. CASE Exact(items, raw) # {}
      <4>1. Exact(items, raw) \subseteq Row /\ x = Lowest(Exact(items, raw))
        BY <2>1, <3>2 DEF Exact, Pop
      <4>2. x \in Exact(items, raw)
        BY <3>2, <4>1, LowestChosen
      <4> QED
        BY <4>2 DEF Exact
    <3> QED
      BY <3>1, <3>2
  <2>4. x \in a.left /\ Fingerprint[x.raw] = Fingerprint[raw]
    BY <2>3 DEF Candidates
  <2>5. Place(a, raw) = [left |-> a.left \ {x},
                         rows |-> {y \in a.rows : y.id # x.id} \cup {Updated(x, raw)},
                         next |-> a.next]
    BY <1>3 DEF Place, RemoveStored
  <2> HIDE DEF items, x
  <2>6. {y \in a.rows : y.id # x.id} = a.rows
    BY <2>4 DEF Partway
  <2> QED
    BY <2>2, <2>3, <2>4, <2>5, <2>6 DEF Updates
<1> QED
  BY <1>2, <1>3

\* Each node makes one row, under an id that no row written before has.
LEMMA PlaceAdds ==
  ASSUME NEW next \in Nat \ {0}, NEW stored, Keyed(stored, next),
         NEW a, Partway(a, stored, next), NEW raw \in Raws,
         NEW b, Inserts(a, b, raw) \/ \E x \in a.left : Updates(a, b, raw, x)
  PROVE  \E z \in Row : /\ b.rows = a.rows \cup {z} /\ z \notin a.rows
                        /\ z.raw = raw /\ z.id < b.next /\ a.next <= b.next
                        /\ \A y \in a.rows : y.id # z.id
                        /\ \A y \in b.left : y.id # z.id
<1>1. /\ a.left \subseteq stored /\ stored \subseteq Row /\ a.rows \subseteq Row
      /\ a.next \in Nat \ {0} /\ next <= a.next
  BY DEF Partway, Keyed
<1>2. CASE Inserts(a, b, raw)
  <2> DEFINE z == Inserted(a.next, raw)
  <2>1. z \in Row /\ z.id = a.next /\ z.raw = raw
    BY <1>1 DEF Inserted, Row
  <2>2. \A y \in a.rows : y.id < a.next
    BY DEF Partway, Keyed
  <2>3. \A y \in a.left : y.id < a.next
    BY <1>1 DEF Keyed, Row
  <2>4. b.rows = a.rows \cup {z} /\ b.next = a.next + 1 /\ b.left = a.left
    BY <1>2 DEF Inserts
  <2> HIDE DEF z
  <2> QED
    BY <1>1, <2>1, <2>2, <2>3, <2>4
<1>3. ASSUME NEW x \in a.left, Updates(a, b, raw, x)
      PROVE  \E z \in Row : /\ b.rows = a.rows \cup {z} /\ z \notin a.rows
                            /\ z.raw = raw /\ z.id < b.next /\ a.next <= b.next
                            /\ \A y \in a.rows : y.id # z.id
                            /\ \A y \in b.left : y.id # z.id
  <2> DEFINE z == Updated(x, raw)
  <2>1. x \in Row /\ x \in stored
    BY <1>1
  <2>2. z \in Row /\ z.id = x.id /\ z.raw = raw
    BY <2>1 DEF Updated, Row
  <2>3. \A y \in a.rows : y.id # x.id
    BY DEF Partway
  <2>4. \A y \in a.left \ {x} : y.id # x.id
    BY <1>1, <2>1 DEF Keyed
  <2>5. x.id < a.next
    BY <1>1, <2>1 DEF Keyed, Row
  <2>6. b.rows = a.rows \cup {z} /\ b.next = a.next /\ b.left = a.left \ {x}
    BY <1>3 DEF Updates
  <2> HIDE DEF z
  <2> QED
    BY <1>1, <2>2, <2>3, <2>4, <2>5, <2>6
<1> QED
  BY <1>2, <1>3

LEMMA PlaceKeeps ==
  ASSUME NEW next \in Nat \ {0}, NEW stored, Keyed(stored, next),
         NEW a, Partway(a, stored, next), NEW raw \in Raws
  PROVE  Partway(Place(a, raw), stored, next)
<1> DEFINE b == Place(a, raw)
<1>1. Inserts(a, b, raw) \/ \E x \in a.left : Updates(a, b, raw, x)
  BY PlaceCases
<1> HIDE DEF b
<1>2. PICK z \in Row : /\ b.rows = a.rows \cup {z} /\ z \notin a.rows
                       /\ z.id < b.next /\ a.next <= b.next
                       /\ \A y \in a.rows : y.id # z.id
                       /\ \A y \in b.left : y.id # z.id
  BY <1>1, PlaceAdds
<1>3. /\ a.left \subseteq stored /\ a.rows \subseteq Row /\ a.next \in Nat \ {0}
      /\ next <= a.next /\ Keyed(a.rows, a.next)
      /\ \A x \in a.left : \A y \in a.rows : x.id # y.id
      /\ \A x \in stored \ a.left : Kept(x, a.rows)
  BY DEF Partway
<1>4. /\ b = [left |-> b.left, rows |-> b.rows, next |-> b.next]
      /\ b.left \subseteq a.left /\ b.next \in Nat \ {0}
  BY <1>1, <1>3 DEF Inserts, Updates
<1>5. Keyed(b.rows, b.next)
  <2>1. IsFiniteSet(b.rows)
    BY <1>2, <1>3, FS_AddElement DEF Keyed
  <2>2. b.rows \subseteq Row
    BY <1>2, <1>3
  <2>3. \A y \in b.rows : y.id < b.next
    BY <1>2, <1>3, <1>4 DEF Keyed, Row
  <2>4. \A x, y \in b.rows : x.id = y.id => x = y
    BY <1>2, <1>3 DEF Keyed
  <2> QED
    BY <2>1, <2>2, <2>3, <2>4 DEF Keyed
<1>6. \A x \in b.left : \A y \in b.rows : x.id # y.id
  BY <1>2, <1>3, <1>4
<1>7. ASSUME NEW x \in stored \ b.left PROVE Kept(x, b.rows)
  <2>1. CASE x \notin a.left
    BY <1>2, <1>3, <2>1 DEF Kept
  <2>2. CASE x \in a.left
    <3>1. Updates(a, b, raw, x)
      BY <1>1, <1>7, <2>2 DEF Inserts, Updates
    <3>2. Updated(x, raw) \in b.rows /\ Fingerprint[x.raw] = Fingerprint[raw] /\ x \in Row
      BY <1>3, <3>1 DEF Updates, Keyed
    <3>3. Same(x, Updated(x, raw))
      BY <3>2 DEF Same, Updated, Row
    <3> QED
      BY <3>2, <3>3 DEF Kept
  <2> QED
    BY <2>1, <2>2
<1>8. b \in [left : SUBSET stored, rows : SUBSET Row, next : Nat \ {0}]
  BY <1>2, <1>3, <1>4
<1>9. next <= b.next
  BY <1>2, <1>3, <1>4
<1>10. ASSUME NEW y \in b.rows PROVE Explained(y, stored, next)
  <2>1. CASE y \in a.rows
    BY <2>1 DEF Partway
  <2>2. CASE Inserts(a, b, raw) /\ y \notin a.rows
    <3>1. y = Inserted(a.next, raw)
      BY <1>10, <2>2 DEF Inserts
    <3> QED
      BY <1>3, <3>1 DEF Inserted, Explained
  <2>3. ASSUME NEW x \in a.left, Updates(a, b, raw, x), y \notin a.rows
        PROVE  Explained(y, stored, next)
    <3>1. x \in stored /\ x \in Row /\ y = Updated(x, raw) /\ Fingerprint[x.raw] = Fingerprint[raw]
      BY <1>3, <1>10, <2>3 DEF Updates, Keyed
    <3>2. Same(x, y)
      BY <3>1 DEF Same, Updated, Row
    <3> QED
      BY <3>1, <3>2 DEF Explained
  <2> QED
    BY <1>1, <2>1, <2>2, <2>3
<1>11. Partway(b, stored, next)
  BY <1>5, <1>6, <1>7, <1>8, <1>9, <1>10 DEF Partway
<1> QED
  BY <1>11 DEF b

-----------------------------------------------------------------------------
(* The list.                                                               *)

LEMMA PlacedKeeps ==
  ASSUME NEW next \in Nat \ {0}, NEW stored, Keyed(stored, next),
         NEW list \in Seq(Raws), NEW n \in 0 .. Len(list)
  PROVE  Partway(Placed(stored, list, next)[n], stored, next)
<1> DEFINE a(i) == Placed(stored, list, next)[i]
           T    == {i \in 0 .. Len(list) : Partway(a(i), stored, next)}
<1>1. Len(list) \in Nat /\ \A i \in 1 .. Len(list) : list[i] \in Raws
  OBVIOUS
<1>2. 0 \in T
  <2>1. a(0) = Start(stored, next)
    BY PlacedRecursion
  <2>2. Keyed({}, next) /\ stored \subseteq Row
    BY FS_EmptySet DEF Keyed
  <2>3. Partway(Start(stored, next), stored, next)
    BY <2>2 DEF Partway, Start
  <2> QED
    BY <1>1, <2>1, <2>3
<1>3. ASSUME NEW i \in 0 .. n - 1, i \in T PROVE i + 1 \in T
  <2>1. i \in 0 .. Len(list) - 1 /\ i + 1 \in 1 .. Len(list)
    BY <1>1
  <2>2. a(i + 1) = Place(a(i), list[i + 1]) /\ list[i + 1] \in Raws
    BY <1>1, <2>1, PlacedRecursion
  <2>3. Partway(Place(a(i), list[i + 1]), stored, next)
    BY <1>3, <2>2, PlaceKeeps
  <2> QED
    BY <1>1, <2>1, <2>2, <2>3
<1> HIDE DEF T
<1>4. n \in T
  BY <1>1, <1>2, <1>3, InductionUpTo
<1> QED
  BY <1>4 DEF T

\* How often a payload is among the first n nodes of a list.
Seen(list, n, raw) == {j \in 1 .. n : list[j] = raw}

LEMMA SeenFinite ==
  ASSUME NEW list, NEW n \in Nat, NEW raw
  PROVE  IsFiniteSet(Seen(list, n, raw)) /\ Cardinality(Seen(list, n, raw)) \in Nat
<1>1. IsFiniteSet(1 .. n) /\ Seen(list, n, raw) \in SUBSET (1 .. n)
  BY FS_Interval DEF Seen
<1>2. IsFiniteSet(Seen(list, n, raw))
  BY <1>1, FS_Subset
<1> QED
  BY <1>2, FS_CardinalityType

LEMMA SeenNext ==
  ASSUME NEW list, NEW n \in Nat, NEW raw
  PROVE  Cardinality(Seen(list, n + 1, raw))
           = Cardinality(Seen(list, n, raw)) + (IF list[n + 1] = raw THEN 1 ELSE 0)
<1>1. IsFiniteSet(Seen(list, n, raw)) /\ n + 1 \notin Seen(list, n, raw)
  <2>1. IsFiniteSet(Seen(list, n, raw))
    BY SeenFinite
  <2>2. n + 1 \notin Seen(list, n, raw)
    BY DEF Seen
  <2> QED
    BY <2>1, <2>2
<1>2. CASE list[n + 1] = raw
  <2>1. Seen(list, n + 1, raw) = Seen(list, n, raw) \cup {n + 1}
    BY <1>2 DEF Seen
  <2> QED
    BY <1>1, <1>2, <2>1, FS_AddElement
<1>3. CASE list[n + 1] # raw
  <2>1. Seen(list, n + 1, raw) = Seen(list, n, raw)
    BY <1>3 DEF Seen
  <2> QED
    BY <1>1, <1>3, <2>1, SeenFinite
<1> QED
  BY <1>2, <1>3

\* After n nodes there is a row for each of them.
LEMMA RowsCounted ==
  ASSUME NEW next \in Nat \ {0}, NEW stored, Keyed(stored, next),
         NEW list \in Seq(Raws), NEW n \in 0 .. Len(list), NEW raw \in Raws
  PROVE  Cardinality(Exact(Placed(stored, list, next)[n].rows, raw))
           = Cardinality(Seen(list, n, raw))
<1> DEFINE a(i) == Placed(stored, list, next)[i]
           T    == {i \in 0 .. Len(list) :
                      Cardinality(Exact(a(i).rows, raw)) = Cardinality(Seen(list, i, raw))}
<1>1. Len(list) \in Nat /\ \A i \in 1 .. Len(list) : list[i] \in Raws
  OBVIOUS
<1>2. 0 \in T
  <2>1. a(0) = Start(stored, next)
    BY PlacedRecursion
  <2> HIDE DEF a
  <2>2. Exact(a(0).rows, raw) = {} /\ Seen(list, 0, raw) = {}
    BY <2>1 DEF Start, Exact, Seen
  <2>3. Cardinality(Exact(a(0).rows, raw)) = Cardinality(Seen(list, 0, raw))
    BY <2>2
  <2> QED
    BY <1>1, <2>3
<1>3. ASSUME NEW i \in 0 .. n - 1, i \in T PROVE i + 1 \in T
  <2>1. i \in 0 .. Len(list) - 1 /\ i \in 0 .. Len(list) /\ i + 1 \in 1 .. Len(list)
    BY <1>1
  <2>2. a(i + 1) = Place(a(i), list[i + 1]) /\ list[i + 1] \in Raws
    BY <1>1, <2>1, PlacedRecursion
  <2>3. Partway(a(i), stored, next)
    BY <2>1, PlacedKeeps
  <2> HIDE DEF a
  <2>4. PICK z \in Row : /\ a(i + 1).rows = a(i).rows \cup {z}
                         /\ z \notin a(i).rows /\ z.raw = list[i + 1]
    BY <2>2, <2>3, PlaceCases, PlaceAdds
  <2>5. IsFiniteSet(Exact(a(i).rows, raw))
    <3>1. IsFiniteSet(a(i).rows) /\ Exact(a(i).rows, raw) \in SUBSET a(i).rows
      BY <2>3 DEF Partway, Keyed, Exact
    <3> QED
      BY <3>1, FS_Subset
  <2>6. Cardinality(Exact(a(i + 1).rows, raw))
          = Cardinality(Exact(a(i).rows, raw)) + (IF list[i + 1] = raw THEN 1 ELSE 0)
    <3>1. CASE list[i + 1] = raw
      <4>1. Exact(a(i + 1).rows, raw) = Exact(a(i).rows, raw) \cup {z}
        BY <2>4, <3>1 DEF Exact
      <4>2. z \notin Exact(a(i).rows, raw)
        BY <2>4 DEF Exact
      <4> QED
        BY <2>5, <3>1, <4>1, <4>2, FS_AddElement
    <3>2. CASE list[i + 1] # raw
      <4>1. Exact(a(i + 1).rows, raw) = Exact(a(i).rows, raw)
        BY <2>4, <3>2 DEF Exact
      <4> QED
        BY <2>5, <3>2, <4>1, FS_CardinalityType
    <3> QED
      BY <3>1, <3>2
  <2>7. Cardinality(Exact(a(i).rows, raw)) = Cardinality(Seen(list, i, raw))
    BY <1>3
  <2> HIDE DEF T
  <2>8. Cardinality(Exact(a(i + 1).rows, raw)) = Cardinality(Seen(list, i + 1, raw))
    BY <2>1, <2>6, <2>7, SeenNext
  <2> QED
    BY <1>1, <2>1, <2>8 DEF T
<1> HIDE DEF T
<1>4. n \in T
  BY <1>1, <1>2, <1>3, InductionUpTo
<1> QED
  BY <1>4 DEF T

\* Of each fingerprint, a row was written for every stored row paired so far, and
\* none has been inserted while a stored one was left.
Balanced(a, stored, f) ==
  LET paired  == Cardinality(Alike(stored \ a.left, f))
      written == Cardinality(Alike(a.rows, f))
  IN  paired <= written /\ (Alike(a.left, f) # {} => paired = written)

LEMMA AlikeFinite ==
  ASSUME NEW items, IsFiniteSet(items), NEW f
  PROVE  IsFiniteSet(Alike(items, f)) /\ Cardinality(Alike(items, f)) \in Nat
<1>1. Alike(items, f) \in SUBSET items
  BY DEF Alike
<1>2. IsFiniteSet(Alike(items, f))
  BY <1>1, FS_Subset
<1> QED
  BY <1>2, FS_CardinalityType

\* One more row counts under its own fingerprint.
LEMMA AlikeAdded ==
  ASSUME NEW items, IsFiniteSet(items), NEW z, z \notin items, NEW f
  PROVE  Cardinality(Alike(items \cup {z}, f))
           = Cardinality(Alike(items, f)) + (IF Fingerprint[z.raw] = f THEN 1 ELSE 0)
<1>1. IsFiniteSet(Alike(items, f)) /\ z \notin Alike(items, f)
  BY AlikeFinite DEF Alike
<1>2. CASE Fingerprint[z.raw] = f
  <2>1. Alike(items \cup {z}, f) = Alike(items, f) \cup {z}
    BY <1>2 DEF Alike
  <2>2. Cardinality(Alike(items, f) \cup {z}) = Cardinality(Alike(items, f)) + 1
    BY <1>1, FS_AddElement
  <2> QED
    BY <1>2, <2>1, <2>2
<1>3. CASE Fingerprint[z.raw] # f
  <2>1. Alike(items \cup {z}, f) = Alike(items, f)
    BY <1>3 DEF Alike
  <2> QED
    BY <1>3, <2>1, AlikeFinite
<1> QED
  BY <1>2, <1>3

LEMMA PlaceBalances ==
  ASSUME NEW next \in Nat \ {0}, NEW stored, Keyed(stored, next),
         NEW a, Partway(a, stored, next), NEW raw \in Raws,
         NEW f, Balanced(a, stored, f)
  PROVE  Balanced(Place(a, raw), stored, f)
<1> DEFINE b == Place(a, raw)
<1> SUFFICES Balanced(b, stored, f)
  OBVIOUS
<1>1. Inserts(a, b, raw) \/ \E x \in a.left : Updates(a, b, raw, x)
  BY PlaceCases
<1> HIDE DEF b
<1>2. PICK z \in Row : b.rows = a.rows \cup {z} /\ z \notin a.rows /\ z.raw = raw
  BY <1>1, PlaceAdds
<1>3. IsFiniteSet(stored \ a.left) /\ IsFiniteSet(a.rows) /\ a.left \subseteq stored
  <2>1. IsFiniteSet(stored) /\ stored \ a.left \in SUBSET stored
    BY DEF Keyed
  <2>2. IsFiniteSet(stored \ a.left)
    BY <2>1, FS_Subset
  <2> QED
    BY <2>2 DEF Partway, Keyed
<1>4. Cardinality(Alike(b.rows, f))
        = Cardinality(Alike(a.rows, f)) + (IF Fingerprint[raw] = f THEN 1 ELSE 0)
  BY <1>2, <1>3, AlikeAdded
<1>5. /\ Cardinality(Alike(a.rows, f)) \in Nat
      /\ Cardinality(Alike(stored \ a.left, f)) \in Nat
  BY <1>3, AlikeFinite
<1>6. CASE Inserts(a, b, raw)
  <2>1. b.left = a.left /\ (Fingerprint[raw] = f => Alike(a.left, f) = {})
    BY <1>6 DEF Inserts, Candidates, Alike
  <2> QED
    BY <1>4, <1>5, <2>1 DEF Balanced
<1>7. ASSUME NEW x \in a.left, Updates(a, b, raw, x) PROVE Balanced(b, stored, f)
  <2>1. /\ b.left = a.left \ {x} /\ Fingerprint[x.raw] = Fingerprint[raw]
        /\ stored \ b.left = (stored \ a.left) \cup {x} /\ x \notin stored \ a.left
    BY <1>3, <1>7 DEF Updates
  <2>2. Cardinality(Alike(stored \ b.left, f))
          = Cardinality(Alike(stored \ a.left, f)) + (IF Fingerprint[raw] = f THEN 1 ELSE 0)
    BY <1>3, <2>1, AlikeAdded
  <2>3. Alike(b.left, f) # {} => Alike(a.left, f) # {}
    BY <2>1 DEF Alike
  <2> QED
    BY <1>4, <1>5, <2>2, <2>3 DEF Balanced
<1> QED
  BY <1>1, <1>6, <1>7

LEMMA PlacedBalances ==
  ASSUME NEW next \in Nat \ {0}, NEW stored, Keyed(stored, next),
         NEW list \in Seq(Raws), NEW n \in 0 .. Len(list), NEW f
  PROVE  Balanced(Placed(stored, list, next)[n], stored, f)
<1> DEFINE a(i) == Placed(stored, list, next)[i]
           T    == {i \in 0 .. Len(list) : Balanced(a(i), stored, f)}
<1>1. Len(list) \in Nat /\ \A i \in 1 .. Len(list) : list[i] \in Raws
  OBVIOUS
<1>2. 0 \in T
  <2>1. a(0) = Start(stored, next)
    BY PlacedRecursion
  <2> HIDE DEF a
  <2>2. Alike(stored \ a(0).left, f) = {} /\ Alike(a(0).rows, f) = {}
    BY <2>1 DEF Start, Alike
  <2>3. /\ Cardinality(Alike(stored \ a(0).left, f)) = 0
        /\ Cardinality(Alike(a(0).rows, f)) = 0
    BY <2>2, FS_EmptySet
  <2>4. Balanced(a(0), stored, f)
    BY <2>3 DEF Balanced
  <2> QED
    BY <1>1, <2>4
<1>3. ASSUME NEW i \in 0 .. n - 1, i \in T PROVE i + 1 \in T
  <2>1. i \in 0 .. Len(list) - 1 /\ i \in 0 .. Len(list) /\ i + 1 \in 0 .. Len(list)
    BY <1>1
  <2>2. a(i + 1) = Place(a(i), list[i + 1]) /\ list[i + 1] \in Raws
    BY <1>1, <2>1, PlacedRecursion
  <2>3. Partway(a(i), stored, next)
    BY <2>1, PlacedKeeps
  <2>4. Balanced(a(i + 1), stored, f)
    BY <1>3, <2>2, <2>3, PlaceBalances
  <2> QED
    BY <2>1, <2>4
<1> HIDE DEF T
<1>4. n \in T
  BY <1>1, <1>2, <1>3, InductionUpTo
<1> QED
  BY <1>4 DEF T

-----------------------------------------------------------------------------
(* The same nodes again.                                                   *)

LEMMA ExactFinite ==
  ASSUME NEW items, IsFiniteSet(items), NEW raw
  PROVE  IsFiniteSet(Exact(items, raw)) /\ Cardinality(Exact(items, raw)) \in Nat
<1>1. Exact(items, raw) \in SUBSET items
  BY DEF Exact
<1>2. IsFiniteSet(Exact(items, raw))
  BY <1>1, FS_Subset
<1> QED
  BY <1>2, FS_CardinalityType

\* While a node that is among the stored rows as often as in the list is still to
\* come, a stored row with its very payload is left.
LEMMA OneIsLeft ==
  ASSUME NEW stored, IsFiniteSet(stored), NEW left \in SUBSET stored, NEW raw,
         NEW list, NEW i \in Nat, NEW n \in Nat, i < n, list[i + 1] = raw,
         Cardinality(Exact(stored, raw)) = Cardinality(Seen(list, n, raw)),
         Cardinality(Exact(stored \ left, raw)) = Cardinality(Seen(list, i, raw))
  PROVE  Exact(left, raw) # {}
<1> SUFFICES ASSUME Exact(left, raw) = {} PROVE FALSE
  OBVIOUS
<1>1. Exact(stored \ left, raw) = Exact(stored, raw)
  BY DEF Exact
<1>2. Seen(list, i + 1, raw) \in SUBSET Seen(list, n, raw)
  BY DEF Seen
<1>3. Cardinality(Seen(list, i + 1, raw)) <= Cardinality(Seen(list, n, raw))
  BY <1>2, SeenFinite, FS_Subset
<1>4. /\ Cardinality(Seen(list, i + 1, raw)) = Cardinality(Seen(list, i, raw)) + 1
      /\ Cardinality(Seen(list, i, raw)) \in Nat
  BY SeenNext, SeenFinite
<1> QED
  BY <1>1, <1>3, <1>4

\* If the list holds each payload as often as the stored rows do, the rows written
\* so far are stored ones.
LEMMA PlacedRepeats ==
  ASSUME NEW next \in Nat \ {0}, NEW stored, Keyed(stored, next),
         NEW list \in Seq(Raws), NEW n \in 0 .. Len(list),
         \A raw \in Raws : Cardinality(Exact(stored, raw))
                             = Cardinality(Seen(list, Len(list), raw))
  PROVE  Placed(stored, list, next)[n].rows = stored \ Placed(stored, list, next)[n].left
<1> DEFINE a(i) == Placed(stored, list, next)[i]
           T    == {i \in 0 .. Len(list) : a(i).rows = stored \ a(i).left}
<1>1. Len(list) \in Nat /\ \A i \in 1 .. Len(list) : list[i] \in Raws
  OBVIOUS
<1>2. 0 \in T
  <2>1. a(0) = Start(stored, next)
    BY PlacedRecursion
  <2> HIDE DEF a
  <2>2. a(0).rows = stored \ a(0).left
    BY <2>1 DEF Start
  <2> QED
    BY <1>1, <2>2
<1>3. ASSUME NEW i \in 0 .. n - 1, i \in T PROVE i + 1 \in T
  <2> DEFINE raw == list[i + 1]
  <2>1. /\ i \in 0 .. Len(list) - 1 /\ i \in 0 .. Len(list) /\ i + 1 \in 0 .. Len(list)
        /\ i \in Nat /\ i < Len(list)
    BY <1>1
  <2>2. a(i + 1) = Place(a(i), raw) /\ raw \in Raws
    BY <1>1, <2>1, PlacedRecursion
  <2>3. Partway(a(i), stored, next)
    BY <2>1, PlacedKeeps
  <2>4. /\ IsFiniteSet(stored) /\ a(i).left \in SUBSET stored /\ stored \subseteq Row
        /\ a(i).rows = stored \ a(i).left
    BY <1>3, <2>3 DEF Partway, Keyed
  <2>5. Cardinality(Exact(stored \ a(i).left, raw)) = Cardinality(Seen(list, i, raw))
    <3>1. Cardinality(Exact(a(i).rows, raw)) = Cardinality(Seen(list, i, raw))
      BY <2>1, <2>2, RowsCounted
    <3> HIDE DEF a, raw
    <3> QED
      BY <2>4, <3>1
  <2> HIDE DEF a
  <2>6. Exact(a(i).left, raw) # {}
    BY <1>1, <2>1, <2>2, <2>4, <2>5, OneIsLeft
  <2>7. PICK x \in a(i).left : Updates(a(i), a(i + 1), raw, x)
    <3>1. ~Inserts(a(i), a(i + 1), raw)
      BY <2>6 DEF Inserts, Candidates, Exact
    <3> QED
      BY <2>2, <2>3, <3>1, PlaceCases
  <2>8. Updated(x, raw) = x
    <3>1. x.raw = raw /\ x \in Row
      BY <2>4, <2>6, <2>7 DEF Updates
    <3> QED
      BY <3>1 DEF Updated, Row
  <2>9. a(i + 1).rows = stored \ a(i + 1).left
    BY <2>4, <2>7, <2>8 DEF Updates
  <2> QED
    BY <2>1, <2>9
<1> HIDE DEF T
<1>4. n \in T
  BY <1>1, <1>2, <1>3, InductionUpTo
<1> QED
  BY <1>4 DEF T

-----------------------------------------------------------------------------
(* What Match returns.                                                     *)

\* The transaction of a sync leaves one row for each node of the list, with ids
\* that no other row has (subscriptions/service.go:343-397): however the pairing
\* went, no node is lost or doubled.
THEOREM MatchIsTheList ==
  ASSUME NEW next \in Nat \ {0}, NEW stored, Keyed(stored, next), NEW list \in Seq(Raws)
  PROVE  LET m == Match(stored, list, next)
         IN  /\ m.next \in Nat \ {0} /\ next <= m.next /\ Keyed(m.rows, m.next)
             /\ \A raw \in Raws :
                  Cardinality(Exact(m.rows, raw)) = Occurrences(list, raw)
<1> DEFINE m == Match(stored, list, next)
<1>1. Len(list) \in 0 .. Len(list) /\ DOMAIN list = 1 .. Len(list)
  OBVIOUS
<1>2. m = Placed(stored, list, next)[Len(list)]
  BY DEF Match
<1>3. Partway(m, stored, next)
  BY <1>1, <1>2, PlacedKeeps
<1>4. ASSUME NEW raw \in Raws
      PROVE  Cardinality(Exact(m.rows, raw)) = Occurrences(list, raw)
  <2>1. Cardinality(Exact(m.rows, raw)) = Cardinality(Seen(list, Len(list), raw))
    BY <1>1, <1>2, RowsCounted
  <2>2. Seen(list, Len(list), raw) = {i \in DOMAIN list : list[i] = raw}
    BY <1>1 DEF Seen
  <2> HIDE DEF m
  <2> QED
    BY <2>1, <2>2 DEF Occurrences
<1> HIDE DEF m
<1>5. m.next \in Nat \ {0} /\ next <= m.next /\ Keyed(m.rows, m.next)
  BY <1>3 DEF Partway
<1> QED
  BY <1>4, <1>5 DEF m

\* A row that a sync leaves behind is a stored one still, with its id, fingerprint and
\* switch, or is new: switched on, under an id that no row has had
\* (subscriptions/service.go:357-389).
THEOREM MatchNamesNewRows ==
  ASSUME NEW next \in Nat \ {0}, NEW stored, Keyed(stored, next), NEW list \in Seq(Raws)
  PROVE  \A y \in Match(stored, list, next).rows : Explained(y, stored, next)
<1>1. Partway(Match(stored, list, next), stored, next)
  BY PlacedKeeps DEF Match
<1> QED
  BY <1>1 DEF Partway

\* No row is given up that could be kept: of each fingerprint as many rows survive,
\* with their ids and switches, as the stored rows and the list have in common
\* (popStoredSubscriptionNode, subscriptions/service.go:703-723).
THEOREM MatchKeepsRows ==
  ASSUME NEW next \in Nat \ {0}, NEW stored, Keyed(stored, next), NEW list \in Seq(Raws),
         NEW f
  PROVE  LET m == Match(stored, list, next)
         IN  Cardinality({x \in Alike(stored, f) : Kept(x, m.rows)})
               = Least(Cardinality(Alike(stored, f)), Cardinality(Alike(m.rows, f)))
<1> DEFINE m == Match(stored, list, next)
<1>1. Len(list) \in 0 .. Len(list)
  OBVIOUS
<1>2. Partway(m, stored, next) /\ Balanced(m, stored, f)
  BY <1>1, PlacedKeeps, PlacedBalances DEF Match
<1> SUFFICES Cardinality({x \in Alike(stored, f) : Kept(x, m.rows)})
               = Least(Cardinality(Alike(stored, f)), Cardinality(Alike(m.rows, f)))
  OBVIOUS
<1> HIDE DEF m
<1>3. {x \in Alike(stored, f) : Kept(x, m.rows)} = Alike(stored \ m.left, f)
  <2>1. \A x \in stored \ m.left : Kept(x, m.rows)
    BY <1>2 DEF Partway
  <2>2. \A x \in m.left : ~Kept(x, m.rows)
    BY <1>2 DEF Partway, Kept, Same
  <2> QED
    BY <2>1, <2>2 DEF Alike
<1>4. IsFiniteSet(stored) /\ m.left \subseteq stored
  BY <1>2 DEF Partway, Keyed
<1>5. IsFiniteSet(Alike(stored, f)) /\ Cardinality(Alike(stored, f)) \in Nat
  BY <1>4, AlikeFinite
<1>6. Alike(stored \ m.left, f) \in SUBSET Alike(stored, f)
  BY DEF Alike
<1>7. /\ Cardinality(Alike(stored \ m.left, f)) <= Cardinality(Alike(stored, f))
      /\ Cardinality(Alike(stored \ m.left, f)) \in Nat
  BY <1>5, <1>6, FS_Subset, FS_CardinalityType
<1>8. Cardinality(Alike(m.rows, f)) \in Nat
  BY <1>2, AlikeFinite DEF Partway, Keyed
<1>9. CASE Alike(m.left, f) = {}
  <2>1. Alike(stored \ m.left, f) = Alike(stored, f)
    BY <1>9 DEF Alike
  <2> QED
    BY <1>2, <1>3, <1>5, <1>8, <2>1 DEF Balanced, Least
<1>10. CASE Alike(m.left, f) # {}
  <2>1. Cardinality(Alike(stored \ m.left, f)) = Cardinality(Alike(m.rows, f))
    BY <1>2, <1>10 DEF Balanced
  <2>2. Cardinality(Alike(stored \ m.left, f))
          = Least(Cardinality(Alike(stored, f)), Cardinality(Alike(m.rows, f)))
    BY <1>5, <1>7, <1>8, <2>1 DEF Least
  <2> QED
    BY <1>3, <2>2
<1> QED
  BY <1>9, <1>10

\* A list that holds each payload as often as the stored rows do changes no row,
\* in whatever order it comes: each payload finds a row of its own again.
THEOREM MatchOfSameNodes ==
  ASSUME NEW next \in Nat \ {0}, NEW stored, Keyed(stored, next), NEW list \in Seq(Raws),
         \A raw \in Raws : Cardinality(Exact(stored, raw)) = Occurrences(list, raw)
  PROVE  Match(stored, list, next).rows = stored
<1> DEFINE m == Match(stored, list, next)
<1>1. Len(list) \in 0 .. Len(list) /\ DOMAIN list = 1 .. Len(list)
  OBVIOUS
<1>2. m = Placed(stored, list, next)[Len(list)]
  BY DEF Match
<1>3. \A raw \in Raws : Cardinality(Exact(stored, raw))
                          = Cardinality(Seen(list, Len(list), raw))
  BY <1>1 DEF Occurrences, Seen
<1>4. m.rows = stored \ m.left
  BY <1>1, <1>2, <1>3, PlacedRepeats
<1>5. m.left \subseteq stored /\ stored \subseteq Row /\ IsFiniteSet(stored)
  BY <1>1, <1>2, PlacedKeeps DEF Partway, Keyed
<1>6. \A raw \in Raws : Cardinality(Exact(m.rows, raw)) = Cardinality(Exact(stored, raw))
  BY <1>1, <1>2, <1>3, RowsCounted
<1> HIDE DEF m
<1>7. ASSUME NEW x \in m.left PROVE FALSE
  <2>1. x.raw \in Raws /\ x \in Exact(stored, x.raw) /\ x \notin Exact(m.rows, x.raw)
    BY <1>4, <1>5 DEF Row, Exact
  <2>2. Exact(m.rows, x.raw) \in SUBSET Exact(stored, x.raw)
    BY <1>4 DEF Exact
  <2>3. Exact(m.rows, x.raw) = Exact(stored, x.raw)
    BY <1>5, <1>6, <2>1, <2>2, ExactFinite, FS_Subset
  <2> QED
    BY <2>1, <2>3
<1> QED
  BY <1>4, <1>7 DEF m
=============================================================================
