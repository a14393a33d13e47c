----------------------------- MODULE PoolTable -----------------------------
(***************************************************************************)
(* The pools' tables (internal/pools/service.go): proxy_pools, whose       *)
(* username tells the multiplexer which pool a connection is for, and      *)
(* proxy_pool_members, whose rows follow their pool by a foreign key.      *)
(* Every statement runs on any of four pooled connections; the check of a  *)
(* username and the write it allows are two statements.                    *)
(***************************************************************************)
EXTENDS Requests, Naturals

CONSTANTS
  MaxPools,     \* bound: ids that AUTOINCREMENT hands out
  Users, Blank, \* usernames, and the empty one of an upgraded database
  Upgraded,     \* databases an older release has left, duplicate usernames included
  Absent        \* no row with this id

P   == 1..MaxPools
Row == [user : Users \cup {Blank}, on : BOOLEAN]

\* rows of proxy_pools, the pools with rows in proxy_pool_members, the last id
\* handed out, and whether proxy_pools has columns of an older release.
Tables == [rows : [P -> Row \cup {Absent}], members : SUBSET P, last : 0..MaxPools,
           legacy : BOOLEAN]

ASSUME PoolTableAssumption ==
  /\ MaxPools \in Nat /\ Blank \notin Users /\ Absent \notin Row
  /\ Upgraded \subseteq Tables
  /\ \A d \in Upgraded, p \in P :
       /\ d.legacy /\ (p > d.last => d.rows[p] = Absent)
       /\ p \in d.members => d.rows[p] # Absent

VARIABLES
  db,        \* the committed tables
  fkOff,     \* a pooled connection does not enforce foreign keys
  draft,     \* each request: the row it is about to write; id 0 for a new one
  raced,     \* history: requests whose username was taken after they checked it
  shared     \* history: pools written by them, or from a legacy database

tableVars == <<db, fkOff, draft, raced, shared>>

NoRows == [p \in P |-> Absent]
Fresh  == [rows |-> NoRows, members |-> {}, last |-> 0, legacy |-> FALSE]

NoDraft == [id |-> 0, row |-> Absent]

TableInit == /\ db \in {Fresh} \cup Upgraded
             /\ shared = IF db.legacy THEN P ELSE {}
             /\ fkOff = FALSE /\ raced = {} /\ draft = [r \in R |-> NoDraft]

Exists(p) == db.rows[p] # Absent

\* validateUniqueUsername counts the other pools, enabled or not.  Mutant of
\* Taken: only the enabled ones, like LookupPoolByAuth.
TakenByEnabled(u, id) == \E q \in P \ {id} : Exists(q) /\ db.rows[q].user = u /\ db.rows[q].on
Taken(u, id)          == \E q \in P \ {id} : Exists(q) /\ db.rows[q].user = u

Draft(r, id, row, s) == Goto(r, s) /\ draft' = [draft EXCEPT ![r] = [id |-> id, row |-> row]]

\* Create and Update up to their INSERT and UPDATE.
Check(r, id, row) == /\ At(r, IF id = 0 THEN "create" ELSE "update")
                     /\ IF Taken(row.user, id) THEN Goto(r, "done") /\ UNCHANGED draft
                                               ELSE Draft(r, id, row, "write")
                     /\ UNCHANGED <<db, fkOff, raced, shared>>

\* The write of Create or Update.  An event follows if the row can be read back.
Write(r) == LET id  == IF draft[r].id = 0 THEN db.last + 1 ELSE draft[r].id
                row == draft[r].row
                same == {q \in R \ {r} : At(q, "write") /\ draft[q].row.user = row.user}
            IN /\ At(r, "write") /\ id \in P
               /\ IF draft[r].id # 0 /\ ~Exists(id)
                  THEN Goto(r, "done") /\ UNCHANGED <<db, raced, shared>>
                  ELSE /\ \E s \in {"announce", "done"} : Goto(r, s)
                       /\ db' = [db EXCEPT !.rows[id] = row,
                                           !.last = IF id > @ THEN id ELSE @]
                       /\ raced' = raced \cup same
                       /\ shared' = IF r \in raced THEN shared \cup {id} ELSE shared \ {id}
               /\ draft' = [draft EXCEPT ![r] = NoDraft] /\ UNCHANGED fkOff

\* The connection of a statement enforces foreign keys.
Enforced == IF fkOff THEN BOOLEAN ELSE {TRUE}

\* DELETE cascades to the members.
Delete(r, p) == /\ At(r, "delete") /\ Goto(r, "announce")
                /\ \E fk \in Enforced :
                     db' = [db EXCEPT !.rows[p] = Absent,
                                      !.members = IF fk THEN @ \ {p} ELSE @]
                /\ UNCHANGED <<fkOff, draft, raced, shared>>

\* Toggle reads the row and writes the negation, and reads it back; it
\* has no event of its own.
ReadSwitch(r, p) == /\ At(r, "toggle")
                    /\ IF Exists(p) THEN Draft(r, p, [db.rows[p] EXCEPT !.on = ~@], "flip")
                                    ELSE Goto(r, "done") /\ UNCHANGED draft
                    /\ UNCHANGED <<db, fkOff, raced, shared>>

Flip(r) == LET p == draft[r].id IN
           /\ At(r, "flip")
           /\ \E s \in {"publish", "done"} : Goto(r, s) /\ (s = "publish" => Exists(p))
           /\ db' = IF Exists(p) THEN [db EXCEPT !.rows[p].on = draft[r].row.on] ELSE db
           /\ draft' = [draft EXCEPT ![r] = NoDraft] /\ UNCHANGED <<fkOff, raced, shared>>

\* UpdateMembers: one transaction, which the foreign key may refuse.
UpdateMembers(r, p, some) == /\ At(r, "members")
                             /\ \E fk \in Enforced :
                                  IF some /\ fk /\ ~Exists(p)
                                  THEN Goto(r, "done") /\ UNCHANGED db
                                  ELSE /\ Goto(r, "announce")
                                       /\ db' = [db EXCEPT !.members = IF some THEN @ \cup {p}
                                                                               ELSE @ \ {p}]
                             /\ UNCHANGED <<fkOff, draft, raced, shared>>

TableServes(r) == \/ \E id \in P \cup {0}, u \in Users, b \in BOOLEAN :
                       Check(r, id, [user |-> u, on |-> b])
                  \/ \E p \in P : Delete(r, p) \/ ReadSwitch(r, p)
                  \/ \E p \in P, some \in BOOLEAN : UpdateMembers(r, p, some)
                  \/ Write(r) \/ Flip(r)
=============================================================================
