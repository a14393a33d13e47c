---------------------------- MODULE PanelProofs ----------------------------
(***************************************************************************)
(* The panel, for any number of requests, passwords, pools, usernames and  *)
(* assets and any database an older release may have left: IInv of Panel   *)
(* is inductive.  Each part of it belongs to one component; a step of      *)
(* another one disturbs it at most by moving its request, which the Frame  *)
(* lemmas settle.                                                          *)
(***************************************************************************)
EXTENDS Panel, TLAPS

\* Where each component takes a request up, and where it puts it down.
AuthFrom    == {"idle", "issue", "sweep", "logout", "password", "rehash", "revoke",
                "settings", "save"}
AuthTo      == {"done", "issue", "sweep", "rehash", "revoke", "save", "publish"} \cup Protected
BrokerFrom  == {"stream", "streaming", "leaving", "announce", "publish", "sending", "resending"}
BrokerTo    == {"streaming", "leaving", "done", "sending", "publish", "resending"}
TableFrom   == {"create", "update", "write", "delete", "toggle", "flip", "members"}
TableTo     == {"done", "write", "announce", "flip", "publish"}
InstallFrom == {"install", "activate"} \cup Locked
InstallTo   == {"done", "activate"} \cup Locked

Moves(r, from, to) == stage[r] \in from /\ \E s \in to : Goto(r, s)

LEMMA AuthMoves ==
  ASSUME NEW r \in R, AuthServes(r) \/ Arrives(r)
  PROVE  Moves(r, AuthFrom, AuthTo)
  BY DEF AuthServes, Arrives, Login, Admit, Refuse, Issue, Remove, Rehash, Invalidate,
         ReadSettings, SaveSettings, Verify, Moves, AuthFrom, AuthTo, At

LEMMA BrokerMoves ==
  ASSUME NEW r \in R,
         Subscribe(r) \/ Unsubscribe(r) \/ Announce(r) \/ Announced(r) \/ HangUp(r)
  PROVE  Moves(r, BrokerFrom, BrokerTo)
  BY DEF Subscribe, Unsubscribe, Announce, Announced, HangUp, Moves, BrokerFrom, BrokerTo, At

LEMMA TableMoves ==
  ASSUME NEW r \in R, TableServes(r)
  PROVE  Moves(r, TableFrom, TableTo)
<1>1. ASSUME NEW id \in P \cup {0}, NEW row, Check(r, id, row)
      PROVE  Moves(r, TableFrom, TableTo)
  BY <1>1 DEF Check, Draft, Moves, TableFrom, TableTo, At
<1>2. ASSUME NEW p \in P, Delete(r, p) \/ ReadSwitch(r, p)
      PROVE  Moves(r, TableFrom, TableTo)
  BY <1>2 DEF Delete, ReadSwitch, Draft, Moves, TableFrom, TableTo, At
<1>3. ASSUME NEW p \in P, NEW some \in BOOLEAN, UpdateMembers(r, p, some)
      PROVE  Moves(r, TableFrom, TableTo)
  BY <1>3 DEF UpdateMembers, Moves, TableFrom, TableTo, At
<1>4. ASSUME Write(r) \/ Flip(r)
      PROVE  Moves(r, TableFrom, TableTo)
  BY <1>4 DEF Write, Flip, Moves, TableFrom, TableTo, At
<1> QED
  BY <1>1, <1>2, <1>3, <1>4 DEF TableServes

LEMMA InstallMoves ==
  ASSUME NEW r \in R, InstallServes(r)
  PROVE  Moves(r, InstallFrom, InstallTo)
  BY DEF InstallServes, Lock, Stat, Extract, Copied, Chmod, Improve, Unlink, Replace,
         Select, InstallFails, Activate, Moves, InstallFrom, InstallTo, Locked, At

-----------------------------------------------------------------------------
(* The request threads: whoever moves r, the parts it does not own hold on. *)

LEMMA AuthFrame ==
  ASSUME TypeOK, AuthInv, NEW r \in R, NEW s, Goto(r, s),
         stage[r] # "revoke", s # "issue", UNCHANGED authVars
  PROVE  AuthInv'
  BY DEF TypeOK, AuthInv, SessionsRevoked, Goto, At, authVars

LEMMA BrokerFrame ==
  ASSUME TypeOK, BrokerInv, NEW r \in R, NEW s, Goto(r, s), ~Reading(r), UNCHANGED brokerVars
  PROVE  BrokerInv'
  BY DEF TypeOK, BrokerInv, SendsReachOpen, Reading, Goto, brokerVars

LEMMA TableFrame ==
  ASSUME TypeOK, TableInv, NEW r \in R, NEW s, Goto(r, s), s \notin {"write", "flip"},
         UNCHANGED tableVars
  PROVE  TableInv'
  BY DEF TypeOK, TableInv, UsernamesOwn, Exists, Taken, Goto, At, tableVars

LEMMA InstallFrame ==
  ASSUME TypeOK, InstallInv, NEW r \in R, NEW s, Goto(r, s),
         s \notin Locked \cup {"activate"}, UNCHANGED installVars
  PROVE  InstallInv'
  BY DEF TypeOK, InstallInv, SelectedWhole, Locked, Whole, Goto, At, installVars

\* While the panel is up, only the foreign keys are left to say.
LEMMA Served ==
  ASSUME BootInv, NEW r \in R, stage[r] \notin {"idle", "done"} \/ Up \/ session # Nobody
  PROVE  Up
  BY DEF BootInv

LEMMA BootFrame ==
  ASSUME BootInv, Up, UNCHANGED <<boot, fkOff>>
  PROVE  BootInv'
  BY DEF BootInv, Up

-----------------------------------------------------------------------------
(* Sessions: which password each one and each login in flight is worth.    *)

LEMMA AuthType ==
  ASSUME TypeOK, NEW r \in R, AuthServes(r) \/ Arrives(r) \/ (Expire(r) /\ UNCHANGED boot),
         UNCHANGED <<brokerVars, tableVars, installVars, tx, boot>>
  PROVE  TypeOK'
<1> USE DEF TypeOK, brokerVars, tableVars, installVars
<1>1. stage' \in [R -> Stages]
  BY SMTT(30), AuthMoves DEF Moves, AuthTo, Stages, Goto, Expire
<1>2. CASE \E p \in Passwords : Login(r, p)
  BY <1>1, <1>2 DEF Login
<1>3. CASE \E t \in R, s \in Protected : Admit(r, t, s)
  BY <1>1, <1>3 DEF Admit
<1>4. CASE Refuse(r)
  BY <1>1, <1>4 DEF Refuse
<1>5. CASE Issue(r)
  BY <1>1, <1>5 DEF Issue
<1>0. CASE Remove(r)
  <2>1. session' \in [R -> Passwords \cup {None}] /\ token' \in [R -> R \cup {None}]
    BY <1>0 DEF Remove, Drop
  <2> QED
    BY <1>0, <1>1, <2>1 DEF Remove, Drop
<1>6. CASE Rehash(r) \/ Invalidate(r)
  BY <1>1, <1>6 DEF Rehash, Invalidate, Revoked, Drop
<1>7. CASE ReadSettings(r) \/ SaveSettings(r)
  BY <1>1, <1>7 DEF ReadSettings, SaveSettings, HashSaved
<1>8. CASE \E old, new \in Passwords : Verify(r, old, new)
  BY <1>1, <1>8 DEF Verify
<1>9. CASE Expire(r)
  BY <1>9 DEF Expire
<1> QED
  BY <1>0, <1>2, <1>3, <1>4, <1>5, <1>6, <1>7, <1>8, <1>9 DEF AuthServes, Arrives

LEMMA AuthKeeps ==
  ASSUME TypeOK, AuthInv, NEW r \in R, AuthServes(r) \/ Arrives(r) \/ Expire(r)
  PROVE  AuthInv'
<1> USE DEF TypeOK, AuthInv, SessionsRevoked, At, Goto
<1>1. CASE \E p \in Passwords : Login(r, p)
  BY <1>1 DEF Login
<1>2. CASE Issue(r)
  BY <1>2 DEF Issue
<1>3. CASE \E t \in R, s \in Protected : Admit(r, t, s)
  BY <1>3 DEF Admit, Protected
<1>4. CASE Refuse(r)
  BY <1>4 DEF Refuse
<1>5. CASE Remove(r)
  BY <1>5 DEF Remove, Drop
<1>6. CASE \E old, new \in Passwords : Verify(r, old, new)
  BY <1>6 DEF Verify
\* The change that has stored the new password is the one to revoke.
<1>7. CASE Rehash(r)
  BY <1>7 DEF Rehash
\* No session is left, and every login in flight is remembered.
<1>8. CASE Invalidate(r)
  BY <1>8 DEF Invalidate, Revoked, Drop
<1>9. CASE ReadSettings(r) \/ SaveSettings(r)
  BY <1>9 DEF ReadSettings, SaveSettings, HashSaved
<1>10. CASE Expire(r)
  BY <1>10 DEF Expire
<1> QED
  BY <1>1, <1>2, <1>3, <1>4, <1>5, <1>6, <1>7, <1>8, <1>9, <1>10 DEF AuthServes, Arrives

-----------------------------------------------------------------------------
(* The broker: its lock keeps the channels of a publisher open.            *)

LEMMA BrokerType ==
  ASSUME TypeOK, NEW r \in R,
         BrokerServes(r) \/ Receive(r) \/ HangUp(r) \/ (Fail(r) /\ UNCHANGED brokerVars),
         UNCHANGED <<boot, authVars, tableVars, installVars, tx>>
  PROVE  TypeOK'
<1> USE BrokerAssumption DEF TypeOK, authVars, tableVars, installVars, brokerVars
<1>1. CASE Subscribe(r) \/ Unsubscribe(r) \/ Announce(r) \/ Announced(r) \/ HangUp(r)
  <2>1. stage' \in [R -> Stages]
    BY <1>1, BrokerMoves DEF Moves, BrokerTo, Stages, Goto
  <2>2. clients' \in SUBSET R /\ todo' \in [R -> SUBSET R]
    BY <1>1 DEF Subscribe, Unsubscribe, Announce, Announced, HangUp
  <2>3. queue' \in [R -> 0..Room]
    BY <1>1 DEF Subscribe, Unsubscribe, Announce, Announced, HangUp
  <2> QED
    BY <2>1, <2>2, <2>3
<1>2. CASE \E c \in R : Send(r, c)
  BY <1>2 DEF Send, Offer
<1>3. CASE Receive(r)
  BY <1>3 DEF Receive
<1>4. CASE Fail(r) /\ UNCHANGED brokerVars
  BY <1>4 DEF Fail, Goto, Stages
<1> QED
  BY <1>1, <1>2, <1>3, <1>4 DEF BrokerServes

LEMMA BrokerKeeps ==
  ASSUME TypeOK, BrokerInv, NEW r \in R, BrokerServes(r) \/ Receive(r) \/ HangUp(r)
  PROVE  BrokerInv'
<1> USE DEF TypeOK, BrokerInv, SendsReachOpen, Reading, At, Goto, brokerVars
\* The writers find nobody sending, so nothing is left to send.
<1>1. CASE Subscribe(r) \/ Unsubscribe(r)
  BY <1>1 DEF Subscribe, Unsubscribe, NoReaders
<1>2. CASE Announce(r) \/ Announced(r)
  BY <1>2 DEF Announce, Announced
<1>3. CASE \E c \in R : Send(r, c)
  BY <1>3 DEF Send
<1>4. CASE Receive(r) \/ HangUp(r)
  BY <1>4 DEF Receive, HangUp
<1> QED
  BY <1>1, <1>2, <1>3, <1>4 DEF BrokerServes

-----------------------------------------------------------------------------
(* The pools' tables: a username checked alone is still free when written. *)

LEMMA DraftType ==
  ASSUME TypeOK, NEW r \in R, NEW id \in 0..MaxPools, NEW row \in Row \cup {Absent}
  PROVE  [draft EXCEPT ![r] = [id |-> id, row |-> row]]
           \in [R -> [id : 0..MaxPools, row : Row \cup {Absent}]]
  BY DEF TypeOK

LEMMA RowsType ==
  ASSUME TypeOK, NEW p \in P, NEW row \in Row \cup {Absent}, NEW ms \in SUBSET P,
         NEW n \in 0..MaxPools
  PROVE  /\ [db EXCEPT !.rows[p] = row, !.members = ms] \in Tables
         /\ [db EXCEPT !.rows[p] = row, !.last = n] \in Tables
         /\ [db EXCEPT !.members = ms] \in Tables
  BY DEF TypeOK, Tables

LEMMA Switched ==
  ASSUME NEW row \in Row
  PROVE  /\ [row EXCEPT !.on = ~@] \in Row
         /\ \A on \in BOOLEAN : [row EXCEPT !.on = on] \in Row
<1>1. \A b \in BOOLEAN : [user |-> row.user, on |-> ~b] \in Row
  BY DEF Row
<1>2. [row EXCEPT !.on = ~@] = [user |-> row.user, on |-> ~row.on] /\ row.on \in BOOLEAN
  BY DEF Row
<1>3. \A on \in BOOLEAN : [row EXCEPT !.on = on] \in Row
  BY DEF Row
<1> QED
  BY <1>1, <1>2, <1>3

LEMMA TableType ==
  ASSUME TypeOK, TableInv, NEW r \in R, TableServes(r),
         UNCHANGED <<boot, authVars, brokerVars, installVars, tx>>
  PROVE  TypeOK'
<1> USE PoolTableAssumption DEF authVars, brokerVars, installVars
<1> SUFFICES /\ db' \in Tables /\ fkOff' = fkOff /\ raced' \in SUBSET R /\ shared' \in SUBSET P
             /\ draft' \in [R -> [id : 0..MaxPools, row : Row \cup {Absent}]]
  BY TableMoves DEF TypeOK, Moves, TableTo, Goto, Stages
<1>1. NoDraft \in [id : 0..MaxPools, row : Row \cup {Absent}]
  BY DEF NoDraft
<1>2. ASSUME NEW id \in P \cup {0}, NEW u \in Users, NEW b \in BOOLEAN,
             Check(r, id, [user |-> u, on |-> b])
      PROVE  /\ draft' \in [R -> [id : 0..MaxPools, row : Row \cup {Absent}]]
             /\ UNCHANGED <<db, fkOff, raced, shared>>
  <2>1. id \in 0..MaxPools /\ [user |-> u, on |-> b] \in Row
    BY DEF P, Row
  <2>2. draft \in [R -> [id : 0..MaxPools, row : Row \cup {Absent}]]
    BY DEF TypeOK
  <2>3. [draft EXCEPT ![r] = [id |-> id, row |-> [user |-> u, on |-> b]]]
          \in [R -> [id : 0..MaxPools, row : Row \cup {Absent}]]
    BY <2>1, DraftType
  <2> QED
    BY <1>2, <2>2, <2>3 DEF Check, Draft
<1>3. ASSUME NEW p \in P, Delete(r, p)
      PROVE  db' \in Tables /\ UNCHANGED <<fkOff, draft, raced, shared>>
  <2>1. PICK fk \in Enforced : db' = [db EXCEPT !.rows[p] = Absent,
                                               !.members = IF fk THEN @ \ {p} ELSE @]
    BY <1>3 DEF Delete
  <2>2. (IF fk THEN db.members \ {p} ELSE db.members) \in SUBSET P
    BY DEF TypeOK, Tables
  <2>3. 0 \in 0..MaxPools
    OBVIOUS
  <2> QED
    BY <1>3, <2>1, <2>2, <2>3, RowsType DEF Delete
<1>4. ASSUME NEW p \in P, ReadSwitch(r, p)
      PROVE  /\ draft' \in [R -> [id : 0..MaxPools, row : Row \cup {Absent}]]
             /\ UNCHANGED <<db, fkOff, raced, shared>>
  <2>1. CASE ~Exists(p)
    BY <1>4, <2>1 DEF ReadSwitch, TypeOK
  <2>2. CASE Exists(p)
    <3>1. p \in 0..MaxPools /\ [db.rows[p] EXCEPT !.on = ~@] \in Row
      BY <2>2, Switched DEF Exists, TypeOK, Tables, P
    <3> QED
      BY <1>4, <2>2, <3>1, DraftType DEF ReadSwitch, Draft
  <2> QED
    BY <2>1, <2>2
<1>5. ASSUME NEW p \in P, NEW some \in BOOLEAN, UpdateMembers(r, p, some)
      PROVE  db' \in Tables /\ UNCHANGED <<fkOff, draft, raced, shared>>
  <2>1. (IF some THEN db.members \cup {p} ELSE db.members \ {p}) \in SUBSET P
    BY DEF TypeOK, Tables
  <2>2. 0 \in 0..MaxPools /\ db \in Tables
    BY DEF TypeOK
  <2>3. Absent \in Row \cup {Absent}
    OBVIOUS
  <2>4. db' = db \/ db' = [db EXCEPT !.members = IF some THEN @ \cup {p} ELSE @ \ {p}]
    BY <1>5 DEF UpdateMembers
  <2> QED
    BY <1>5, <2>1, <2>2, <2>3, <2>4, RowsType DEF UpdateMembers
<1>6. ASSUME Write(r)
      PROVE  /\ db' \in Tables /\ fkOff' = fkOff /\ raced' \in SUBSET R
             /\ shared' \in SUBSET P
             /\ draft' \in [R -> [id : 0..MaxPools, row : Row \cup {Absent}]]
  <2> DEFINE id == IF draft[r].id = 0 THEN db.last + 1 ELSE draft[r].id
  <2>1. id \in P /\ id \in 0..MaxPools /\ draft[r].row \in Row
    BY <1>6 DEF Write, TableInv, Row, P
  <2>2. (IF id > db.last THEN id ELSE db.last) \in 0..MaxPools
    BY <2>1 DEF TypeOK, Tables
  <2>3. [db EXCEPT !.rows[id] = draft[r].row, !.last = IF id > @ THEN id ELSE @] \in Tables
    <3> HIDE DEF id
    <3>1. {} \in SUBSET P /\ draft[r].row \in Row \cup {Absent}
      BY <2>1
    <3> QED
      BY <2>1, <2>2, <3>1, RowsType
  <2>4. db' \in Tables
    BY <1>6, <2>3 DEF Write, TypeOK
  <2>5. raced' \in SUBSET R /\ shared' \in SUBSET P /\ fkOff' = fkOff
    BY <1>6, <2>1 DEF Write, TypeOK
  <2>6. draft' \in [R -> [id : 0..MaxPools, row : Row \cup {Absent}]]
    BY <1>1, <1>6 DEF Write, TypeOK
  <2> QED
    BY <2>4, <2>5, <2>6
<1>7. ASSUME Flip(r)
      PROVE  /\ db' \in Tables /\ UNCHANGED <<fkOff, raced, shared>>
             /\ draft' \in [R -> [id : 0..MaxPools, row : Row \cup {Absent}]]
  <2>1. draft[r].id \in P /\ draft[r].row \in Row
    BY <1>7 DEF Flip, TableInv
  <2> DEFINE p   == draft[r].id
             row == [db.rows[p] EXCEPT !.on = draft[r].row.on]
  <2>2. CASE ~Exists(p)
    BY <1>1, <1>7, <2>2 DEF Flip, TypeOK
  <2>3. CASE Exists(p)
    <3>1. row \in Row
      BY <2>1, <2>3, Switched DEF Exists, TypeOK, Tables, Row
    <3>2. db' = [db EXCEPT !.rows[p] = row]
      BY <1>7, <2>3 DEF Flip
    <3>3. db' \in Tables
      BY <2>1, <3>1, <3>2 DEF TypeOK, Tables
    <3> QED
      BY <1>1, <1>7, <3>3 DEF Flip, TypeOK
  <2> QED
    BY <2>2, <2>3
<1>8. /\ db \in Tables /\ raced \in SUBSET R /\ shared \in SUBSET P
      /\ draft \in [R -> [id : 0..MaxPools, row : Row \cup {Absent}]]
  BY DEF TypeOK
<1> HIDE PoolTableAssumption
<1> QED
  BY <1>2, <1>3, <1>4, <1>5, <1>6, <1>7, <1>8 DEF TableServes

LEMMA TableKeeps ==
  ASSUME TypeOK, TableInv, NEW r \in R, TableServes(r)
  PROVE  TableInv'
<1> USE PoolTableAssumption DEF TableInv, UsernamesOwn, Exists, Taken, At, Goto
<1>0. /\ stage \in [R -> Stages] /\ db \in Tables /\ raced \in SUBSET R /\ shared \in SUBSET P
      /\ draft \in [R -> [id : 0..MaxPools, row : Row \cup {Absent}]]
      /\ DOMAIN db.rows = P /\ db.last \in 0..MaxPools
  BY DEF TypeOK, Tables
<1>1. ASSUME NEW id \in P \cup {0}, NEW u \in Users, NEW b \in BOOLEAN,
             Check(r, id, [user |-> u, on |-> b])
      PROVE  TableInv'
  BY <1>0, <1>1 DEF Check, Draft
<1>2. ASSUME NEW p \in P, Delete(r, p)
      PROVE  TableInv'
  <2>1. PICK ms : db' = [db EXCEPT !.rows[p] = Absent, !.members = ms]
    BY <1>2 DEF Delete
  <2>2. /\ \A q \in P : db'.rows[q] = IF q = p THEN Absent ELSE db.rows[q]
        /\ db'.last = db.last
    BY <1>0, <2>1 DEF Tables
  <2>3. \A q \in R : /\ stage'[q] \in {"write", "flip"} => q # r /\ stage'[q] = stage[q]
                     /\ draft'[q] = draft[q]
    BY <1>0, <1>2 DEF Delete
  <2> QED
    BY <1>0, <1>2, <2>2, <2>3 DEF Delete
<1>3. ASSUME NEW p \in P, ReadSwitch(r, p)
      PROVE  TableInv'
  <2>1. CASE ~Exists(p)
    BY <1>0, <1>3, <2>1 DEF ReadSwitch
  <2>2. CASE Exists(p)
    <3>1. [db.rows[p] EXCEPT !.on = ~@] \in Row
      BY <2>2, Switched DEF TypeOK, Tables
    <3> QED
      BY <1>0, <1>3, <2>2, <3>1 DEF ReadSwitch, Draft
  <2> QED
    BY <2>1, <2>2
<1>4. ASSUME NEW p \in P, NEW some \in BOOLEAN, UpdateMembers(r, p, some)
      PROVE  TableInv'
  <2>1. db'.rows = db.rows /\ db'.last = db.last
    BY <1>0, <1>4 DEF UpdateMembers, Tables
  <2>2. \A q \in R : /\ stage'[q] \in {"write", "flip"} => q # r /\ stage'[q] = stage[q]
                     /\ draft'[q] = draft[q]
    BY <1>0, <1>4 DEF UpdateMembers
  <2> QED
    BY <1>0, <1>4, <2>1, <2>2 DEF UpdateMembers
<1>5. ASSUME Flip(r)
      PROVE  TableInv'
  <2> DEFINE p == draft[r].id
  <2>1. \A q \in P : /\ db'.rows[q] # Absent => db.rows[q] # Absent
                     /\ db'.rows[q] # Absent => db'.rows[q].user = db.rows[q].user
    BY <1>0, <1>5 DEF Flip, Tables, Row
  <2>2. db'.last = db.last
    BY <1>0, <1>5 DEF Flip, Tables
  <2>3. \A q \in R : stage'[q] \in {"write", "flip"} =>
                       q # r /\ stage'[q] = stage[q] /\ draft'[q] = draft[q]
    BY <1>0, <1>5 DEF Flip
  <2>4. raced' = raced /\ shared' = shared
    BY <1>5 DEF Flip
  <2> HIDE DEF p
  <2> QED
    BY SMTT(30), <1>0, <2>1, <2>2, <2>3, <2>4
\* The only row that changes is written by r; the others' claims on its username
\* are marked, and r itself found it free unless it was marked before.
<1>6. ASSUME Write(r)
      PROVE  TableInv'
  <2> DEFINE id  == IF draft[r].id = 0 THEN db.last + 1 ELSE draft[r].id
             row == draft[r].row
  <2>1. id \in P /\ row \in [user : Users, on : BOOLEAN] /\ row \in Row
    BY <1>6 DEF Write, Row
  <2>2. \A q \in R : stage'[q] \in {"write", "flip"} =>
                       q # r /\ stage'[q] = stage[q] /\ draft'[q] = draft[q]
    BY <1>0, <1>6 DEF Write
  <2>3. CASE UNCHANGED <<db, raced, shared>>
    BY <1>0, <2>2, <2>3
  <2>4. CASE /\ db' = [db EXCEPT !.rows[id] = row, !.last = IF id > @ THEN id ELSE @]
             /\ raced' = raced \cup {q \in R \ {r} : At(q, "write")
                                                     /\ draft[q].row.user = row.user}
             /\ shared' = IF r \in raced THEN shared \cup {id} ELSE shared \ {id}
    <3>1. \A q \in P : db'.rows[q] = IF q = id THEN row ELSE db.rows[q]
      BY <1>0, <2>4 DEF Tables
    <3>2. \A q \in P : db'.rows[q] # Absent => q <= db'.last
      <4>1. db'.last = IF id > db.last THEN id ELSE db.last
        BY <1>0, <2>4 DEF Tables
      <4> HIDE DEF id
      <4> QED
        BY <1>0, <2>1, <3>1, <4>1 DEF P
    <3>3. ASSUME NEW q \in P, q # id, Exists(q), db.rows[q].user = row.user
          PROVE  r \in raced
      <4>1. q # draft[r].id
        BY <3>3 DEF P
      <4> QED
        BY <1>6, <3>3, <4>1 DEF Write
    <3>4. UsernamesOwn'
      <4> HIDE DEF id, row
      <4> QED
        BY <2>1, <2>4, <3>1, <3>3
    <3>5. ASSUME NEW q \in R, stage'[q] = "write", q \notin raced'
          PROVE  ~Taken(draft[q].row.user, draft[q].id)'
      <4>1. q # r /\ At(q, "write") /\ draft'[q] = draft[q]
        BY <2>2, <3>5
      <4>2. q \notin raced /\ draft[q].row.user # row.user
        BY <2>4, <3>5, <4>1
      <4>3. ~Taken(draft[q].row.user, draft[q].id)
        BY <4>1, <4>2
      <4> HIDE DEF id, row
      <4> QED
        BY <3>1, <4>1, <4>2, <4>3
    <3> QED
      BY <2>2, <3>2, <3>4, <3>5
  <2> QED
    BY <1>6, <2>3, <2>4 DEF Write
<1> QED
  BY <1>1, <1>2, <1>3, <1>4, <1>5, <1>6 DEF TableServes

-----------------------------------------------------------------------------
(* The installer: under the lock, the scratch file is its holder's alone.  *)

LEMMA InstallType ==
  ASSUME TypeOK, InstallInv, NEW r \in R, InstallServes(r),
         UNCHANGED <<boot, authVars, brokerVars, tableVars, tx>>
  PROVE  TypeOK'
<1> USE DEF authVars, brokerVars, tableVars
<1>0. stage' \in [R -> Stages]
  BY InstallMoves DEF TypeOK, Moves, InstallTo, Locked, Goto, Stages
<1> SUFFICES /\ binary' \in [Assets -> File \cup {NoFile}]
             /\ scratch' \in [Assets -> File \cup {NoFile}]
             /\ selection' \in Assets \cup {NoFile} /\ active' \in Assets \cup {NoFile}
             /\ asset' \in [R -> Assets \cup {NoFile}]
  BY <1>0 DEF TypeOK
<1>1. /\ binary \in [Assets -> File \cup {NoFile}]
      /\ scratch \in [Assets -> File \cup {NoFile}]
      /\ selection \in Assets \cup {NoFile} /\ active \in Assets \cup {NoFile}
      /\ asset \in [R -> Assets \cup {NoFile}]
  BY DEF TypeOK
<1>2. CASE Lock(r)
  BY <1>1, <1>2 DEF Lock
<1>3. CASE Extract(r)
  BY ZenonT(30), <1>1, <1>3 DEF Extract, File
<1>4. CASE Copied(r) \/ Chmod(r)
  <2>1. scratch[asset[r]] \in File
    BY <1>4 DEF Copied, Chmod, Improve, InstallInv, At
  <2>2. scratch[asset[r]] \cup {"whole"} \in File /\ scratch[asset[r]] \cup {"exec"} \in File
    BY <2>1 DEF File
  <2> QED
    BY <1>1, <1>4, <2>2 DEF Copied, Chmod, Improve
<1>5. CASE Replace(r)
  <2>1. scratch[asset[r]] \in File
    BY <1>5 DEF Replace, InstallInv, At
  <2> QED
    BY <1>1, <1>5, <2>1 DEF Replace
<1>6. CASE Select(r) \/ Unlink(r)
  BY <1>1, <1>6 DEF Select, Unlink
<1>7. CASE InstallFails(r)
  BY <1>1, <1>7 DEF InstallFails
<1>8. CASE Stat(r) \/ Activate(r)
  BY <1>1, <1>8 DEF Stat, Activate, installVars
<1> QED
  BY <1>2, <1>3, <1>4, <1>5, <1>6, <1>7, <1>8 DEF InstallServes

LEMMA InstallKeeps ==
  ASSUME TypeOK, InstallInv, NEW r \in R, InstallServes(r)
  PROVE  InstallInv'
<1> USE InstallerAssumption DEF InstallInv, SelectedWhole, Locked, Whole, At, Goto
<1>1. /\ stage \in [R -> Stages] /\ binary \in [Assets -> File \cup {NoFile}]
      /\ scratch \in [Assets -> File \cup {NoFile}] /\ asset \in [R -> Assets \cup {NoFile}]
      /\ selection \in Assets \cup {NoFile} /\ active \in Assets \cup {NoFile}
  BY DEF TypeOK
\* Nobody else is under the lock when it is taken.
<1>2. CASE Lock(r)
  BY <1>1, <1>2 DEF Lock, LockFree
<1>3. CASE Stat(r)
  BY <1>1, <1>3 DEF Stat, installVars
<1>4. CASE Extract(r)
  BY <1>1, <1>4 DEF Extract, File
<1>5. CASE Copied(r)
  BY <1>1, <1>5 DEF Copied, Improve, File
<1>6. CASE Chmod(r)
  BY <1>1, <1>6 DEF Chmod, Improve, File
<1>7. CASE Replace(r)
  BY <1>1, <1>7 DEF Replace
<1>8. CASE Select(r)
  BY <1>1, <1>8 DEF Select
<1>9. CASE InstallFails(r)
  BY <1>1, <1>9 DEF InstallFails
<1>10. CASE Activate(r)
  BY <1>1, <1>10 DEF Activate, Executable
<1>11. CASE Unlink(r)
  BY <1>1, <1>11 DEF Unlink
<1> QED
  BY <1>2, <1>3, <1>4, <1>5, <1>6, <1>7, <1>8, <1>9, <1>10, <1>11 DEF InstallServes

-----------------------------------------------------------------------------
(* The start of the program: no row is missing when the transaction ends.  *)

LEMMA BootsKeep ==
  ASSUME IInv, Boots
  PROVE  IInv'
<1> USE DEF IInv
<1>1. ~Up /\ session = Nobody /\ \A r \in R : stage[r] \in {"idle", "done"}
  BY DEF BootInv, Boots, Load, Detach, CreateNew, CopyRows, DropOld, Rename, Commit, Attach,
         Defaults, Up
<1>2. UNCHANGED <<stage, brokerVars, session, expired, token, claim, straddled, draft, raced,
                  shared, binary, scratch, selection, asset>>
  BY DEF Boots, Load, Detach, CreateNew, CopyRows, DropOld, Rename, Commit, Attach, Defaults,
         Exec, authVars, brokerVars, tableVars, installVars
\* At the commit the transaction's rows are the old ones.
<1>3. db' = [db EXCEPT !.legacy = db'.legacy] /\ db'.legacy \in BOOLEAN
  <2>1. CASE Commit
    BY <2>1 DEF Commit, BootInv, TypeOK, Tables
  <2> QED
    BY <2>1 DEF Boots, Load, Detach, CreateNew, CopyRows, DropOld, Rename, Attach, Defaults,
                Exec, tableVars, TypeOK, Tables
<1>4. db' \in Tables /\ db'.rows = db.rows /\ db'.members = db.members /\ db'.last = db.last
  BY <1>3 DEF TypeOK, Tables
<1>5. active' \in {active, NoFile} \/ (active' = selection /\ selection \in Assets)
  BY DEF Boots, Load, Resolved, Executable, Detach, CreateNew, CopyRows, DropOld, Rename,
         Commit, Attach, Defaults, Exec, installVars
<1>6. password' \in {password, Default}
  BY DEF Boots, Load, Detach, CreateNew, CopyRows, DropOld, Rename, Commit, Attach, Defaults,
         FirstPassword, Exec, authVars
<1>7. BootInv' /\ tx' \in Views \cup {None} /\ fkOff' \in BOOLEAN /\ boot' \in Boot
  <2> USE DEF BootInv, Up
  <2>0. NoRows \in [P -> Row \cup {Absent}]
    BY DEF NoRows
  <2>1. CASE Load
    BY <1>1, <1>2, <2>1 DEF Load, TypeOK, Boot, tableVars
  <2>2. CASE Detach
    <3>1. [rows |-> db.rows, fresh |-> NoRows, members |-> db.members] \in Views
      BY <2>0 DEF TypeOK, Tables, Views
    <3> QED
      BY <1>1, <1>2, <2>2, <3>1 DEF Detach, TypeOK, Boot
  <2>3. CASE CreateNew \/ CopyRows
    BY <1>1, <1>2, <2>0, <2>3 DEF CreateNew, CopyRows, Exec, TypeOK, Boot, Views, tableVars
  <2>4. CASE DropOld \/ Rename
    BY <1>1, <1>2, <2>0, <2>4 DEF DropOld, Rename, Exec, TypeOK, Boot, Views, tableVars
  <2>5. CASE Commit
    BY <1>1, <1>2, <2>5 DEF Commit, TypeOK, Boot
  <2>6. CASE Attach
    BY <1>1, <1>2, <2>6 DEF Attach, TypeOK, Boot
  <2>7. CASE Defaults
    BY <1>1, <1>2, <2>7 DEF Defaults, TypeOK, Boot, tableVars
  <2> QED
    BY <2>1, <2>2, <2>3, <2>4, <2>5, <2>6, <2>7 DEF Boots
<1>8. TypeOK'
  BY <1>2, <1>4, <1>5, <1>6, <1>7, SessionsAssumption DEF TypeOK, brokerVars
<1>9. AuthInv'
  BY <1>1, <1>2, <1>6 DEF AuthInv, SessionsRevoked, Nobody, At
<1>10. BrokerInv'
  BY <1>2 DEF BrokerInv, SendsReachOpen, Reading, brokerVars
<1>11. TableInv'
  BY <1>2, <1>4 DEF TableInv, UsernamesOwn, Exists, Taken, At
<1>12. InstallInv'
  BY <1>2, <1>5 DEF InstallInv, SelectedWhole, At
<1> QED
  BY <1>7, <1>8, <1>9, <1>10, <1>11, <1>12

\* What survives the process is as good as before; the rest is empty.
LEMMA ExitKeeps ==
  ASSUME IInv, Exit
  PROVE  IInv'
<1> USE DEF IInv, Exit
<1>1. \A r \in R : stage'[r] \in {"idle", "done"}
  OBVIOUS
<1>2. TypeOK'
  <2>1. /\ boot' \in Boot /\ stage' \in [R -> Stages] /\ tx' = None
        /\ password' \in Passwords \cup {None} /\ session' \in [R -> Passwords \cup {None}]
        /\ token' \in [R -> R \cup {None}] /\ claim' \in [R -> Passwords \cup {None}]
        /\ expired' = {} /\ straddled' = {}
    BY DEF TypeOK, Nobody, Stages, Boot
  <2>2. clients' = {} /\ queue' \in [R -> 0..Room] /\ todo' \in [R -> SUBSET R]
    BY BrokerAssumption
  <2>3. /\ draft' \in [R -> [id : 0..MaxPools, row : Row \cup {Absent}]]
        /\ db' \in Tables /\ fkOff' = FALSE /\ raced' = {} /\ shared' \in SUBSET P
    BY PoolTableAssumption DEF TypeOK, NoDraft
  <2>4. /\ binary' \in [Assets -> File \cup {NoFile}]
        /\ scratch' \in [Assets -> File \cup {NoFile}]
        /\ selection' \in Assets \cup {NoFile} /\ active' = NoFile
        /\ asset' \in [R -> Assets \cup {NoFile}]
    BY DEF TypeOK
  <2> QED
    BY <2>1, <2>2, <2>3, <2>4 DEF TypeOK
<1>3. AuthInv' /\ BrokerInv'
  BY <1>1 DEF AuthInv, SessionsRevoked, BrokerInv, SendsReachOpen, Nobody, At
<1>4. TableInv'
  BY <1>1 DEF TableInv, UsernamesOwn, Exists, At
<1>5. InstallInv'
  BY <1>1 DEF InstallInv, SelectedWhole, Locked, At
<1>6. BootInv'
  BY <1>1 DEF BootInv, Up
<1> QED
  BY <1>2, <1>3, <1>4, <1>5, <1>6

-----------------------------------------------------------------------------
(* All together.                                                           *)

LEMMA InitIInv ==
  ASSUME Init
  PROVE  IInv
<1> USE DEF Init
<1>1. AuthInit /\ BrokerInit /\ TableInit /\ InstallInit
  OBVIOUS
<1>2. /\ db \in Tables /\ shared \in SUBSET P /\ fkOff = FALSE /\ raced = {}
      /\ draft \in [R -> [id : 0..MaxPools, row : Row \cup {Absent}]]
      /\ \A p \in P : Exists(p) => p <= db.last
  <2>1. CASE db = Fresh
    BY <1>1, <2>1, PoolTableAssumption DEF TableInit, Fresh, NoRows, Tables, NoDraft, Exists, P
  <2>2. CASE db \in Upgraded
    <3>1. db \in Tables
      BY <2>2, PoolTableAssumption
    <3>2. \A p \in P : p > db.last => db.rows[p] = Absent
      BY <2>2, PoolTableAssumption
    <3>3. \A p \in P : Exists(p) => p <= db.last
      BY <3>1, <3>2, PoolTableAssumption DEF Exists, P, Tables
    <3> QED
      BY <1>1, <3>1, <3>3, PoolTableAssumption DEF TableInit, NoDraft
  <2> QED
    BY <1>1, <2>1, <2>2 DEF TableInit
<1>3. TypeOK
  <2>1. /\ boot \in Boot /\ stage \in [R -> Stages] /\ tx = None
        /\ password \in Passwords \cup {None} /\ session \in [R -> Passwords \cup {None}]
        /\ token \in [R -> R \cup {None}] /\ claim \in [R -> Passwords \cup {None}]
        /\ expired = {} /\ straddled = {}
    BY <1>1 DEF AuthInit, Nobody, Stages, Boot
  <2>2. clients = {} /\ queue \in [R -> 0..Room] /\ todo \in [R -> SUBSET R]
    BY <1>1, BrokerAssumption DEF BrokerInit
  <2>3. /\ binary \in [Assets -> File \cup {NoFile}]
        /\ scratch \in [Assets -> File \cup {NoFile}]
        /\ selection = NoFile /\ active = NoFile /\ asset \in [R -> Assets \cup {NoFile}]
    BY <1>1 DEF InstallInit, NoFiles
  <2> QED
    BY <1>2, <2>1, <2>2, <2>3 DEF TypeOK
<1>4. AuthInv /\ BrokerInv
  BY <1>1 DEF AuthInit, AuthInv, SessionsRevoked, Nobody, At, BrokerInit, BrokerInv,
              SendsReachOpen
<1>5. TableInv
  <2>1. UsernamesOwn
    <3>1. CASE db = Fresh
      BY <3>1 DEF UsernamesOwn, Exists, Fresh, NoRows
    <3>2. CASE db \in Upgraded
      BY <1>1, <3>2, PoolTableAssumption DEF TableInit, UsernamesOwn
    <3> QED
      BY <1>1, <3>1, <3>2 DEF TableInit
  <2> QED
    BY <1>2, <2>1 DEF TableInv, At
<1>6. InstallInv /\ BootInv
  BY <1>1, <1>2 DEF InstallInit, NoFiles, InstallInv, SelectedWhole, Locked, At, BootInv,
                    AuthInit
<1> QED
  BY <1>3, <1>4, <1>5, <1>6 DEF IInv

LEMMA StepIInv ==
  ASSUME IInv, [Next]_vars
  PROVE  IInv'
<1> USE DEF IInv
<1>1. CASE Boots
  BY <1>1, BootsKeep
<1>2. CASE Exit
  BY <1>2, ExitKeeps
\* A step of sessions, by any of its requests.
<1>3. ASSUME NEW r \in R, AuthServes(r) \/ Arrives(r),
             UNCHANGED <<boot, brokerVars, tableVars, installVars, tx>>
      PROVE  IInv'
  <2>1. PICK s \in AuthTo : Goto(r, s) /\ stage[r] \in AuthFrom
    BY <1>3, AuthMoves DEF Moves
  <2>2. /\ ~Reading(r) /\ s \notin {"write", "flip"} /\ s \notin Locked \cup {"activate"}
    BY <2>1 DEF AuthFrom, AuthTo, Protected, Reading, Locked
  <2>3. Up
    <3>1. CASE stage[r] # "idle"
      BY <2>1, <3>1, Served DEF AuthFrom
    <3>2. CASE stage[r] = "idle"
      BY <1>3, <3>2 DEF AuthServes, Arrives, Login, Admit, Refuse, Issue, Remove, Rehash,
                        Invalidate, ReadSettings, SaveSettings, Verify, At
    <3> QED
      BY <3>1, <3>2
  <2>4. TypeOK' /\ AuthInv'
    BY <1>3, AuthType, AuthKeeps
  <2> QED
    BY <1>3, <2>1, <2>2, <2>3, <2>4, BrokerFrame, TableFrame, InstallFrame, BootFrame
      DEF tableVars
<1>4. ASSUME NEW r \in R, Expire(r), UNCHANGED <<boot, brokerVars, tableVars, installVars, tx>>
      PROVE  IInv'
  <2>1. TypeOK' /\ AuthInv'
    BY <1>4, AuthType, AuthKeeps
  <2>2. Up
    BY <1>4, Served DEF Expire, Live, Nobody
  <2>3. UNCHANGED stage
    BY <1>4 DEF Expire
  <2>4. BrokerInv' /\ TableInv' /\ InstallInv'
    BY <1>4, <2>3 DEF BrokerInv, SendsReachOpen, Reading, TableInv, UsernamesOwn, Exists, Taken,
                      InstallInv, SelectedWhole, At, brokerVars, tableVars, installVars
  <2> QED
    BY <1>4, <2>1, <2>2, <2>4, BootFrame DEF tableVars
\* A step of the broker, or a statement that fails.
<1>5. ASSUME NEW r \in R,
             BrokerServes(r) \/ Receive(r) \/ HangUp(r) \/ (Fail(r) /\ UNCHANGED brokerVars),
             UNCHANGED <<boot, authVars, tableVars, installVars, tx>>
      PROVE  IInv'
  <2>1. TypeOK' /\ Up
    <3>1. stage[r] \notin {"idle", "done"}
      BY <1>5, BrokerMoves DEF Moves, BrokerFrom, BrokerServes, Send, Receive, Fail, Reading, At
    <3> QED
      BY <1>5, <3>1, BrokerType, Served
  <2>2. BrokerInv'
    <3>1. CASE Fail(r) /\ UNCHANGED brokerVars
      BY <3>1, BrokerFrame DEF Fail, Reading
    <3> QED
      BY <1>5, <3>1, BrokerKeeps
  <2>3. CASE UNCHANGED stage
    BY <1>5, <2>1, <2>2, <2>3, BootFrame
      DEF AuthInv, SessionsRevoked, TableInv, UsernamesOwn, Exists, Taken, InstallInv,
          SelectedWhole, At, authVars, tableVars, installVars
  <2>4. ASSUME NEW s \in BrokerTo, Goto(r, s), stage[r] # "revoke"
        PROVE  IInv'
    <3>1. s \notin {"issue", "write", "flip"} /\ s \notin Locked \cup {"activate"}
      BY <2>4 DEF BrokerTo, Locked
    <3> QED
      BY <1>5, <2>1, <2>2, <2>4, <3>1, AuthFrame, TableFrame, InstallFrame, BootFrame
        DEF tableVars
  <2> QED
    BY <1>5, <2>3, <2>4, BrokerMoves
      DEF BrokerServes, Send, Receive, Fail, Moves, BrokerFrom, BrokerTo
<1>6. ASSUME NEW r \in R, TableServes(r), UNCHANGED <<boot, authVars, brokerVars, installVars, tx>>
      PROVE  IInv'
  <2>1. PICK s \in TableTo : Goto(r, s) /\ stage[r] \in TableFrom
    BY <1>6, TableMoves DEF Moves
  <2>2. /\ ~Reading(r) /\ s # "issue" /\ s \notin Locked \cup {"activate"}
        /\ stage[r] \notin {"idle", "done", "revoke"}
    BY <2>1 DEF TableFrom, TableTo, Reading, Locked
  <2>3. TypeOK' /\ TableInv' /\ Up
    BY <1>6, <2>2, TableType, TableKeeps, Served
  <2>4. fkOff' = fkOff
    BY <1>6 DEF TableServes, Check, Delete, ReadSwitch, UpdateMembers, Write, Flip
  <2> QED
    BY <1>6, <2>1, <2>2, <2>3, <2>4, AuthFrame, BrokerFrame, InstallFrame, BootFrame
<1>7. ASSUME NEW r \in R, InstallServes(r), UNCHANGED <<boot, authVars, brokerVars, tableVars, tx>>
      PROVE  IInv'
  <2>1. PICK s \in InstallTo : Goto(r, s) /\ stage[r] \in InstallFrom
    BY <1>7, InstallMoves DEF Moves
  <2>2. /\ ~Reading(r) /\ s \notin {"issue", "write", "flip"}
        /\ stage[r] \notin {"idle", "done", "revoke"}
    BY <2>1 DEF InstallFrom, InstallTo, Reading, Locked
  <2>3. TypeOK' /\ InstallInv' /\ Up
    BY <1>7, <2>2, InstallType, InstallKeeps, Served
  <2> QED
    BY <1>7, <2>1, <2>2, <2>3, AuthFrame, BrokerFrame, TableFrame, BootFrame DEF tableVars
<1>8. CASE UNCHANGED vars
  BY <1>8 DEF vars, authVars, brokerVars, tableVars, installVars, TypeOK, AuthInv,
              SessionsRevoked, BrokerInv, SendsReachOpen, Reading, TableInv, UsernamesOwn,
              Exists, Taken, InstallInv, SelectedWhole, BootInv, Up, At
<1> QED
  BY <1>1, <1>2, <1>3, <1>4, <1>5, <1>6, <1>7, <1>8
    DEF Next, Serves, AuthStep, BrokerStep, TableStep, InstallStep

-----------------------------------------------------------------------------
(* What a step may lose.  NothingLost without its box.                     *)

Loses == /\ \A p \in P : Exists(p) /\ db'.rows[p] = Absent =>
              p \notin db'.members /\ \E r \in R : At(r, "delete") /\ stage'[r] = "announce"
         /\ \A p \in db.members \ db'.members :
              \E r \in R : stage[r] \in {"delete", "members"} /\ stage'[r] = "announce"
         /\ password' # password => password = None \/ \E r \in R : At(r, "rehash")

LEMMA Same ==
  ASSUME db'.rows = db.rows, db'.members = db.members, password' = password
  PROVE  Loses
  BY DEF Loses, Exists

LEMMA BootsLose ==
  ASSUME IInv, Boots
  PROVE  Loses
<1>1. db'.rows = db.rows /\ db'.members = db.members
  <2>1. CASE Commit
    BY <2>1 DEF Commit, IInv, BootInv, TypeOK, Tables
  <2> QED
    BY <2>1 DEF Boots, Load, Detach, CreateNew, CopyRows, DropOld, Rename, Attach, Defaults,
                Exec, tableVars
<1>2. password' = password \/ password = None
  BY DEF Boots, Load, Detach, CreateNew, CopyRows, DropOld, Rename, Commit, Attach, Defaults,
         FirstPassword, Exec, authVars
<1> QED
  BY <1>1, <1>2 DEF Loses, Exists

\* A deletion takes the members along: nobody is served with foreign keys off.
LEMMA TableLoses ==
  ASSUME IInv, NEW r \in R, TableServes(r), password' = password
  PROVE  Loses
<1> SUFFICES /\ \A p \in P : Exists(p) /\ db'.rows[p] = Absent =>
                  p \notin db'.members /\ At(r, "delete") /\ stage'[r] = "announce"
             /\ \A p \in db.members \ db'.members :
                  stage[r] \in {"delete", "members"} /\ stage'[r] = "announce"
  BY DEF Loses
<1>1. Enforced = {TRUE}
  <2>1. stage[r] \notin {"idle", "done"}
    BY TableMoves DEF Moves, TableFrom
  <2> QED
    BY <2>1, Served DEF IInv, BootInv, Enforced, Up
<1>2. /\ stage \in [R -> Stages] /\ db \in Tables /\ db.members \in SUBSET P
      /\ db.rows \in [P -> Row \cup {Absent}] /\ Absent \notin Row
  BY PoolTableAssumption DEF IInv, TypeOK, Tables, Row
<1>3. CASE UNCHANGED db
  BY <1>3 DEF Exists
<1>4. ASSUME NEW p \in P, Delete(r, p)
      PROVE  /\ At(r, "delete") /\ stage'[r] = "announce" /\ p \notin db'.members
             /\ \A q \in P \ {p} : db'.rows[q] = db.rows[q]
  BY <1>1, <1>2, <1>4 DEF Delete, At, Goto, Tables
<1>5. ASSUME NEW p \in P, NEW some \in BOOLEAN, UpdateMembers(r, p, some)
      PROVE  /\ At(r, "members") /\ db'.rows = db.rows
             /\ db' = db \/ stage'[r] = "announce"
  BY <1>1, <1>2, <1>5 DEF UpdateMembers, At, Goto, Tables
<1>6. CASE Write(r)
  <2>1. draft[r].row # Absent
    BY <1>2, <1>6 DEF Write, IInv, TableInv, Row, At
  <2> DEFINE id == IF draft[r].id = 0 THEN db.last + 1 ELSE draft[r].id
             n  == IF id > db.last THEN id ELSE db.last
  <2>2. /\ id \in P
        /\ UNCHANGED db \/ db' = [db EXCEPT !.rows[id] = draft[r].row, !.last = n]
    BY <1>6 DEF Write
  <2> HIDE DEF id, n
  <2> QED
    BY <1>2, <2>1, <2>2 DEF Exists, Tables
<1>7. CASE Flip(r)
  <2>1. UNCHANGED db \/ \E p \in P : /\ Exists(p)
          /\ db' = [db EXCEPT !.rows[p].on = draft[r].row.on]
    BY <1>7 DEF Flip, IInv, TableInv, At
  <2>2. ASSUME NEW p \in P, Exists(p), db' = [db EXCEPT !.rows[p].on = draft[r].row.on]
        PROVE  db'.rows[p] # Absent /\ db'.members = db.members
               /\ \A q \in P \ {p} : db'.rows[q] = db.rows[q]
    <3>1. db.rows[p] \in Row /\ draft[r].row.on \in BOOLEAN
      BY <1>2, <1>7, <2>2 DEF Exists, Flip, IInv, TableInv, At, Row
    <3>2. [db.rows[p] EXCEPT !.on = draft[r].row.on] \in Row
      BY <3>1, Switched
    <3> QED
      BY <1>2, <2>2, <3>2 DEF Tables
  <2> QED
    BY <2>1, <2>2 DEF Exists
<1> QED
  <2>1. CASE \E p \in P : Delete(r, p)
    BY <1>4, <2>1 DEF Exists, At
  <2>2. CASE \E p \in P, some \in BOOLEAN : UpdateMembers(r, p, some)
    BY <1>5, <2>2 DEF Exists, At
  <2>3. CASE UNCHANGED db \/ Write(r) \/ Flip(r)
    BY <1>3, <1>6, <1>7, <2>3
  <2> QED
    BY <2>1, <2>2, <2>3 DEF TableServes, Check, ReadSwitch

LEMMA StepLoses ==
  ASSUME IInv, [Next]_vars
  PROVE  Loses
<1>1. CASE Exit \/ UNCHANGED vars
  BY <1>1, Same DEF Exit, vars, authVars, tableVars
<1>2. ASSUME NEW r \in R, AuthStep(AuthServes(r)) \/ AuthStep(Arrives(r)) \/ AuthStep(Expire(r))
      PROVE  Loses
  <2>1. UNCHANGED db
    BY <1>2 DEF AuthStep, tableVars
  <2>2. password' = password \/ At(r, "rehash")
    BY <1>2 DEF AuthStep, AuthServes, Arrives, Login, Admit, Refuse, Issue, Remove, Rehash,
                Invalidate, ReadSettings, SaveSettings, HashSaved, Verify, Expire
  <2> QED
    BY <2>1, <2>2 DEF Loses, Exists
<1>3. ASSUME NEW r \in R, NEW A, BrokerStep(A) \/ InstallStep(A)
      PROVE  Loses
  BY <1>3, Same DEF BrokerStep, InstallStep, authVars, tableVars
<1>4. ASSUME NEW r \in R, TableStep(TableServes(r))
      PROVE  Loses
  BY <1>4, TableLoses DEF TableStep, authVars
<1> QED
  BY <1>1, <1>2, <1>3, <1>4, BootsLose DEF Next, Serves

-----------------------------------------------------------------------------
LEMMA Inductive == Spec => []IInv
  BY InitIInv, StepIInv, PTL DEF Spec

\* Type correctness of the panel: channels keep their bound, rows their shape.
THEOREM TypeCorrect == Spec => []TypeOK
<1>1. IInv => TypeOK
  BY DEF IInv
<1>2. QED
  BY <1>1, Inductive, PTL

\* Changing the password revokes every session given for the old one, but for
\* the logins that were between their check and their session at that moment.
THEOREM Revocation == Spec => []SessionsRevoked
<1>1. IInv => SessionsRevoked
  BY DEF IInv, AuthInv
<1>2. QED
  BY <1>1, Inductive, PTL

\* Nothing is sent on a channel that is closed.
THEOREM OpenChannels == Spec => []SendsReachOpen
<1>1. IInv => SendsReachOpen
  BY DEF IInv, BrokerInv
<1>2. QED
  BY <1>1, Inductive, PTL

\* Usernames stay unique as long as no check crosses another request's write.
THEOREM OwnUsernames == Spec => []UsernamesOwn
<1>1. IInv => UsernamesOwn
  BY DEF IInv, TableInv
<1>2. QED
  BY <1>1, Inductive, PTL

\* The selected and the active binary are whole, wherever an install has died.
THEOREM WholeBinary == Spec => []SelectedWhole
<1>1. IInv => SelectedWhole
  BY DEF IInv, InstallInv
<1>2. QED
  BY <1>1, Inductive, PTL

\* Migration, crash, restart and saved settings lose no pool, member or password.
THEOREM Kept == Spec => NothingLost
<1>1. IInv /\ [Next]_vars => [Loses]_vars
  BY StepLoses
<1>2. QED
  BY <1>1, Inductive, PTL DEF Spec, NothingLost, Loses
=============================================================================
