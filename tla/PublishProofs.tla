--------------------------- MODULE PublishProofs ---------------------------
(***************************************************************************)
(* Publishing, for any number of pools, nodes, secrets, publishers and     *)
(* edits: IInv of Publish is inductive.  It consists of what each publish  *)
(* knows of the tables and the files.  A step of one publish moves none of *)
(* the others (Others), so that what they know can only be disturbed by an *)
(* edit, which takes their clean and stable back.                          *)
(***************************************************************************)
EXTENDS Publish, TLAPS

\* The publish h does not move.
Still(h) == /\ pc'[h] = pc[h] /\ late'[h] = late[h] /\ list'[h] = list[h]
            /\ todo'[h] = todo[h] /\ at'[h] = at[h] /\ refs'[h] = refs[h]
            /\ got'[h] = got[h] /\ next'[h] = next[h]

\* What all publishes but g can rely on in its steps.
Others(g) ==
  /\ binary' = binary
  /\ \A h \in Publishers \ {g} :
       /\ Still(h) /\ (fd'[h] = "none" \/ fd[h] # "none")
       /\ stable'[h] \subseteq stable[h] \cap InService'
       /\ clean'[h] => clean[h] /\ UNCHANGED <<table, rows, node, secret>>
       /\ alone'[h] => alone[h] /\ pc[g] # "idle"

LEMMA Frame ==
  ASSUME IInv, NEW g \in Publishers, Others(g),
         LocalFor(g)', CompleteFor(g)', ExactFor(g)', AloneFor(g)',
         TypeOK', SettledInv'
  PROVE  IInv'
<1> SUFFICES ASSUME NEW h \in Publishers \ {g}
             PROVE  LocalFor(h)' /\ CompleteFor(h)' /\ ExactFor(h)' /\ AloneFor(h)'
  BY DEF IInv
<1>1. Still(h) /\ LocalFor(h) /\ CompleteFor(h) /\ ExactFor(h) /\ AloneFor(h)
  BY DEF IInv, Others
<1>2. LocalFor(h)'
  BY <1>1 DEF LocalFor, Others, Still
<1>3. /\ Reading(h)' = Reading(h) /\ Built(h)' = Built(h)
      /\ \A p : Left(h, p)' = Left(h, p)
  BY <1>1 DEF Reading, Built, Left, Still
<1>4. CompleteFor(h)'
  BY <1>1, <1>3 DEF CompleteFor, Others, Still
<1>5. ExactFor(h)'
  BY <1>1, <1>3 DEF ExactFor, Others, Still
<1>6. ~alone'[h]
  BY <1>1 DEF AloneFor, Others
<1> QED
  BY <1>2, <1>4, <1>5, <1>6 DEF AloneFor

LEMMA Serves ==
  ASSUME NEW p \in Pools, NEW n \in Nodes
  PROVE  <<p, n>> \in InService <=> table[p] = "on" /\ n \in rows[p] /\ node[n] = "on"
  BY DEF InService

LEMMA ConfigType ==
  ASSUME TypeOK, NEW g \in Publishers, next[g] \in Secrets
  PROVE  Config(g) \in Configs /\ Config(g) \notin {None, Missing, Empty, Mixed}
<1>1. got \in [Publishers -> [Pools -> SUBSET Nodes]]
  BY DEF TypeOK
<1>2. [p \in Pools |-> IF list[g][p] = "on" THEN got[g][p] ELSE None] \in Maps
  <2>1. \A p \in Pools : got[g][p] \in SUBSET Nodes
    BY <1>1
  <2> QED
    BY <2>1 DEF Maps
<1>3. Config(g) \in Configs
  BY <1>2 DEF Config, Configs
<1> QED
  BY <1>3, PublishAssumption

\* A publish that has read all there is to read has built what is wanted.
LEMMA Faithful ==
  ASSUME TypeOK, NEW g \in Publishers, ExactFor(g), clean[g], ~late[g], Built(g)
  PROVE  Config(g) = Wanted
<1>1. ~Reading(g) /\ next[g] = secret /\ list[g] = table
  BY DEF ExactFor, Built, Reading
<1>2. \A p \in Pools : table[p] = "on" => got[g][p] = {n \in rows[p] : node[n] = "on"}
  BY <1>1 DEF ExactFor, Left
<1>3. [p \in Pools |-> IF list[g][p] = "on" THEN got[g][p] ELSE None]
       = [p \in Pools |-> IF table[p] = "on" THEN {n \in rows[p] : node[n] = "on"} ELSE None]
  BY <1>1, <1>2
<1> QED
  BY <1>1, <1>3 DEF Config, Wanted

-----------------------------------------------------------------------------
LEMMA InitIInv ==
  ASSUME Init
  PROVE  IInv
<1>0. /\ MaxEdits \in Nat /\ MaxRuns \in Nat
      /\ None \notin Secrets /\ HighPools \subseteq Pools
  BY PublishAssumption
<1>1. PICK s \in Secrets : file = Minimal(s)
  BY DEF Init
<1>2. Minimal(s) \in Configs
  <2>1. [p \in Pools |-> None] \in [Pools -> (SUBSET Nodes) \cup {None}]
    OBVIOUS
  <2> QED
    BY <2>1 DEF Minimal, Configs, Maps
<1>3. TypeOK
  <2>1. /\ table \in [Pools -> Exists \cup {"unborn", "gone"}]
        /\ status \in [Pools -> {"", "published", "failed"}]
        /\ rows \in [Pools -> SUBSET Nodes] /\ node \in [Nodes -> {"on", "off", "gone"}]
        /\ edits \in 0..MaxEdits /\ runs \in 0..MaxRuns
    <3>1. table \in [Pools -> {"unborn", "on"}] /\ node = [n \in Nodes |-> "on"]
      BY DEF Init
    <3>2. rows = [p \in Pools |-> IF table[p] = "on" THEN Nodes ELSE {}]
      BY DEF Init
    <3>3. status = [p \in Pools |-> ""]
      BY DEF Init
    <3>4. \A p \in Pools : (IF table[p] = "on" THEN Nodes ELSE {}) \in SUBSET Nodes
      OBVIOUS
    <3>5. table \in [Pools -> Exists \cup {"unborn", "gone"}]
      BY <3>1 DEF Exists
    <3>6. rows \in [Pools -> SUBSET Nodes]
      BY <3>2, <3>4
    <3>7. edits \in 0..MaxEdits /\ runs \in 0..MaxRuns
      <4>1. edits = 0 /\ runs = 0
        BY DEF Init
      <4> QED
        BY <1>0, <4>1
    <3>8. node \in [Nodes -> {"on", "off", "gone"}]
      BY <3>1
    <3>9. status \in [Pools -> {"", "published", "failed"}]
      BY <3>3
    <3> QED
      BY <3>5, <3>6, <3>7, <3>8, <3>9
  <2>2. /\ pc \in [Publishers -> Places] /\ target \in [Publishers -> Pools \cup {All}]
        /\ late \in [Publishers -> BOOLEAN]
        /\ fd \in [Publishers -> {"none", "tmp", "file", "lost"}]
        /\ clean \in [Publishers -> BOOLEAN] /\ alone \in [Publishers -> BOOLEAN]
        /\ stable \in [Publishers -> SUBSET (Pools \X Nodes)]
    BY DEF Init, Places
  <2>3. /\ list \in [Publishers -> [Pools -> Exists \cup {"unborn", "gone"}]]
        /\ todo \in [Publishers -> SUBSET Pools] /\ at \in [Publishers -> Pools \cup {None}]
        /\ refs \in [Publishers -> SUBSET Nodes]
        /\ got \in [Publishers -> [Pools -> SUBSET Nodes]]
        /\ next \in [Publishers -> Secrets \cup {None}]
        /\ bearer \in [Publishers -> Secrets \cup {None}]
    BY DEF Init
  <2> QED
    BY <1>1, <1>2, <2>1, <2>2, <2>3 DEF Init, TypeOK
<1>4. SettledInv
  BY DEF Init, SettledInv
<1> QED
  BY <1>3, <1>4
    DEF IInv, Init, LocalFor, CompleteFor, ExactFor, AloneFor, Reading, Built

-----------------------------------------------------------------------------
(* Publishes begin, and tables are edited.                                 *)

LEMMA SpawnKeeps ==
  ASSUME IInv, NEW g \in Publishers, NEW t \in Pools \cup {All}, Spawn(g, t),
         table' \in [Pools -> Exists \cup {"unborn", "gone"}],
         rows' \in [Pools -> SUBSET Nodes], node' \in [Nodes -> {"on", "off", "gone"}],
         secret' \in Secrets, edits' \in 0..MaxEdits, status' = status,
         \/ /\ UNCHANGED <<table, rows, node, secret>>
            /\ stable' = [stable EXCEPT ![g] = InService] /\ clean' = [clean EXCEPT ![g] = TRUE]
         \/ /\ stable' = [h \in Publishers |-> IF h = g THEN InService'
                                               ELSE stable[h] \cap InService']
            /\ clean' = [h \in Publishers |-> h = g]
  PROVE  IInv'
<1>1. TypeOK /\ SettledInv /\ LocalFor(g) /\ AloneFor(g)
  BY DEF IInv
<1>2. InService \subseteq Pools \X Nodes /\ InService' \subseteq Pools \X Nodes
  BY DEF InService
<1>3. TypeOK'
  <2>1. /\ stable' \in [Publishers -> SUBSET (Pools \X Nodes)]
        /\ clean' \in [Publishers -> BOOLEAN]
    <3>1. /\ stable \in [Publishers -> SUBSET (Pools \X Nodes)]
          /\ clean \in [Publishers -> BOOLEAN]
      BY <1>1 DEF TypeOK
    <3>2. \A h \in Publishers : stable[h] \cap InService' \in SUBSET (Pools \X Nodes)
      BY <1>2
    <3> HIDE DEF InService
    <3>3. CASE /\ stable' = [stable EXCEPT ![g] = InService]
               /\ clean' = [clean EXCEPT ![g] = TRUE]
      BY <1>2, <3>1, <3>3
    <3>4. CASE /\ stable' = [h \in Publishers |-> IF h = g THEN InService'
                                                   ELSE stable[h] \cap InService']
               /\ clean' = [h \in Publishers |-> h = g]
      BY <1>2, <3>2, <3>4
    <3> QED
      BY <3>3, <3>4
  <2>2. /\ pc' \in [Publishers -> Places] /\ target' \in [Publishers -> Pools \cup {All}]
        /\ alone' \in [Publishers -> BOOLEAN] /\ runs' \in 0..MaxRuns /\ settled' = FALSE
    <3>1. /\ pc \in [Publishers -> Places] /\ target \in [Publishers -> Pools \cup {All}]
          /\ runs \in 0..MaxRuns /\ MaxRuns \in Nat
      BY <1>1, PublishAssumption DEF TypeOK
    <3> QED
      BY <3>1 DEF Spawn, Goto, Places
  <2> QED
    BY <1>1, <2>1, <2>2 DEF TypeOK, Spawn, local, disk, given, loaded
<1>4. /\ pc[g] = "idle" /\ pc'[g] = "settings" /\ fd'[g] = fd[g] /\ refs'[g] = refs[g]
      /\ got'[g] = got[g] /\ alone'[g] = (\A k \in Publishers \ {g} : pc[k] = "idle")
      /\ \A h \in Publishers \ {g} : pc'[h] = pc[h] /\ ~alone'[h]
      /\ \A h \in Publishers \ {g} : Still(h) /\ fd'[h] = fd[h]
      /\ UNCHANGED <<binary, live>> /\ settled' = FALSE
  BY <1>1 DEF Spawn, Goto, TypeOK, local, disk, given, loaded, Still
<1>5. Others(g)
  <2>1. \A h \in Publishers : stable[h] \subseteq InService
    BY DEF IInv, CompleteFor
  <2>2. UNCHANGED <<table, rows, node>> => InService' = InService
    BY DEF InService
  <2>3. /\ stable \in [Publishers -> SUBSET (Pools \X Nodes)]
        /\ clean \in [Publishers -> BOOLEAN]
    BY <1>1 DEF TypeOK
  <2> HIDE DEF InService
  <2>4. ASSUME NEW h \in Publishers \ {g}
        PROVE  /\ stable'[h] \subseteq stable[h] \cap InService'
               /\ clean'[h] => clean[h] /\ UNCHANGED <<table, rows, node, secret>>
    <3>1. CASE /\ UNCHANGED <<table, rows, node, secret>>
               /\ stable' = [stable EXCEPT ![g] = InService]
               /\ clean' = [clean EXCEPT ![g] = TRUE]
      <4>1. stable'[h] = stable[h] /\ clean'[h] = clean[h]
        BY <2>3, <3>1
      <4> QED
        BY <2>1, <2>2, <3>1, <4>1
    <3>2. CASE /\ stable' = [k \in Publishers |-> IF k = g THEN InService'
                                                   ELSE stable[k] \cap InService']
               /\ clean' = [k \in Publishers |-> k = g]
      <4>1. stable'[h] = stable[h] \cap InService' /\ ~clean'[h]
        BY <3>2
      <4> QED
        BY <4>1
    <3> QED
      BY <3>1, <3>2
  <2> QED
    BY <1>4, <2>4 DEF Others
<1>6. CompleteFor(g)'
  <2>1. stable'[g] = InService'
    <3>1. UNCHANGED <<table, rows, node>> => InService' = InService
      BY DEF InService
    <3>2. stable \in [Publishers -> SUBSET (Pools \X Nodes)]
      BY <1>1 DEF TypeOK
    <3> QED
      BY <3>1, <3>2
  <2> QED
    BY <1>4, <2>1 DEF CompleteFor, Reading, Built
<1>7. LocalFor(g)' /\ ExactFor(g)' /\ AloneFor(g)' /\ SettledInv'
  BY <1>1, <1>4 DEF LocalFor, ExactFor, AloneFor, SettledInv, Reading, Built
<1> QED
  BY <1>3, <1>5, <1>6, <1>7, Frame

LEMMA ChangeKeeps ==
  ASSUME IInv, NEW g \in Publishers,
         Change(g) \/ \E t \in Pools \cup {All} : Begin(g, t)
  PROVE  IInv'
<1>1. TypeOK
  BY DEF IInv
<1>2. ASSUME NEW t \in Pools \cup {All}, Begin(g, t)
      PROVE  IInv'
  BY <1>1, <1>2, SpawnKeeps DEF Begin, tables, TypeOK
<1>3. CASE Change(g)
  <2>1. Edit(g)
    BY <1>3 DEF Change, PoolCreate, PoolUpdate, PoolDelete, UpdateMembers, NodeEdit, SettingsEdit
  <2>2. /\ table' \in [Pools -> Exists \cup {"unborn", "gone"}]
        /\ rows' \in [Pools -> SUBSET Nodes] /\ node' \in [Nodes -> {"on", "off", "gone"}]
        /\ secret' \in Secrets /\ status' = status
    <3>1. /\ table \in [Pools -> Exists \cup {"unborn", "gone"}]
          /\ rows \in [Pools -> SUBSET Nodes] /\ node \in [Nodes -> {"on", "off", "gone"}]
          /\ secret \in Secrets
      BY <1>1 DEF TypeOK
    <3>2. CASE \E p \in Pools : PoolCreate(g, p) \/ PoolUpdate(g, p) \/ PoolDelete(g, p)
      BY <3>1, <3>2 DEF PoolCreate, PoolUpdate, PoolDelete
    <3>3. CASE \E p \in Pools, members \in SUBSET Nodes : UpdateMembers(g, p, members)
      BY <3>1, <3>3 DEF UpdateMembers
    <3>4. CASE (\E n \in Nodes : NodeEdit(g, n)) \/ SettingsEdit(g)
      BY <3>1, <3>4 DEF NodeEdit, SettingsEdit
    <3> QED
      BY <1>3, <3>2, <3>3, <3>4 DEF Change
  <2>3. edits' \in 0..MaxEdits
    <3>1. edits \in 0..MaxEdits /\ MaxEdits \in Nat
      BY <1>1, PublishAssumption DEF TypeOK
    <3> QED
      BY <2>1, <3>1 DEF Edit
  <2> QED
    BY <2>1, <2>2, <2>3, SpawnKeeps DEF Edit
<1> QED
  BY <1>2, <1>3

\* The secret changes and nobody publishes.
LEMMA KeptKeeps ==
  ASSUME IInv, SettingsKept
  PROVE  IInv'
<1>1. TypeOK /\ SettledInv
  BY DEF IInv
<1>2. edits' \in 0..MaxEdits
  <2>1. edits \in 0..MaxEdits /\ MaxEdits \in Nat
    BY <1>1, PublishAssumption DEF TypeOK
  <2> QED
    BY <2>1 DEF SettingsKept
<1>3. TypeOK' /\ SettledInv'
  BY <1>1, <1>2 DEF SettingsKept, TypeOK, SettledInv, local, disk, given, loaded
<1>4. ASSUME NEW g \in Publishers
      PROVE  LocalFor(g)' /\ CompleteFor(g)' /\ ExactFor(g)' /\ AloneFor(g)'
  <2>1. LocalFor(g) /\ CompleteFor(g) /\ AloneFor(g)
    BY DEF IInv
  <2>2. UNCHANGED <<table, rows, node, pc, late, local, disk, given, loaded, stable, alone>>
        /\ ~clean'[g]
    BY DEF SettingsKept
  <2>3. InService' = InService
    BY <2>2 DEF InService
  <2>4. /\ Reading(g)' = Reading(g) /\ Built(g)' = Built(g) /\ Config(g)' = Config(g)
        /\ \A p : Left(g, p)' = Left(g, p)
    BY <2>2 DEF Reading, Built, Left, Config, local
  <2>5. LocalFor(g)'
    BY <2>1, <2>2 DEF LocalFor, local, disk, given
  <2>6. CompleteFor(g)'
    BY <2>1, <2>2, <2>3, <2>4 DEF CompleteFor, local
  <2>7. AloneFor(g)'
    BY <2>1, <2>2, <2>4 DEF AloneFor, disk, loaded
  <2> QED
    BY <2>2, <2>5, <2>6, <2>7 DEF ExactFor
<1> QED
  BY <1>3, <1>4 DEF IInv

LEMMA ExpireKeeps ==
  ASSUME IInv, NEW g \in Publishers, Expire(g)
  PROVE  IInv'
<1>1. TypeOK /\ SettledInv /\ LocalFor(g) /\ CompleteFor(g) /\ AloneFor(g)
  BY DEF IInv
<1>2. TypeOK'
  BY <1>1 DEF Expire, TypeOK, tables, local, disk, given, loaded, since
<1>3. late'[g] = TRUE /\ \A h \in Publishers \ {g} : late'[h] = late[h]
  BY <1>1 DEF Expire, TypeOK
<1>4. InService' = InService
  BY DEF Expire, InService, tables
<1>5. \A h \in Publishers : stable[h] \subseteq InService
  BY DEF IInv, CompleteFor
<1>6. Others(g)
  BY <1>3, <1>4, <1>5 DEF Expire, Others, Still, tables, local, disk, given, since
<1>7. CompleteFor(g)' /\ ExactFor(g)'
  BY <1>1, <1>3, <1>4 DEF Expire, CompleteFor, ExactFor, since
<1>8. Config(g)' = Config(g)
  BY DEF Expire, Config, local
<1>9. LocalFor(g)' /\ AloneFor(g)'
  BY <1>1, <1>8 DEF Expire, LocalFor, AloneFor, local, disk, given, loaded, since
<1>10. SettledInv'
  <2>1. Wanted' = Wanted
    BY DEF Expire, Wanted, tables
  <2> QED
    BY <1>1, <2>1 DEF Expire, SettledInv, SoloSettles, disk, given, loaded
<1> QED
  BY <1>2, <1>6, <1>7, <1>9, <1>10, Frame

-----------------------------------------------------------------------------
(* Reading the tables.                                                     *)

LEMMA ReadKeeps ==
  ASSUME IInv, NEW g \in Publishers, Read(g)
  PROVE  IInv'
<1>1. /\ TypeOK /\ SettledInv /\ LocalFor(g) /\ CompleteFor(g) /\ ExactFor(g) /\ AloneFor(g)
      /\ \A h \in Publishers : stable[h] \subseteq InService
  BY DEF IInv, CompleteFor
<1>2. NoEffect
  BY DEF Read, ReadSettings, List, ReadFails, ReadRows, ReadNode
<1>3. \E s \in {"list", "rows", "nodes", "failed"} : Goto(g, s)
  BY DEF Read, ReadSettings, List, ReadFails, ReadRows, ReadNode
<1>4. pc[g] \in {"settings", "list", "rows", "nodes"}
  BY DEF Read, ReadSettings, List, ReadFails, ReadAll, ReadRows, ReadNode
<1>5. /\ pc \in [Publishers -> Places] /\ list \in [Publishers -> [Pools -> Exists \cup {"unborn", "gone"}]]
      /\ todo \in [Publishers -> SUBSET Pools] /\ at \in [Publishers -> Pools \cup {None}]
      /\ refs \in [Publishers -> SUBSET Nodes] /\ got \in [Publishers -> [Pools -> SUBSET Nodes]]
      /\ next \in [Publishers -> Secrets \cup {None}]
      /\ rows \in [Pools -> SUBSET Nodes] /\ secret \in Secrets
      /\ table \in [Pools -> Exists \cup {"unborn", "gone"}]
  BY <1>1 DEF TypeOK
<1>6. pc' \in [Publishers -> Places] /\ pc'[g] \in {"list", "rows", "nodes", "failed"}
  BY <1>3, <1>5 DEF Goto, Places
<1>7. InService' = InService /\ Wanted' = Wanted
  BY <1>2 DEF NoEffect, InService, Wanted, tables
<1> DEFINE Types ==
      /\ list' \in [Publishers -> [Pools -> Exists \cup {"unborn", "gone"}]]
      /\ todo' \in [Publishers -> SUBSET Pools] /\ at' \in [Publishers -> Pools \cup {None}]
      /\ refs' \in [Publishers -> SUBSET Nodes] /\ got' \in [Publishers -> [Pools -> SUBSET Nodes]]
      /\ next' \in [Publishers -> Secrets \cup {None}] /\ bearer' = bearer
      /\ \A h \in Publishers \ {g} : Still(h)
<1>8. Types
  <2> USE <1>5 DEF Still
  <2>0. \A h \in Publishers \ {g} : pc'[h] = pc[h] /\ late'[h] = late[h]
    BY <1>2, <1>3 DEF NoEffect, Goto
  <2>1. CASE ReadSettings(g)
    BY <2>0, <2>1 DEF ReadSettings
  <2>2. CASE List(g)
    BY <2>0, <2>2 DEF List
  <2>3. CASE ReadFails(g)
    BY <2>0, <2>3 DEF ReadFails, local
  <2>4. ASSUME NEW p \in Pools, ReadRows(g, p)
        PROVE  Types
    BY <2>0, <2>4 DEF ReadRows
  <2>5. ASSUME NEW n \in Nodes, ReadNode(g, n)
        PROVE  Types
    <3>1. at[g] \in Pools
      BY <1>1, <2>5 DEF ReadNode, LocalFor
    <3>2. got[g][at[g]] \cup {n} \in SUBSET Nodes
      BY <3>1
    <3>3. got' \in [Publishers -> [Pools -> SUBSET Nodes]]
      BY <2>5, <3>1, <3>2 DEF ReadNode
    <3>4. \A h \in Publishers \ {g} : got'[h] = got[h]
      BY <2>5 DEF ReadNode
    <3> QED
      BY <2>0, <2>5, <3>3, <3>4 DEF ReadNode
  <2> QED
    BY <2>1, <2>2, <2>3, <2>4, <2>5 DEF Read
<1>9. TypeOK'
  BY <1>1, <1>2, <1>6, <1>8 DEF TypeOK, NoEffect, tables, disk, given, loaded, since
<1>10. Others(g)
  BY <1>1, <1>2, <1>4, <1>7, <1>8
    DEF NoEffect, Others, tables, disk, given, since
<1>11. SettledInv'
  BY <1>1, <1>2, <1>4, <1>7 DEF NoEffect, SettledInv, given, loaded
<1>12. AloneFor(g)'
  BY <1>1, <1>2, <1>4, <1>6, <1>8 DEF AloneFor, NoEffect, since, Still
<1> DEFINE Known == LocalFor(g)' /\ CompleteFor(g)' /\ ExactFor(g)'
<1>13. /\ fd'[g] = fd[g] /\ fd[g] = "none" /\ stable' = stable /\ clean' = clean /\ late' = late
       /\ UNCHANGED <<table, rows, node, secret, binary>>
  BY <1>1, <1>2, <1>4 DEF NoEffect, LocalFor, disk, since, tables, given
<1> USE <1>5 DEF LocalFor, CompleteFor, ExactFor, Reading, Built
<1>14. ASSUME ReadSettings(g)
       PROVE  Known
  <2>1. /\ pc[g] = "settings" /\ pc'[g] = "list" /\ next'[g] = secret
        /\ UNCHANGED <<list, todo, at, refs, got>>
    BY <1>14 DEF ReadSettings, Goto
  <2> QED
    BY <1>1, <1>7, <1>13, <2>1
<1>15. ASSUME List(g)
       PROVE  Known
  <2>1. /\ pc[g] = "list" /\ pc'[g] = "rows" /\ list'[g] = table
        /\ todo'[g] = {p \in Pools : table[p] \in Exists}
        /\ UNCHANGED <<at, refs, got, next>>
    BY <1>15 DEF List, Goto
  <2>2. /\ got[g] = [p \in Pools |-> {}] /\ refs[g] = {} /\ next[g] \in Secrets
        /\ clean[g] /\ ~late[g] => next[g] = secret
    BY <1>1, <2>1
  <2>3. \A p \in Pools : table[p] = "on" => Left(g, p)' = Nodes
    BY <2>1 DEF Left, Exists
  <2>4. \A p \in Pools, n \in Nodes : <<p, n>> \in stable[g] => table[p] = "on"
    BY <1>1, Serves
  <2>5. CompleteFor(g)'
    BY <1>1, <1>7, <1>13, <2>1, <2>3, <2>4
  <2>6. ExactFor(g)'
    BY <1>13, <2>1, <2>2, <2>3
  <2>7. LocalFor(g)'
    BY <1>13, <2>1, <2>2
  <2> QED
    BY <2>5, <2>6, <2>7
<1>16. ASSUME ReadFails(g)
       PROVE  Known
  <2>1. pc'[g] = "failed" /\ refs[g] = {} /\ UNCHANGED local
    BY <1>1, <1>16 DEF ReadFails, ReadAll, Goto
  <2> QED
    BY <1>1, <1>7, <1>13, <2>1 DEF local
<1>17. ASSUME NEW p \in Pools, ReadRows(g, p)
       PROVE  Known
  <2>1. /\ pc[g] = "rows" /\ ~late[g] /\ p \in todo[g] /\ refs[g] = {}
        /\ pc'[g] = (IF rows[p] = {} THEN "rows" ELSE "nodes")
        /\ todo'[g] = todo[g] \ {p} /\ at'[g] = (IF rows[p] = {} THEN None ELSE p)
        /\ refs'[g] = rows[p] /\ UNCHANGED <<list, got, next>>
    BY <1>1, <1>17 DEF ReadRows, Goto
  <2>2. Left(g, p) = Nodes /\ Left(g, p)' = rows[p]
    BY <2>1 DEF Left
  <2>3. \A q \in Pools \ {p} : Left(g, q)' = Left(g, q)
    BY <2>1 DEF Left
  <2>4. \A n \in Nodes : <<p, n>> \in stable[g] => n \in rows[p]
    BY <1>1, Serves
  <2>5. CompleteFor(g)'
    BY <1>1, <1>7, <1>13, <2>1, <2>2, <2>3, <2>4
  <2>6. ExactFor(g)'
    BY <1>1, <1>13, <2>1, <2>2, <2>3
  <2> QED
    BY <1>1, <1>13, <2>1, <2>5, <2>6
<1>18. ASSUME NEW n \in Nodes, ReadNode(g, n)
       PROVE  Known
  <2>0. PICK p \in Pools \ todo[g] : p = at[g]
    BY <1>1, <1>18 DEF ReadNode
  <2>1. /\ pc[g] = "nodes" /\ n \in refs[g] /\ p = at[g]
        /\ pc'[g] = (IF refs[g] = {n} THEN "rows" ELSE "nodes")
        /\ refs'[g] = refs[g] \ {n} /\ at'[g] = (IF refs[g] = {n} THEN None ELSE p)
        /\ UNCHANGED <<list, todo, next>>
    BY <1>1, <1>18, <2>0 DEF ReadNode, Goto
  <2>2. got'[g] = [got[g] EXCEPT ![p] = IF Found(g, n) THEN @ \cup {n} ELSE @]
    BY <1>18, <2>1, <2>0 DEF ReadNode
  <2>3. Left(g, p) = refs[g] /\ Left(g, p)' = refs[g] \ {n}
    BY <2>1 DEF Left
  <2>4. \A q \in Pools \ {p} : Left(g, q)' = Left(g, q)
    BY <2>1 DEF Left
  <2>5. <<p, n>> \in stable[g] => node[n] = "on"
    BY <1>1, <2>1, Serves
  <2>6. CompleteFor(g)'
    <3>1. ASSUME ~late[g], NEW q \in Pools, NEW m \in Nodes, <<q, m>> \in stable[g]
          PROVE  list[g][q] = "on" /\ m \in got'[g][q] \cup Left(g, q)'
      <4>1. list[g][q] = "on" /\ m \in got[g][q] \cup Left(g, q)
        BY <1>1, <2>1, <3>1
      <4>2. CASE q = p
        BY ZenonT(30), <2>2, <2>3, <2>5, <3>1, <4>1, <4>2 DEF Found
      <4>3. CASE q # p
        BY <2>2, <2>4, <4>1, <4>3
      <4> QED
        BY <4>2, <4>3
    <3> QED
      BY <1>1, <1>7, <1>13, <2>1, <3>1
  <2>7. ExactFor(g)'
    BY <1>1, <1>13, <2>1, <2>2, <2>3, <2>4 DEF Found
  <2> QED
    BY <1>1, <1>13, <2>1, <2>6, <2>7
<1> QED
  BY <1>9, <1>10, <1>11, <1>12, <1>14, <1>15, <1>16, <1>17, <1>18, Frame DEF Read

\* What has been read stays right on the way from the tables to the instance.
LEMMA Forward ==
  ASSUME IInv, NEW g \in Publishers, Built(g) \/ ReadAll(g),
         UNCHANGED <<table, rows, node, secret, late, list, at, refs, got, next, stable, clean>>,
         pc'[g] \notin {"idle", "settings", "list", "rows", "nodes"}
  PROVE  CompleteFor(g)' /\ ExactFor(g)'
<1>1. CompleteFor(g) /\ ExactFor(g) /\ LocalFor(g)
  BY DEF IInv
<1>2. \A p \in Pools : Left(g, p) = {} /\ Left(g, p)' = {}
  BY <1>1 DEF Left, Reading, Built, ReadAll, LocalFor
<1>3. ~Reading(g)' /\ pc[g] \notin {"idle", "settings", "list", "nodes", "failed"}
  BY DEF Reading, Built, ReadAll
<1>4. InService' = InService
  BY DEF InService
<1>5. Reading(g) \/ Built(g)
  BY DEF Reading, ReadAll
<1>6. CompleteFor(g)'
  BY <1>1, <1>2, <1>3, <1>4, <1>5 DEF CompleteFor
<1>7. ExactFor(g)'
  BY <1>1, <1>2, <1>3, <1>5 DEF ExactFor
<1> QED
  BY <1>6, <1>7

-----------------------------------------------------------------------------
(* Saving the configuration.                                               *)

LEMMA SaveKeeps ==
  ASSUME IInv, NEW g \in Publishers, Save(g)
  PROVE  IInv'
<1>1. TypeOK /\ SettledInv /\ LocalFor(g) /\ AloneFor(g)
      /\ \A h \in Publishers : stable[h] \subseteq InService
  BY DEF IInv, CompleteFor
<1>2. FileStep
  BY DEF Save, OpenTmp, WriteTmp, RenameTmp, RenameFails
<1>3. /\ pc \in [Publishers -> Places]
      /\ tmp \in Configs \cup {Missing, Empty, Mixed} /\ file \in Configs \cup {Empty, Mixed}
      /\ fd \in [Publishers -> {"none", "tmp", "file", "lost"}]
  BY <1>1 DEF TypeOK
<1>4. /\ pc[g] \in {"rows", "write", "rename"} /\ (Built(g) \/ ReadAll(g))
      /\ pc'[g] \in {"write", "rename", "secret", "failed"} /\ pc' \in [Publishers -> Places]
      /\ \A h \in Publishers \ {g} : pc'[h] = pc[h] /\ (fd'[h] = "none" \/ fd[h] # "none")
  <2>1. /\ pc[g] \in {"rows", "write", "rename"} /\ (Built(g) \/ ReadAll(g))
        /\ \E s \in {"write", "rename", "secret", "failed"} : Goto(g, s)
    BY DEF Save, OpenTmp, WriteTmp, RenameTmp, RenameFails, ReadAll, Built
  <2>2. \A h \in Publishers \ {g} : fd'[h] = "none" \/ fd[h] # "none"
    BY <1>3 DEF Save, OpenTmp, WriteTmp, RenameTmp, RenameFails, disk
  <2>3. ASSUME NEW s \in {"write", "rename", "secret", "failed"}, Goto(g, s)
        PROVE  /\ pc'[g] = s /\ pc' \in [Publishers -> Places]
               /\ \A h \in Publishers \ {g} : pc'[h] = pc[h]
    BY <1>3, <2>3 DEF Goto, Places
  <2> QED
    BY <2>1, <2>2, <2>3
<1>5. next[g] \in Secrets /\ Config(g) \in Configs /\ Config(g) \notin {None, Missing, Empty, Mixed}
  BY <1>1, <1>4, ConfigType DEF LocalFor
<1>6. InService' = InService /\ Config(g)' = Config(g)
  BY <1>2 DEF FileStep, InService, Config, tables, local
<1>7. CompleteFor(g)' /\ ExactFor(g)'
  BY <1>2, <1>4, Forward DEF FileStep, tables, local, since
<1>8. /\ tmp' \in Configs \cup {Missing, Empty, Mixed} /\ file' \in Configs \cup {Empty, Mixed}
      /\ fd' \in [Publishers -> {"none", "tmp", "file", "lost"}]
  <2>1. CASE OpenTmp(g)
    BY <1>3, <2>1 DEF OpenTmp
  <2>2. CASE WriteTmp(g)
    BY <1>3, <1>5, <2>2 DEF WriteTmp, Over
  <2>3. CASE RenameTmp(g)
    BY <1>3, <2>3 DEF RenameTmp
  <2>4. CASE RenameFails(g)
    BY <1>3, <2>4 DEF RenameFails, disk
  <2> QED
    BY <2>1, <2>2, <2>3, <2>4 DEF Save
<1>9. TypeOK'
  BY <1>1, <1>2, <1>4, <1>8 DEF TypeOK, FileStep, tables, local, given, loaded, since
<1>10. Others(g)
  <2>1. \A h \in Publishers \ {g} : Still(h)
    BY <1>2, <1>4 DEF FileStep, Still, local
  <2>2. UNCHANGED <<table, rows, node, secret, binary, stable, clean, alone>> /\ pc[g] # "idle"
    BY <1>2, <1>4 DEF FileStep, tables, given, since
  <2> QED
    BY <1>1, <1>4, <1>6, <2>1, <2>2 DEF Others
<1>11. SettledInv'
  BY <1>1, <1>2, <1>4 DEF FileStep, SettledInv, given, loaded
<1>12. LocalFor(g)' /\ AloneFor(g)'
  <2> USE <1>3 DEF LocalFor, AloneFor
  <2>0. /\ UNCHANGED <<alone, refs, next, binary, live>>
        /\ alone[g] => \A h \in Publishers \ {g} : pc'[h] = "idle"
    BY <1>1, <1>2, <1>4 DEF FileStep, local, given, loaded, since
  <2>1. CASE OpenTmp(g)
    BY <1>1, <1>4, <1>5, <2>0, <2>1 DEF OpenTmp, ReadAll, Goto
  <2>2. CASE WriteTmp(g)
    BY <1>1, <1>4, <1>5, <1>6, <2>0, <2>2 DEF WriteTmp, Over, Goto
  <2>3. CASE RenameTmp(g)
    BY <1>1, <1>4, <1>5, <1>6, <2>0, <2>3 DEF RenameTmp, Goto
  <2>4. CASE RenameFails(g)
    BY <1>1, <1>4, <2>0, <2>4 DEF RenameFails, Goto, disk
  <2> QED
    BY <2>1, <2>2, <2>3, <2>4 DEF Save
<1> QED
  BY <1>7, <1>9, <1>10, <1>11, <1>12, Frame

-----------------------------------------------------------------------------
(* Loading it.                                                             *)

LEMMA LoadedType ==
  ASSUME TypeOK
  PROVE  Loaded \in Configs \cup {None}
  BY DEF TypeOK, Loaded

LEMMA LoadKeeps ==
  ASSUME IInv, NEW g \in Publishers, Load(g)
  PROVE  IInv'
<1>1. TypeOK /\ SettledInv /\ LocalFor(g) /\ ExactFor(g) /\ AloneFor(g)
      /\ \A h \in Publishers : stable[h] \subseteq InService
  BY DEF IInv, CompleteFor
<1> DEFINE Step == CurrentSecret(g) \/ Put(g) \/ PutFails(g) \/ Stop(g) \/ Start(g)
                   \/ StartFails(g) \/ Silent(g)
           Done == NoBinary(g) \/ Answers(g)
<1>2. Step \/ Done
  BY DEF Load
<1>3. LoadStep /\ UNCHANGED <<list, at, refs, got, next>>
  BY DEF Load, NoBinary, Applied, CurrentSecret, Put, PutFails, Stop, Start, StartFails,
         Answers, Silent, local
<1>4. /\ pc[g] \in {"secret", "put", "stop", "start", "check"}
      /\ \E s \in {"put", "stop", "start", "check", "mark", "failed"} : Goto(g, s)
  BY DEF Load, NoBinary, Applied, CurrentSecret, Put, PutFails, Stop, Start, StartFails,
         Answers, Silent
<1>5. /\ pc' \in [Publishers -> Places]
      /\ pc'[g] \in {"put", "stop", "start", "check", "mark", "failed"}
      /\ \A h \in Publishers \ {g} : pc'[h] = pc[h]
  <2>1. pc \in [Publishers -> Places]
    BY <1>1 DEF TypeOK
  <2>2. ASSUME NEW s \in {"put", "stop", "start", "check", "mark", "failed"}, Goto(g, s)
        PROVE  /\ pc'[g] = s /\ pc' \in [Publishers -> Places]
               /\ \A h \in Publishers \ {g} : pc'[h] = pc[h]
    BY <2>1, <2>2 DEF Goto, Places
  <2> QED
    BY <1>4, <2>2
<1>6. next[g] \in Secrets /\ Config(g) \in Configs /\ Config(g) \notin {None, Missing, Empty, Mixed}
  BY <1>1, <1>4, ConfigType DEF LocalFor
<1>7. InService' = InService /\ Wanted' = Wanted /\ Config(g)' = Config(g)
  BY <1>3 DEF LoadStep, InService, Wanted, Config, tables
<1>8. Built(g) /\ CompleteFor(g)' /\ ExactFor(g)'
  BY <1>3, <1>4, <1>5, Forward DEF Built, LoadStep, tables, since
<1>9. /\ todo' \in [Publishers -> SUBSET Pools] /\ bearer' \in [Publishers -> Secrets \cup {None}]
      /\ live' \in Configs \cup {None} /\ held' \in Secrets /\ settled' \in BOOLEAN
      /\ \A h \in Publishers \ {g} : todo'[h] = todo[h]
  <2>1. /\ todo \in [Publishers -> SUBSET Pools] /\ bearer \in [Publishers -> Secrets \cup {None}]
        /\ live \in Configs \cup {None} /\ held \in Secrets /\ settled \in BOOLEAN
        /\ target \in [Publishers -> Pools \cup {All}]
        /\ clean \in [Publishers -> BOOLEAN] /\ alone \in [Publishers -> BOOLEAN]
        /\ late \in [Publishers -> BOOLEAN]
    BY <1>1 DEF TypeOK
  <2>2. CASE Step
    BY <1>1, <1>6, <2>1, <2>2, LoadedType
      DEF CurrentSecret, Put, PutFails, Stop, Start, StartFails, Silent, local, loaded
  <2>3. CASE Done
    <3>1. Applied(g)
      BY <2>3 DEF NoBinary, Answers
    <3>2. ToMark(g) \in SUBSET Pools
      BY <2>1 DEF ToMark
    <3> QED
      BY <1>6, <2>1, <3>1, <3>2 DEF Applied
  <2> QED
    BY <1>2, <2>2, <2>3
<1>10. TypeOK'
  BY <1>1, <1>3, <1>5, <1>9 DEF TypeOK, LoadStep, tables, disk, given, since
<1>11. Others(g)
  BY <1>1, <1>3, <1>4, <1>5, <1>7, <1>9
    DEF Others, Still, LoadStep, tables, disk, given, since
<1>12. LocalFor(g)'
  <2>1. pc'[g] \in {"put", "stop", "start", "check"} => binary
    BY ZenonT(30), <1>1, <1>4, <1>5
      DEF LocalFor, Load, NoBinary, Answers, Applied, CurrentSecret, Put, PutFails, Stop, Start,
          StartFails, Silent, Goto, TypeOK
  <2> QED
    BY <1>1, <1>3, <1>4, <1>5, <2>1 DEF LocalFor, LoadStep, disk, given
<1>13. ~settled
  BY <1>1, <1>4 DEF SettledInv
<1>14. AloneFor(g)'
  <2>1. /\ UNCHANGED <<alone, tmp, file>>
        /\ alone[g] => file = Config(g) /\ \A h \in Publishers \ {g} : pc'[h] = "idle"
    BY <1>1, <1>3, <1>4, <1>5 DEF AloneFor, LoadStep, since, disk
  <2>2. alone[g] /\ pc'[g] \in {"start", "check"} => live' \in {None, Config(g)}
    <3>1. alone[g] => Loaded = Config(g)
      BY <1>6, <2>1 DEF Loaded
    <3>2. CASE Put(g) \/ Stop(g)
      BY <3>2 DEF Put, Stop
    <3>3. CASE Start(g)
      BY <1>1, <3>1, <3>3 DEF Start, AloneFor
    <3>4. CASE Done \/ CurrentSecret(g) \/ PutFails(g) \/ StartFails(g) \/ Silent(g)
      <4>1. pc'[g] \notin {"start", "check"}
        BY <1>5, <3>4 DEF NoBinary, Answers, Applied, CurrentSecret, PutFails, StartFails,
                          Silent, Goto
      <4> QED
        BY <4>1
    <3> QED
      BY <1>2, <3>2, <3>3, <3>4
  <2> QED
    BY <1>5, <1>7, <2>1, <2>2 DEF AloneFor
<1>15. SettledInv'
  <2>1. CASE Step
    BY <1>1, <1>3, <1>13, <2>1
      DEF SettledInv, LocalFor, LoadStep, given, loaded, CurrentSecret, Put, PutFails, Stop, Start,
          StartFails, Silent
  <2>2. CASE Done
    <3>1. /\ Applied(g) /\ live' = live /\ binary' = binary /\ file' = file
          /\ settled' => clean[g] /\ alone[g] /\ ~late[g]
      BY <1>3, <2>2 DEF NoBinary, Answers, Applied, LoadStep, given, disk
    <3>2. clean[g] /\ ~late[g] => Config(g) = Wanted
      BY <1>1, <1>8, Faithful
    <3>3. alone[g] => file = Config(g) /\ live \in {None, Config(g)}
      BY <1>1, <2>2 DEF AloneFor, NoBinary, Answers, SettledInv
    <3>4. held' = Config(g).secret
      BY <3>1 DEF Applied, Config
    <3>5. settled' => \A h \in Publishers : pc'[h] \in {"idle", "mark"}
      BY <1>1, <1>5, <3>1 DEF Applied, AloneFor, Goto, TypeOK
    <3> QED
      BY <1>1, <1>7, <3>1, <3>2, <3>3, <3>4, <3>5 DEF SettledInv, SoloSettles
  <2> QED
    BY <1>2, <2>1, <2>2
<1> QED
  BY <1>8, <1>10, <1>11, <1>12, <1>14, <1>15, Frame

\* The instance dies, or comes back from the file.
LEMMA InstanceKeeps ==
  ASSUME IInv, Crash \/ Respawn
  PROVE  IInv'
<1>1. TypeOK /\ SettledInv
  BY DEF IInv
<1>2. /\ UNCHANGED <<tables, runs, status, pc, target, late, local, disk, given, held, since, settled>>
      /\ \/ live' = None
         \/ live' = Loaded /\ binary
  BY DEF Crash, Respawn
<1>3. TypeOK'
  BY <1>1, <1>2, LoadedType DEF TypeOK, tables, local, disk, given, since
<1>4. InService' = InService /\ Wanted' = Wanted
  BY <1>2 DEF InService, Wanted, tables
<1>5. SettledInv'
  <2>1. settled => Loaded \in {None, Wanted}
    BY <1>1 DEF SettledInv, SoloSettles, Loaded
  <2> QED
    BY <1>1, <1>2, <1>4, <2>1 DEF SettledInv, SoloSettles, disk, given
<1>6. ASSUME NEW g \in Publishers
      PROVE  LocalFor(g)' /\ CompleteFor(g)' /\ ExactFor(g)' /\ AloneFor(g)'
  <2>1. LocalFor(g) /\ CompleteFor(g) /\ ExactFor(g) /\ AloneFor(g)
    BY DEF IInv
  <2>2. /\ Reading(g)' = Reading(g) /\ Built(g)' = Built(g) /\ Config(g)' = Config(g)
        /\ \A p : Left(g, p)' = Left(g, p)
    BY <1>2 DEF Reading, Built, Left, Config, local
  <2>3. LocalFor(g)'
    BY <1>2, <2>1 DEF LocalFor, local, disk, given
  <2>4. CompleteFor(g)'
    BY <1>2, <1>4, <2>1, <2>2 DEF CompleteFor, local, since
  <2>5. ExactFor(g)'
    BY <1>2, <2>1, <2>2 DEF ExactFor, local, since, tables
  <2>6. file = Config(g) => Loaded \in {None, Config(g)}
    BY DEF Loaded
  <2>7. AloneFor(g)'
    BY <1>2, <2>1, <2>2, <2>6 DEF AloneFor, disk, since
  <2> QED
    BY <2>3, <2>4, <2>5, <2>7
<1> QED
  BY <1>3, <1>5, <1>6 DEF IInv

-----------------------------------------------------------------------------
(* Recording the outcome.                                                  *)

LEMMA MarkKeeps ==
  ASSUME IInv, NEW g \in Publishers, Mark(g)
  PROVE  IInv'
<1>1. TypeOK /\ SettledInv /\ LocalFor(g) /\ AloneFor(g)
      /\ \A h \in Publishers : stable[h] \subseteq InService
  BY DEF IInv, CompleteFor
<1>2. /\ UNCHANGED <<tables, runs, disk, given, loaded, settled>> /\ pc[g] \in {"mark", "failed"}
      /\ status' \in [Pools -> {"", "published", "failed"}]
  <2>1. status \in [Pools -> {"", "published", "failed"}]
    BY <1>1 DEF TypeOK
  <2>2. CASE MarkDone(g) \/ MarkFailed(g)
    BY <2>1, <2>2 DEF MarkDone, MarkFailed, Forget
  <2>3. CASE \E p \in Pools : MarkPool(g, p)
    BY <2>1, <2>3 DEF MarkPool
  <2> QED
    BY <2>2, <2>3 DEF Mark
<1>3. InService' = InService /\ Wanted' = Wanted
  BY <1>2 DEF InService, Wanted, tables
<1>4. /\ pc \in [Publishers -> Places] /\ target \in [Publishers -> Pools \cup {All}]
      /\ late \in [Publishers -> BOOLEAN]
      /\ list \in [Publishers -> [Pools -> Exists \cup {"unborn", "gone"}]]
      /\ todo \in [Publishers -> SUBSET Pools] /\ at \in [Publishers -> Pools \cup {None}]
      /\ refs \in [Publishers -> SUBSET Nodes] /\ got \in [Publishers -> [Pools -> SUBSET Nodes]]
      /\ next \in [Publishers -> Secrets \cup {None}]
      /\ bearer \in [Publishers -> Secrets \cup {None}]
      /\ stable \in [Publishers -> SUBSET (Pools \X Nodes)]
      /\ clean \in [Publishers -> BOOLEAN] /\ alone \in [Publishers -> BOOLEAN]
  BY <1>1 DEF TypeOK
<1>5. ASSUME NEW p \in Pools, MarkPool(g, p)
      PROVE  IInv'
  <2>1. /\ UNCHANGED <<pc, target, late, list, at, refs, got, next, bearer, since>>
        /\ todo' = [todo EXCEPT ![g] = @ \ {p}] /\ pc[g] = "mark"
    BY <1>5 DEF MarkPool
  <2>2. TypeOK'
    BY <1>1, <1>2, <1>4, <2>1 DEF TypeOK, tables, disk, given, loaded, since
  <2>3. CompleteFor(g)' /\ ExactFor(g)'
    BY <1>2, <2>1, Forward DEF Built, tables, since
  <2>4. Config(g)' = Config(g)
    BY <2>1 DEF Config
  <2>5. LocalFor(g)' /\ AloneFor(g)' /\ SettledInv'
    BY <1>1, <1>2, <1>3, <2>1, <2>4
      DEF LocalFor, AloneFor, SettledInv, SoloSettles, disk, given, loaded, since
  <2>6. Others(g)
    BY <1>1, <1>2, <1>3, <1>4, <2>1 DEF Others, Still, tables, disk, given, since
  <2> QED
    BY <2>2, <2>3, <2>5, <2>6, Frame
<1>6. ASSUME Goto(g, "idle"), Forget(g)
      PROVE  IInv'
  <2>1. /\ pc'[g] = "idle" /\ refs'[g] = {} /\ got'[g] = [p \in Pools |-> {}]
        /\ stable'[g] = {} /\ ~clean'[g] /\ ~alone'[g]
        /\ \A h \in Publishers \ {g} : /\ Still(h) /\ stable'[h] = stable[h]
                                       /\ clean'[h] = clean[h] /\ alone'[h] = alone[h]
    BY <1>4, <1>6 DEF Goto, Forget, Still
  <2>2. /\ pc' \in [Publishers -> Places] /\ target' \in [Publishers -> Pools \cup {All}]
        /\ late' \in [Publishers -> BOOLEAN]
        /\ list' \in [Publishers -> [Pools -> Exists \cup {"unborn", "gone"}]]
        /\ todo' \in [Publishers -> SUBSET Pools] /\ at' \in [Publishers -> Pools \cup {None}]
        /\ refs' \in [Publishers -> SUBSET Nodes] /\ got' \in [Publishers -> [Pools -> SUBSET Nodes]]
        /\ next' \in [Publishers -> Secrets \cup {None}]
        /\ bearer' \in [Publishers -> Secrets \cup {None}]
    BY <1>4, <1>6 DEF Goto, Forget, Places
  <2>3. /\ stable' \in [Publishers -> SUBSET (Pools \X Nodes)]
        /\ clean' \in [Publishers -> BOOLEAN] /\ alone' \in [Publishers -> BOOLEAN]
    BY <1>4, <1>6 DEF Forget
  <2>4. TypeOK'
    BY <1>1, <1>2, <2>2, <2>3 DEF TypeOK, tables, disk, given, loaded
  <2>5. LocalFor(g)' /\ CompleteFor(g)' /\ ExactFor(g)' /\ AloneFor(g)'
    BY <1>1, <1>2, <2>1 DEF LocalFor, CompleteFor, ExactFor, AloneFor, Reading, Built, disk
  <2>6. SettledInv'
    BY <1>1, <1>2, <1>3, <2>1 DEF SettledInv, SoloSettles, Still, disk, given, loaded
  <2>7. Others(g)
    BY <1>1, <1>2, <1>3, <2>1 DEF Others, tables, disk, given
  <2> QED
    BY <2>4, <2>5, <2>6, <2>7, Frame
<1> QED
  BY <1>5, <1>6 DEF Mark, MarkDone, MarkFailed

-----------------------------------------------------------------------------
LEMMA StepIInv ==
  ASSUME IInv, [Next]_vars
  PROVE  IInv'
<1>1. CASE UNCHANGED vars
  <2>1. InService' = InService /\ Wanted' = Wanted
    BY <1>1 DEF vars, tables, InService, Wanted
  <2>2. TypeOK' /\ SettledInv'
    BY <1>1, <2>1 DEF IInv, vars, tables, local, disk, given, loaded, since, TypeOK, SettledInv,
                      SoloSettles
  <2>3. ASSUME NEW g \in Publishers
        PROVE  LocalFor(g)' /\ CompleteFor(g)' /\ ExactFor(g)' /\ AloneFor(g)'
    <3>1. LocalFor(g) /\ CompleteFor(g) /\ ExactFor(g) /\ AloneFor(g)
      BY DEF IInv
    <3>2. /\ Reading(g)' = Reading(g) /\ Built(g)' = Built(g) /\ Config(g)' = Config(g)
          /\ \A p : Left(g, p)' = Left(g, p)
      BY <1>1 DEF vars, Reading, Built, Left, Config, local
    <3>3. LocalFor(g)' /\ AloneFor(g)'
      BY <1>1, <3>1, <3>2 DEF LocalFor, AloneFor, vars, local, disk, given, loaded, since
    <3>4. CompleteFor(g)' /\ ExactFor(g)'
      BY <1>1, <2>1, <3>1, <3>2 DEF CompleteFor, ExactFor, vars, tables, local, since
    <3> QED
      BY <3>3, <3>4
  <2> QED
    BY <2>2, <2>3 DEF IInv
<1> QED
  BY <1>1, ChangeKeeps, ExpireKeeps, ReadKeeps, SaveKeeps, LoadKeeps, MarkKeeps, KeptKeeps,
     InstanceKeeps
    DEF Next

LEMMA Inductive == Spec => []IInv
  BY InitIInv, StepIInv, PTL DEF Spec

\* Type correctness of publishing.
THEOREM Typed == Spec => []TypeOK
<1>1. IInv => TypeOK
  BY DEF IInv
<1>2. QED
  BY <1>1, Inductive, PTL

\* What is in service all the time a publish takes is in what it builds.
THEOREM Completed == Spec => []Complete
<1>1. IInv => Complete
  <2> SUFFICES ASSUME IInv, NEW g \in Publishers, Built(g), ~late[g],
                      NEW p \in Pools, NEW n \in Nodes, <<p, n>> \in stable[g]
               PROVE  Config(g).pools[p] # None /\ n \in Config(g).pools[p]
    BY DEF Complete
  <2>1. list[g][p] = "on" /\ n \in got[g][p] \cup Left(g, p)
    BY DEF IInv, CompleteFor
  <2>2. Left(g, p) = {}
    BY DEF Left, Reading, Built
  <2>3. Config(g).pools[p] = got[g][p] /\ got[g][p] \in SUBSET Nodes
    <3>1. got \in [Publishers -> [Pools -> SUBSET Nodes]]
      BY DEF IInv, TypeOK
    <3> QED
      BY <2>1, <3>1 DEF Config
  <2> QED
    BY <2>1, <2>2, <2>3, PublishAssumption
<1>2. QED
  BY <1>1, Inductive, PTL

\* A piecemeal read that no edit meets is a snapshot.
THEOREM Snapshot == Spec => []Exact
<1>1. IInv => Exact
  BY Faithful DEF IInv, Exact
<1>2. QED
  BY <1>1, Inductive, PTL

\* A publish that succeeds alone leaves file, instance and secret as wanted.
THEOREM Settles == Spec => []SoloSettles
<1>1. IInv => SoloSettles
  BY DEF IInv, SettledInv, SoloSettles
<1>2. QED
  BY <1>1, Inductive, PTL
=============================================================================
