----------------------------- MODULE ProbeProofs -----------------------------
(***************************************************************************)
(* The safety of the probe service for any number of tests, nodes, slots,  *)
(* edits and publishes: IInv of Probe is inductive.                        *)
(***************************************************************************)
EXTENDS Probe, TLAPS

\* Every step is one of these.
LEMMA Cases ==
  ASSUME [Next]_vars
  PROVE  \/ \E j \in Jobs : \/ Enqueue(j) \/ Start(j) \/ Vanish(j) \/ Acquire(j)
                            \/ GiveUp(j) \/ Lookup(j) \/ Read(j) \/ Lock(j)
                            \/ Reload(j) \/ ReloadFails(j) \/ Select(j)
                            \/ SelectFails(j) \/ Announce(j) \/ Finish(j)
                            \/ Clear(j) \/ Release(j)
         \/ \E j \in Jobs, n \in 0 .. NumSlots : Reapply(j, n)
         \/ \E y \in Types : Dequeue(y) \/ Dispatch(y)
         \/ \E y \in Types, n \in 1 .. MaxSetting : SetLimit(y, n)
         \/ \E n \in Nodes, v \in {"on", "off", "gone"} : Edit(n, v)
         \/ PublishReads \/ PublishEnds \/ ProbeRestarts \/ Cancel
         \/ UNCHANGED vars
  BY DEF Next, Test, Terminated

\* A speed test that owns a slot owns it alone, and its selection is recorded
\* while the test relies on it.
LEMMA Sole ==
  ASSUME IInv, NEW i \in SpeedJobs, pc[i] \in Owning
  PROVE  /\ slot[i] \in Slots /\ Owners(slot[i]) = {i}
         /\ pc[i] \in Relying => selections[slot[i]] = node[i]
         /\ \A k \in SpeedJobs : pc[k] \in Owning /\ slot[k] = slot[i] => k = i
<1>1. slot[i] \in Slots
  BY DEF IInv, Staged, Jobs
<1>2. i \in Owners(slot[i])
  BY DEF Owners
<1>3. Owners(slot[i]) = {i}
  BY <1>1, <1>2 DEF IInv, SlotsConserved
<1>4. pc[i] \in Relying => selections[slot[i]] = node[i]
  BY <1>1, <1>3 DEF IInv, SelectionsOwned
<1>5. QED
  BY <1>1, <1>3, <1>4 DEF Owners

\* The slots in use are slots.
LEMMA InUseSlots ==
  ASSUME IInv
  PROVE  InUse \subseteq Slots
  BY DEF InUse, IInv, Staged, Owning, Active, Jobs

\* What a reload leaves behind has the right type.
LEMMA LoadTyped ==
  ASSUME IInv, NEW inv, LoadConfig(inv)
  PROVE  /\ file' \subseteq Nodes /\ loaded' \subseteq Nodes /\ selected' \in [Slots -> Nodes \cup {None}]
         /\ disturbed' \subseteq Slots
  BY InUseSlots DEF LoadConfig, Enabled, IInv, TypeOK

LEMMA TypeStep ==
  ASSUME IInv, [Next]_vars
  PROVE  TypeOK'
<1> USE ProbeAssumption DEF IInv, TypeOK, Staged, Owning, Jobs, Types, TypeOf, Slots, Active, Inventories, NoSnap, tests, queues, shared, mihomo, rest, Hop, Goto
<1>1. ASSUME NEW j \in Jobs, Enqueue(j) PROVE TypeOK'
  BY SMTT(30), <1>1 DEF Enqueue, HasRoom
<1>2. ASSUME NEW y \in Types, Dequeue(y) PROVE TypeOK'
  <2>1. queue[y] \in Seq(Jobs) /\ queue[y] # <<>>
    BY <1>2 DEF Dequeue
  <2>2. Head(queue[y]) \in Jobs /\ Tail(queue[y]) \in Seq(Jobs) /\ Len(Tail(queue[y])) <= QueueCap
    BY <2>1
  <2>3. held' \in [Types -> Jobs \cup {None}]
    BY <1>2, <2>2 DEF Dequeue
  <2>4. queue' \in [Types -> Seq(Jobs)] /\ \A x \in Types : Len(queue'[x]) <= QueueCap
    BY <1>2, <2>2 DEF Dequeue
  <2>5. QED
    BY <1>2, <2>3, <2>4 DEF Dequeue
<1>3. ASSUME NEW y \in Types, Dispatch(y) PROVE TypeOK'
  BY <1>3 DEF Dispatch
<1>4. ASSUME NEW j \in Jobs, Start(j) PROVE TypeOK'
  BY <1>4 DEF Start
<1>5. ASSUME NEW j \in Jobs, Vanish(j) PROVE TypeOK'
  BY <1>5 DEF Vanish
<1>6. ASSUME NEW j \in Jobs, Acquire(j) PROVE TypeOK'
  BY <1>6 DEF Acquire
<1>7. ASSUME NEW j \in Jobs, GiveUp(j) PROVE TypeOK'
  BY <1>7 DEF GiveUp
<1>8. ASSUME NEW j \in Jobs, Lookup(j) PROVE TypeOK'
  BY <1>8 DEF Lookup
<1>9. ASSUME NEW j \in Jobs, Read(j) PROVE TypeOK'
  BY <1>9 DEF Read
<1>10. ASSUME NEW j \in Jobs, Lock(j) PROVE TypeOK'
  BY <1>10 DEF Lock
<1>11. ASSUME NEW j \in Jobs, Reload(j) PROVE TypeOK'
  BY <1>11, LoadTyped DEF Reload
<1>12. ASSUME NEW j \in Jobs, ReloadFails(j) PROVE TypeOK'
  <2>1. CASE LoadConfig(snap[j])
    BY <1>12, <2>1, LoadTyped DEF ReloadFails, Withdraw, Drop
  <2>2. CASE WriteConfig(snap[j])
    BY <1>12, <2>2 DEF ReloadFails, Withdraw, Drop, WriteConfig, Enabled
  <2>3. CASE UNCHANGED mihomo
    BY <1>12, <2>3 DEF ReloadFails, Withdraw, Drop
  <2>4. QED
    BY <1>12, <2>1, <2>2, <2>3 DEF ReloadFails
<1>13. ASSUME NEW j \in Jobs, NEW n \in 0 .. NumSlots, Reapply(j, n) PROVE TypeOK'
  <2>1. selected' \in [Slots -> Nodes \cup {None}]
    BY <1>13 DEF Reapply, Pointed
  <2>2. snap' \in [Jobs -> Inventories] /\ cacheKey' \in Inventories \cup {None}
    <3>1. snap' = [snap EXCEPT ![j] = NoSnap] /\ NoSnap \in Inventories
      BY <1>13 DEF Reapply, Withdraw, Drop
    <3>2. cacheKey' \in {snap[j], cacheKey}
      BY <1>13 DEF Reapply, Withdraw
    <3>3. QED
      BY <3>1, <3>2
  <2>3. selections' \in [Slots -> Nodes \cup {None}]
    BY ZenonT(30), <1>13 DEF Reapply, Withdraw
  <2>4. pc' \in [Jobs -> Active \cup {"idle", "queued", "done"}]
    <3>1. \E to \in {"announce", "fail"} : pc' = [pc EXCEPT ![j] = to]
      BY <1>13 DEF Reapply, Withdraw
    <3>2. QED
      BY <3>1
  <2>5. disturbed' \subseteq Slots /\ mutex' = None
    BY <1>13 DEF Reapply, Withdraw
  <2>6. UNCHANGED <<node, slot, file, loaded, queues, rest>>
    BY <1>13 DEF Reapply
  <2>7. QED
    BY <2>1, <2>2, <2>3, <2>4, <2>5, <2>6
<1>14. ASSUME NEW j \in Jobs, Select(j) PROVE TypeOK'
  BY ZenonT(30), <1>14 DEF Select, Drop
<1>15. ASSUME NEW j \in Jobs, SelectFails(j) PROVE TypeOK'
  BY <1>15 DEF SelectFails, Withdraw, Drop
<1>16. ASSUME NEW j \in Jobs, Announce(j) PROVE TypeOK'
  <2>1. status' \in [Nodes -> {"rest", "testing"}]
    BY <1>16 DEF Announce, Write
  <2>2. QED
    BY <1>16, <2>1 DEF Announce
<1>17. ASSUME NEW j \in Jobs, Finish(j) PROVE TypeOK'
  <2>1. status' \in [Nodes -> {"rest", "testing"}]
    BY <1>17 DEF Finish, Write
  <2>2. QED
    BY <1>17, <2>1 DEF Finish, Then
<1>18. ASSUME NEW j \in Jobs, Clear(j) PROVE TypeOK'
  BY <1>18 DEF Clear, Then
<1>19. ASSUME NEW j \in Jobs, Release(j) PROVE TypeOK'
  <2>1. pc[j] = "release" /\ pc' = [pc EXCEPT ![j] = Then(j, "release")]
    BY <1>19 DEF Release
  <2>2. pc' \in [Jobs -> Active \cup {"idle", "queued", "done"}]
    BY <2>1 DEF Then
  <2>3. freeSlots' \subseteq Slots
    <3>1. j \in SpeedJobs /\ pc[j] \in Owning
      BY <2>1 DEF Staged, Owning, Active
    <3>2. slot[j] \in Slots
      BY <3>1, Sole
    <3>3. freeSlots' = freeSlots \cup {slot[j]} /\ freeSlots \subseteq Slots
      BY <1>19 DEF Release, Freed
    <3>4. QED
      BY <3>2, <3>3
  <2>4. UNCHANGED <<node, slot, snap, queue, held, shared, mihomo, rest>>
    BY <1>19 DEF Release
  <2>5. QED
    BY <2>2, <2>3, <2>4
<1>20. ASSUME NEW y \in Types, NEW n \in 1 .. MaxSetting, SetLimit(y, n) PROVE TypeOK'
  BY <1>20 DEF SetLimit
<1>21. ASSUME NEW n \in Nodes, NEW v \in {"on", "off", "gone"}, Edit(n, v) PROVE TypeOK'
  BY <1>21 DEF Edit
<1>22. ASSUME PublishReads PROVE TypeOK'
  BY SMTT(30), <1>22 DEF PublishReads
<1>23. ASSUME PublishEnds PROVE TypeOK'
  <2>1. CASE LoadConfig(publishing)
    BY <1>23, <2>1, LoadTyped DEF PublishEnds
  <2>2. CASE WriteConfig(publishing)
    BY <1>23, <2>2 DEF PublishEnds, WriteConfig, Enabled
  <2>3. CASE UNCHANGED mihomo
    BY <1>23, <2>3 DEF PublishEnds
  <2>4. QED
    BY <1>23, <2>1, <2>2, <2>3 DEF PublishEnds
<1>24. ASSUME ProbeRestarts PROVE TypeOK'
  <2>1. publishes' \in 0 .. MaxPublishes
    BY <1>24 DEF ProbeRestarts
  <2>2. /\ selected' \in [Slots -> Nodes \cup {None}] /\ disturbed' \subseteq Slots
        /\ loaded' \subseteq Nodes
    BY <1>24, InUseSlots DEF ProbeRestarts
  <2>3. UNCHANGED <<tests, queues, shared, file, table, status, setting, cancelled,
                    publishing, edits>>
    BY <1>24 DEF ProbeRestarts
  <2>4. QED
    BY <2>1, <2>2, <2>3
<1>25. ASSUME Cancel PROVE TypeOK'
  BY <1>25 DEF Cancel
<1>26. ASSUME UNCHANGED vars PROVE TypeOK'
  BY <1>26 DEF vars
<1> HIDE DEF TypeOK
<1>27. QED
  BY Cases, <1>1, <1>2, <1>3, <1>4, <1>5, <1>6, <1>7, <1>8, <1>9, <1>10, <1>11, <1>12, <1>13, <1>14, <1>15, <1>16, <1>17, <1>18, <1>19, <1>20, <1>21, <1>22, <1>23, <1>24, <1>25, <1>26

LEMMA MutexStep ==
  ASSUME IInv, [Next]_vars
  PROVE  MutexHeld'
<1> USE ProbeAssumption DEF IInv, TypeOK, Jobs, Types, MutexHeld, Locked, Slots, tests, queues, shared, mihomo, rest, Hop, Goto
<1>1. ASSUME NEW j \in Jobs, Enqueue(j) PROVE MutexHeld'
  BY <1>1 DEF Enqueue, HasRoom
<1>2. ASSUME NEW y \in Types, Dequeue(y) PROVE MutexHeld'
  BY <1>2 DEF Dequeue
<1>3. ASSUME NEW y \in Types, Dispatch(y) PROVE MutexHeld'
  BY <1>3 DEF Dispatch
<1>4. ASSUME NEW j \in Jobs, Start(j) PROVE MutexHeld'
  BY <1>4 DEF Start
<1>5. ASSUME NEW j \in Jobs, Vanish(j) PROVE MutexHeld'
  BY <1>5 DEF Vanish
<1>6. ASSUME NEW j \in Jobs, Acquire(j) PROVE MutexHeld'
  BY <1>6 DEF Acquire
<1>7. ASSUME NEW j \in Jobs, GiveUp(j) PROVE MutexHeld'
  BY <1>7 DEF GiveUp
<1>8. ASSUME NEW j \in Jobs, Lookup(j) PROVE MutexHeld'
  BY <1>8 DEF Lookup
<1>9. ASSUME NEW j \in Jobs, Read(j) PROVE MutexHeld'
  BY <1>9 DEF Read
<1>10. ASSUME NEW j \in Jobs, Lock(j) PROVE MutexHeld'
  BY <1>10 DEF Lock
<1>11. ASSUME NEW j \in Jobs, Reload(j) PROVE MutexHeld'
  BY <1>11 DEF Reload, LoadConfig, InUse, Enabled
<1>12. ASSUME NEW j \in Jobs, ReloadFails(j) PROVE MutexHeld'
  BY <1>12 DEF ReloadFails, Withdraw, Drop, LoadConfig, WriteConfig, InUse, Enabled
<1>13. ASSUME NEW j \in Jobs, NEW n \in 0 .. NumSlots, Reapply(j, n) PROVE MutexHeld'
  <2>1. /\ pc[j] = "reapply" /\ mutex' = None
        /\ pc' = [pc EXCEPT ![j] = IF n = NumSlots THEN "announce" ELSE "fail"]
    BY <1>13 DEF Reapply, Withdraw
  <2>2. QED
    BY <2>1
<1>14. ASSUME NEW j \in Jobs, Select(j) PROVE MutexHeld'
  BY <1>14 DEF Select, Drop
<1>15. ASSUME NEW j \in Jobs, SelectFails(j) PROVE MutexHeld'
  BY <1>15 DEF SelectFails, Withdraw, Drop
<1>16. ASSUME NEW j \in Jobs, Announce(j) PROVE MutexHeld'
  BY <1>16 DEF Announce, Write
<1>17. ASSUME NEW j \in Jobs, Finish(j) PROVE MutexHeld'
  BY <1>17 DEF Finish, Then, Write
<1>18. ASSUME NEW j \in Jobs, Clear(j) PROVE MutexHeld'
  BY <1>18 DEF Clear, Then
<1>19. ASSUME NEW j \in Jobs, Release(j) PROVE MutexHeld'
  BY <1>19 DEF Release, Then, Freed
<1>20. ASSUME NEW y \in Types, NEW n \in 1 .. MaxSetting, SetLimit(y, n) PROVE MutexHeld'
  BY <1>20 DEF SetLimit
<1>21. ASSUME NEW n \in Nodes, NEW v \in {"on", "off", "gone"}, Edit(n, v) PROVE MutexHeld'
  BY <1>21 DEF Edit
<1>22. ASSUME PublishReads PROVE MutexHeld'
  BY <1>22 DEF PublishReads
<1>23. ASSUME PublishEnds PROVE MutexHeld'
  BY <1>23 DEF PublishEnds, LoadConfig, WriteConfig, InUse, Enabled
<1>24. ASSUME ProbeRestarts PROVE MutexHeld'
  BY <1>24 DEF ProbeRestarts, InUse
<1>25. ASSUME Cancel PROVE MutexHeld'
  BY <1>25 DEF Cancel
<1>26. ASSUME UNCHANGED vars PROVE MutexHeld'
  BY <1>26 DEF vars
<1> HIDE DEF MutexHeld
<1>27. QED
  BY Cases, <1>1, <1>2, <1>3, <1>4, <1>5, <1>6, <1>7, <1>8, <1>9, <1>10, <1>11, <1>12, <1>13, <1>14, <1>15, <1>16, <1>17, <1>18, <1>19, <1>20, <1>21, <1>22, <1>23, <1>24, <1>25, <1>26

LEMMA StagedStep ==
  ASSUME IInv, [Next]_vars
  PROVE  Staged'
<1> USE ProbeAssumption DEF IInv, TypeOK, Jobs, Types, Staged, Active, Owning, Slots, tests, queues, shared, mihomo, rest, Hop, Goto
<1>1. ASSUME NEW j \in Jobs, Enqueue(j) PROVE Staged'
  BY <1>1 DEF Enqueue, HasRoom
<1>2. ASSUME NEW y \in Types, Dequeue(y) PROVE Staged'
  BY <1>2 DEF Dequeue
<1>3. ASSUME NEW y \in Types, Dispatch(y) PROVE Staged'
  BY <1>3 DEF Dispatch
<1>4. ASSUME NEW j \in Jobs, Start(j) PROVE Staged'
  BY <1>4 DEF Start
<1>5. ASSUME NEW j \in Jobs, Vanish(j) PROVE Staged'
  BY <1>5 DEF Vanish
<1>6. ASSUME NEW j \in Jobs, Acquire(j) PROVE Staged'
  BY <1>6 DEF Acquire
<1>7. ASSUME NEW j \in Jobs, GiveUp(j) PROVE Staged'
  BY <1>7 DEF GiveUp
<1>8. ASSUME NEW j \in Jobs, Lookup(j) PROVE Staged'
  BY <1>8 DEF Lookup
<1>9. ASSUME NEW j \in Jobs, Read(j) PROVE Staged'
  BY <1>9 DEF Read
<1>10. ASSUME NEW j \in Jobs, Lock(j) PROVE Staged'
  BY <1>10 DEF Lock
<1>11. ASSUME NEW j \in Jobs, Reload(j) PROVE Staged'
  BY <1>11 DEF Reload, LoadConfig, InUse, Enabled
<1>12. ASSUME NEW j \in Jobs, ReloadFails(j) PROVE Staged'
  BY <1>12 DEF ReloadFails, Withdraw, Drop, LoadConfig, WriteConfig, InUse, Enabled
<1>13. ASSUME NEW j \in Jobs, NEW n \in 0 .. NumSlots, Reapply(j, n) PROVE Staged'
  <2>1. pc' = [pc EXCEPT ![j] = IF n = NumSlots THEN "announce" ELSE "fail"] /\ slot' = slot
    BY <1>13 DEF Reapply, Withdraw
  <2>2. pc[j] = "reapply"
    BY <1>13 DEF Reapply
  <2>3. QED
    BY <2>1, <2>2
<1>14. ASSUME NEW j \in Jobs, Select(j) PROVE Staged'
  BY <1>14 DEF Select, Drop
<1>15. ASSUME NEW j \in Jobs, SelectFails(j) PROVE Staged'
  BY <1>15 DEF SelectFails, Withdraw, Drop
<1>16. ASSUME NEW j \in Jobs, Announce(j) PROVE Staged'
  BY <1>16 DEF Announce, Write
<1>17. ASSUME NEW j \in Jobs, Finish(j) PROVE Staged'
  BY <1>17 DEF Finish, Then, Write
<1>18. ASSUME NEW j \in Jobs, Clear(j) PROVE Staged'
  BY <1>18 DEF Clear, Then
<1>19. ASSUME NEW j \in Jobs, Release(j) PROVE Staged'
  BY <1>19 DEF Release, Then, Freed
<1>20. ASSUME NEW y \in Types, NEW n \in 1 .. MaxSetting, SetLimit(y, n) PROVE Staged'
  BY <1>20 DEF SetLimit
<1>21. ASSUME NEW n \in Nodes, NEW v \in {"on", "off", "gone"}, Edit(n, v) PROVE Staged'
  BY <1>21 DEF Edit
<1>22. ASSUME PublishReads PROVE Staged'
  BY <1>22 DEF PublishReads
<1>23. ASSUME PublishEnds PROVE Staged'
  BY <1>23 DEF PublishEnds, LoadConfig, WriteConfig, InUse, Enabled
<1>24. ASSUME ProbeRestarts PROVE Staged'
  BY <1>24 DEF ProbeRestarts, InUse
<1>25. ASSUME Cancel PROVE Staged'
  BY <1>25 DEF Cancel
<1>26. ASSUME UNCHANGED vars PROVE Staged'
  BY <1>26 DEF vars
<1> HIDE DEF Staged
<1>27. QED
  BY Cases, <1>1, <1>2, <1>3, <1>4, <1>5, <1>6, <1>7, <1>8, <1>9, <1>10, <1>11, <1>12, <1>13, <1>14, <1>15, <1>16, <1>17, <1>18, <1>19, <1>20, <1>21, <1>22, <1>23, <1>24, <1>25, <1>26

\* The slots are as conserved as before when nobody takes or gives one back.
LEMMA SlotsFrame ==
  ASSUME SlotsConserved, freeSlots' = freeSlots,
         \A j \in SpeedJobs : /\ pc[j] \in Owning <=> pc'[j] \in Owning
                              /\ slot'[j] = slot[j]
  PROVE  SlotsConserved'
<1>1. \A s \in Slots : Owners(s)' = Owners(s)
  BY DEF Owners
<1>2. QED
  BY <1>1 DEF SlotsConserved

LEMMA SlotsStep ==
  ASSUME IInv, [Next]_vars
  PROVE  SlotsConserved'
<1> USE ProbeAssumption DEF IInv, TypeOK, Jobs, Types, Staged, Owning, Active, tests, queues, shared, mihomo, rest, Hop, Goto
<1>1. ASSUME NEW j \in Jobs, Enqueue(j) PROVE SlotsConserved'
  BY <1>1, SlotsFrame DEF Enqueue, HasRoom
<1>2. ASSUME NEW y \in Types, Dequeue(y) PROVE SlotsConserved'
  BY <1>2, SlotsFrame DEF Dequeue
<1>3. ASSUME NEW y \in Types, Dispatch(y) PROVE SlotsConserved'
  BY <1>3, SlotsFrame DEF Dispatch
<1>4. ASSUME NEW j \in Jobs, Start(j) PROVE SlotsConserved'
  BY <1>4, SlotsFrame DEF Start
<1>5. ASSUME NEW j \in Jobs, Vanish(j) PROVE SlotsConserved'
  BY <1>5, SlotsFrame DEF Vanish
<1>6. ASSUME NEW j \in Jobs, Acquire(j) PROVE SlotsConserved'
  <2>1. PICK t \in freeSlots : slot' = [slot EXCEPT ![j] = t] /\ freeSlots' = freeSlots \ {t}
    BY <1>6 DEF Acquire
  <2>2. j \in SpeedJobs /\ t \in Slots
    BY <1>6 DEF Acquire
  <2>3. Owners(t)' = {j}
    BY <1>6, <2>1, <2>2 DEF Acquire, SlotsConserved, Owners
  <2>4. \A s \in Slots \ {t} : Owners(s)' = Owners(s)
    BY <1>6, <2>1, <2>2 DEF Acquire, Owners
  <2>5. QED
    BY <2>1, <2>2, <2>3, <2>4 DEF SlotsConserved
<1>7. ASSUME NEW j \in Jobs, GiveUp(j) PROVE SlotsConserved'
  BY <1>7, SlotsFrame DEF GiveUp
<1>8. ASSUME NEW j \in Jobs, Lookup(j) PROVE SlotsConserved'
  BY <1>8, SlotsFrame DEF Lookup
<1>9. ASSUME NEW j \in Jobs, Read(j) PROVE SlotsConserved'
  BY <1>9, SlotsFrame DEF Read
<1>10. ASSUME NEW j \in Jobs, Lock(j) PROVE SlotsConserved'
  BY <1>10, SlotsFrame DEF Lock
<1>11. ASSUME NEW j \in Jobs, Reload(j) PROVE SlotsConserved'
  BY <1>11, SlotsFrame DEF Reload, LoadConfig, InUse, Enabled
<1>12. ASSUME NEW j \in Jobs, ReloadFails(j) PROVE SlotsConserved'
  BY <1>12, SlotsFrame DEF ReloadFails, Withdraw, Drop, LoadConfig, WriteConfig, InUse, Enabled
<1>13. ASSUME NEW j \in Jobs, NEW n \in 0 .. NumSlots, Reapply(j, n) PROVE SlotsConserved'
  BY <1>13, SlotsFrame DEF Reapply, Pointed, Withdraw, Drop
<1>14. ASSUME NEW j \in Jobs, Select(j) PROVE SlotsConserved'
  BY <1>14, SlotsFrame DEF Select, Drop
<1>15. ASSUME NEW j \in Jobs, SelectFails(j) PROVE SlotsConserved'
  BY <1>15, SlotsFrame DEF SelectFails, Withdraw, Drop
<1>16. ASSUME NEW j \in Jobs, Announce(j) PROVE SlotsConserved'
  BY <1>16, SlotsFrame DEF Announce, Write
<1>17. ASSUME NEW j \in Jobs, Finish(j) PROVE SlotsConserved'
  BY <1>17, SlotsFrame DEF Finish, Then, Write
<1>18. ASSUME NEW j \in Jobs, Clear(j) PROVE SlotsConserved'
  BY <1>18, SlotsFrame DEF Clear, Then
<1>19. ASSUME NEW j \in Jobs, Release(j) PROVE SlotsConserved'
  <2> DEFINE t == slot[j]
  <2>1. j \in SpeedJobs /\ t \in Slots /\ freeSlots' = freeSlots \cup {t} /\ slot' = slot
    BY <1>19 DEF Release, Freed
  <2>2. j \in Owners(t) /\ pc' = [pc EXCEPT ![j] = "done"]
    BY <1>19, <2>1 DEF Release, Then, Owners
  <2>3. Owners(t)' = {}
    BY <2>1, <2>2 DEF SlotsConserved, Owners
  <2>4. \A s \in Slots \ {t} : Owners(s)' = Owners(s)
    BY <2>1, <2>2 DEF Owners
  <2>5. QED
    BY <2>1, <2>3, <2>4 DEF SlotsConserved
<1>20. ASSUME NEW y \in Types, NEW n \in 1 .. MaxSetting, SetLimit(y, n) PROVE SlotsConserved'
  BY <1>20, SlotsFrame DEF SetLimit
<1>21. ASSUME NEW n \in Nodes, NEW v \in {"on", "off", "gone"}, Edit(n, v) PROVE SlotsConserved'
  BY <1>21, SlotsFrame DEF Edit
<1>22. ASSUME PublishReads PROVE SlotsConserved'
  BY <1>22, SlotsFrame DEF PublishReads
<1>23. ASSUME PublishEnds PROVE SlotsConserved'
  BY <1>23, SlotsFrame DEF PublishEnds, LoadConfig, WriteConfig, InUse, Enabled
<1>24. ASSUME ProbeRestarts PROVE SlotsConserved'
  BY <1>24, SlotsFrame DEF ProbeRestarts, InUse
<1>25. ASSUME Cancel PROVE SlotsConserved'
  BY <1>25, SlotsFrame DEF Cancel
<1>26. ASSUME UNCHANGED vars PROVE SlotsConserved'
  BY <1>26, SlotsFrame DEF vars
<1> HIDE DEF SlotsConserved
<1>27. QED
  BY Cases, <1>1, <1>2, <1>3, <1>4, <1>5, <1>6, <1>7, <1>8, <1>9, <1>10, <1>11, <1>12, <1>13, <1>14, <1>15, <1>16, <1>17, <1>18, <1>19, <1>20, <1>21, <1>22, <1>23, <1>24, <1>25, <1>26

\* A step of a test that owns a slot, if it is a speed test, and disturbs no
\* selection but its own.
LEMMA SelectionsFrame ==
  ASSUME IInv, NEW j \in Jobs, NEW to \in Owning,
         pc[j] \in Owning, pc' = [pc EXCEPT ![j] = to], slot' = slot, node' = node,
         \A s \in Slots : j \notin SpeedJobs \/ s # slot[j] => selections'[s] = selections[s],
         j \in SpeedJobs =>
           /\ selections'[slot[j]] = None => to \notin Relying
           /\ selections'[slot[j]] # None => /\ selections'[slot[j]] = node[j]
                                             /\ to \in Relying \cup {"clear"}
  PROVE  SelectionsOwned'
<1> USE DEF IInv
<1> DEFINE Good(s) ==
      /\ selections[s] = None => \A i \in Owners(s) : pc[i] \notin Relying
      /\ selections[s] # None => \E i \in Owners(s) : /\ node[i] = selections[s]
                                                       /\ pc[i] \in Relying \cup {"clear"}
<1>1. \A s \in Slots : Owners(s)' = Owners(s)
  BY DEF Owners, TypeOK
<1>2. ASSUME NEW s \in Slots, j \notin SpeedJobs \/ s # slot[j]
      PROVE  Good(s)'
  <2>1. \A i \in Owners(s) : pc'[i] = pc[i]
    BY <1>2 DEF Owners, TypeOK
  <2>2. selections'[s] = selections[s] /\ Owners(s)' = Owners(s)
    BY <1>1, <1>2
  <2>3. Good(s)
    BY DEF SelectionsOwned
  <2>4. QED
    BY <2>1, <2>2, <2>3
<1>3. ASSUME j \in SpeedJobs
      PROVE  Good(slot[j])'
  <2>1. slot[j] \in Slots /\ Owners(slot[j]) = {j}
    BY <1>3, Sole
  <2>2. Owners(slot[j])' = {j} /\ pc'[j] = to
    BY <1>1, <2>1 DEF TypeOK
  <2>3. QED
    BY <1>3, <2>2
<1>4. ASSUME NEW s \in Slots PROVE Good(s)'
  BY <1>2, <1>3
<1> HIDE DEF IInv
<1>5. QED
  BY <1>4 DEF SelectionsOwned

\* The steps that take back the test's own selection.
LEMMA WithdrawFrame ==
  ASSUME IInv, NEW j \in Jobs, NEW to \in {"fail", "release"},
         pc[j] \in Owning, pc' = [pc EXCEPT ![j] = to], slot' = slot, node' = node,
         selections' = IF j \in SpeedJobs THEN [selections EXCEPT ![slot[j]] = None]
                                          ELSE selections
  PROVE  SelectionsOwned'
<1>1. to \in Owning /\ to \notin Relying
  BY DEF Owning, Active, Relying, Locked
<1>2. selections \in [Slots -> Nodes \cup {None}]
  BY DEF IInv, TypeOK
<1>3. \A s \in Slots : j \notin SpeedJobs \/ s # slot[j] => selections'[s] = selections[s]
  BY <1>2
<1>4. j \in SpeedJobs => selections'[slot[j]] = None
  BY <1>2, Sole
<1>5. QED
  BY <1>1, <1>3, <1>4, SelectionsFrame

LEMMA SelectionsStep ==
  ASSUME IInv, [Next]_vars
  PROVE  SelectionsOwned'
<1> USE ProbeAssumption DEF IInv, TypeOK, Jobs, Types, Staged, MutexHeld, SlotsConserved, SelectionsOwned, Owners, Owning, Active, Relying, Locked, Slots, tests, queues, shared, mihomo, rest, Hop, Goto
<1>1. ASSUME NEW j \in Jobs, Enqueue(j) PROVE SelectionsOwned'
  BY ZenonT(30), <1>1 DEF Enqueue, HasRoom
<1>2. ASSUME NEW y \in Types, Dequeue(y) PROVE SelectionsOwned'
  BY <1>2 DEF Dequeue
<1>3. ASSUME NEW y \in Types, Dispatch(y) PROVE SelectionsOwned'
  <2>1. /\ pc[held[y]] = "queued" /\ pc' = [pc EXCEPT ![held[y]] = "start"]
        /\ slot' = slot /\ node' = node /\ selections' = selections
    BY <1>3 DEF Dispatch
  <2>2. \A i \in SpeedJobs : /\ pc[i] \in Owning <=> pc'[i] \in Owning
                             /\ pc[i] \in Owning => pc'[i] = pc[i]
    BY <2>1
  <2>3. \A s \in Slots : Owners(s)' = Owners(s)
    BY <2>1, <2>2
  <2>4. \A s \in Slots : \A i \in Owners(s) : pc'[i] = pc[i]
    BY <2>2
  <2> HIDE DEF Owners, Owning, Relying
  <2>5. QED
    BY <2>1, <2>3, <2>4
<1>4. ASSUME NEW j \in Jobs, Start(j) PROVE SelectionsOwned'
  BY <1>4 DEF Start
<1>5. ASSUME NEW j \in Jobs, Vanish(j) PROVE SelectionsOwned'
  BY <1>5 DEF Vanish
<1>6. ASSUME NEW j \in Jobs, Acquire(j) PROVE SelectionsOwned'
  BY <1>6 DEF Acquire
<1>7. ASSUME NEW j \in Jobs, GiveUp(j) PROVE SelectionsOwned'
  BY <1>7 DEF GiveUp
<1>8. ASSUME NEW j \in Jobs, Lookup(j) PROVE SelectionsOwned'
  BY ZenonT(30), <1>8 DEF Lookup
<1>9. ASSUME NEW j \in Jobs, Read(j) PROVE SelectionsOwned'
  BY ZenonT(30), <1>9 DEF Read
<1>10. ASSUME NEW j \in Jobs, Lock(j) PROVE SelectionsOwned'
  BY <1>10 DEF Lock
<1>11. ASSUME NEW j \in Jobs, Reload(j) PROVE SelectionsOwned'
  BY <1>11 DEF Reload, LoadConfig, InUse, Enabled
<1>12. ASSUME NEW j \in Jobs, ReloadFails(j) PROVE SelectionsOwned'
  <2>1. pc[j] = "reload" /\ pc' = [pc EXCEPT ![j] = "fail"]
    BY <1>12 DEF ReloadFails, Withdraw
  <2>2. selections' = IF j \in SpeedJobs THEN [selections EXCEPT ![slot[j]] = None]
                                         ELSE selections
    BY <1>12 DEF ReloadFails, Withdraw
  <2>3. slot' = slot /\ node' = node
    BY <1>12 DEF ReloadFails
  <2>4. QED
    BY <2>1, <2>2, <2>3, WithdrawFrame
<1>13. ASSUME NEW j \in Jobs, NEW n \in 0 .. NumSlots, Reapply(j, n) PROVE SelectionsOwned'
  <2>1. pc[j] = "reapply" /\ slot' = slot /\ node' = node
    BY <1>13 DEF Reapply
  <2>2. CASE n = NumSlots
    <3>1. pc' = [pc EXCEPT ![j] = "announce"] /\ selections' = selections
      BY <1>13, <2>2 DEF Reapply
    <3>2. j \in SpeedJobs => selections[slot[j]] = node[j]
      BY <2>1, Sole
    <3>3. "announce" \in Owning /\ "announce" \in Relying
      OBVIOUS
    <3>4. QED
      BY <2>1, <3>1, <3>2, <3>3, SelectionsFrame
  <2>3. CASE n # NumSlots
    <3>1. pc' = [pc EXCEPT ![j] = "fail"]
      BY <1>13, <2>3 DEF Reapply, Withdraw
    <3>2. selections' = IF j \in SpeedJobs THEN [selections EXCEPT ![slot[j]] = None]
                                           ELSE selections
      BY <1>13, <2>3 DEF Reapply, Withdraw
    <3>3. QED
      BY <2>1, <3>1, <3>2, WithdrawFrame
  <2>4. QED
    BY <2>2, <2>3
<1>14. ASSUME NEW j \in Jobs, Select(j) PROVE SelectionsOwned'
  BY <1>14 DEF Select, Drop
<1>15. ASSUME NEW j \in Jobs, SelectFails(j) PROVE SelectionsOwned'
  <2>1. pc[j] = "select" /\ pc' = [pc EXCEPT ![j] = "fail"]
    BY <1>15 DEF SelectFails, Withdraw
  <2>2. selections' = [selections EXCEPT ![slot[j]] = None] /\ slot' = slot /\ node' = node
    BY <1>15 DEF SelectFails, Withdraw
  <2>3. j \in SpeedJobs
    BY <1>15 DEF SelectFails
  <2>4. QED
    BY ZenonT(30), <2>1, <2>2, <2>3, WithdrawFrame
<1>16. ASSUME NEW j \in Jobs, Announce(j) PROVE SelectionsOwned'
  BY <1>16 DEF Announce, Write
<1>17. ASSUME NEW j \in Jobs, Finish(j) PROVE SelectionsOwned'
  BY <1>17 DEF Finish, Then, Write
<1>18. ASSUME NEW j \in Jobs, Clear(j) PROVE SelectionsOwned'
  <2>1. pc[j] = "clear" /\ pc' = [pc EXCEPT ![j] = "release"]
    BY <1>18 DEF Clear, Then
  <2>2. selections' = [selections EXCEPT ![slot[j]] = None] /\ slot' = slot /\ node' = node
    BY <1>18 DEF Clear
  <2>3. j \in SpeedJobs /\ "clear" \in Owning /\ "release" \in {"fail", "release"}
    BY <2>1
  <2> HIDE DEF Owning, Active, SelectionsOwned, IInv
  <2>4. QED
    BY <2>1, <2>2, <2>3, WithdrawFrame
<1>19. ASSUME NEW j \in Jobs, Release(j) PROVE SelectionsOwned'
  BY ZenonT(30), <1>19 DEF Release, Then, Freed
<1>20. ASSUME NEW y \in Types, NEW n \in 1 .. MaxSetting, SetLimit(y, n) PROVE SelectionsOwned'
  BY <1>20 DEF SetLimit
<1>21. ASSUME NEW n \in Nodes, NEW v \in {"on", "off", "gone"}, Edit(n, v) PROVE SelectionsOwned'
  BY <1>21 DEF Edit
<1>22. ASSUME PublishReads PROVE SelectionsOwned'
  BY <1>22 DEF PublishReads
<1>23. ASSUME PublishEnds PROVE SelectionsOwned'
  BY <1>23 DEF PublishEnds, LoadConfig, WriteConfig, InUse, Enabled
<1>24. ASSUME ProbeRestarts PROVE SelectionsOwned'
  BY <1>24 DEF ProbeRestarts, InUse
<1>25. ASSUME Cancel PROVE SelectionsOwned'
  BY <1>25 DEF Cancel
<1>26. ASSUME UNCHANGED vars PROVE SelectionsOwned'
  BY <1>26 DEF vars
<1> HIDE DEF SelectionsOwned
<1>27. QED
  BY Cases, <1>1, <1>2, <1>3, <1>4, <1>5, <1>6, <1>7, <1>8, <1>9, <1>10, <1>11, <1>12, <1>13, <1>14, <1>15, <1>16, <1>17, <1>18, <1>19, <1>20, <1>21, <1>22, <1>23, <1>24, <1>25, <1>26

LEMMA MeasureStep ==
  ASSUME IInv, [Next]_vars
  PROVE  MeasuresOwnNode'
<1> USE ProbeAssumption DEF IInv, TypeOK, Jobs, Types, Staged, MutexHeld, SlotsConserved, SelectionsOwned, MeasuresOwnNode, Owners, Owning, Active, Relying, Locked, Slots, tests, queues, shared, mihomo, rest, Hop, Goto
<1>1. ASSUME NEW j \in Jobs, Enqueue(j) PROVE MeasuresOwnNode'
  BY <1>1 DEF Enqueue, HasRoom
<1>2. ASSUME NEW y \in Types, Dequeue(y) PROVE MeasuresOwnNode'
  BY <1>2 DEF Dequeue
<1>3. ASSUME NEW y \in Types, Dispatch(y) PROVE MeasuresOwnNode'
  BY <1>3 DEF Dispatch
<1>4. ASSUME NEW j \in Jobs, Start(j) PROVE MeasuresOwnNode'
  BY <1>4 DEF Start
<1>5. ASSUME NEW j \in Jobs, Vanish(j) PROVE MeasuresOwnNode'
  BY <1>5 DEF Vanish
<1>6. ASSUME NEW j \in Jobs, Acquire(j) PROVE MeasuresOwnNode'
  BY <1>6 DEF Acquire
<1>7. ASSUME NEW j \in Jobs, GiveUp(j) PROVE MeasuresOwnNode'
  BY <1>7 DEF GiveUp
<1>8. ASSUME NEW j \in Jobs, Lookup(j) PROVE MeasuresOwnNode'
  BY <1>8 DEF Lookup
<1>9. ASSUME NEW j \in Jobs, Read(j) PROVE MeasuresOwnNode'
  BY <1>9 DEF Read
<1>10. ASSUME NEW j \in Jobs, Lock(j) PROVE MeasuresOwnNode'
  BY <1>10 DEF Lock
<1>11. ASSUME NEW j \in Jobs, Reload(j) PROVE MeasuresOwnNode'
  BY <1>11 DEF Reload, LoadConfig, InUse, Enabled
<1>12. ASSUME NEW j \in Jobs, ReloadFails(j) PROVE MeasuresOwnNode'
  BY <1>12 DEF ReloadFails, Withdraw, Drop, LoadConfig, WriteConfig, InUse, Enabled
<1>13. ASSUME NEW j \in Jobs, NEW n \in 0 .. NumSlots, Reapply(j, n) PROVE MeasuresOwnNode'
  <2>1. pc[j] = "reapply" /\ slot' = slot /\ node' = node /\ loaded' = loaded
    BY <1>13 DEF Reapply
  <2>2. selected' = [s \in Slots |-> IF s \in Pointed(n) THEN selections[s] ELSE selected[s]]
    BY <1>13 DEF Reapply
  <2>3. \A s \in Pointed(n) : selections[s] \in loaded
    BY <1>13 DEF Reapply
  <2>4. \A i \in SpeedJobs : pc[i] \in Relying => slot[i] \in Slots /\ selections[slot[i]] = node[i]
    BY Sole
  <2>5. CASE n = NumSlots
    <3>1. pc' = [pc EXCEPT ![j] = "announce"]
      BY <1>13, <2>5 DEF Reapply
    <3>2. \A i \in SpeedJobs : pc'[i] \in {"announce", "measure"} => slot[i] \in Pointed(n)
      BY <2>1, <2>4, <2>5, <3>1 DEF Pointed
    <3>3. QED
      BY <2>1, <2>2, <2>3, <2>4, <3>1, <3>2
  <2>6. CASE n # NumSlots
    <3>1. pc' = [pc EXCEPT ![j] = "fail"] /\ disturbed' = disturbed
      BY <1>13, <2>6 DEF Reapply, Withdraw
    <3>2. QED
      BY <2>1, <2>2, <2>4, <3>1
  <2>7. QED
    BY <2>5, <2>6
<1>14. ASSUME NEW j \in Jobs, Select(j) PROVE MeasuresOwnNode'
  <2>1. pc[j] = "select" /\ pc' = [pc EXCEPT ![j] = "announce"]
    BY <1>14 DEF Select
  <2>2. slot' = slot /\ node' = node /\ loaded' = loaded
    BY <1>14 DEF Select
  <2>3. CASE j \in SpeedJobs
    <3>1. /\ selected' = [selected EXCEPT ![slot[j]] = node[j]] /\ node[j] \in loaded
          /\ disturbed' = disturbed \ {slot[j]}
      BY <1>14, <2>3 DEF Select
    <3>2. \A i \in SpeedJobs : pc[i] \in {"announce", "measure"} => slot[i] # slot[j]
      BY ZenonT(30), <2>1, <2>3, Sole
    <3>3. slot[j] \in Slots
      BY <2>1, <2>3, Sole
    <3>4. QED
      BY <2>1, <2>2, <3>1, <3>2, <3>3
  <2>4. CASE j \notin SpeedJobs
    BY <1>14, <2>1, <2>2, <2>4 DEF Select
  <2>5. QED
    BY <2>3, <2>4
<1>15. ASSUME NEW j \in Jobs, SelectFails(j) PROVE MeasuresOwnNode'
  BY <1>15 DEF SelectFails, Withdraw, Drop
<1>16. ASSUME NEW j \in Jobs, Announce(j) PROVE MeasuresOwnNode'
  BY <1>16 DEF Announce, Write
<1>17. ASSUME NEW j \in Jobs, Finish(j) PROVE MeasuresOwnNode'
  BY <1>17 DEF Finish, Then, Write
<1>18. ASSUME NEW j \in Jobs, Clear(j) PROVE MeasuresOwnNode'
  BY <1>18 DEF Clear, Then
<1>19. ASSUME NEW j \in Jobs, Release(j) PROVE MeasuresOwnNode'
  BY <1>19 DEF Release, Then, Freed
<1>20. ASSUME NEW y \in Types, NEW n \in 1 .. MaxSetting, SetLimit(y, n) PROVE MeasuresOwnNode'
  BY <1>20 DEF SetLimit
<1>21. ASSUME NEW n \in Nodes, NEW v \in {"on", "off", "gone"}, Edit(n, v) PROVE MeasuresOwnNode'
  BY <1>21 DEF Edit
<1>22. ASSUME PublishReads PROVE MeasuresOwnNode'
  BY <1>22 DEF PublishReads
<1>23. ASSUME PublishEnds PROVE MeasuresOwnNode'
  BY <1>23 DEF PublishEnds, LoadConfig, WriteConfig, InUse, Enabled
<1>24. ASSUME ProbeRestarts PROVE MeasuresOwnNode'
  BY <1>24 DEF ProbeRestarts, InUse
<1>25. ASSUME Cancel PROVE MeasuresOwnNode'
  BY <1>25 DEF Cancel
<1>26. ASSUME UNCHANGED vars PROVE MeasuresOwnNode'
  BY <1>26 DEF vars
<1> HIDE DEF MeasuresOwnNode
<1>27. QED
  BY Cases, <1>1, <1>2, <1>3, <1>4, <1>5, <1>6, <1>7, <1>8, <1>9, <1>10, <1>11, <1>12, <1>13, <1>14, <1>15, <1>16, <1>17, <1>18, <1>19, <1>20, <1>21, <1>22, <1>23, <1>24, <1>25, <1>26

LEMMA InitIInv == Init => IInv
<1> SUFFICES ASSUME Init PROVE IInv
  OBVIOUS
<1> USE ProbeAssumption DEF Init, Jobs, Slots, Types, Active, Inventories
<1>1. TypeOK
  <2>1. queue \in [Types -> Seq(Jobs)] /\ \A y \in Types : Len(queue[y]) <= QueueCap
    OBVIOUS
  <2>2. snap \in [Jobs -> Inventories] /\ table \in [Nodes -> {"on", "off", "gone"}]
    OBVIOUS
  <2>3. /\ held \in [Types -> Jobs \cup {None}]
        /\ selections \in [Slots -> Nodes \cup {None}] /\ selected \in [Slots -> Nodes \cup {None}]
        /\ slot \in [Jobs -> Slots \cup {0}] /\ status \in [Nodes -> {"rest", "testing"}]
        /\ pc \in [Jobs -> Active \cup {"idle", "queued", "done"}]
    OBVIOUS
  <2>4. /\ edits \in 0 .. MaxEdits /\ publishes \in 0 .. MaxPublishes
        /\ setting \in [Types -> 1 .. MaxSetting] /\ node \in [Jobs -> Nodes]
    OBVIOUS
  <2>5. /\ freeSlots \subseteq Slots /\ disturbed \subseteq Slots /\ loaded \subseteq Nodes /\ file \subseteq Nodes
        /\ mutex = None /\ cacheKey = None /\ publishing = None /\ cancelled = FALSE
    OBVIOUS
  <2> HIDE DEF Init, Jobs, Slots, Types, Active, Inventories
  <2>6. QED
    BY <2>1, <2>2, <2>3, <2>4, <2>5 DEF TypeOK
<1>2. MutexHeld /\ Staged
  BY DEF MutexHeld, Staged, Locked, Owning
<1>3. SlotsConserved /\ SelectionsOwned /\ MeasuresOwnNode
  BY DEF SlotsConserved, SelectionsOwned, MeasuresOwnNode, Owners, Owning
<1>4. QED
  BY <1>1, <1>2, <1>3 DEF IInv

LEMMA StepIInv == IInv /\ [Next]_vars => IInv'
  BY TypeStep, MutexStep, StagedStep, SlotsStep,
     SelectionsStep, MeasureStep DEF IInv

LEMMA Inductive == Spec => []IInv
  BY InitIInv, StepIInv, PTL DEF Spec

\* Type correctness of the probe service, with the bounds of its queues.
THEOREM Typed == Spec => []TypeOK
<1>1. IInv => TypeOK
  BY DEF IInv
<1>2. QED
  BY <1>1, Inductive, PTL

\* Two speed tests never share a slot, no path through a test loses one, and the
\* selections a reload restores are those of the tests that rely on them.
THEOREM Owned == Spec => []SlotsOwned
<1>1. IInv => SlotsOwned
  BY DEF IInv, SlotsOwned
<1>2. QED
  BY <1>1, Inductive, PTL

\* A speed test measures its own node, whatever the other tests reload.
THEOREM Measured == Spec => []MeasuresOwnNode
<1>1. IInv => MeasuresOwnNode
  BY DEF IInv
<1>2. QED
  BY <1>1, Inductive, PTL

=============================================================================
