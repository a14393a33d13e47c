--------------------------- MODULE ProbePoolProofs ---------------------------
(***************************************************************************)
(* The speed slots for any number of tests, nodes and slots: the dispatcher *)
(* never starts more tests than there are slots, and the tests implement   *)
(* SlotPool.  Both rest on the inductive invariant of ProbeProofs.         *)
(***************************************************************************)
EXTENDS ProbeProofs, FiniteSetTheorems

Running == ActiveTests("speed")

\* The dispatcher's counter stays within the slots.
Capped == IsFiniteSet(Running) /\ Cardinality(Running) <= NumSlots

LEMMA RunningSpeed == Running = {j \in SpeedJobs : pc[j] \in Active}
  BY ProbeAssumption DEF Running, ActiveTests, TypeOf, Jobs

\* Each queue and its dispatcher hold tests of their own type.
Sorted == \A y \in Types :
            /\ held[y] # None => TypeOf(held[y]) = y
            /\ \A i \in 1 .. Len(queue[y]) : TypeOf(queue[y][i]) = y

LEMMA SortedStep ==
  ASSUME IInv, Sorted, [Next]_vars
  PROVE  Sorted'
<1> USE DEF IInv, TypeOK, Sorted
<1>1. ASSUME NEW j \in Jobs, Enqueue(j) PROVE Sorted'
  <2> DEFINE t == TypeOf(j)
  <2>1. t \in Types /\ queue[t] \in Seq(Jobs) /\ queue' = [queue EXCEPT ![t] = Append(@, j)]
    BY <1>1 DEF Enqueue, TypeOf, Types
  <2>2. held' = held
    BY <1>1 DEF Enqueue
  <2>3. ASSUME NEW i \in 1 .. Len(queue'[t]) PROVE TypeOf(queue'[t][i]) = t
    BY <2>1
  <2>4. ASSUME NEW y \in Types \ {t} PROVE queue'[y] = queue[y]
    BY <2>1
  <2> HIDE DEF t
  <2>5. QED
    BY <2>2, <2>3, <2>4
<1>2. ASSUME NEW y \in Types, Dequeue(y) PROVE Sorted'
  <2>1. queue[y] \in Seq(Jobs) /\ queue[y] # <<>>
    BY <1>2 DEF Dequeue
  <2>2. held' = [held EXCEPT ![y] = Head(queue[y])] /\ queue' = [queue EXCEPT ![y] = Tail(queue[y])]
    BY <1>2 DEF Dequeue
  <2>3. TypeOf(held'[y]) = y
    BY <2>1, <2>2
  <2>4. ASSUME NEW i \in 1 .. Len(queue'[y]) PROVE TypeOf(queue'[y][i]) = y
    <3>1. i + 1 \in 1 .. Len(queue[y]) /\ queue'[y][i] = queue[y][i + 1]
      BY <2>1, <2>2
    <3>2. QED
      BY <3>1
  <2>5. ASSUME NEW x \in Types \ {y} PROVE held'[x] = held[x] /\ queue'[x] = queue[x]
    BY <2>2
  <2>6. QED
    BY <2>3, <2>4, <2>5
<1>3. ASSUME NEW y \in Types, Dispatch(y) PROVE Sorted'
  BY <1>3 DEF Dispatch
<1>4. ASSUME UNCHANGED <<queue, held>> PROVE Sorted'
  BY <1>4
<1>5. ASSUME NEW j \in Jobs,
             \/ Start(j) \/ Vanish(j) \/ Acquire(j) \/ GiveUp(j) \/ Lookup(j) \/ Read(j)
             \/ Lock(j) \/ Reload(j) \/ ReloadFails(j)
             \/ Select(j) \/ SelectFails(j) \/ Announce(j) \/ Finish(j) \/ Clear(j) \/ Release(j)
             \/ \E n \in 0 .. NumSlots : Reapply(j, n)
      PROVE  UNCHANGED <<queue, held>>
  BY <1>5 DEF Start, Vanish, Acquire, GiveUp, Lookup, Read, Lock, Reload, ReloadFails, Select,
              SelectFails, Announce, Finish, Clear, Release, Reapply, queues
<1>6. ASSUME \/ \E y \in Types : \E n \in 1 .. MaxSetting : SetLimit(y, n)
             \/ \E n \in Nodes, v \in {"on", "off", "gone"} : Edit(n, v)
             \/ PublishReads \/ PublishEnds \/ ProbeRestarts \/ Cancel \/ UNCHANGED vars
      PROVE  UNCHANGED <<queue, held>>
  BY <1>6 DEF SetLimit, Edit, PublishReads, PublishEnds, ProbeRestarts, Cancel, vars, queues
<1> HIDE DEF IInv, TypeOK, Sorted
<1>7. QED
  BY <1>1, <1>2, <1>3, <1>4, <1>5, <1>6, Cases

\* Only a dispatch adds to the running tests.
LEMMA RunningStep ==
  ASSUME IInv, Sorted, [Next]_vars
  PROVE  \/ Running' \subseteq Running
         \/ Dispatch("speed") /\ Running' \subseteq Running \cup {held["speed"]}
<1> USE ProbeAssumption DEF IInv, TypeOK, Running, ActiveTests, TypeOf, Jobs, Types, Active, Hop, Goto, tests
<1>1. ASSUME NEW j \in Jobs, Enqueue(j) PROVE Running' \subseteq Running
  BY <1>1 DEF Enqueue
<1>2. ASSUME NEW j \in Jobs,
             \/ Start(j) \/ Vanish(j) \/ Acquire(j) \/ GiveUp(j) \/ Lookup(j) \/ Read(j)
             \/ Lock(j) \/ Reload(j) \/ ReloadFails(j)
      PROVE  Running' \subseteq Running
  BY <1>2 DEF Start, Vanish, Acquire, GiveUp, Lookup, Read, Lock, Reload, ReloadFails, Withdraw
<1>3. ASSUME NEW j \in Jobs,
             \/ Select(j) \/ SelectFails(j) \/ Announce(j) \/ Finish(j) \/ Clear(j) \/ Release(j)
             \/ \E n \in 0 .. NumSlots : Reapply(j, n)
      PROVE  Running' \subseteq Running
  BY <1>3 DEF Select, SelectFails, Announce, Finish, Clear, Release, Reapply, Withdraw
<1>4. ASSUME NEW y \in Types, Dispatch(y)
      PROVE  \/ Running' \subseteq Running
             \/ Dispatch("speed") /\ Running' \subseteq Running \cup {held["speed"]}
  <2>1. CASE y = "speed"
    BY <1>4, <2>1 DEF Dispatch
  <2>2. CASE y = "latency"
    <3>1. held["latency"] \in LatencyJobs
      BY <1>4, <2>2 DEF Dispatch, Sorted
    <3>2. pc' = [pc EXCEPT ![held["latency"]] = "start"] /\ pc[held["latency"]] = "queued"
      BY <1>4, <2>2 DEF Dispatch
    <3>3. ASSUME NEW j \in SpeedJobs PROVE pc'[j] = pc[j]
      BY <1>4, <2>2, <3>1, <3>2 DEF Dispatch
    <3>4. QED
      BY <3>3
  <2>3. QED
    BY <2>1, <2>2
<1>5. ASSUME UNCHANGED pc PROVE Running' \subseteq Running
  BY <1>5
<1>6. ASSUME \/ \E y \in Types : Dequeue(y) \/ \E n \in 1 .. MaxSetting : SetLimit(y, n)
             \/ \E n \in Nodes, v \in {"on", "off", "gone"} : Edit(n, v)
             \/ PublishReads \/ PublishEnds \/ ProbeRestarts \/ Cancel \/ UNCHANGED vars
      PROVE  UNCHANGED pc
  BY <1>6 DEF Dequeue, SetLimit, Edit, PublishReads, PublishEnds, ProbeRestarts, Cancel, vars
<1> HIDE DEF IInv, TypeOK, Running, ActiveTests, TypeOf, Jobs, Types, Active, Hop, Goto, tests
<1>7. QED
  BY <1>1, <1>2, <1>3, <1>4, <1>5, <1>6, Cases

LEMMA CappedStep ==
  ASSUME IInv, Sorted, Capped, [Next]_vars
  PROVE  Capped'
<1>1. CASE Running' \subseteq Running
  <2>1. IsFiniteSet(Running') /\ Cardinality(Running') <= Cardinality(Running)
    BY <1>1, FS_Subset DEF Capped
  <2>2. Cardinality(Running') \in Nat /\ Cardinality(Running) \in Nat
    BY <2>1, FS_CardinalityType DEF Capped
  <2>3. QED
    BY <2>1, <2>2, ProbeAssumption DEF Capped
<1>2. CASE Dispatch("speed") /\ Running' \subseteq Running \cup {held["speed"]}
  <2>1. Cardinality(Running) < Limit("speed") /\ Limit("speed") \in Nat /\ Limit("speed") <= NumSlots
    BY <1>2, ProbeAssumption DEF Dispatch, FreePlace, Running, Limit, IInv, TypeOK, Types
  <2>2. /\ IsFiniteSet(Running \cup {held["speed"]})
        /\ Cardinality(Running \cup {held["speed"]}) <= Cardinality(Running) + 1
    BY FS_AddElement, FS_CardinalityType DEF Capped
  <2>3. IsFiniteSet(Running') /\ Cardinality(Running') <= Cardinality(Running \cup {held["speed"]})
    BY <1>2, <2>2, FS_Subset
  <2>4. Cardinality(Running) \in Nat /\ Cardinality(Running') \in Nat
        /\ Cardinality(Running \cup {held["speed"]}) \in Nat
    BY <2>2, <2>3, FS_CardinalityType DEF Capped
  <2>5. Cardinality(Running') <= NumSlots
    BY <2>1, <2>2, <2>3, <2>4, ProbeAssumption
  <2>6. QED
    BY <2>3, <2>5 DEF Capped
<1>3. QED
  BY <1>1, <1>2, RunningStep

\* With at most NumSlots tests running, each slot that is not free held by one of
\* them, a test that still has to acquire a slot finds one.
LEMMA CappedSlots ==
  ASSUME IInv, Capped
  PROVE  SlotForEachTest
<1> DEFINE Waiting == {j \in SpeedJobs : pc[j] \in {"start", "acquire"}}
           Holding == {j \in SpeedJobs : pc[j] \in Owning}
           Taken   == Slots \ freeSlots
<1>1. Running = Waiting \cup Holding /\ Waiting \cap Holding = {}
  BY RunningSpeed DEF Owning, Active
<1>2. IsFiniteSet(Waiting) /\ IsFiniteSet(Holding)
  BY <1>1, FS_Subset DEF Capped
<1>3. Cardinality(Running) = Cardinality(Waiting) + Cardinality(Holding)
  <2>1. Cardinality(Waiting \cap Holding) = 0
    BY <1>1, FS_EmptySet
  <2>2. Cardinality(Waiting) \in Nat /\ Cardinality(Holding) \in Nat
    BY <1>2, FS_CardinalityType
  <2>3. Cardinality(Waiting \cup Holding)
          = Cardinality(Waiting) + Cardinality(Holding) - Cardinality(Waiting \cap Holding)
    BY <1>2, FS_Union
  <2>4. QED
    BY <1>1, <2>1, <2>2, <2>3
<1>4. IsFiniteSet(Slots) /\ Cardinality(Slots) = NumSlots
  BY FS_Interval, ProbeAssumption DEF Slots
<1>5. Cardinality(Taken) <= Cardinality(Holding)
  <2> DEFINE f == [j \in {i \in Holding : slot[i] \in Taken} |-> slot[j]]
  <2>1. f \in Surjection({i \in Holding : slot[i] \in Taken}, Taken)
    <3>1. ASSUME NEW s \in Taken PROVE \E i \in Holding : slot[i] = s
      BY DEF IInv, SlotsConserved, Owners
    <3>2. QED
      BY <3>1 DEF Surjection
  <2>2. /\ IsFiniteSet({i \in Holding : slot[i] \in Taken})
        /\ Cardinality({i \in Holding : slot[i] \in Taken}) <= Cardinality(Holding)
    BY <1>2, FS_Subset
  <2>3. Cardinality(Taken) <= Cardinality({i \in Holding : slot[i] \in Taken})
    BY <2>1, <2>2, FS_Surjection
  <2>4. /\ Cardinality(Taken) \in Nat /\ Cardinality(Holding) \in Nat
        /\ Cardinality({i \in Holding : slot[i] \in Taken}) \in Nat
    BY <1>2, <1>4, <2>2, FS_CardinalityType, FS_Subset
  <2>5. QED
    BY <2>2, <2>3, <2>4
<1>6. Cardinality(freeSlots) = NumSlots - Cardinality(Taken)
  <2>1. freeSlots = Slots \ Taken /\ Slots \cap Taken = Taken
    BY DEF IInv, TypeOK
  <2>2. QED
    BY <1>4, <2>1, FS_Difference
<1>7. /\ Cardinality(Waiting) \in Nat /\ Cardinality(Holding) \in Nat
      /\ Cardinality(Taken) \in Nat /\ Cardinality(Running) <= NumSlots
  BY <1>2, <1>4, FS_CardinalityType, FS_Subset DEF Capped
<1>8. Cardinality(Waiting) <= Cardinality(freeSlots)
  BY <1>3, <1>5, <1>6, <1>7, ProbeAssumption
<1>9. QED
  BY <1>8 DEF SlotForEachTest

\* The dispatcher's counter leaves a free slot for every test that is going to
\* ask for one: acquireSpeedSlot never waits (service.go:134-151, 272-281).
THEOREM Provided == Spec => []SlotForEachTest
<1>1. Init => Sorted /\ Capped
  <2> SUFFICES ASSUME Init PROVE Sorted /\ Capped
    OBVIOUS
  <2>1. Running = {}
    BY RunningSpeed DEF Init, Jobs, Active
  <2>2. Capped
    BY <2>1, FS_EmptySet, ProbeAssumption DEF Capped
  <2>3. Sorted
    BY DEF Init, Sorted, Types
  <2>4. QED
    BY <2>2, <2>3
<1>2. IInv /\ Capped => SlotForEachTest
  BY CappedSlots
<1>3. IInv /\ Sorted /\ Capped /\ [Next]_vars => Sorted' /\ Capped'
  BY SortedStep, CappedStep
<1>4. QED
  BY <1>1, <1>2, <1>3, Inductive, PTL DEF Spec

-----------------------------------------------------------------------------
(* The refinement of SlotPool.                                             *)

\* The variables of SlotPool do not change.
Frame == UNCHANGED <<freeSlots, lease, selections>>

\* A test that stays on the same side of the channel keeps its lease.
LEMMA LeaseKept ==
  ASSUME IInv, NEW j \in Jobs, NEW to, pc' = [pc EXCEPT ![j] = to], slot' = slot,
         j \in SpeedJobs => (pc[j] \in Owning <=> to \in Owning)
  PROVE  lease' = lease
<1>1. ASSUME NEW i \in SpeedJobs PROVE (pc'[i] \in Owning) <=> (pc[i] \in Owning)
  BY DEF IInv, TypeOK, Jobs
<1>2. QED
  BY <1>1 DEF lease

LEMMA PoolInit == Init => Pool!Init
  BY DEF Init, Pool!Init, lease, Owning, Active, Jobs

LEMMA PoolStep ==
  ASSUME IInv, [Next]_vars
  PROVE  [Pool!Next]_(Pool!pool)
<1> SUFFICES Pool!Next \/ Frame
  BY DEF Pool!pool, Frame
<1> USE DEF Hop, Goto, tests, queues, shared
<1>1. ASSUME NEW j \in Jobs,
             \/ Enqueue(j) \/ Start(j) \/ Vanish(j) \/ GiveUp(j) \/ Lookup(j) \/ Read(j)
             \/ Reload(j) \/ Announce(j) \/ Select(j)
      PROVE  Frame
  BY <1>1, LeaseKept DEF Enqueue, Start, Vanish, GiveUp, Lookup, Read, Reload, Announce, Select,
                         Frame, Owning, Active
<1>2. ASSUME NEW j \in Jobs, Acquire(j) PROVE Pool!Next
  <2>1. j \in SpeedJobs /\ lease[j] = 0
    BY <1>2 DEF Acquire, IInv, Staged, lease, Owning
  <2>2. PICK s \in freeSlots : slot' = [slot EXCEPT ![j] = s] /\ freeSlots' = freeSlots \ {s}
    BY <1>2 DEF Acquire
  <2>3. lease' = [lease EXCEPT ![j] = s]
    <3>1. ASSUME NEW i \in SpeedJobs PROVE lease'[i] = [lease EXCEPT ![j] = s][i]
      BY <1>2, <2>1, <2>2 DEF Acquire, lease, Owning, Active, IInv, TypeOK, Jobs
    <3>2. QED
      BY <3>1 DEF lease
  <2>4. Pool!Take(j, s)
    BY <1>2, <2>1, <2>2, <2>3 DEF Acquire, Pool!Take
  <2>5. s \in Slots
    BY DEF IInv, TypeOK
  <2>6. QED
    BY <2>1, <2>4, <2>5 DEF Pool!Next
<1>3. ASSUME NEW j \in Jobs, NEW v \in Nodes \cup {None}, pc[j] \in Owning,
             UNCHANGED <<freeSlots, lease>>,
             selections' = IF j \in SpeedJobs THEN [selections EXCEPT ![slot[j]] = v]
                                              ELSE selections
      PROVE  Pool!Next \/ Frame
  <2>1. CASE j \in SpeedJobs
    <3>1. lease[j] = slot[j] /\ slot[j] \in Slots
      BY <1>3, <2>1 DEF lease, IInv, Staged
    <3>2. Pool!Fill(j, v)
      BY <1>3, <2>1, <3>1 DEF Pool!Fill
    <3>3. QED
      BY <2>1, <3>2 DEF Pool!Next
  <2>2. CASE j \notin SpeedJobs
    BY <1>3, <2>2 DEF Frame
  <2>3. QED
    BY <2>1, <2>2
<1>4. ASSUME NEW j \in Jobs, Lock(j) PROVE Pool!Next \/ Frame
  <2>1. UNCHANGED <<freeSlots, lease>>
    BY <1>4, LeaseKept DEF Lock, Owning, Active
  <2>2. node[j] \in Nodes /\ pc[j] \in Owning
    BY <1>4 DEF Lock, Owning, Active, IInv, TypeOK
  <2>3. QED
    BY <1>3, <1>4, <2>1, <2>2 DEF Lock
<1>5. ASSUME NEW j \in Jobs, pc[j] \in Owning, Withdraw(j), UNCHANGED <<slot, freeSlots>>
      PROVE  Pool!Next \/ Frame
  <2>1. lease' = lease
    BY <1>5, LeaseKept DEF Withdraw, Owning, Active
  <2>2. QED
    BY <1>3, <1>5, <2>1 DEF Withdraw
<1>6. ASSUME NEW j \in Jobs, ReloadFails(j) \/ SelectFails(j) PROVE Pool!Next \/ Frame
  BY <1>5, <1>6 DEF ReloadFails, SelectFails, Owning, Active
<1>7. ASSUME NEW j \in Jobs, NEW n \in 0 .. NumSlots, Reapply(j, n) PROVE Pool!Next \/ Frame
  <2>1. pc[j] \in Owning /\ UNCHANGED <<slot, freeSlots>>
    BY <1>7 DEF Reapply, Owning, Active
  <2>2. CASE n = NumSlots
    BY <1>7, <2>2, LeaseKept DEF Reapply, Frame, Owning, Active
  <2>3. CASE n # NumSlots
    <3>1. Withdraw(j)
      BY <1>7, <2>3 DEF Reapply
    <3>2. QED
      BY <1>5, <2>1, <3>1
  <2>4. QED
    BY <2>2, <2>3
<1>8. ASSUME NEW j \in Jobs, Finish(j) PROVE Frame
  <2>1. \E to \in {"done", "clear"} : /\ pc' = [pc EXCEPT ![j] = to]
                                      /\ j \in SpeedJobs => to = "clear"
    BY <1>8 DEF Finish, Then
  <2>2. pc[j] \in Owning
    BY <1>8 DEF Finish, Owning, Active
  <2>3. lease' = lease
    BY <1>8, <2>1, <2>2, LeaseKept DEF Finish, Owning, Active
  <2>4. QED
    BY <1>8, <2>3 DEF Finish, Frame
<1>9. ASSUME NEW j \in Jobs, Clear(j) PROVE Pool!Next \/ Frame
  <2>1. j \in SpeedJobs /\ pc[j] \in Owning
    BY <1>9 DEF Clear, IInv, Staged, Owning, Active
  <2>2. UNCHANGED <<freeSlots, lease>>
    BY <1>9, LeaseKept DEF Clear, Then, Owning, Active
  <2>3. QED
    BY <1>3, <1>9, <2>1, <2>2 DEF Clear
<1>10. ASSUME NEW j \in Jobs, Release(j) PROVE Pool!Next
  <2>1. j \in SpeedJobs /\ lease[j] = slot[j] /\ slot[j] \in Slots
    BY <1>10 DEF Release, IInv, Staged, Owning, Active, lease
  <2>2. selections[slot[j]] = None
    <3>1. Owners(slot[j]) = {j}
      BY <1>10, <2>1, Sole DEF Release, Owning, Active
    <3>2. pc[j] \notin Relying \cup {"clear"}
      BY <1>10 DEF Release, Relying, Locked
    <3>3. QED
      BY <2>1, <3>1, <3>2 DEF IInv, SelectionsOwned
  <2>3. lease' = [lease EXCEPT ![j] = 0]
    <3>1. ASSUME NEW i \in SpeedJobs PROVE lease'[i] = [lease EXCEPT ![j] = 0][i]
      BY <1>10, <2>1 DEF Release, Then, lease, Owning, Active, IInv, TypeOK, Jobs
    <3>2. QED
      BY <3>1 DEF lease
  <2>4. Pool!Give(j)
    BY <1>10, <2>1, <2>2, <2>3 DEF Release, Freed, Pool!Give
  <2>5. QED
    BY <2>1, <2>4 DEF Pool!Next
<1>11. ASSUME NEW y \in Types, Dispatch(y) PROVE Frame
  <2>1. held[y] \in Jobs /\ pc[held[y]] \notin Owning
    BY <1>11 DEF Dispatch, IInv, TypeOK, Owning, Active
  <2>2. QED
    BY <1>11, <2>1, LeaseKept DEF Dispatch, Frame, Owning
<1>12. ASSUME UNCHANGED <<pc, slot, freeSlots, selections>> PROVE Frame
  BY <1>12 DEF Frame, lease
<1>13. ASSUME \/ \E y \in Types : Dequeue(y) \/ \E n \in 1 .. MaxSetting : SetLimit(y, n)
              \/ \E n \in Nodes, v \in {"on", "off", "gone"} : Edit(n, v)
              \/ PublishReads \/ PublishEnds \/ ProbeRestarts \/ Cancel \/ UNCHANGED vars
       PROVE  UNCHANGED <<pc, slot, freeSlots, selections>>
  BY <1>13 DEF Dequeue, SetLimit, Edit, PublishReads, PublishEnds, ProbeRestarts, Cancel, vars
<1> HIDE DEF Hop, Goto, tests, queues, shared
<1>14. QED
  BY <1>1, <1>2, <1>4, <1>6, <1>7, <1>8, <1>9, <1>10, <1>11, <1>12, <1>13, Cases

\* The speed tests implement a pool of slots lent to one test at a time, in which
\* only the holder of a slot writes its selection (service.go:308-338, 355-375).
THEOREM Lent == Spec => SlotsLent
  BY PoolInit, PoolStep, Inductive, PTL DEF Spec, SlotsLent, Pool!Spec
=============================================================================
