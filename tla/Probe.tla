-------------------------------- MODULE Probe --------------------------------
(***************************************************************************)
(* The probe service of internal/probe/service.go: latency and speed tests *)
(* of nodes, queued by users, syncs and sweeps, handed out by one          *)
(* dispatcher per kind of test, and run against the probe instance of      *)
(* Mihomo, whose configuration is shared by all tests.                     *)
(*                                                                         *)
(* A speed test owns one of the MaxProbeSpeedSlots listeners, and the      *)
(* select group behind it must point at the node under test. The           *)
(* configuration and the selections are changed under probeConfigMu, but   *)
(* the node and the inventory are read before it is taken, and a           *)
(* publish replaces the configuration without taking it.                   *)
(***************************************************************************)
EXTENDS Naturals, Sequences, FiniteSets

CONSTANTS
  LatencyJobs, SpeedJobs,  \* tests, each enqueued at most once
  Nodes,
  NumSlots,     \* pools.MaxProbeSpeedSlots (4)
  QueueCap,     \* capacity of each queue (512 and 128)
  MaxSetting,   \* largest concurrency a user can set
  MaxEdits,     \* bound: changes of the node tables and the settings
  MaxPublishes, \* bound: publishes and restarts that reset the probe configuration
  None

ASSUME ProbeAssumption ==
  /\ LatencyJobs \cap SpeedJobs = {}
  /\ None \notin LatencyJobs \cup SpeedJobs \cup Nodes
  /\ NumSlots \in Nat \ {0} /\ QueueCap \in Nat \ {0} /\ MaxSetting \in Nat \ {0}
  /\ MaxEdits \in Nat /\ MaxPublishes \in Nat

Jobs  == LatencyJobs \cup SpeedJobs
Slots == 1 .. NumSlots
Types == {"latency", "speed"}
TypeOf(j) == IF j \in SpeedJobs THEN "speed" ELSE "latency"

VARIABLES
  table,       \* the node tables: each node on, off or gone
  status,      \* last_status of each node, kept in the database: testing, or at rest
  setting,     \* LatencyConcurrency and SpeedConcurrency
  queue,       \* latencyQueue and speedQueue
  held,        \* the item each dispatcher waits to hand out
  freeSlots,   \* the channel speedSlots, as a set
  mutex,       \* the test that holds probeConfigMu
  cacheKey,    \* probeCacheKey: the inventory it stands for
  selections,  \* speedSlotSelections
  pc, node, slot, snap,  \* of each test: position, node, slot, inventory it read
  file,        \* the probe configuration on disk: its nodes
  loaded,      \* Mihomo: nodes of the running probe configuration
  selected,    \* Mihomo: node each slot's group points at
  cancelled,   \* rootCtx is done
  disturbed,   \* history: slots whose selection a configuration reset under a test
  publishing,  \* the inventory a publish in progress has read
  edits, publishes

tests  == <<pc, node, slot, snap>>
queues == <<queue, held, freeSlots>>
shared == <<mutex, cacheKey, selections>>
mihomo == <<file, loaded, selected, disturbed>>
rest   == <<table, status, setting, cancelled, publishing, edits, publishes>>
vars   == <<tests, queues, shared, mihomo, rest>>

Inventories == [Nodes -> {"on", "off", "gone"}]
Enabled(inv) == {n \in Nodes : inv[n] = "on"}

\* The stages of a test between the dispatch and the end of its goroutine.
Active == {"start", "acquire", "lookup", "read", "lock", "reload", "reapply",
           "select", "announce", "measure", "fail", "clear", "release"}
\* The stages inside syncProbeInventoryAndGetNode with the mutex held.
Locked == {"reload", "reapply", "select"}

Init ==
  /\ table \in [Nodes -> {"on", "off"}]
  /\ status \in [Nodes -> {"rest", "testing"}]
  /\ setting \in [Types -> 1 .. MaxSetting]
  /\ queue = [y \in Types |-> <<>>] /\ held = [y \in Types |-> None]
  /\ freeSlots = Slots
  /\ mutex = None /\ cacheKey = None /\ selections = [s \in Slots |-> None]
  /\ pc = [j \in Jobs |-> "idle"] /\ node \in [Jobs -> Nodes]
  /\ slot = [j \in Jobs |-> 0] /\ snap = [j \in Jobs |-> [n \in Nodes |-> "gone"]]
  /\ file = {} /\ loaded = {} /\ selected = [s \in Slots |-> None]
  /\ cancelled = FALSE /\ disturbed = {} /\ publishing = None /\ edits = 0 /\ publishes = 0

Goto(j, stage) == pc' = [pc EXCEPT ![j] = stage]
Hop(j, from, to) == pc[j] = from /\ Goto(j, to)

-----------------------------------------------------------------------------
(* Queueing and dispatching.                                               *)

\* Mutant of HasRoom: the buffer is one entry larger than QueueCap.
HasRoomPlusOne(y) == Len(queue[y]) <= QueueCap
HasRoom(y)        == Len(queue[y]) < QueueCap

\* EnqueueLatency, EnqueueSpeed; a full queue refuses and changes nothing.
Enqueue(j) ==
  /\ HasRoom(TypeOf(j))
  /\ Hop(j, "idle", "queued")
  /\ queue' = [queue EXCEPT ![TypeOf(j)] = Append(@, j)]
  /\ UNCHANGED <<node, slot, snap, held, freeSlots, shared, mihomo, rest>>

\* The dispatcher receives an item, perhaps together with the cancellation.
Dequeue(y) ==
  /\ held[y] = None /\ queue[y] # <<>>
  /\ held' = [held EXCEPT ![y] = Head(queue[y])]
  /\ queue' = [queue EXCEPT ![y] = Tail(@)]
  /\ UNCHANGED <<tests, freeSlots, shared, mihomo, rest>>

ActiveTests(y) == {j \in Jobs : TypeOf(j) = y /\ pc[j] \in Active}

\* Mutant of Limit: currentSpeedLimit without its cap.
UncappedLimit(y) == setting[y]
Limit(y) == IF y = "speed" /\ setting[y] > NumSlots THEN NumSlots ELSE setting[y]

\* Mutant of FreePlace: the counter is compared after the increment.
FreePlaceStrict(y) == Cardinality(ActiveTests(y)) + 1 < Limit(y)
FreePlace(y)       == Cardinality(ActiveTests(y)) < Limit(y)

\* waitForSlot saw a free place; the counter goes up and the goroutine starts.
Dispatch(y) ==
  /\ ~cancelled /\ held[y] # None /\ FreePlace(y)
  /\ Hop(held[y], "queued", "start")
  /\ held' = [held EXCEPT ![y] = None]
  /\ UNCHANGED <<node, slot, snap, queue, freeSlots, shared, mihomo, rest>>

\* The settings are read first; without them the test ends silently.
Start(j) ==
  /\ Hop(j, "start", IF j \in SpeedJobs THEN "acquire" ELSE "lookup")
  /\ ~cancelled
  /\ UNCHANGED <<node, slot, snap, queues, shared, mihomo, rest>>

Vanish(j) ==
  /\ Hop(j, "start", "done") /\ cancelled
  /\ UNCHANGED <<node, slot, snap, queues, shared, mihomo, rest>>

\* acquireSpeedSlot receives from the channel, or gives up once cancelled.
Acquire(j) ==
  /\ Hop(j, "acquire", "lookup")
  /\ \E s \in freeSlots : /\ slot' = [slot EXCEPT ![j] = s]
                          /\ freeSlots' = freeSlots \ {s}
  /\ UNCHANGED <<node, snap, queue, held, shared, mihomo, rest>>

GiveUp(j) ==
  /\ Hop(j, "acquire", "done") /\ cancelled
  /\ UNCHANGED <<node, slot, snap, queues, shared, mihomo, rest>>

-----------------------------------------------------------------------------
(* syncProbeInventoryAndGetNode.                                           *)

\* lookupRuntimeNode, then AllRuntimeNodes, both before the lock.
Lookup(j) ==
  /\ pc[j] = "lookup"
  /\ Goto(j, IF cancelled \/ table[node[j]] = "gone" THEN "fail" ELSE "read")
  /\ UNCHANGED <<node, slot, snap, queues, shared, mihomo, rest>>

Read(j) ==
  /\ pc[j] = "read"
  /\ snap' = [snap EXCEPT ![j] = table]
  /\ Goto(j, IF cancelled THEN "fail" ELSE "lock")
  /\ UNCHANGED <<node, slot, queues, shared, mihomo, rest>>

\* Take the mutex, record the selection and compare the cache key.
Lock(j) ==
  /\ pc[j] = "lock" /\ mutex = None
  /\ mutex' = j
  /\ selections' = IF j \in SpeedJobs THEN [selections EXCEPT ![slot[j]] = node[j]]
                                      ELSE selections
  /\ Goto(j, IF snap[j] = cacheKey THEN "select" ELSE "reload")
  /\ UNCHANGED <<node, slot, snap, queues, cacheKey, mihomo, rest>>

\* The inventory a test has read is of no use after the sync.
NoSnap  == [n \in Nodes |-> "gone"]
Drop(j) == snap' = [snap EXCEPT ![j] = NoSnap]

\* Release the mutex with an error; the recorded selection is withdrawn.
Withdraw(j) ==
  /\ mutex' = None
  /\ selections' = IF j \in SpeedJobs THEN [selections EXCEPT ![slot[j]] = None]
                                      ELSE selections
  /\ Goto(j, "fail") /\ Drop(j)
  /\ UNCHANGED cacheKey

\* Slots with a test that relies on its selection.
InUse == {slot[j] : j \in {i \in SpeedJobs : pc[i] \in {"announce", "measure"}}}

\* A new configuration is written, and loaded: the groups fall back to their first
\* entry.
WriteConfig(inv) ==
  file' = Enabled(inv) /\ UNCHANGED <<loaded, selected, disturbed>>

LoadConfig(inv) ==
  /\ file' = Enabled(inv) /\ loaded' = Enabled(inv)
  /\ selected' = [s \in Slots |-> None]
  /\ disturbed' = disturbed \cup InUse

\* ApplyProbeConfig. It fails when the file cannot be written, the controller does
\* not answer or the context is done, and may have written the configuration, or
\* loaded it too, nevertheless.
Reload(j) ==
  /\ pc[j] = "reload" /\ ~cancelled
  /\ LoadConfig(snap[j])
  /\ Goto(j, "reapply")
  /\ UNCHANGED <<node, slot, snap, queues, shared, rest>>

ReloadFails(j) ==
  /\ pc[j] = "reload"
  /\ Withdraw(j)
  /\ LoadConfig(snap[j]) \/ WriteConfig(snap[j]) \/ UNCHANGED mihomo
  /\ UNCHANGED <<node, slot, queues, rest>>

\* Mutant of Pointed: the loop over the slots ends one slot early.
PointedShort(n) == {s \in 1 .. n : s # NumSlots /\ selections[s] # None}
Pointed(n)      == {s \in 1 .. n : selections[s] # None}

\* reapplySpeedSlotSelections, slot by slot, up to the first failure: a node the
\* configuration does not have, or a call that fails. Only a complete pass
\* records the cache key.
Reapply(j, n) ==
  /\ pc[j] = "reapply"
  /\ \A s \in Pointed(n) : selections[s] \in loaded
  /\ selected' = [s \in Slots |-> IF s \in Pointed(n) THEN selections[s] ELSE selected[s]]
  /\ IF n = NumSlots
       THEN /\ cacheKey' = snap[j] /\ mutex' = None /\ disturbed' = {}
            /\ Goto(j, "announce") /\ Drop(j) /\ UNCHANGED selections
       ELSE Withdraw(j) /\ UNCHANGED disturbed
  /\ UNCHANGED <<node, slot, file, loaded, queues, rest>>

\* The inventory was applied already: point the slot at the node.
Select(j) ==
  /\ pc[j] = "select"
  /\ IF j \in SpeedJobs
       THEN /\ node[j] \in loaded /\ ~cancelled
            /\ selected' = [selected EXCEPT ![slot[j]] = node[j]]
            /\ disturbed' = disturbed \ {slot[j]}
       ELSE UNCHANGED <<selected, disturbed>>
  /\ mutex' = None /\ Goto(j, "announce") /\ Drop(j)
  /\ UNCHANGED <<node, slot, file, loaded, queues, cacheKey, selections, rest>>

SelectFails(j) ==
  /\ pc[j] = "select" /\ j \in SpeedJobs
  /\ Withdraw(j)
  /\ UNCHANGED <<node, slot, queues, mihomo, rest>>

-----------------------------------------------------------------------------
(* The test itself and the end of its goroutine.                           *)

\* A write of the node's row. It needs a live context and an existing row, and the
\* store may refuse it all the same: the tests discard the error.
Write(n, value) ==
  \/ ~cancelled /\ table[n] # "gone" /\ status' = [status EXCEPT ![n] = value]
  \/ status' = status

\* The deferred calls of runSpeed, last registered first: clearSpeedSlotSelection,
\* then releaseSpeedSlot. Mutant of Then: the two defers are swapped.
ThenSwapped(j, stage) ==
  IF stage = "release" THEN "clear"
  ELSE IF stage = "test" /\ j \in SpeedJobs THEN "release" ELSE "done"
Then(j, stage) ==
  IF stage = "clear" THEN "release"
  ELSE IF stage = "test" /\ j \in SpeedJobs THEN "clear" ELSE "done"

\* setStatus "testing".
Announce(j) ==
  /\ Hop(j, "announce", "measure")
  /\ Write(node[j], "testing")
  /\ UNCHANGED <<node, slot, snap, queues, shared, mihomo, table, setting, cancelled,
                 publishing, edits, publishes>>

\* The measurement ends, in whatever way: updateResult, probe.finished.
Finish(j) ==
  /\ pc[j] \in {"measure", "fail"}
  /\ Goto(j, Then(j, "test"))
  /\ Write(node[j], "rest")
  /\ UNCHANGED <<node, slot, snap, queues, shared, mihomo, table, setting, cancelled,
                 publishing, edits, publishes>>

\* clearSpeedSlotSelection takes the mutex.
Clear(j) ==
  /\ mutex = None /\ Hop(j, "clear", Then(j, "clear"))
  /\ selections' = [selections EXCEPT ![slot[j]] = None]
  /\ UNCHANGED <<node, slot, snap, queues, mutex, cacheKey, mihomo, rest>>

\* Mutant of Freed: the slot is not sent back to the channel.
FreedNever(j) == freeSlots
Freed(j)      == freeSlots \cup {slot[j]}

\* releaseSpeedSlot; at last the counter goes down.
Release(j) ==
  /\ Hop(j, "release", Then(j, "release"))
  /\ freeSlots' = Freed(j)
  /\ UNCHANGED <<node, slot, snap, queue, held, shared, mihomo, rest>>

-----------------------------------------------------------------------------
(* The surroundings.                                                       *)

\* A user or a sync enables, disables or deletes a node. A node that is added
\* is, for the configuration, one that is enabled; identifiers are not reused.
Edit(n, v) ==
  /\ edits < MaxEdits /\ edits' = edits + 1
  /\ table[n] \notin {v, "gone"}
  /\ table' = [table EXCEPT ![n] = v]
  /\ status' = IF v = "gone" THEN [status EXCEPT ![n] = "rest"] ELSE status
  /\ UNCHANGED <<tests, queues, shared, mihomo, setting, cancelled, publishing, publishes>>

SetLimit(y, n) ==
  /\ edits < MaxEdits /\ edits' = edits + 1
  /\ setting' = [setting EXCEPT ![y] = n] /\ n # setting[y]
  /\ UNCHANGED <<tests, queues, shared, mihomo, table, status, cancelled, publishing,
                 publishes>>

\* pools.Publish reads the inventory and reloads the probe configuration on its
\* own, without the mutex; or it fails before that.
PublishReads ==
  /\ publishing = None /\ publishes < MaxPublishes
  /\ publishing' = table /\ publishes' = publishes + 1
  /\ UNCHANGED <<tests, queues, shared, mihomo, table, status, setting, cancelled, edits>>

PublishEnds ==
  /\ publishing # None /\ publishing' = None
  /\ LoadConfig(publishing) \/ WriteConfig(publishing) \/ UNCHANGED mihomo
  /\ UNCHANGED <<tests, queues, shared, table, status, setting, cancelled, edits, publishes>>

\* The supervisor starts the probe process again, from whatever the file holds.
ProbeRestarts ==
  /\ publishes < MaxPublishes /\ publishes' = publishes + 1
  /\ loaded' = file /\ selected' = [s \in Slots |-> None]
  /\ disturbed' = disturbed \cup InUse
  /\ UNCHANGED <<tests, queues, shared, file, table, status, setting, cancelled, publishing,
                 edits>>

Cancel ==
  /\ ~cancelled /\ cancelled' = TRUE
  /\ UNCHANGED <<tests, queues, shared, mihomo, table, status, setting, publishing, edits,
                 publishes>>

-----------------------------------------------------------------------------
Test(j) ==
  \/ Start(j) \/ Vanish(j) \/ Acquire(j) \/ GiveUp(j) \/ Lookup(j) \/ Read(j)
  \/ Lock(j) \/ Reload(j) \/ ReloadFails(j) \/ Select(j) \/ SelectFails(j)
  \/ \E n \in 0 .. NumSlots : Reapply(j, n)
  \/ Announce(j) \/ Finish(j) \/ Clear(j) \/ Release(j)

\* No test runs, and none is queued that a dispatcher will still hand out.
AtRest == /\ \A j \in Jobs : pc[j] \notin Active
          /\ cancelled \/ \A j \in Jobs : pc[j] # "queued"

Terminated == AtRest /\ UNCHANGED vars

Next ==
  \/ \E j \in Jobs : Enqueue(j) \/ Test(j)
  \/ \E y \in Types : \/ Dequeue(y) \/ Dispatch(y)
                      \/ \E n \in 1 .. MaxSetting : SetLimit(y, n)
  \/ \E n \in Nodes, v \in {"on", "off", "gone"} : Edit(n, v)
  \/ PublishReads \/ PublishEnds \/ ProbeRestarts \/ Cancel \/ Terminated

Spec == Init /\ [][Next]_vars

\* Dispatchers and tests run; every call of a test has a deadline. Nothing makes
\* users enqueue, edit or publish. Locks are handed over: with finitely many
\* tests weak fairness of each is enough.
Fairness ==
  /\ \A j \in Jobs : WF_vars(Test(j))
  /\ \A y \in Types : WF_vars(Dequeue(y)) /\ WF_vars(Dispatch(y))

FairSpec == Spec /\ Fairness

-----------------------------------------------------------------------------
(* Properties.                                                             *)

TypeOK ==
  /\ table \in [Nodes -> {"on", "off", "gone"}]
  /\ status \in [Nodes -> {"rest", "testing"}]
  /\ setting \in [Types -> 1 .. MaxSetting]
  /\ queue \in [Types -> Seq(Jobs)] /\ \A y \in Types : Len(queue[y]) <= QueueCap
  /\ held \in [Types -> Jobs \cup {None}]
  /\ freeSlots \subseteq Slots
  /\ mutex \in Jobs \cup {None}
  /\ cacheKey \in Inventories \cup {None}
  /\ selections \in [Slots -> Nodes \cup {None}]
  /\ pc \in [Jobs -> Active \cup {"idle", "queued", "done"}]
  /\ node \in [Jobs -> Nodes] /\ slot \in [Jobs -> Slots \cup {0}]
  /\ snap \in [Jobs -> Inventories]
  /\ file \subseteq Nodes /\ loaded \subseteq Nodes /\ selected \in [Slots -> Nodes \cup {None}]
  /\ cancelled \in BOOLEAN /\ publishing \in Inventories \cup {None} /\ disturbed \subseteq Slots
  /\ edits \in 0 .. MaxEdits /\ publishes \in 0 .. MaxPublishes

\* A speed test owns its slot from the receive to the send of the channel.
Owning  == Active \ {"start", "acquire"}
Owners(s) == {j \in SpeedJobs : pc[j] \in Owning /\ slot[j] = s}

\* Each slot is free, or owned by exactly one test: no two tests share a port,
\* and no slot is lost on any path out of runSpeed.
SlotsConserved ==
  \A s \in Slots : IF s \in freeSlots THEN Owners(s) = {}
                                     ELSE \E j \in SpeedJobs : Owners(s) = {j}

\* The dispatcher's counter keeps as many slots free as tests are going to ask
\* for: acquireSpeedSlot never waits.
SlotForEachTest ==
  Cardinality({j \in SpeedJobs : pc[j] \in {"start", "acquire"}}) <= Cardinality(freeSlots)

\* The stages of a test whose selection must survive a reload.
Relying == Locked \cup {"announce", "measure"}

\* speedSlotSelections names a node for exactly the slots of the tests that need
\* it (or are about to clear it), and it is the node of the slot's own test: the
\* deferred clear of an earlier test never removes a later one's.
SelectionsOwned ==
  \A s \in Slots :
    /\ selections[s] = None => \A j \in Owners(s) : pc[j] \notin Relying
    /\ selections[s] # None => \E j \in Owners(s) : /\ node[j] = selections[s]
                                                     /\ pc[j] \in Relying \cup {"clear"}

\* A slot and what is selected for it belong to one test, from the receive of the
\* channel to the send, on all paths through runSpeed (service.go:308-338).
SlotsOwned == SlotsConserved /\ SelectionsOwned

\* A speed test measures through the node it is about, whatever the other tests
\* reload, unless a publish, a restart of the probe process or an unfinished
\* reload has reset the groups since.
MeasuresOwnNode ==
  \A j \in SpeedJobs : pc[j] \in {"announce", "measure"} /\ slot[j] \notin disturbed =>
    selected[slot[j]] = node[j] /\ node[j] \in loaded

\* The inductive invariant: the mutex is held in the stages between its lock and
\* unlock, only speed tests reach the stages that concern a slot and have one from
\* there on.
MutexHeld == \A j \in Jobs : pc[j] \in Locked <=> mutex = j
Staged    == \A j \in Jobs :
               /\ pc[j] \in {"acquire", "clear", "release"} => j \in SpeedJobs
               /\ pc[j] \in Owning /\ j \in SpeedJobs => slot[j] \in Slots

IInv == /\ TypeOK /\ MutexHeld /\ Staged
        /\ SlotsConserved /\ SelectionsOwned /\ MeasuresOwnNode

\* A queued test is run to its end, unless the program is told to stop; a test
\* that was started ends in any case: every test settles.
Resolved(j) == pc[j] \in {"idle", "done"} \/ (pc[j] = "queued" /\ cancelled)
TestsSettle == \A j \in Jobs : []<>Resolved(j)

\* A test whose sync was skipped because of the cache key finds the inventory it
\* read in the running configuration (service_test.go:117).
SkippedMeansLoaded ==
  [][\A j \in Jobs : Select(j) => loaded = Enabled(snap[j])]_vars

-----------------------------------------------------------------------------
(* The tests implement a pool of slots: a test holds a slot between the two   *)
(* ends of the channel speedSlots, and the entry is speedSlotSelections.      *)

lease == [j \in SpeedJobs |-> IF pc[j] \in Owning THEN slot[j] ELSE 0]

Pool == INSTANCE SlotPool WITH Clients <- SpeedJobs, Values <- Nodes, Blank <- None,
                               NoSlot <- 0, free <- freeSlots, entry <- selections

\* Slots are lent to one test at a time, a recorded selection is only changed by
\* the test that holds the slot, and it is withdrawn before the slot is given
\* back, whatever path a test takes out of runSpeed (service.go:308-338).
SlotsLent == Pool!Spec
=============================================================================
