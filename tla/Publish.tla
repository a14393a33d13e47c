------------------------------- MODULE Publish -------------------------------
(***************************************************************************)
(* Publishing: how the tables of pools, members and nodes become the       *)
(* configuration of the production Mihomo instance.                        *)
(* internal/pools/service.go reads the tables one statement at a time,     *)
(* internal/pools/publish.go builds the configuration, and                 *)
(* internal/mihomo/manager.go writes the file and loads it.  Every handler *)
(* that edits a table starts a publish of its own in the background        *)
(* (internal/web/server.go); no lock keeps two publishes apart.            *)
(*                                                                         *)
(* A configuration maps a pool to the nodes of its group, or to None when  *)
(* it has no listener, and carries the secret of the instance's controller *)
(* which the manager has to send with its next request.  Weights,          *)
(* strategies, health checks and the probe half of the bundle are left     *)
(* out: a failure caused by that half is an outcome of the production half. *)
(***************************************************************************)
EXTENDS Naturals, FiniteSets

CONSTANTS
  Pools, Nodes,  \* ids; AUTOINCREMENT never hands one out twice
  Secrets,       \* values of the setting mihomo_controller_secret
  HighPools,     \* pools whose id may be too large for a port (InternalPort)
  Publishers,    \* goroutines that can run Publish at the same time
  Hurried,       \* those whose context can end before the publish does
  MayCrash,      \* whether the production instance can die on its own
  MaxEdits,      \* bound: edits of the tables
  MaxRuns,       \* bound: publishes
  All, None,     \* "every pool" and "nothing"
  Missing, Empty, Mixed  \* no file, one just truncated, pieces of two of them

Maps    == [Pools -> (SUBSET Nodes) \cup {None}]
Configs == [pools : Maps, secret : Secrets]

ASSUME PublishAssumption ==
  /\ None \notin Secrets /\ HighPools \subseteq Pools /\ Hurried \subseteq Publishers
  /\ MaxEdits \in Nat /\ MaxRuns \in Nat /\ MayCrash \in BOOLEAN
  /\ All \notin Pools /\ None \notin Pools
  /\ \A members \in SUBSET Nodes : members # None
  /\ Missing # Empty /\ Missing # Mixed /\ Empty # Mixed
  /\ \A c \in Configs : c \notin {None, Missing, Empty, Mixed}

VARIABLES
  table,   \* proxy_pools: not created yet, on, off or deleted
  status,  \* last_publish_status
  rows,    \* enabled rows of proxy_pool_members
  node,    \* manual_nodes and subscription_nodes
  secret,  \* of the settings
  edits, runs,    \* number of edits and of publishes so far
  pc, target, late,           \* each publish: position, argument, context over
  list, todo, at, refs, got, next, bearer,  \* and its local variables
  tmp, file,  \* content of the .tmp file and of the configuration file
  fd,         \* the file each publish has open for writing
  bad,        \* pools whose id is too large for a port
  binary,     \* binaryAvailable
  live,       \* what the production instance runs, None when it is down
  held,       \* lastSecret, which the manager sends to the instance
  stable,     \* history: what has been in service since the publish began
  clean,      \* history: no edit since the publish began
  alone,      \* history: no other publish since the publish began
  settled     \* history: the last publish was clean, alone and successful

tables == <<table, rows, node, secret, edits>>
local  == <<list, todo, at, refs, got, next, bearer>>
disk   == <<tmp, file, fd>>
given  == <<bad, binary>>
loaded == <<live, held>>
since  == <<stable, clean, alone>>
vars   == <<tables, runs, status, pc, target, late, local, disk, given, loaded,
            since, settled>>

Exists == {"on", "off"}

\* What the tables say should be served: pools that are on, with their members
\* that are on.
Wanted == [pools |-> [p \in Pools |-> IF table[p] = "on"
                                      THEN {n \in rows[p] : node[n] = "on"} ELSE None],
           secret |-> secret]
InService == {x \in Pools \X Nodes :
                table[x[1]] = "on" /\ x[2] \in rows[x[1]] /\ node[x[2]] = "on"}

Quiet == \A g \in Publishers : pc[g] = "idle"

\* minimalProdConfig, with the secret it was written under.
Minimal(s) == [pools |-> [p \in Pools |-> None], secret |-> s]

\* The database as the last run left it, and the configuration file Start
\* writes when there is none; the secret may have been changed since then.
\* The ids beyond the ports are yet to come.
Init ==
  /\ table \in [Pools -> {"unborn", "on"}]
  /\ bad \in SUBSET HighPools
  /\ \A p \in bad : table[p] = "unborn"
  \* every pool with every node
  /\ rows = [p \in Pools |-> IF table[p] = "on" THEN Nodes ELSE {}]
  /\ node = [n \in Nodes |-> "on"]
  /\ status = [p \in Pools |-> ""] /\ edits = 0 /\ runs = 0
  /\ pc = [g \in Publishers |-> "idle"]
  /\ target = [g \in Publishers |-> All]
  /\ late = [g \in Publishers |-> FALSE]
  /\ list = [g \in Publishers |-> [p \in Pools |-> "unborn"]]
  /\ todo = [g \in Publishers |-> {}]
  /\ at = [g \in Publishers |-> None]
  /\ refs = [g \in Publishers |-> {}]
  /\ got = [g \in Publishers |-> [p \in Pools |-> {}]]
  /\ next = [g \in Publishers |-> None] /\ bearer = [g \in Publishers |-> None]
  /\ tmp = Missing /\ \E s \in Secrets : file = Minimal(s)
  /\ fd = [g \in Publishers |-> "none"]
  /\ binary \in BOOLEAN
  /\ secret \in Secrets /\ held = secret
  /\ live = IF binary THEN file ELSE None
  /\ stable = [g \in Publishers |-> {}]
  /\ clean = [g \in Publishers |-> FALSE]
  /\ alone = [g \in Publishers |-> FALSE]
  /\ settled = FALSE

Goto(g, place) == pc' = [pc EXCEPT ![g] = place]

-----------------------------------------------------------------------------
(* Publishes begin, and tables are edited.                                 *)

Spawn(g, t) ==
  /\ pc[g] = "idle" /\ runs < MaxRuns
  /\ runs' = runs + 1
  /\ Goto(g, "settings")
  /\ target' = [target EXCEPT ![g] = t]
  /\ alone' = [h \in Publishers |->
                h = g /\ \A k \in Publishers \ {g} : pc[k] = "idle"]
  /\ settled' = FALSE
  /\ UNCHANGED <<late, local, disk, given, loaded>>

\* The publish button of a pool; the startup publish and the one after a sync
\* that changed nothing.
Begin(g, t) ==
  /\ Spawn(g, t)
  /\ t \in Pools => table[t] # "unborn"
  /\ stable' = [stable EXCEPT ![g] = InService]
  /\ clean' = [clean EXCEPT ![g] = TRUE]
  /\ UNCHANGED <<tables, status>>

\* A handler writes a table and calls publishRuntimeAsync.
Edit(g) ==
  /\ edits < MaxEdits /\ edits' = edits + 1
  /\ Spawn(g, All)
  /\ stable' = [h \in Publishers |-> IF h = g THEN InService'
                                     ELSE stable[h] \cap InService']
  /\ clean' = [h \in Publishers |-> h = g]

PoolCreate(g, p) ==
  /\ table[p] = "unborn"
  /\ \E v \in Exists : table' = [table EXCEPT ![p] = v]
  /\ UNCHANGED <<rows, node, secret, status>>
  /\ Edit(g)

\* Update and Toggle.
PoolUpdate(g, p) ==
  /\ table[p] \in Exists
  /\ \E v \in Exists : table' = [table EXCEPT ![p] = v]
  /\ UNCHANGED <<rows, node, secret, status>>
  /\ Edit(g)

\* The member rows go with the pool (ON DELETE CASCADE).
PoolDelete(g, p) ==
  /\ table[p] \in Exists
  /\ table' = [table EXCEPT ![p] = "gone"]
  /\ rows' = [rows EXCEPT ![p] = {}]
  /\ UNCHANGED <<node, secret, status>>
  /\ Edit(g)

\* One transaction; nothing checks that the nodes exist.
UpdateMembers(g, p, members) ==
  /\ table[p] \in Exists
  /\ rows' = [rows EXCEPT ![p] = members]
  /\ UNCHANGED <<table, node, secret, status>>
  /\ Edit(g)

\* Toggle and Delete of a node, a sync that drops it: the member rows stay.
NodeEdit(g, n) ==
  /\ node[n] # "gone"
  /\ \E v \in {"on", "off", "gone"} \ {node[n]} :
       node' = [node EXCEPT ![n] = v]
  /\ UNCHANGED <<table, rows, secret, status>>
  /\ Edit(g)

\* Settings.Update, the secret among them.
SettingsEdit(g) ==
  /\ secret' \in Secrets
  /\ UNCHANGED <<table, rows, node, status>>
  /\ Edit(g)

\* With another panel address it asks for a restart, and publishes nothing.
SettingsKept ==
  /\ edits < MaxEdits /\ edits' = edits + 1
  /\ secret' \in Secrets
  /\ clean' = [g \in Publishers |-> FALSE] /\ settled' = FALSE
  /\ UNCHANGED <<table, rows, node, status, runs, pc, target, late, local, disk,
                 given, loaded, stable, alone>>

\* The thirty seconds are over, or the client of the request has gone.  Where
\* nothing looks at the context, a later moment is as good.
Expire(g) ==
  /\ g \in Hurried /\ ~late[g]
  /\ pc[g] \notin {"idle", "write", "rename", "stop"}
  /\ late' = [late EXCEPT ![g] = TRUE]
  /\ UNCHANGED <<tables, runs, status, pc, target, local, disk, given, loaded,
                 since, settled>>

-----------------------------------------------------------------------------
(* Reading the tables and building the configuration.                      *)

NoEffect ==
  UNCHANGED <<tables, runs, status, target, late, disk, given, loaded, since,
              settled>>

ReadSettings(g) ==
  /\ pc[g] = "settings" /\ ~late[g]
  /\ Goto(g, "list")
  /\ next' = [next EXCEPT ![g] = secret]
  /\ UNCHANGED <<list, todo, at, refs, got, bearer>>
  /\ NoEffect

List(g) ==
  /\ pc[g] = "list" /\ ~late[g]
  /\ Goto(g, "rows")
  /\ list' = [list EXCEPT ![g] = table]
  /\ todo' = [todo EXCEPT ![g] = {p \in Pools : table[p] \in Exists}]
  /\ UNCHANGED <<at, refs, got, next, bearer>>
  /\ NoEffect

\* runtimeMembersForPool: the rows in one statement.
ReadRows(g, p) ==
  /\ pc[g] = "rows" /\ ~late[g] /\ p \in todo[g]
  /\ Goto(g, IF rows[p] = {} THEN "rows" ELSE "nodes")
  /\ todo' = [todo EXCEPT ![g] = @ \ {p}]
  /\ at' = [at EXCEPT ![g] = IF rows[p] = {} THEN None ELSE p]
  /\ refs' = [refs EXCEPT ![g] = rows[p]]
  /\ UNCHANGED <<list, got, next, bearer>>
  /\ NoEffect

\* Mutant of Found: seenProxyNames drops a node that another pool has as well.
FoundOnce(g, n) ==
  ~late[g] /\ node[n] = "on" /\ \A p \in Pools : n \notin got[g][p]

\* NodeBySource of one row.  An error is dropped with its node, be it that the
\* node is gone or that the context is over; buildProdConfig skips those off.
Found(g, n) == ~late[g] /\ node[n] = "on"
ReadNode(g, n) ==
  /\ pc[g] = "nodes" /\ n \in refs[g]
  /\ Goto(g, IF refs[g] = {n} THEN "rows" ELSE "nodes")
  /\ refs' = [refs EXCEPT ![g] = @ \ {n}]
  /\ got' = IF Found(g, n) THEN [got EXCEPT ![g][at[g]] = @ \cup {n}] ELSE got
  /\ at' = [at EXCEPT ![g] = IF refs[g] = {n} THEN None ELSE @]
  /\ UNCHANGED <<list, todo, next, bearer>>
  /\ NoEffect

\* Mutant of Config: a disabled pool keeps its listener.
ConfigOfAll(g) ==
  [pools |-> [p \in Pools |-> IF list[g][p] \in Exists THEN got[g][p] ELSE None],
   secret |-> next[g]]

\* buildProdConfig from what the publish has read.
Config(g) ==
  [pools |-> [p \in Pools |-> IF list[g][p] = "on" THEN got[g][p] ELSE None],
   secret |-> next[g]]

\* A statement fails when the context is over, the build when a pool has no
\* port; the other pools fail with it.
ReadAll(g)  == pc[g] = "rows" /\ todo[g] = {}
Portless(g) == \E p \in bad : list[g][p] = "on"
ReadFails(g) ==
  /\ \/ late[g] /\ pc[g] \in {"settings", "list"}
     \/ late[g] /\ pc[g] = "rows" /\ todo[g] # {}
     \/ ReadAll(g) /\ Portless(g)
  /\ Goto(g, "failed")
  /\ UNCHANGED local
  /\ NoEffect

-----------------------------------------------------------------------------
(* writeFileAtomic: every publish uses the same path.tmp.                  *)

FileStep ==
  UNCHANGED <<tables, runs, status, target, late, local, given, loaded, since,
              settled>>

\* os.WriteFile opens with O_CREATE and O_TRUNC, once the bundle is built.
OpenTmp(g) ==
  /\ ReadAll(g) /\ ~Portless(g)
  /\ Goto(g, "write")
  /\ tmp' = Empty
  /\ fd' = [fd EXCEPT ![g] = "tmp"]
  /\ UNCHANGED file
  /\ FileStep

\* Bytes written from offset 0 over what another publish wrote in the meantime
\* leave the end of the longer one behind.
Over(old, new) == IF old \in {Empty, new} THEN {new} ELSE {new, Mixed}

WriteTmp(g) ==
  /\ pc[g] = "write"
  /\ Goto(g, "rename")
  /\ tmp' \in IF fd[g] = "tmp" THEN Over(tmp, Config(g)) ELSE {tmp}
  /\ file' \in IF fd[g] = "file" THEN Over(file, Config(g)) ELSE {file}
  /\ fd' = [fd EXCEPT ![g] = "none"]
  /\ FileStep

\* What is open stays open under its new name, or without one.  Then the probe's
\* file is written, which may fail when this one is in place already.
RenameTmp(g) ==
  /\ pc[g] = "rename" /\ tmp # Missing
  /\ Goto(g, "secret") \/ Goto(g, "failed")
  /\ file' = tmp /\ tmp' = Missing
  /\ fd' = [h \in Publishers |-> CASE fd[h] = "tmp" -> "file"
                                   [] fd[h] = "file" -> "lost"
                                   [] OTHER -> fd[h]]
  /\ FileStep

RenameFails(g) ==
  /\ pc[g] = "rename" /\ tmp = Missing
  /\ Goto(g, "failed")
  /\ UNCHANGED disk
  /\ FileStep

-----------------------------------------------------------------------------
(* Loading the configuration into the instance.                            *)

LoadStep ==
  UNCHANGED <<tables, runs, status, target, late, disk, given, since>>

\* Mihomo refuses a file that is empty or is not one document.
Loaded == IF file \in {Empty, Mixed} THEN None ELSE file

\* Mutant of ToMark: poolID 0 taken for a pool.
ToMarkOne(g) == {target[g]}

\* The pools markPublishSuccess goes through: those of poolList, or the one.
ToMark(g) == IF target[g] = All THEN {p \in Pools : list[g][p] \in Exists}
             ELSE {target[g]}

\* The configuration is in place, and its secret the one to send:
\* ApplyConfigBundle returns nil.
Applied(g) ==
  /\ Goto(g, "mark")
  /\ todo' = [todo EXCEPT ![g] = ToMark(g)]
  /\ held' = next[g]
  /\ settled' = (clean[g] /\ alone[g] /\ ~late[g])
  /\ UNCHANGED <<list, at, refs, got, next, bearer, live>>
  /\ LoadStep

NoBinary(g) == pc[g] = "secret" /\ ~binary /\ Applied(g)

CurrentSecret(g) ==
  /\ pc[g] = "secret" /\ binary
  /\ Goto(g, "put")
  /\ bearer' = [bearer EXCEPT ![g] = held]
  /\ UNCHANGED <<list, todo, at, refs, got, next, loaded, settled>>
  /\ LoadStep

\* PUT /configs carries the payload, not the file, and the secret with it.  It
\* may be loaded and the answer be lost, or the reload of the probe instance
\* may fail: "stop".
Put(g) ==
  /\ pc[g] = "put" /\ live # None /\ live.secret = bearer[g] /\ ~late[g]
  /\ live' = Config(g)
  /\ \E place \in {"check", "stop"} : Goto(g, place)
  /\ UNCHANGED <<local, held, settled>>
  /\ LoadStep

\* A wrong secret is one of the reasons.  Mutant of PutFails: the failure is
\* logged and nothing falls back to a restart.
PutFailsLogged(g) ==
  /\ pc[g] = "put"
  /\ Goto(g, "check")
  /\ UNCHANGED <<local, loaded, settled>>
  /\ LoadStep

PutFails(g) ==
  /\ pc[g] = "put"
  /\ Goto(g, "stop")
  /\ UNCHANGED <<local, loaded, settled>>
  /\ LoadStep

\* restartProcess.
Stop(g) ==
  /\ pc[g] = "stop"
  /\ Goto(g, "start")
  /\ live' = None
  /\ UNCHANGED <<local, held, settled>>
  /\ LoadStep

\* startProcess: nothing to do when another publish has started one.
Start(g) ==
  /\ pc[g] = "start" /\ (live # None \/ ~late[g])
  /\ Goto(g, "check")
  /\ live' = IF live = None THEN Loaded ELSE live
  /\ UNCHANGED <<local, held, settled>>
  /\ LoadStep

StartFails(g) ==
  /\ pc[g] = "start" /\ late[g] /\ live = None
  /\ Goto(g, "failed")
  /\ UNCHANGED <<local, loaded, settled>>
  /\ LoadStep

\* waitControllerWithSecret, for both instances: any answer but a server error
\* will do, the refusal of the secret as well.
Answers(g) ==
  /\ pc[g] = "check" /\ live # None /\ ~late[g]
  /\ Applied(g)

Silent(g) ==
  /\ pc[g] = "check"
  /\ Goto(g, "failed")
  /\ UNCHANGED <<local, loaded, settled>>
  /\ LoadStep

\* The instance dies, and its supervisor starts it from the file.
Crash ==
  /\ MayCrash /\ live # None
  /\ live' = None
  /\ UNCHANGED <<tables, runs, status, pc, target, late, local, disk, given,
                 held, since, settled>>
Respawn ==
  /\ binary /\ live = None /\ Loaded # None
  /\ live' = Loaded
  /\ UNCHANGED <<tables, runs, status, pc, target, late, local, disk, given,
                 held, since, settled>>

-----------------------------------------------------------------------------
(* Recording the outcome.                                                  *)

\* Publish returns; what its goroutine remembered is gone.
Forget(g) ==
  /\ list' = [list EXCEPT ![g] = [p \in Pools |-> "unborn"]]
  /\ todo' = [todo EXCEPT ![g] = {}]
  /\ at' = [at EXCEPT ![g] = None]
  /\ refs' = [refs EXCEPT ![g] = {}]
  /\ got' = [got EXCEPT ![g] = [p \in Pools |-> {}]]
  /\ next' = [next EXCEPT ![g] = None] /\ bearer' = [bearer EXCEPT ![g] = None]
  /\ target' = [target EXCEPT ![g] = All]
  /\ late' = [late EXCEPT ![g] = FALSE]
  /\ stable' = [stable EXCEPT ![g] = {}]
  /\ clean' = [clean EXCEPT ![g] = FALSE]
  /\ alone' = [alone EXCEPT ![g] = FALSE]
  /\ UNCHANGED <<tables, runs, disk, given, loaded, settled>>

\* markPublishSuccess updates the row of one pool, if it still exists.
MarkPool(g, p) ==
  /\ pc[g] = "mark" /\ ~late[g] /\ p \in todo[g]
  /\ status' = IF table[p] \in Exists THEN [status EXCEPT ![p] = "published"]
               ELSE status
  /\ todo' = [todo EXCEPT ![g] = @ \ {p}]
  /\ UNCHANGED <<tables, runs, pc, target, late, list, at, refs, got, next, bearer,
                 disk, given, loaded, since, settled>>

MarkDone(g) ==
  /\ pc[g] = "mark" /\ (late[g] \/ todo[g] = {})
  /\ Goto(g, "idle")
  /\ Forget(g)
  /\ UNCHANGED status

\* markPublishFailure: one statement, for the pool or for all of them, under a
\* context that may be over.
Touched(g, p) == ~late[g] /\ table[p] \in Exists /\ target[g] \in {p, All}
MarkFailed(g) ==
  /\ pc[g] = "failed"
  /\ Goto(g, "idle")
  /\ status' = [p \in Pools |-> IF Touched(g, p) THEN "failed" ELSE status[p]]
  /\ Forget(g)

-----------------------------------------------------------------------------
Change(g) ==
  \/ \E p \in Pools : PoolCreate(g, p) \/ PoolUpdate(g, p) \/ PoolDelete(g, p)
  \/ \E p \in Pools, members \in SUBSET Nodes : UpdateMembers(g, p, members)
  \/ \E n \in Nodes : NodeEdit(g, n)
  \/ SettingsEdit(g)

Read(g) ==
  \/ ReadSettings(g) \/ List(g) \/ ReadFails(g)
  \/ \E p \in Pools : ReadRows(g, p)
  \/ \E n \in Nodes : ReadNode(g, n)

Save(g) == OpenTmp(g) \/ WriteTmp(g) \/ RenameTmp(g) \/ RenameFails(g)

Load(g) ==
  \/ NoBinary(g) \/ CurrentSecret(g) \/ Put(g) \/ PutFails(g) \/ Stop(g) \/ Start(g)
  \/ StartFails(g) \/ Answers(g) \/ Silent(g)

Mark(g) == MarkDone(g) \/ MarkFailed(g) \/ \E p \in Pools : MarkPool(g, p)

Next ==
  \/ \E g \in Publishers :
       \/ Change(g) \/ Expire(g) \/ Read(g) \/ Save(g) \/ Load(g) \/ Mark(g)
       \/ \E t \in Pools \cup {All} : Begin(g, t)
  \/ SettingsKept \/ Crash \/ Respawn

Spec == Init /\ [][Next]_vars

-----------------------------------------------------------------------------
Places == {"idle", "settings", "list", "rows", "nodes", "write", "rename", "secret",
           "put", "stop", "start", "check", "mark", "failed"}

TypeOK ==
  /\ table \in [Pools -> Exists \cup {"unborn", "gone"}]
  /\ status \in [Pools -> {"", "published", "failed"}]
  /\ rows \in [Pools -> SUBSET Nodes]
  /\ node \in [Nodes -> {"on", "off", "gone"}]
  /\ edits \in 0..MaxEdits /\ runs \in 0..MaxRuns
  /\ pc \in [Publishers -> Places]
  /\ target \in [Publishers -> Pools \cup {All}]
  /\ late \in [Publishers -> BOOLEAN]
  /\ list \in [Publishers -> [Pools -> Exists \cup {"unborn", "gone"}]]
  /\ todo \in [Publishers -> SUBSET Pools]
  /\ at \in [Publishers -> Pools \cup {None}]
  /\ refs \in [Publishers -> SUBSET Nodes]
  /\ got \in [Publishers -> [Pools -> SUBSET Nodes]]
  /\ next \in [Publishers -> Secrets \cup {None}]
  /\ bearer \in [Publishers -> Secrets \cup {None}]
  /\ secret \in Secrets /\ held \in Secrets
  /\ tmp \in Configs \cup {Missing, Empty, Mixed}
  /\ file \in Configs \cup {Empty, Mixed}
  /\ fd \in [Publishers -> {"none", "tmp", "file", "lost"}]
  /\ bad \in SUBSET HighPools /\ binary \in BOOLEAN
  /\ live \in Configs \cup {None}
  /\ stable \in [Publishers -> SUBSET (Pools \X Nodes)]
  /\ clean \in [Publishers -> BOOLEAN] /\ alone \in [Publishers -> BOOLEAN]
  /\ settled \in BOOLEAN

Built(g) == pc[g] \in {"write", "rename", "secret", "put", "stop", "start",
                       "check", "mark"}

\* What was in service the whole time the publish took is in its configuration
\* (service.go:219-249 reads pools, members and nodes in separate statements,
\* and other handlers edit the tables between them).
Complete ==
  \A g \in Publishers : Built(g) /\ ~late[g] =>
    \A p \in Pools : \A n \in Nodes : <<p, n>> \in stable[g] =>
      /\ Config(g).pools[p] # None
      /\ n \in Config(g).pools[p]

\* Without an edit on the way the piecemeal read is a snapshot: nothing is
\* missing from the configuration and nothing is in it that should not be
\* (service.go:330-383, publish.go:78-136).
Exact ==
  \A g \in Publishers : Built(g) /\ ~late[g] /\ clean[g] => Config(g) = Wanted

\* After a successful publish that met neither an edit nor another publish, the
\* file and, whenever it runs, the instance agree with the tables, and the
\* manager holds the secret that the instance expects: however the publish
\* before it ended, and however the configuration got into the instance, by PUT,
\* by the restart after a refused one, or by the supervisor after a crash
\* (manager.go:176-213).
SoloSettles ==
  settled => file = Wanted /\ live \in {None, Wanted} /\ held = Wanted.secret

\* server.go:626 answers "published": true and service.go:411 writes the status
\* "published".  Claim: when no publish is running, a pool with that status is
\* served as the tables say.  Violated: the publish with the older tables can
\* be the last to load its configuration.
PublishedIsLive ==
  Quiet /\ live # None => \A p \in Pools :
    table[p] = "on" /\ status[p] = "published" => live.pools[p] = Wanted.pools[p]

\* manager.go:585 calls it writeFileAtomic.  Claim: when no publish is running,
\* the file is one configuration.  Violated: two publishes share one path.tmp.
FileWhole == Quiet => file \notin {Empty, Mixed}

-----------------------------------------------------------------------------
(* What makes Complete, Exact and SoloSettles inductive.                   *)

Reading(g) == pc[g] \in {"rows", "nodes"}

\* The members of p that g has still to look up.
Left(g, p) == IF ~Reading(g) THEN {}
              ELSE IF p \in todo[g] THEN Nodes
              ELSE IF p = at[g] THEN refs[g] ELSE {}

LocalFor(g) ==
  /\ pc[g] \in {"idle", "settings", "list"} => got[g] = [p \in Pools |-> {}]
  /\ pc[g] # "nodes" => refs[g] = {}
  /\ pc[g] = "nodes" => at[g] \in Pools \ todo[g]
  /\ pc[g] \notin {"idle", "settings", "failed"} => next[g] \in Secrets
  /\ pc[g] \in {"put", "stop", "start", "check"} => binary
  /\ fd[g] # "none" => pc[g] = "write"

\* What was in service all the time is read, or will be.
CompleteFor(g) ==
  /\ stable[g] \subseteq InService
  /\ ~late[g] /\ (Reading(g) \/ Built(g)) =>
       \A p \in Pools, n \in Nodes : <<p, n>> \in stable[g] =>
         list[g][p] = "on" /\ n \in got[g][p] \cup Left(g, p)

\* What is read is what the tables say, as long as nobody edits them.
ExactFor(g) == clean[g] /\ ~late[g] =>
  /\ pc[g] \notin {"idle", "settings", "failed"} => next[g] = secret
  /\ pc[g] = "nodes" => refs[g] \subseteq rows[at[g]]
  /\ Reading(g) \/ Built(g) =>
       /\ list[g] = table
       /\ \A p \in Pools : table[p] = "on" =>
            got[g][p] = {n \in rows[p] \ Left(g, p) : node[n] = "on"}

\* Nobody disturbs the files and the instance of a publish that is alone.
AloneFor(g) == alone[g] =>
  /\ pc[g] # "idle" /\ \A h \in Publishers \ {g} : pc[h] = "idle"
  /\ pc[g] = "write" => tmp = Empty /\ fd[g] = "tmp"
  /\ pc[g] = "rename" => tmp = Config(g)
  /\ pc[g] \in {"secret", "put", "stop", "start", "check"} => file = Config(g)
  /\ pc[g] \in {"start", "check"} => live \in {None, Config(g)}

\* What it has left in place stays until the next edit or publish.
SettledInv ==
  /\ settled => SoloSettles /\ \A g \in Publishers : pc[g] \in {"idle", "mark"}
  /\ ~binary => live = None

IInv == /\ TypeOK /\ SettledInv
        /\ \A g \in Publishers :
             LocalFor(g) /\ CompleteFor(g) /\ ExactFor(g) /\ AloneFor(g)
=============================================================================
