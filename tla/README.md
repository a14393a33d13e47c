# A verification development for Super-Proxy-Pool

Super-Proxy-Pool is one Go program that keeps proxy nodes (entered by hand or
fetched from subscriptions) in SQLite, groups them into pools, writes two
configurations for the Mihomo proxy (one that serves the pools, one for testing
nodes), supervises the two Mihomo processes, and answers panel requests and
SOCKS5/HTTP proxy connections on a single port. This directory holds TLA+
models of its concurrent parts, the TLC configurations that check them, and
proofs for TLAPS. `PROJECT.json` lists components, runs, mutants, findings,
hazards and theorems, and maps every definition to the lines it stands for.

## Inventory

| Component | State it keeps | Operations | Interacts with |
|---|---|---|---|
| Mihomo supervision, `mihomo/manager.go` | `prodCmd`, `probeCmd`, `expectedExit`, back-off per kind, `stopping`, `hasBinary`, `lastSecret`, two configuration files | Start, Stop, ActivateBinary, ApplyConfigBundle, ApplyProd/ProbeConfig, exit handler, restart and stable-run timers | publishes, probe tests, installer, `app.go` |
| Connection multiplexer, `proxy/mux.go` | listener, `httpConns`, `activeConns`, wait group, context | Serve, one goroutine per connection, Shutdown | pools (credentials), HTTP server, Mihomo's listeners |
| Probe service, `probe/service.go` | two queues, two counters, `speedSlots`, `probeCacheKey`, `speedSlotSelections`, `probeConfigMu` | EnqueueLatency/Speed, dispatchers, sweeps, tests | settings, nodes, probe instance of Mihomo |
| Pools, `pools/service.go`, `pools/publish.go` | `proxy_pools`, `proxy_pool_members`, publish status | CRUD, members, Publish, LookupPoolByAuth | settings, nodes, supervision |
| Subscriptions, `subscriptions/service.go` | `subscriptions`, `subscription_nodes`, the set of running syncs | CRUD, Sync, scheduler, toggles | probe (tests after a sync), pools (publish after a sync) |
| Manual nodes, `nodes/` | `manual_nodes` | CRUD, parsing | probe, pools |
| Settings, `settings/service.go` | one row | EnsureDefaults, Update | all |
| Authentication, `auth/service.go` | password hash, `sessions` | Login, Logout, ChangePassword, InvalidateAllSessions | web |
| Events, `events/broker.go` | a channel per subscriber | Subscribe, Unsubscribe, Publish | all, web (SSE) |
| Installer, `mihomo/installer.go` | binaries, selection file | LatestRelease, Install | supervision |
| Database, `db/db.go` | schema | migrations | all |
| Start and shutdown, `app/app.go` | `rootCtx` | Run | all |
| Web, `web/` | none of its own | handlers, pages | all |

What is hard here: the manager's lock is released between looking at a process
and starting one; contexts of publishes and requests own processes; timers act
on processes that may have been replaced; Shutdown waits without a limit for
goroutines it can only reach through a set of registered sockets; speed tests
share one configuration, which other tests, publishes and restarts replace; the
inventory and the subscription are read long before they are used; publishes
are not ordered.

What makes each component correct:

- supervision: a process that dies is replaced or known to be lost, an exit is
  attributed to the right cause, the delay between restarts is kept, nothing
  runs after the exit;
- multiplexer: no socket outlives its handling, a connection has one owner,
  shutdown ends;
- probe: a slot has one test, a test measures its own node, the cache key stands
  for the configuration that runs, a queued test is run;
- pools: what is published last is what was written last, a username names one
  pool, the secret in memory is the one the instances use;
- subscriptions: a node keeps its identity over syncs, its id never comes to
  name another one, one sync at a time, a deleted subscription gains no nodes,
  every due sync happens;
- authentication: no session of an old password survives its change;
- events: no send on a closed channel, no publisher that waits for a browser;
- installer, database: a crash leaves the old state or the new one.

## How the modules are arranged

| Modules | Content |
|---|---|
| `Supervisor`, `SupervisorProofs` | process supervision |
| `Mux`, `MuxProofs` | multiplexer with the shutdown sequence |
| `Probe`, `ProbeProofs`; `SlotPool`, `ProbePoolProofs` | probe service; the abstract pool of slots it implements |
| `Publish`, `PublishProofs` | concurrent publishes: piecemeal read of the tables, configuration, file and `.tmp`, hot reload and restart, secret, status |
| `NodeMatching`, `NodeMatchingProofs` | matching of fetched nodes to stored rows by fingerprints |
| `Subscriptions`, `SubscriptionsProofs`; `NodeIds` | syncs, edits, deletes, scheduler; the abstract ids of nodes it implements |
| `Requests`, `Sessions`, `Broker`, `PoolTable`, `Installer`; `Panel`, `PanelProofs` | what the web panel serves: authentication, events, the pools' tables, installations; their composition with the start of the program, the migration and an exit at any moment |

The `MC` module of each group gives TLC its instance.

`Panel` composes: `Requests` holds the position of each request, the four
component modules extend it with their own state, and `Panel` puts their steps
side by side, each leaving the state of the others alone. They do meet: a
session of `Sessions` admits the requests of all; a write of `PoolTable` or of
the settings goes on as a publisher of `Broker`; the start reads what `Installer`
has left on disk; the exit ends all.

The larger components are checked with their environment as actions.
Where two meet, the one appears in the other reduced to what it does there:
the processes of `Supervisor` are `Crash`, `Stop`, `Start` and `Respawn` in
`Publish`, and its activation of a binary follows an installation of `Panel`; a
publish is two steps in `Probe`, a caller in `Supervisor`, and in `Panel` the
goroutine that a write leaves behind; the shutdown of `app.go` is a thread in
`Supervisor` and in `Mux`. Subscriptions and manual nodes are the tables `node`
of `Publish` and `table` of `Probe`.

## The modules

### Supervisor

One element of `Threads` per goroutine that works on processes: `Main` (boot,
then shutdown), `Calls` (a publish, a probe configuration, an activation), and
each element of `Pids`, a process incarnation, which as a thread is the
goroutine that restarts its kind after it died unexpectedly. Every block of code
under `Manager.mu` is one action; cmd.Start, stopCmd and the sleeps are
outside the lock and are actions of their own.

| Model | Code |
|---|---|
| `cmd`, `expectedExit`, `backoff`, `stopping`, `binary` | fields of `Manager` |
| `proc`, `kindOf`, `ctxOf`, `watch` | the operating system, `exec.CommandContext`, `waitProcess` |
| `timers` | the goroutines of `resetBackoffAfterStableRun`, each under the process it was started for |
| `Mark`, `Kill`, `Killed`, `Check`, `ExecOk`/`ExecFail`, `Record` | `restartProcess`, `stopCmd`, the two blocks of `startProcess` and the start between them |
| `StopLock`, `SetBinary`, `StartLock`, `Prepared`, `StartFails`, `Ensure` | `Stop`, `ActivateBinary`, `Start` with its early returns, `ensureProcess` |
| `IgnoreExit`, `UnexpectedExit`, `TimerFire`, `StableRun` | `handleProcessExit`, its goroutine, `resetBackoffAfterStableRun` |
| `CtxExpire`, `CtxKill`, `Return` | deadline or end of a publish or request, and what os/exec does then |

Abstractions: the hot reload of a publish (both kinds) has one outcome; it
succeeds only when a process of each kind runs. Waiting for the controller after
a start changes nothing here. Delays are values, not time: a timer may fire at
any moment after it was set. Process ids are not reused. A call is made once,
and the number of calls, incarnations and crashes is bounded by the constants.
An incarnation is taken from the unused ones with CHOOSE, since they differ in
nothing. `SystemMayFail` says whether the system may refuse a directory, a file
or a process.

Each process has a timer of its own, which fires after thirty seconds whatever
became of the process; `Outlasted` compares the process with the tracked one. So
`BackoffHeld` can say whose timer resets a delay: that of a process which was
replaced never resets the delay of its successor.

Worth knowing: `lost` are the kinds whose last start failed, and nobody tries
again before the next publish, activation or start of the program. A start fails
when the system refuses it; when a fallback restart runs under the context of a
publish that has ended, after the running process was killed (`manager.go:403`);
and for both kinds when `Start` returns early. When the directory cannot be made after
the `Stop` of an activation, the manager also stays `stopping`, and the next
starts are refused. `NoSilentDeath` and `Restored` say that a kind is left without a
process in no other way.

### Mux

`pc[c]` follows the goroutine of connection `c` through `handleConn` and the
SOCKS5 or HTTP handler; `client` and `up` are the two sockets; `down` is the
position of the main goroutine in `mux.Shutdown`, `Stop` and the exit. What the
bytes say is abstracted to the outcome: refuse, panel, proxy. `Dial` opens the
upstream; the HTTP handler relays from there, the SOCKS5 handler has a
`Handshake` first. `Refuse` ends the handling at each of these positions, with the
upstream open when it comes after the dial; `HangUp` is the deferred close. The dial
and the handshake with the internal listener do not look at the context, which is
why they can end after the sweep. `AcceptFails` is an error of Accept before the
cancellation: `Serve` returns it and `Run` ends the program with no shutdown.`late` is a history variable: relays that were past the lookup and unregistered at
the sweep.

`wg.Add` runs after Accept, so `wg.Wait` can miss the last connection.
`NothingDialsAfterShutdown` says that this is harmless: its lookup fails.

### Probe

A job is one queued test. `Lookup` and `Read` are before `probeConfigMu`, `Lock`
takes it; `Reload`, `Reapply` and `Select` run under it. `snap` is the inventory
a test has read, `cacheKey` the inventory the key stands for; a key is compared
by what it encodes, the on/off state of the nodes. `loaded` and `selected`
stand for the probe process: the nodes of its configuration and the entry each
slot's group points at; a reload resets the entries. `file` is the
configuration on disk: a reload that fails may have written it, and a process
that is started again loads it. `Reapply(j, n)` is the loop
over the slots, ended by a failure after `n` of them or complete; its calls are
one step, since nobody else changes what they read except a publish, which may
come before or after. Manual nodes and subscription nodes are one table, read in
one step. A publish (its two steps are far apart), a restart of the probe
process, edits of nodes and changes of the concurrency come from outside.
`disturbed` is a history variable: slots whose entry was reset under a test that
relied on it and that no reload has restored. Node identifiers are not reused,
so a deleted node stays deleted (for subscription nodes this is `IdsNameOneNode`
of `Subscriptions`).

`Write` is the write of a node's status. The code discards its error, so a write may
be lost: the store refuses it, the context is cancelled, the row is gone. Nothing
resets a status at a start either, so a program may start with nodes that
`testing` has been left on. No invariant about the status holds beyond its type,
and none is stated.

What the property `MeasuresOwnNode` excludes is worth knowing: a publish or a
restart of the probe process during a speed test does make the test go on
through the first node of the group, and its result is stored for the tested
node.

`SlotPool` is what the tests rely on, in three actions: `Take` a slot, `Fill`
its entry, `Give` it back with the entry blank. `Probe` implements it with the
channel `speedSlots` as the free slots, `speedSlotSelections` as the entries and
`lease`, the slot of a test between receiving and returning it. `SlotsLent`
states the refinement: on every path out of `runSpeed` the selection is
withdrawn before the slot is lent again, and no test writes behind another's slot.

### Publish

One element of `Publishers` per goroutine that can be inside `pools.Service`'s
`Publish`; it may come back for another publish until `MaxRuns` is used up. An
edit of a table is one action together with the start of the background publish
that its handler makes (`publishRuntimeAsync`), since the handler does both
before it answers.

| Model | Code |
|---|---|
| `table`, `status`, `rows`, `node` | `proxy_pools`, `last_publish_status`, `proxy_pool_members`, the two tables of nodes |
| `List`, `ReadRows`, `ReadNode` | the statements of `Publish` and `runtimeMembersForPool`, each a step |
| `Config`, `Portless` | `buildProdConfig`, `InternalPort` |
| `OpenTmp`, `WriteTmp`, `RenameTmp`, `RenameFails` | `writeFileAtomic`: open with truncation, write, rename |
| `Put`, `PutFails`, `Stop`, `Start`, `Answers`, `Silent` | `reloadConfigWithSecret`, `restartProcess`, `startProcess`, `waitControllerWithSecret` |
| `MarkPool`, `MarkDone`, `MarkFailed` | `markPublishSuccess`, `markPublishFailure` |
| `Expire` | the thirty seconds of a background publish, or a client that leaves |

A configuration is a function from pools to the set of nodes in the pool's
group, or `None` for no listener. `fd` says which file a publish has open for
writing: a rename moves a file that another publish is still writing.
`HighPools` are pools that may get an id too large for `InternalPort`; `bad` is
the choice made for them. `Hurried` are the publishes whose context may end.
`stable`, `clean`, `alone` and `settled` are history variables for the
properties.

Worth knowing: a context that ends while the nodes are read does not stop the
publish, since `runtimeMembersForPool` takes every error of `NodeBySource` for a
deleted node; a file without these nodes is written and stays until the next
publish. `Complete` and `Exact` therefore speak of publishes whose context lasts.

The controller secret is a setting (`secret`), part of what is written
(`next`), what the instance has loaded (`live.secret`), and what the manager
sends (`held`, the code's `lastSecret`; `bearer` is a publish's copy). A reload
needs them to agree; when they do not, the restart does the work, since a start
reads the file. That the instance adopts the secret of a configuration that is
PUT to it is an assumption about Mihomo; the controller that the repository's
test puts in its place behaves so (`manager_test.go:17-70`). `SettingsKept` is
an edit that changes the panel's address too: the handler then asks for a
restart and starts no publish.

Left out: weights, strategies and health checks (no control depends on them)
and the probe half of the bundle (its failure is an outcome of `RenameTmp`, `Put`
and `Silent`). An instance that loads the file at a start may do so a moment later;
the model reads it at the start.

### NodeMatching and Subscriptions

`NodeMatching` has no state: `Placed[i]` is what the loop of `Sync` has done after
`i` of the fetched nodes, and `Match` is its end. A node is its raw payload, of which display name and fingerprint are
functions (a fingerprint leaves out `name` and nothing else, so the names of vmess
links, in `ps`, are part of it); rows keep their `id` and the switch `on`, which stands for everything a
sync leaves alone (test results too). What the code does not update because
nothing differs (`needsStoredSubscriptionNodeUpdate`) the model updates to the
same values.

`Subscriptions` has a thread per subscription, the scheduler's goroutine for
it, and one per requested sync. The steps of a sync are `Begin` (`beginSync`),
`Get` (the row and the request), `Fetch` or `FetchFails` (all attempts), then
`Apply` (the transaction), `Unmodified` or `Fail`, and `End` (the deferred
`endSync`). `Abort` is a return on the way that writes no status: the client has
gone, the database is busy, the body breaks off.

- The scheduler looks at a subscription only while the goroutine it started
  for it has not ended; another one would be refused by `beginSync`, or be what a
  requested sync is, and those are in the model.
- The transaction is one step or none: it is a deferred SQLite transaction, and
  when another connection has written since its first read, its first write is
  refused and the sync returns (`Abort`).
- A source answers "not modified" exactly when the request carries its current
  ETag, which stands for `Last-Modified` too (whose seconds could hide a change); ETags are the number of times the source has changed. Two sources may
  share one, which is why an edited URL can be answered with "not modified" for
  the nodes of the old one: `Update` leaves `etag` alone, as the code does.
  `UnmodifiedMeansStored` excludes this case.
- A deleted subscription is refused by the foreign key, which every connection
  has switched on (`db.go:24`).

`OneSyncPerMark` ties the set of running syncs to the syncs both ways: two never
overlap, and a mark without a sync, which would have every later one refused,
does not exist.

`NodeIds` is what the other components rely on when they keep the id of a node
(`proxy_pool_members` and `probe_history` do so without a foreign key, a queued
test does so in memory): `Renew` the nodes of an owner, some of them going and others
coming under ids never used, or `Turn` a switch. `Subscriptions` implements it with
`alive` the rows as seen from outside (id, owner, fingerprint, switch) and `used` all
ids below `next`. So an id names one node, whatever name the source gives it, until
that is gone. `IdsNameOneNode` states the refinement; a sync, a deletion (a renewal by
nothing) and an edit in any order are among its steps.

`IdentityKept` counts rows per fingerprint. More does not hold: the pairing is
greedy, so a renamed node that comes earlier in the list can take the row of an
unchanged one with the same fingerprint; as many rows survive, but not
always under the same payload. `SameNodesSameRows` says that this needs a change of
the list, a new order is not enough.

### Panel: Requests, Sessions, Broker, PoolTable, Installer

Each element of `R` is one request: it arrives, is admitted by `RequireAuth` or
refused, and then takes the steps of its handler. `stage[r]` is its position,
and each statement, each critical section and each write of a file is a step.

| Model | Code |
|---|---|
| `Login`, `Issue`, `Admit`, `Refuse`, `Remove` | `auth.Service`: hash read and verified, session stored; lookup of the cookie; deletion by expiry or logout |
| `Verify`, `Rehash`, `Invalidate` | `ChangePassword` up to the hash, `UpdatePasswordHash`, `InvalidateAllSessions` |
| `ReadSettings`, `SaveSettings`, `FirstPassword` | `settings.Update` and `EnsureDefaults`, for the column of the password |
| `Subscribe`, `Unsubscribe`, `Announce`, `Send`, `Announced` | `events.Broker`; a publisher holds the read lock from `Announce` to `Announced` |
| `Receive`, `HangUp` | the loop of `handleEvents` |
| `Check`, `Write`, `ReadSwitch`, `Flip`, `Delete`, `UpdateMembers` | `pools.Service`; `Check` is `validateUniqueUsername` |
| `Lock`, `Stat`, `Extract`, `Copied`, `Chmod`, `Replace`, `Unlink`, `Select`, `Activate` | `Installer.Install`, with the removal and second rename of `replaceFile`, and the activation by the handler |
| `Load`, `Detach` ... `Attach`, `Defaults`, `Exit` | `app.Run`: configuration, migration of `proxy_pools`, defaults, the end of the process |

- A session is known by the login that made it, and keeps as history the password
  it was given for. `straddled` are the logins that were verified before a
  revocation and store their session after it: the code leaves that window
  open (it holds no lock from `VerifyPassword` to the store), so a session of the
  old password can outlive its change although `README-.md:225` announces
  that one has to log in again. `OldSessionsEnd` states the announcement, and
  the run `panel_login` violates it (finding 6); `SessionsRevoked` says that
  this window is the only one.
- `raced` are the requests whose username another one has written between their
  check and their write, `shared` the pools that these wrote or that an older release
  left. The column has no unique index, so two crossing requests do give two
  pools one username; `UsernamesOwn` says that nothing else does. An update takes
  a pool out of `shared` when it was not raced, since its check covers all others.
- A row is its username and its switch; ids grow and are not reused.
  `members` is the set of pools with member rows.
- The migration works on `tx`, the view its transaction has, with the old table and
  the new one; `db` changes at the commit. `DROP TABLE` deletes the rows first,
  which would take the members along if the connection enforced foreign
  keys; `fkOff` is the connection that does not, and while one exists a statement may
  be given it (`Enforced`).
- A file has its last byte, the permission to execute, both or neither.
  `exec.LookPath` asks only for the permission, so a file that has it and is not whole
  would be started. Installs of two releases overlap after the lock: the one that selects
  last need not activate last, so `active` and `selection` may differ until
  the next start; both are whole.
- `Exit` is possible at every step, the migration and the installation included,
  and keeps database and files. What a machine loses that goes down without a sync
  is not in the model. The next start begins with `Load`. `MIHOMO_BINARY` and the
  binaries beside the program are `NoFile` here: not installed by this code.
- A request is served once; a publish it leaves behind is its last stage, and
  what that publish does is in `Publish`.

## The runs

| Run | Instance | Shows |
|---|---|---|
| `supervisor_main` | 1 call of any kind, 3 incarnations, 1 crash, starts may fail | `TypeOK`, `TrackedWatched`, `AnnouncedDoomed`, `NoSilentDeath`, `BackoffHeld`, `Restored`, `AnnouncementsConsumed` |
| `supervisor_exit` | 1 publish, 4 incarnations, 1 crash, nothing refused | violation of `StoppedBeforeExit` (finding 1) |
| `mux_main` | 2 connections, queue of 1 | `TypeOK`, `ClosedOrOwned`, `SweepReachesRelays`, `NothingDialsAfterShutdown`, `ExitsUnlessLate`, `QueuedServed` |
| `mux_restart` | 1 connection | violation of `RestartExits` (finding 2) |
| `probe_main` | up to 3 tests out of 3 speed and 1 latency test, 2 nodes, 2 slots, settings up to 3, queues of 1; tests, edits (at most 1) and publishes or restarts (at most 1) are 3 in all | `TypeOK`, `SlotsOwned`, `SlotForEachTest`, `MeasuresOwnNode`, `SlotsLent`, `TestsSettle` |
| `probe_cache` | 2 speed tests and 1 latency test, 2 edits, no publish | violation of `SkippedMeansLoaded` (finding 3) |
| `publish_main` | 2 publishes, 2 pools of which one may have no port, 1 node, 2 secrets, crashes, at any time 1 edit made or 1 context that has ended | `TypeOK`, `Complete`, `Exact`, `SoloSettles` |
| `publish_stale` | 2 publishes, 1 pool, 1 edit, nothing fails from outside | violation of `PublishedIsLive` (finding 4) |
| `publish_torn` | the same | violation of `FileWhole` (finding 5) |
| `subs_main` | 1 subscription, 1 requested sync, 2 sources, 3 payloads (2 of one fingerprint), 1 change, 1 edit, 1 interval, 1 failure | `TypeOK`, `RowsAreOneFetch`, `OneSyncPerMark`, `IdsNameOneNode`, `NeverOlder`, `UnmodifiedMeansStored`, `IdentityKept`, `SameNodesSameRows`, `DueIsSynced` |
| `panel_main` | 3 requests of any kind, 2 passwords, channels of 1 message, 2 ids of pools, 2 usernames, 1 release asset, a fresh database or one of an older release, exits and restarts without a bound | `TypeOK`, `SessionsRevoked`, `SendsReachOpen`, `UsernamesOwn`, `SelectedWhole`, `NothingLost`, `RequestsAnswered` |
| `panel_login` | the same, a fresh database | violation of `OldSessionsEnd` (finding 6) |

Why the bounds are enough. Boot needs two incarnations; a third lets a crash, a
fallback restart or an activation replace one, so a process can be replaced, its
successor tracked, and the timers and exits of both arrive in any order. `MCNext`
leaves out timers that change no delay, which might as well not have fired yet. One
call suffices for a second thread beside the restart goroutines and Main; the
proofs cover any number. In the multiplexer two connections with a queue of
one fill the queue, and let one be queued while the other relays. Two speed
tests over two slots are the least where one test's reload meets the other's
measurement, and a third with a setting of three is the least where the cap of
`currentSpeedLimit` matters; `Budget` trades a test for an edit or a publish, so
that all three of them, or two and a disturbance, are tried (`TestsSettle` needs
no more: a queue of one fills with two, and the dispatcher waits with a third).
Three tests are needed for the stale cache key:
one that sets it, one whose restoration fails, one that is misled. Two
publishes and one edit are the least where a publish is overtaken and where one
is edited under; two pools are needed because pools are read one after the other
and fail together, and one node in both already meets what is special about
nodes: that it is read once for each pool. One pool exists from the start
there, and `Budget` keeps an edit and a context that is over out of one state (an
edit may follow such a publish); the proofs know neither bound. For a subscription the lists offered hold a reordering, a
duplicate payload, a payload of another fingerprint and no node at all; two
sources and one edit give the shared ETag; the second subscription would share
nothing but the set `syncing` and the ids of rows, which only need to be fresh.
In the panel each hazard takes two requests and something third: a login across a
change of the password by a request that another login admitted; two writes of one
username, or a write, a toggle and a delete; a stream, a publisher and a stream
that leaves; an install that meets another or follows a dead one. The older
database has two pools with one username, one with members, which is all that
the migration can lose.

Secrets are exchanged for one another by `SYMMETRY` in `publish_main`: nothing
names one of them, and its properties are invariants.

Deadlock is checked except in the runs of `Publish`, where everything stops once
`MaxRuns` publishes have been made. In `Panel` an exit is always possible, so the
check says nothing there and `RequestsAnswered` does. In the others the program's end
(`Terminated`), and a state with nothing queued, due or running (`Rest`), are the
only ones where nothing needs to happen.

Fairness. `FairSpec` of each module states weak fairness of the goroutines'
own steps: Go's scheduler runs what can run, every network call has a deadline
(dial, handshake, reload, wait for the controller, test, fetch), the ticker of
the subscriptions ticks, and the operating system reports exits. Nothing
outside is fair: no caller calls, no process crashes, no context expires, no
peer closes its connection, no user edits or restarts, no source changes.
`CopyEnds` is fair only when the source of the copy has ended, because a copy
notices a closed destination only when it has something to write. Weak fairness
is enough for locks because each test takes `probeConfigMu` finitely often, and
because the requests of `Panel` are finitely many: a writer that waits for readers
of the broker, or an install for the one before it, is overtaken only by those.
A stream waits for its browser and is not expected to end.
`DueIsSynced` needs it for requested syncs too, since one that never ended would
keep the scheduler's out; a failed sync leaves the subscription due, so it is
tried until one succeeds, and failures are finitely many by their bound. `Publish`
states no fairness: its properties are safety.

## The proofs

Each proof module extends its component and shows that `IInv`, the inductive
invariant defined there, holds initially and is preserved by each action, for
any number of threads, connections, tests, slots, nodes, subscriptions and
sources. The assumptions are
the named ASSUMEs of the modules: the sets of threads are disjoint, `None` is not
one of them, bounds are natural numbers.

- `SupervisorProofs`. The safety properties are not inductive alone: that the
  recorded process is of the right kind and unannounced needs `Children` (a
  thread about to record holds a fresh process of its own kind),
  `Incarnations` (a process never started is not waited for, and restart
  goroutines start after their process was handled), and `Shape` (where
  each operation can be, so that a thread that still has to kill a victim is
  found). `Backoff` is an action property: of all actions only `StableRun`
  and `Mark` lower a delay, and `StableRun` only when its process is the tracked one
  of its kind.
- `MuxProofs`. `Registered` ties `activeConns` to the position of each
  goroutine; `SweepReachesRelays` then follows because a relay that starts after
  the sweep was on its way at the sweep, the lookup failing once the context is
  cancelled. When `wg.Wait` has passed, nobody handles a connection; whoever
  starts later cannot get beyond the lookup, hence `Harmless`.
- `ProbeProofs`. `MutexHeld` and `Staged` say who can be where;
  `SlotsConserved` makes the owner of a slot unique (`Sole`), so a step changes
  no selection but its own (`SelectionsFrame`), so a complete reload points every
  slot in use at its test's node (`Measured`).

- `NodeMatchingProofs` says what `Match` returns for every list and every set of
  stored rows. `MatchIsTheList`: the rows are the list, each payload as often as the
  list holds it. `MatchKeepsRows`: of each fingerprint as many rows survive as can.
  `MatchNamesNewRows`: a row is a stored one under its id, fingerprint and switch, or
  has a new id. `MatchOfSameNodes`: a list that has only been reordered changes nothing.
  They need induction over the list. The library's induction theorems take the
  formula as an operator, which the provers here cannot instantiate; `InductionUpTo` takes
  a set of numbers in its place, and is proved from the library's facts that `<` on
  the naturals is well-founded and that a well-founded relation has minimal elements
  in every set that is not empty. Each theorem applies it to the set of numbers `i` at
  which its statement about `Placed[i]` holds. `Partway` is the invariant of the loop:
  candidates are stored rows not yet taken, rows placed have ids of their own, also
  from the candidates. `Balanced` counts beside it: as long as a stored row of a
  fingerprint is left, every row placed under that fingerprint was paired.
- `SubscriptionsProofs` has two invariants. `IInv` is about the syncs. `Exclusive` says
  that no two syncs of one subscription are between `beginSync` and `endSync` and that each
  of these has its mark. With it `Stamped` holds: a stored ETag, and one a sync asks
  with, name the version whose nodes are stored, because nobody else stores
  between `Get` and `Fetch`; `UnmodifiedIsStored` follows. `Reached` says the same
  of versions, which only grow, and gives `NeverStoredOlder`. `Answered` ties the
  local variables of a sync to its position. `Marked`, the other half of
  `OneSyncPerMark`, is inductive beside it. `RowsInv` is about the tables:
  `RowsAreOneFetch` needs that rows are finitely many with ids of their own below
  `next` (`Stored`), which the theorems about `Match` ask for and give back, and that
  the answer about to be stored is a list of its source (`IInv`). The action properties
  `SyncsKeepRows` and `ReorderedListsChangeNothing` are these theorems at the one step that
  applies `Match`. `IdsLast` is the refinement of `NodeIds`: each step of
  `Subscriptions` renews the nodes of one subscription, turns one switch or stutters.
- `ProbePoolProofs`. `Provided` counts. `Sorted` says that each dispatcher hands
  out tests of its own kind, `Capped` that no more than `NumSlots` speed tests run:
  a dispatch adds one below the limit, and the limit never exceeds the slots,
  whatever the setting. Each slot that is not free has an owner (`SlotsConserved`),
  so there are as many free slots left as tests that have still to ask for one.
  `Lent` is the refinement of `SlotPool`: initial states map to initial states
  and each action to a step of the pool or a stutter, under `IInv`.
- `PublishProofs`. Per publish, `CompleteFor` and `ExactFor` relate what it
  has read so far to the tables, `Left` being what it has still to look up;
  `AloneFor` says that nobody else touches the `.tmp`, the file and the instance
  of a publish that is alone, which gives `SettledInv` and with it `SoloSettles`.
  `LocalFor` ties local variables to positions.
- `PanelProofs`. `IInv` has one part per component and one for the start, and each
  action of a component is shown to keep its own part; the others' variables
  do not change, and what they say of positions speaks of positions the action does
  not reach. `AuthInv` extends `SessionsRevoked` to logins under way, `TableInv`
  keeps the answer of `Check` true until the write, `InstallInv` needs that the lock
  has one holder, and `BootInv` that the transaction always holds every row in
  one of its two tables, and every member.

Only model-checked: everything under fairness (`Restored`,
`AnnouncementsConsumed`, `ExitsUnlessLate`, `QueuedServed`,
`TestsSettle`, `DueIsSynced`, `RequestsAnswered`), which is beyond the prover. Every
invariant and every other action property or refinement that a passing run checks
is a theorem.

## Findings

1. `manager.go:367`: a start that passed the check for `stopping` before Stop is
   carried out after it; the program leaves a Mihomo process behind.
2. `mux.go:110`: a relay registered after the sweep keeps the shutdown waiting
   until its peers close.
3. `probe/service.go:406`: the cache key survives a reload that changed the
   configuration and then failed; when the inventory changes back the reload is
   skipped.
4. `pools/service.go:217`: publishes are not serialised; the one that read the
   tables first can load its configuration last, and the pools say "published"
   while an edit is not served.
5. `manager.go:589`: all writers of a configuration file share one `.tmp`; two
   publishes can leave a mixture behind, which the next start reads.
6. `auth/service.go:57`: a login that verified the old password before a change of it
   stores its session after the revocation.

Each is a run that TLC must find violated; the traces are short enough to read.

## Not modelled

- Parsers (`nodes/parser.go`, `subscriptions/parser.go`), configuration formats,
  the matching of release assets to a host, HTTP handlers that only read, pages,
  scripts and the byte protocols: functions from text to text without state. Their
  outcome appears as a choice, their text does not.
- The creation of manual nodes and subscriptions' display columns: single
  statements that nothing else depends on.
- `probe_history`, and the filter with which background sweeps leave out nodes
  tested a short while ago: a sweep only enqueues, and any test may be enqueued at any
  time.
- Weights, strategies and health checks of pools; log levels.
- SQLite, the file system and Mihomo are environments: a statement is atomic, a
  rename too, what is written survives the process.

Hazards without a property carry a note in `PROJECT.json`. Most are cases where
the code does something arguable that the model shows and no property rules out:
edits that overlap on a switch, an ETag kept over a change of the URL, a publish
that goes on after its deadline, a restart under a context that has ended, a status
left on `testing`, a username checked by two requests that cross.
