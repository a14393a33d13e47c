---------------------------- MODULE Subscriptions ----------------------------
(***************************************************************************)
(* Subscriptions (internal/subscriptions/service.go): remote lists of      *)
(* nodes that are fetched again and again while users edit, switch and     *)
(* delete the subscriptions and their nodes.                               *)
(*                                                                         *)
(* A sync is a goroutine, started by the scheduler (thread s for the       *)
(* subscription s) or by a request (an element of Callers).  It reads the  *)
(* subscription, fetches for seconds without holding anything but the mark *)
(* in the set syncing, and writes the result in one transaction.  The      *)
(* source answers "not modified" when the request names its current ETag.  *)
(***************************************************************************)
EXTENDS NodeMatching

CONSTANTS
  Subs,         \* subscriptions; AUTOINCREMENT never hands an id out twice
  Callers,      \* requests that sync a subscription, each of them once
  Togglers,     \* requests that flip a switch
  Urls,         \* sources
  Offers,       \* what each of them may serve: a set of sequences of payloads
  Tagged,       \* the sources that send an ETag
  MaxChanges,   \* bound: changes of what a source serves
  MaxEdits,     \* bound: edits and flips
  MaxElapses,   \* bound: sync intervals that pass
  MaxFailures,  \* bound: failed fetches, lost contexts and busy databases
  None

Threads == Subs \cup Callers
Lists   == UNION {Offers[u] : u \in Urls}
Tags    == Nat \cup {None}

\* What a sync asks with, what it is answered, and what has been stored.
Requests == [url : Urls, etag : Tags]
Answers  == [version : Nat, list : Lists, etag : Tags]
Origins  == [url : Urls, version : Nat, list : Lists]

ASSUME SubscriptionsAssumption ==
  /\ Subs \cap Callers = {} /\ Tagged \subseteq Urls /\ Offers \in [Urls -> SUBSET Seq(Raws)]
  /\ MaxChanges \in Nat /\ MaxEdits \in Nat /\ MaxElapses \in Nat
  /\ MaxFailures \in Nat /\ None \notin Nat /\ None \notin Origins

VARIABLES
  table,    \* subscriptions: not created yet, there or deleted
  enabled, url, etag, status,  \* its columns
  last,     \* last_sync_at against the interval: never, fresh or due
  rows,     \* subscription_nodes of each subscription
  next,     \* the next id of subscription_nodes
  syncing,  \* Service.syncing
  pc, sub,  \* each sync: position and subscription
  req, got, \* url and ETag it asks with; version, list and ETag of the answer
  hand,     \* each toggler: the switch it has read, to be written negated
  served, version,  \* what each source serves, and how often it has changed
  edits, elapses, failures,  \* counters for the bounds
  from      \* history: source and version of the stored rows

tables  == <<table, enabled, url, etag, status, last, rows, next, from>>
threads == <<pc, sub, req, got>>
world   == <<served, version, elapses>>
vars    == <<tables, syncing, threads, hand, world, edits, failures>>

Init ==
  /\ table = [s \in Subs |-> "new"] /\ enabled = {}
  /\ url = [s \in Subs |-> None]
  /\ etag = [s \in Subs |-> None] /\ status = [s \in Subs |-> ""]
  /\ last = [s \in Subs |-> "never"]
  /\ rows = [s \in Subs |-> {}] /\ next = 1
  /\ syncing = {}
  /\ pc = [t \in Threads |-> "idle"]
  /\ sub \in [Threads -> Subs] /\ \A s \in Subs : sub[s] = s
  /\ req = [t \in Threads |-> None] /\ got = [t \in Threads |-> None]
  /\ hand = [g \in Togglers |-> None]
  /\ served \in [Urls -> Lists] /\ \A u \in Urls : served[u] \in Offers[u]
  /\ version = [u \in Urls |-> 0]
  /\ edits = 0 /\ elapses = 0 /\ failures = 0
  /\ from = [s \in Subs |-> None]

There(s) == table[s] = "there"

-----------------------------------------------------------------------------
(* The scheduler and the requests that sync.                               *)

\* shouldSyncSubscription. A failed sync leaves last_sync_at alone, so it is due
\* again at the next tick.
Due(s) == There(s) /\ s \in enabled /\ last[s] # "fresh"

\* runDueSyncs: a goroutine for each due subscription; what it was started for
\* is not looked at again.
Tick(s) ==
  /\ pc[s] = "idle" /\ Due(s)
  /\ pc' = [pc EXCEPT ![s] = "begin"]
  /\ UNCHANGED <<tables, syncing, sub, req, got, hand, world, edits, failures>>

\* The sync button; the subscription need not exist any more.
Call(c) ==
  /\ pc[c] = "idle" /\ table[sub[c]] # "new"
  /\ pc' = [pc EXCEPT ![c] = "begin"]
  /\ UNCHANGED <<tables, syncing, sub, req, got, hand, world, edits, failures>>

-----------------------------------------------------------------------------
(* Sync.                                                                   *)

Goto(t, stage) == pc' = [pc EXCEPT ![t] = stage]

\* Where a goroutine is when it has returned: the scheduler starts another one.
Returned(t) == IF t \in Subs THEN "idle" ELSE "done"

\* Mutant of MayBegin: the mark is set and not looked at.
MayBeginAlways(s) == TRUE

\* beginSync refuses a subscription that is being synced.
MayBegin(s) == s \notin syncing

Begin(t) ==
  /\ pc[t] = "begin"
  /\ IF MayBegin(sub[t])
     THEN Goto(t, "get") /\ syncing' = syncing \cup {sub[t]}
     ELSE Goto(t, Returned(t)) /\ UNCHANGED syncing
  /\ UNCHANGED <<tables, sub, req, got, hand, world, edits, failures>>

\* The row is read, and the request made from it, before the fetch.
Get(t) ==
  /\ pc[t] = "get"
  /\ IF There(sub[t])
     THEN /\ Goto(t, "fetch")
          /\ req' = [req EXCEPT ![t] = [url |-> url[sub[t]], etag |-> etag[sub[t]]]]
     ELSE Goto(t, "end") /\ UNCHANGED req
  /\ UNCHANGED <<tables, syncing, sub, got, hand, world, edits, failures>>

\* Where the answer of a source leads: an empty list is an answer without a node.
\* ETag and Last-Modified are stored and sent together, and stand here as one
\* validator that tells every two versions apart.  A source with a Last-Modified
\* only tells those apart that are a second apart; closer ones are left out.
Verdict(u, tag) ==
  IF u \in Tagged /\ tag = version[u] THEN "unmodified"
  ELSE IF served[u] = <<>> THEN "fail" ELSE "apply"

\* doWithRetry and the reading of the body; only the last attempt's answer counts.
Fetch(t) ==
  /\ pc[t] = "fetch"
  /\ LET u == req[t].url
     IN  /\ Goto(t, Verdict(u, req[t].etag))
         /\ got' = [got EXCEPT ![t] =
              [version |-> version[u], list |-> served[u],
               etag |-> IF u \in Tagged THEN version[u] ELSE None]]
  /\ UNCHANGED <<tables, syncing, sub, req, hand, world, edits, failures>>

\* Every attempt fails, or the answer is an error.
FetchFails(t) ==
  /\ pc[t] = "fetch" /\ failures < MaxFailures
  /\ Goto(t, "fail") /\ failures' = failures + 1
  /\ UNCHANGED <<tables, syncing, sub, req, got, hand, world, edits>>

\* Mutant of FailureEtag: the ETag of the answer is stored with the failure.
StampedAnyway(t) == [etag EXCEPT ![sub[t]] = IF got[t] = None THEN @ ELSE got[t].etag]

\* setSyncFailure after a failed fetch or a list without nodes; no row is touched,
\* a deleted subscription not at all.
FailureEtag(t) == etag

Fail(t) ==
  /\ pc[t] = "fail" /\ Goto(t, "end")
  /\ IF There(sub[t])
     THEN status' = [status EXCEPT ![sub[t]] = "failed"] /\ etag' = FailureEtag(t)
     ELSE UNCHANGED <<status, etag>>
  /\ UNCHANGED <<table, enabled, url, last, rows, next, from, syncing, sub, req,
                 got, hand, world, edits, failures>>

\* setSyncNotModified.
Unmodified(t) ==
  /\ pc[t] = "unmodified" /\ Goto(t, "end")
  /\ IF There(sub[t])
     THEN /\ status' = [status EXCEPT ![sub[t]] = "not_modified"]
          /\ last' = [last EXCEPT ![sub[t]] = "fresh"]
     ELSE UNCHANGED <<status, last>>
  /\ UNCHANGED <<table, enabled, url, etag, rows, next, from, syncing, sub, req,
                 got, hand, world, edits, failures>>

\* Mutant of Accepts: foreign keys are off, as SQLite has them by default.
Unchecked(s) == TRUE

\* The foreign key: nodes of a deleted subscription are not inserted, and as all
\* its rows are gone, at least one has to be.
Accepts(s) == There(s)

\* The transaction. Rows read in it and changed by others before its first write
\* make SQLite refuse that write, so it is one step or none (Abort).
Apply(t) ==
  /\ pc[t] = "apply" /\ Goto(t, "end")
  /\ LET s == sub[t]
         m == Match(rows[s], got[t].list, next)
     IN  IF Accepts(s)
         THEN /\ rows' = [rows EXCEPT ![s] = m.rows]
              /\ next' = m.next
              /\ etag' = [etag EXCEPT ![s] = got[t].etag]
              /\ status' = [status EXCEPT ![s] = "ok"]
              /\ last' = [last EXCEPT ![s] = "fresh"]
              /\ from' = [from EXCEPT ![s] = [url |-> req[t].url,
                         version |-> got[t].version, list |-> got[t].list]]
         ELSE UNCHANGED <<rows, next, etag, status, last, from>>
  /\ UNCHANGED <<table, enabled, url, syncing, sub, req, got, hand, world, edits,
                 failures>>

\* The client is gone, the database is busy, or the body breaks off: Sync returns
\* and no status is written.
Abort(t) ==
  /\ pc[t] \in {"get", "fetch", "fail", "unmodified", "apply"}
  /\ failures < MaxFailures
  /\ Goto(t, "end") /\ failures' = failures + 1
  /\ UNCHANGED <<tables, syncing, sub, req, got, hand, world, edits>>

\* Mutant of EndSync: the return after a failure leaves the mark.
EndUnlessFailed(s) == IF status[s] = "failed" THEN syncing ELSE syncing \ {s}

\* The deferred endSync.
EndSync(s) == syncing \ {s}

End(t) ==
  /\ pc[t] = "end" /\ Goto(t, Returned(t))
  /\ syncing' = EndSync(sub[t])
  /\ req' = [req EXCEPT ![t] = None] /\ got' = [got EXCEPT ![t] = None]
  /\ UNCHANGED <<tables, sub, hand, world, edits, failures>>

Sync(t) == \/ Begin(t) \/ Get(t) \/ Fetch(t) \/ Fail(t) \/ Unmodified(t)
           \/ Apply(t) \/ End(t)

-----------------------------------------------------------------------------
(* The handlers that edit.                                                 *)

Create(s, u, on) ==
  /\ table[s] = "new"
  /\ table' = [table EXCEPT ![s] = "there"] /\ url' = [url EXCEPT ![s] = u]
  /\ enabled' = IF on THEN enabled \cup {s} ELSE enabled
  /\ UNCHANGED <<etag, status, last, rows, next, from, syncing, threads, hand,
                 world, edits, failures>>

\* The form holds the URL and the switch; what the last sync left stays.
Update(s, u, on) ==
  /\ There(s) /\ edits < MaxEdits
  /\ url' = [url EXCEPT ![s] = u]
  /\ enabled' = IF on THEN enabled \cup {s} ELSE enabled \ {s}
  /\ edits' = edits + 1
  /\ UNCHANGED <<table, etag, status, last, rows, next, from, syncing, threads,
                 hand, world, failures>>

\* The nodes are deleted with their subscription (ON DELETE CASCADE).
Delete(s) ==
  /\ There(s)
  /\ table' = [table EXCEPT ![s] = "deleted"]
  /\ rows' = [rows EXCEPT ![s] = {}]
  /\ enabled' = enabled \ {s}
  /\ UNCHANGED <<url, etag, status, last, next, from, syncing, threads, hand,
                 world, edits, failures>>

\* Toggle and ToggleNode read the switch in one statement ...
ReadSwitch(g, s) ==
  /\ hand[g] = None /\ There(s) /\ edits < MaxEdits
  /\ \/ hand' = [hand EXCEPT ![g] = [sub |-> s, id |-> 0, on |-> s \in enabled]]
     \/ \E x \in rows[s] :
          hand' = [hand EXCEPT ![g] = [sub |-> s, id |-> x.id, on |-> x.on]]
  /\ edits' = edits + 1
  /\ UNCHANGED <<tables, syncing, threads, world, failures>>

\* The rows once UPDATE has written the switch of one of them.
Switched(items, id, on) ==
  {[x EXCEPT !.on = IF x.id = id THEN on ELSE @] : x \in items}

\* ... and write its negation in another, if the row is still there.
WriteSwitch(g) ==
  /\ hand[g] # None
  /\ LET s == hand[g].sub
         i == hand[g].id
     IN  /\ enabled' = IF i # 0 \/ ~There(s) THEN enabled
                       ELSE IF hand[g].on THEN enabled \ {s} ELSE enabled \cup {s}
         /\ rows' = [rows EXCEPT ![s] = Switched(@, i, ~hand[g].on)]
  /\ hand' = [hand EXCEPT ![g] = None]
  /\ UNCHANGED <<table, url, etag, status, last, next, from, syncing, threads,
                 world, edits, failures>>

-----------------------------------------------------------------------------
(* The world outside.                                                      *)

Change(u, list) ==
  /\ version[u] < MaxChanges /\ list # served[u]
  /\ served' = [served EXCEPT ![u] = list]
  /\ version' = [version EXCEPT ![u] = @ + 1]
  /\ UNCHANGED <<tables, syncing, threads, hand, elapses, edits, failures>>

\* sync_interval_sec has passed since last_sync_at.
Elapse(s) ==
  /\ last[s] = "fresh" /\ elapses < MaxElapses
  /\ last' = [last EXCEPT ![s] = "due"] /\ elapses' = elapses + 1
  /\ UNCHANGED <<table, enabled, url, etag, status, rows, next, from, syncing,
                 threads, hand, served, version, edits, failures>>

\* Nothing is due, nothing runs, and nobody does anything any more.
AtRest == /\ \A s \in Subs : ~Due(s)
          /\ \A t \in Threads : pc[t] = "idle" \/ pc[t] = "done"
          /\ \A g \in Togglers : hand[g] = None

Rest == AtRest /\ UNCHANGED vars

Next ==
  \/ \E t \in Threads : Sync(t) \/ FetchFails(t) \/ Abort(t)
  \/ \E s \in Subs : \/ Tick(s) \/ Delete(s) \/ Elapse(s)
                     \/ \E u \in Urls, on \in BOOLEAN : Create(s, u, on) \/ Update(s, u, on)
                     \/ \E g \in Togglers : ReadSwitch(g, s)
  \/ \E c \in Callers : Call(c)
  \/ \E g \in Togglers : WriteSwitch(g)
  \/ \E u \in Urls : \E list \in Offers[u] : Change(u, list)
  \/ Rest

Spec == Init /\ [][Next]_vars

\* The ticker ticks, and a sync that has begun goes on: each attempt has a
\* deadline. No user does anything, no source changes, no interval has to pass.
Fairness == /\ \A s \in Subs : WF_vars(Tick(s))
            /\ \A t \in Threads : WF_vars(Sync(t))

FairSpec == Spec /\ Fairness

-----------------------------------------------------------------------------
(* Properties.                                                             *)

Stages   == {"idle", "begin", "get", "fetch", "fail", "unmodified", "apply", "end", "done"}
Statuses == {"", "ok", "not_modified", "failed"}

\* The part of the type invariant that concerns syncs.
SyncOK ==
  /\ table \in [Subs -> {"new", "there", "deleted"}]
  /\ url \in [Subs -> Urls \cup {None}] /\ \A s \in Subs : There(s) => url[s] \in Urls
  /\ etag \in [Subs -> Tags] /\ syncing \subseteq Subs
  /\ pc \in [Threads -> Stages] /\ sub \in [Threads -> Subs]
  /\ req \in [Threads -> Requests \cup {None}]
  /\ got \in [Threads -> Answers \cup {None}]
  /\ served \in [Urls -> Lists] /\ version \in [Urls -> 0 .. MaxChanges]
  /\ from \in [Subs -> Origins \cup {None}]

TypeOK ==
  /\ SyncOK
  /\ enabled \subseteq Subs /\ status \in [Subs -> Statuses]
  /\ last \in [Subs -> {"never", "fresh", "due"}]
  /\ rows \in [Subs -> SUBSET Row] /\ next \in Nat \ {0}
  /\ \A s \in Subs : \A x \in rows[s] : x.id < next
  /\ hand \in [Togglers -> [sub : Subs, id : Nat, on : BOOLEAN] \cup {None}]
  /\ edits \in 0 .. MaxEdits /\ elapses \in 0 .. MaxElapses
  /\ failures \in 0 .. MaxFailures

\* The rows of a subscription are one fetched list, node for node: never a mixture
\* of two fetches, no node lost because two of them took the same row, none left
\* over, however the matching has paired them. A deleted subscription has none,
\* though a sync of it may still be on its way to the transaction.
RowsAreOneFetch ==
  \A s \in Subs :
    IF There(s) /\ from[s] # None
    THEN \A raw \in Raws :
           Cardinality(Exact(rows[s], raw)) = Occurrences(from[s].list, raw)
    ELSE rows[s] = {}

\* The stages between beginSync and endSync.
Holding == {"get", "fetch", "fail", "unmodified", "apply", "end"}

Exclusive ==
  \A t \in Threads : pc[t] \in Holding =>
    /\ sub[t] \in syncing
    /\ \A u \in Threads : pc[u] \in Holding /\ sub[u] = sub[t] => u = t

Marked == \A s \in syncing : \E t \in Threads : pc[t] \in Holding /\ sub[t] = s

\* Two syncs of one subscription do not overlap, and a mark in syncing belongs to one
\* that is under way: on whatever path a sync returns, it leaves no mark behind that
\* would refuse every later one.
OneSyncPerMark == Exclusive /\ Marked

\* A later sync never puts an older answer of a source over a newer one, which
\* needs that no two syncs of a subscription overlap.
NeverOlder ==
  [][\A s \in Subs : from[s] # None /\ from'[s].url = from[s].url =>
       from'[s].version >= from[s].version]_vars

\* "Not modified" is believed only when the rows are what the source serves at that
\* moment, unless the URL was edited since they were fetched: no failed or broken
\* off sync leaves an ETag behind whose list was not stored.
UnmodifiedMeansStored ==
  [][\A t \in Threads : pc[t] = "fetch" /\ pc'[t] = "unmodified" /\ There(sub[t]) =>
       /\ from[sub[t]] # None
       /\ from[sub[t]].url = req[t].url =>
            from[sub[t]].version = version[req[t].url]]_vars

\* The step is one of a sync that changes the rows of a subscription still there.
Rewrites(s) == There(s) /\ pc' # pc /\ rows'[s] # rows[s]

\* A sync gives up no row it could keep: of each fingerprint as many rows survive,
\* with their id and switch, as the old and the new list have in common.
IdentityKept ==
  [][\A s \in Subs : There(s) /\ pc' # pc =>
       \A f \in Fingerprints :
         Cardinality({x \in Alike(rows[s], f) : Kept(x, rows'[s])})
           = Least(Cardinality(Alike(rows[s], f)), Cardinality(Alike(rows'[s], f)))]_vars

\* A list that has only been reordered changes no row: each payload finds its own
\* row again, also among others with the same fingerprint.
SameNodesSameRows ==
  [][\A s \in Subs : Rewrites(s) =>
       \E raw \in Raws :
         Cardinality(Exact(rows[s], raw)) # Cardinality(Exact(rows'[s], raw))]_vars

\* What others know of a row of s, and all that there are.
Known(s, x) == [id |-> x.id, owner |-> s, print |-> Fingerprint[x.raw], on |-> x.on]

NodesThere == UNION {{Known(s, x) : x \in rows[s]} : s \in Subs}

Ids == INSTANCE NodeIds WITH Owners <- Subs, Prints <- Fingerprints,
                             alive <- NodesThere, used <- 1 .. next - 1

\* An id names the same node, of the same subscription, for ever: what pool members
\* and queued tests refer to is that node or gone, whatever syncs, deletions and
\* flips there have been in between, and no sync turns a node on or off.
IdsNameOneNode == Ids!Spec

\* A subscription that is due is synced in the end, by the scheduler if by nobody
\* else, whatever failed before, unless its source serves no nodes.
DueIsSynced ==
  \A s \in Subs : Due(s) ~> (~Due(s) \/ served[url[s]] = <<>>)

(* The inductive invariant behind NeverOlder and UnmodifiedMeansStored.    *)

\* A sync that has read the subscription has a request, one with an answer to
\* store has the answer, of a version that the source has reached.
Answered ==
  \A t \in Threads :
    /\ pc[t] \in {"fetch", "apply"} => req[t] \in Requests
    /\ pc[t] = "apply" =>
         /\ got[t] \in Answers
         /\ got[t].version <= version[req[t].url]
         /\ got[t].etag \in {None, got[t].version}

\* What is stored is not newer than its source, nor than an answer of the same
\* source that is about to be stored.
Reached ==
  /\ \A s \in Subs : from[s] # None => from[s].version <= version[from[s].url]
  /\ \A t \in Threads :
       pc[t] = "apply" /\ from[sub[t]] # None /\ from[sub[t]].url = req[t].url =>
         from[sub[t]].version <= got[t].version

\* A stored ETag, and one that a sync asks with, names the version stored.
Stamped ==
  /\ \A s \in Subs : etag[s] # None => from[s] # None /\ etag[s] = from[s].version
  /\ \A t \in Threads : pc[t] = "fetch" /\ req[t].etag # None =>
       from[sub[t]] # None /\ req[t].etag = from[sub[t]].version

IInv == SyncOK /\ Exclusive /\ Answered /\ Reached /\ Stamped

(* What RowsAreOneFetch and the two properties of rows need beyond it.     *)

\* The rows of a subscription are told apart by their ids, and nothing has been
\* stored of a subscription that was not created.
Stored == \A s \in Subs : /\ Keyed(rows[s], next)
                          /\ table[s] = "new" => from[s] = None

RowsInv == TypeOK /\ Stored /\ RowsAreOneFetch
=============================================================================
