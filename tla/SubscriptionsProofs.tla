-------------------------- MODULE SubscriptionsProofs --------------------------
(***************************************************************************)
(* Syncs of subscriptions, for any number of subscriptions, requests,      *)
(* sources and payloads: IInv of Subscriptions is inductive, so no older   *)
(* answer replaces a newer one, and "not modified" is never believed of a  *)
(* list that was not stored.                                               *)
(***************************************************************************)
EXTENDS Subscriptions, NodeMatchingProofs

\* What the proofs need of the constants.
LEMMA Constants ==
  /\ Subs \subseteq Threads /\ None \notin Nat /\ None \notin Origins
  /\ MaxChanges \in Nat /\ 0 \in 0 .. MaxChanges
  /\ \A u \in Urls : Offers[u] \subseteq Lists
  BY SubscriptionsAssumption DEF Threads, Lists

\* What a sync works with.
work == <<table, url, etag, from, syncing, threads, served, version>>

\* The steps that leave all of it alone: flips and intervals.
LEMMA Idle ==
  ASSUME NEW s \in Subs, NEW g \in Togglers,
         ReadSwitch(g, s) \/ WriteSwitch(g) \/ Elapse(s)
  PROVE  UNCHANGED work
  BY DEF ReadSwitch, WriteSwitch, Elapse, work, tables, threads, world

\* Every step is one of these.
LEMMA Cases ==
  ASSUME Next
  PROVE  \/ \E t \in Threads : \/ Begin(t) \/ Get(t) \/ Fetch(t) \/ Fail(t)
                              \/ Unmodified(t) \/ Apply(t) \/ End(t)
                              \/ FetchFails(t) \/ Abort(t)
         \/ \E s \in Subs : Tick(s) \/ Delete(s)
         \/ \E s \in Subs, u \in Urls, on \in BOOLEAN : Create(s, u, on) \/ Update(s, u, on)
         \/ \E c \in Callers : Call(c)
         \/ \E u \in Urls : \E list \in Offers[u] : Change(u, list)
         \/ UNCHANGED work
<1>1. CASE \E s \in Subs, g \in Togglers : ReadSwitch(g, s)
  BY <1>1, Idle
<1>2. CASE \E s \in Subs : Elapse(s)
  BY <1>2 DEF Elapse, work, threads
<1>3. CASE \E g \in Togglers : WriteSwitch(g)
  BY <1>3 DEF WriteSwitch, work, world
<1>4. CASE Rest
  BY <1>4 DEF Rest, vars, work, tables, world
<1> QED
  BY <1>1, <1>2, <1>3, <1>4 DEF Next, Sync

LEMMA InitIInv ==
  ASSUME Init
  PROVE  IInv
<1> USE Constants DEF Init
<1>1. SyncOK
  <2>1. table \in [Subs -> {"new", "there", "deleted"}] /\ \A s \in Subs : ~There(s)
    BY DEF There
  <2>2. /\ url \in [Subs -> Urls \cup {None}] /\ etag \in [Subs -> Tags]
        /\ syncing \subseteq Subs /\ sub \in [Threads -> Subs]
        /\ pc \in [Threads -> Stages]
    BY DEF Tags, Stages
  <2>3. /\ req \in [Threads -> Requests \cup {None}]
        /\ got \in [Threads -> Answers \cup {None}]
        /\ from \in [Subs -> Origins \cup {None}]
    OBVIOUS
  <2>4. served \in [Urls -> Lists]
    OBVIOUS
  <2>5. version \in [Urls -> 0 .. MaxChanges]
    OBVIOUS
  <2> QED
    BY <2>1, <2>2, <2>3, <2>4, <2>5 DEF SyncOK
<1>2. Exclusive /\ Answered
  BY DEF Exclusive, Answered, Holding
<1>3. Reached /\ Stamped
  BY DEF Reached, Stamped
<1> QED
  BY <1>1, <1>2, <1>3 DEF IInv
-----------------------------------------------------------------------------
\* The types.
LEMMA TypeStep ==
  ASSUME IInv, Next
  PROVE  SyncOK'
<1> USE Constants
    DEF IInv, SyncOK, Stages, Goto, There, tables, threads, world
<1>1. ASSUME NEW t \in Threads, Begin(t) PROVE SyncOK'
  BY <1>1 DEF Begin, Returned
<1>2. ASSUME NEW t \in Threads, Get(t) PROVE SyncOK'
  BY <1>2 DEF Get, Requests
<1>3. ASSUME NEW t \in Threads, Fetch(t) PROVE SyncOK'
  BY <1>3 DEF Fetch, Verdict, Answered, Requests, Answers, Tags
<1>4. ASSUME NEW t \in Threads, Fail(t) PROVE SyncOK'
  BY <1>4 DEF Fail, FailureEtag
<1>5. ASSUME NEW t \in Threads, Unmodified(t) PROVE SyncOK'
  BY <1>5 DEF Unmodified
<1>6. ASSUME NEW t \in Threads, Apply(t) PROVE SyncOK'
  <2>1. /\ req[t] \in Requests
        /\ got[t] \in Answers
        /\ sub[t] \in Subs
    BY <1>6 DEF Apply, Answered
  <2>2. UNCHANGED <<table, url, syncing, sub, req, got, served, version>>
    BY <1>6 DEF Apply
  <2>3. pc' \in [Threads -> Stages]
    BY <1>6 DEF Apply
  <2>4. etag' \in [Subs -> Tags]
    BY <1>6, <2>1 DEF Apply, Requests, Answers, Origins
  <2>5. from' \in [Subs -> Origins \cup {None}]
    BY <1>6, <2>1 DEF Apply, Requests, Answers, Origins
  <2> QED
    BY <2>2, <2>3, <2>4, <2>5
<1>7. ASSUME NEW t \in Threads, End(t) PROVE SyncOK'
  BY <1>7 DEF End, EndSync, Returned
<1>8. ASSUME NEW t \in Threads, FetchFails(t) \/ Abort(t) PROVE SyncOK'
  BY <1>8 DEF FetchFails, Abort
<1>9. ASSUME NEW s \in Subs, Tick(s) PROVE SyncOK'
  BY <1>9 DEF Tick
<1>10. ASSUME NEW s \in Subs, Delete(s) PROVE SyncOK'
  BY <1>10 DEF Delete
<1>11. ASSUME NEW s \in Subs, NEW u \in Urls, NEW on \in BOOLEAN,
              Create(s, u, on) \/ Update(s, u, on)
       PROVE  SyncOK'
  BY <1>11 DEF Create, Update
<1>12. ASSUME NEW c \in Callers, Call(c) PROVE SyncOK'
  BY <1>12 DEF Call
<1>13. ASSUME NEW u \in Urls, NEW list \in Offers[u], Change(u, list) PROVE SyncOK'
  BY <1>13 DEF Change
<1>14. ASSUME UNCHANGED work PROVE SyncOK'
  BY <1>14 DEF work
<1> HIDE DEF IInv, SyncOK
<1> QED
  BY Cases, <1>1, <1>2, <1>3, <1>4, <1>5, <1>6, <1>7, <1>8, <1>9, <1>10, <1>11, <1>12, <1>13, <1>14
-----------------------------------------------------------------------------
\* beginSync and endSync keep two syncs of a subscription apart.
LEMMA ExclusiveStep ==
  ASSUME IInv, Next
  PROVE  Exclusive'
<1> USE Constants DEF IInv, SyncOK, Exclusive, Holding, Goto, tables, threads, world
<1>1. ASSUME NEW t \in Threads, Begin(t) PROVE Exclusive'
  BY <1>1 DEF Begin, MayBegin, Returned
<1>2. ASSUME NEW t \in Threads, Get(t) PROVE Exclusive'
  BY <1>2 DEF Get
<1>3. ASSUME NEW t \in Threads, Fetch(t) PROVE Exclusive'
  BY <1>3 DEF Fetch, Verdict, Tags
<1>4. ASSUME NEW t \in Threads, Fail(t) PROVE Exclusive'
  BY <1>4 DEF Fail
<1>5. ASSUME NEW t \in Threads, Unmodified(t) PROVE Exclusive'
  BY <1>5 DEF Unmodified
<1>6. ASSUME NEW t \in Threads, Apply(t) PROVE Exclusive'
  BY <1>6 DEF Apply
<1>7. ASSUME NEW t \in Threads, End(t) PROVE Exclusive'
  BY <1>7 DEF End, EndSync, Returned
<1>8. ASSUME NEW t \in Threads, FetchFails(t) \/ Abort(t) PROVE Exclusive'
  BY <1>8 DEF FetchFails, Abort
<1>9. ASSUME NEW s \in Subs, Tick(s) PROVE Exclusive'
  BY <1>9 DEF Tick
<1>10. ASSUME NEW s \in Subs, Delete(s) PROVE Exclusive'
  BY <1>10 DEF Delete
<1>11. ASSUME NEW s \in Subs, NEW u \in Urls, NEW on \in BOOLEAN,
              Create(s, u, on) \/ Update(s, u, on)
       PROVE  Exclusive'
  BY <1>11 DEF Create, Update
<1>12. ASSUME NEW c \in Callers, Call(c) PROVE Exclusive'
  BY <1>12 DEF Call
<1>13. ASSUME NEW u \in Urls, NEW list \in Offers[u], Change(u, list) PROVE Exclusive'
  BY <1>13 DEF Change
<1>14. ASSUME UNCHANGED work PROVE Exclusive'
  BY <1>14 DEF work
<1> HIDE DEF IInv, Exclusive
<1> QED
  BY Cases, <1>1, <1>2, <1>3, <1>4, <1>5, <1>6, <1>7, <1>8, <1>9, <1>10, <1>11, <1>12, <1>13, <1>14

\* Requests and answers.
LEMMA AnsweredStep ==
  ASSUME IInv, Next
  PROVE  Answered'
<1> USE Constants DEF IInv, SyncOK, Answered, Requests, Answers, Origins, Stages, Goto, tables, threads, world
<1>1. ASSUME NEW t \in Threads, Begin(t) PROVE Answered'
  BY <1>1 DEF Begin, Returned
<1>2. ASSUME NEW t \in Threads, Get(t) PROVE Answered'
  BY <1>2 DEF Get
<1>3. ASSUME NEW t \in Threads, Fetch(t) PROVE Answered'
  BY <1>3 DEF Fetch, Verdict, Tags
<1>4. ASSUME NEW t \in Threads, Fail(t) PROVE Answered'
  BY <1>4 DEF Fail, FailureEtag
<1>5. ASSUME NEW t \in Threads, Unmodified(t) PROVE Answered'
  BY <1>5 DEF Unmodified
<1>6. ASSUME NEW t \in Threads, Apply(t) PROVE Answered'
  BY <1>6 DEF Apply, Exclusive, Holding
<1>7. ASSUME NEW t \in Threads, End(t) PROVE Answered'
  BY <1>7 DEF End, Returned
<1>8. ASSUME NEW t \in Threads, FetchFails(t) \/ Abort(t) PROVE Answered'
  BY <1>8 DEF FetchFails, Abort
<1>9. ASSUME NEW s \in Subs, Tick(s) PROVE Answered'
  BY <1>9 DEF Tick
<1>10. ASSUME NEW s \in Subs, Delete(s) PROVE Answered'
  BY <1>10 DEF Delete
<1>11. ASSUME NEW s \in Subs, NEW u \in Urls, NEW on \in BOOLEAN,
              Create(s, u, on) \/ Update(s, u, on)
       PROVE Answered'
  BY <1>11 DEF Create, Update
<1>12. ASSUME NEW c \in Callers, Call(c) PROVE Answered'
  BY <1>12 DEF Call
<1>13. ASSUME NEW u \in Urls, NEW list \in Offers[u], Change(u, list) PROVE Answered'
  BY <1>13 DEF Change
<1>14. ASSUME UNCHANGED work PROVE Answered'
  BY <1>14 DEF work
<1> HIDE DEF IInv, Answered
<1> QED
  BY Cases, <1>1, <1>2, <1>3, <1>4, <1>5, <1>6, <1>7, <1>8, <1>9, <1>10, <1>11, <1>12, <1>13, <1>14

\* Versions only grow, and no other sync stores anything between an answer and its
\* transaction.
LEMMA ReachedStep ==
  ASSUME IInv, Next
  PROVE  Reached'
<1> USE Constants DEF IInv, SyncOK, Reached, Answered, Requests, Answers, Origins, Stages, Goto, tables, threads, world
<1>1. ASSUME NEW t \in Threads, Begin(t) PROVE Reached'
  BY <1>1 DEF Begin, Returned
<1>2. ASSUME NEW t \in Threads, Get(t) PROVE Reached'
  BY <1>2 DEF Get
<1>3. ASSUME NEW t \in Threads, Fetch(t) PROVE Reached'
  BY <1>3 DEF Fetch, Verdict, Tags
<1>4. ASSUME NEW t \in Threads, Fail(t) PROVE Reached'
  BY <1>4 DEF Fail, FailureEtag
<1>5. ASSUME NEW t \in Threads, Unmodified(t) PROVE Reached'
  BY <1>5 DEF Unmodified
<1>6. ASSUME NEW t \in Threads, Apply(t) PROVE Reached'
  <2>1. /\ req[t] \in Requests /\ got[t] \in Answers /\ sub[t] \in Subs
        /\ got[t].version <= version[req[t].url]
    BY <1>6 DEF Apply
  <2>2. UNCHANGED <<sub, req, got, version>> /\ pc'[t] = "end"
    BY <1>6 DEF Apply
  <2>3. \A u \in Threads : pc'[u] = "apply" =>
          pc[u] = "apply" /\ u # t /\ sub[u] # sub[t]
    BY <1>6 DEF Apply, Exclusive, Holding
  <2>4. \A s \in Subs :
          \/ from'[s] = from[s]
          \/ s = sub[t] /\ from'[s] \in Origins /\ from'[s].url = req[t].url
                        /\ from'[s].version = got[t].version
    BY <1>6, <2>1 DEF Apply
  <2>5. ASSUME NEW s \in Subs, from'[s] # None
        PROVE  from'[s].version <= version'[from'[s].url]
    BY <2>1, <2>2, <2>4, <2>5
  <2>6. ASSUME NEW u \in Threads, pc'[u] = "apply", from'[sub'[u]] # None,
               from'[sub'[u]].url = req'[u].url
        PROVE  from'[sub'[u]].version <= got'[u].version
    <3>1. pc[u] = "apply" /\ from'[sub[u]] = from[sub[u]]
      BY <2>2, <2>3, <2>4, <2>6
    <3> QED
      BY <2>2, <2>6, <3>1
  <2> QED
    BY <2>5, <2>6 DEF Reached
<1>7. ASSUME NEW t \in Threads, End(t) PROVE Reached'
  BY <1>7 DEF End, Returned
<1>8. ASSUME NEW t \in Threads, FetchFails(t) \/ Abort(t) PROVE Reached'
  BY <1>8 DEF FetchFails, Abort
<1>9. ASSUME NEW s \in Subs, Tick(s) PROVE Reached'
  BY <1>9 DEF Tick
<1>10. ASSUME NEW s \in Subs, Delete(s) PROVE Reached'
  BY <1>10 DEF Delete
<1>11. ASSUME NEW s \in Subs, NEW u \in Urls, NEW on \in BOOLEAN,
              Create(s, u, on) \/ Update(s, u, on)
       PROVE Reached'
  BY <1>11 DEF Create, Update
<1>12. ASSUME NEW c \in Callers, Call(c) PROVE Reached'
  BY <1>12 DEF Call
<1>13. ASSUME NEW u \in Urls, NEW list \in Offers[u], Change(u, list) PROVE Reached'
  BY <1>13 DEF Change
<1>14. ASSUME UNCHANGED work PROVE Reached'
  BY <1>14 DEF work
<1> HIDE DEF IInv, Reached
<1> QED
  BY Cases, <1>1, <1>2, <1>3, <1>4, <1>5, <1>6, <1>7, <1>8, <1>9, <1>10, <1>11, <1>12, <1>13, <1>14

\* The ETag and the rows it belongs to are stored in one transaction.
LEMMA StampedStep ==
  ASSUME IInv, Next
  PROVE  Stamped'
<1> USE Constants DEF IInv, SyncOK, Stamped, Answered, Requests, Answers, Origins, Stages, Goto, tables, threads, world
<1>1. ASSUME NEW t \in Threads, Begin(t) PROVE Stamped'
  BY <1>1 DEF Begin, Returned
<1>2. ASSUME NEW t \in Threads, Get(t) PROVE Stamped'
  BY <1>2 DEF Get
<1>3. ASSUME NEW t \in Threads, Fetch(t) PROVE Stamped'
  BY <1>3 DEF Fetch, Verdict, Tags
<1>4. ASSUME NEW t \in Threads, Fail(t) PROVE Stamped'
  BY <1>4 DEF Fail, FailureEtag
<1>5. ASSUME NEW t \in Threads, Unmodified(t) PROVE Stamped'
  BY <1>5 DEF Unmodified
<1>6. ASSUME NEW t \in Threads, Apply(t) PROVE Stamped'
  BY <1>6 DEF Apply, Exclusive, Holding
<1>7. ASSUME NEW t \in Threads, End(t) PROVE Stamped'
  BY <1>7 DEF End, Returned
<1>8. ASSUME NEW t \in Threads, FetchFails(t) \/ Abort(t) PROVE Stamped'
  BY <1>8 DEF FetchFails, Abort
<1>9. ASSUME NEW s \in Subs, Tick(s) PROVE Stamped'
  BY <1>9 DEF Tick
<1>10. ASSUME NEW s \in Subs, Delete(s) PROVE Stamped'
  BY <1>10 DEF Delete
<1>11. ASSUME NEW s \in Subs, NEW u \in Urls, NEW on \in BOOLEAN,
              Create(s, u, on) \/ Update(s, u, on)
       PROVE Stamped'
  BY <1>11 DEF Create, Update
<1>12. ASSUME NEW c \in Callers, Call(c) PROVE Stamped'
  BY <1>12 DEF Call
<1>13. ASSUME NEW u \in Urls, NEW list \in Offers[u], Change(u, list) PROVE Stamped'
  BY <1>13 DEF Change
<1>14. ASSUME UNCHANGED work PROVE Stamped'
  BY <1>14 DEF work
<1> HIDE DEF IInv, Stamped
<1> QED
  BY Cases, <1>1, <1>2, <1>3, <1>4, <1>5, <1>6, <1>7, <1>8, <1>9, <1>10, <1>11, <1>12, <1>13, <1>14
-----------------------------------------------------------------------------
\* The inductive invariant holds in every reachable state.
THEOREM Invariance == Spec => []IInv
<1>1. ASSUME IInv, [Next]_vars PROVE IInv'
  <2>1. CASE Next
    BY <1>1, <2>1, TypeStep, ExclusiveStep, AnsweredStep, ReachedStep, StampedStep DEF IInv
  <2>2. CASE UNCHANGED vars
    BY <1>1, <2>2 DEF vars, tables, threads, world, IInv, SyncOK, There, Exclusive,
                      Answered, Reached, Stamped
  <2> QED
    BY <1>1, <2>1, <2>2
<1> QED
  BY InitIInv, <1>1, PTL DEF Spec

\* A mark is taken away by the sync it belongs to, and by nobody else.
LEMMA MarkedStep ==
  ASSUME IInv, Marked, [Next]_vars
  PROVE  Marked'
<1> USE DEF Marked, Holding, Goto
<1>1. pc \in [Threads -> Stages] /\ sub \in [Threads -> Subs]
  BY DEF IInv, SyncOK
<1>2. ASSUME NEW t \in Threads,
             \/ Get(t) \/ Fetch(t) \/ Fail(t) \/ Unmodified(t) \/ Apply(t)
             \/ FetchFails(t) \/ Abort(t)
      PROVE  Marked'
  <2>1. UNCHANGED <<sub, syncing>>
    BY <1>2 DEF Get, Fetch, Fail, Unmodified, Apply, FetchFails, Abort
  <2>2. \E stage \in Holding : pc' = [pc EXCEPT ![t] = stage]
    BY <1>2 DEF Get, Fetch, Verdict, Fail, Unmodified, Apply, FetchFails, Abort
  <2> QED
    BY <1>1, <2>1, <2>2
<1>3. ASSUME NEW t \in Threads, Begin(t) PROVE Marked'
  BY <1>1, <1>3 DEF Begin, Returned
<1>4. ASSUME NEW t \in Threads, End(t) PROVE Marked'
  <2>1. /\ syncing' = syncing \ {sub[t]} /\ sub' = sub
        /\ \E stage : pc' = [pc EXCEPT ![t] = stage]
    BY <1>4 DEF End, EndSync
  <2> QED
    BY <1>1, <2>1
<1>5. ASSUME NEW t \in Threads, Tick(t) \/ Call(t) PROVE Marked'
  BY <1>1, <1>5 DEF Tick, Call
<1>6. ASSUME UNCHANGED <<pc, sub, syncing>> PROVE Marked'
  BY <1>6
<1>7. ASSUME NEW s \in Subs, Delete(s) PROVE Marked'
  BY <1>7, <1>6 DEF Delete, threads
<1>8. ASSUME NEW s \in Subs, NEW u \in Urls, NEW on \in BOOLEAN, Create(s, u, on) \/ Update(s, u, on)
      PROVE  Marked'
  BY <1>8, <1>6 DEF Create, Update, threads
<1>9. ASSUME NEW u \in Urls, NEW list, Change(u, list) PROVE Marked'
  BY <1>9, <1>6 DEF Change, threads
<1>10. ASSUME UNCHANGED work \/ UNCHANGED vars PROVE Marked'
  BY <1>10, <1>6 DEF work, vars, threads
<1> HIDE DEF Marked
<1> QED
  BY Cases, <1>2, <1>3, <1>4, <1>5, <1>7, <1>8, <1>9, <1>10 DEF Threads

\* No two syncs of a subscription run between beginSync and endSync, and a mark in
\* syncing is that of a sync under way: no return of Sync leaves one behind.
THEOREM SyncsExclude == Spec => []OneSyncPerMark
<1>1. Init => Marked
  BY DEF Init, Marked
<1>2. IInv /\ Marked /\ [Next]_vars => Marked'
  BY MarkedStep
<1>3. IInv /\ Marked => OneSyncPerMark
  BY DEF IInv, OneSyncPerMark
<1> QED
  BY Invariance, <1>1, <1>2, <1>3, PTL DEF Spec

\* An older answer of a source never replaces a newer one of it: a sync that
\* stores something holds the mark, so what is stored has not changed since its
\* fetch and is not newer than the answer.
THEOREM NeverStoredOlder == Spec => NeverOlder
<1> DEFINE Grows == \A s \in Subs : from[s] # None /\ from'[s].url = from[s].url =>
                      from'[s].version >= from[s].version
<1>1. ASSUME IInv, [Next]_vars PROVE Grows
  <2> SUFFICES ASSUME NEW s \in Subs, from[s] # None, from'[s].url = from[s].url
              PROVE  from'[s].version >= from[s].version
    OBVIOUS
  <2>1. from[s].version \in Nat
    BY <1>1 DEF IInv, SyncOK, Origins
  <2>2. CASE from'[s] = from[s]
    BY <2>1, <2>2
  <2>3. ASSUME NEW t \in Threads, Apply(t), from'[s] # from[s]
        PROVE  from'[s].version >= from[s].version
    <3>1. /\ s = sub[t] /\ pc[t] = "apply"
          /\ from'[s].url = req[t].url /\ from'[s].version = got[t].version
      BY <1>1, <2>3 DEF Apply, IInv, SyncOK
    <3>2. got[t].version \in Nat
      BY <1>1, <3>1 DEF IInv, Answered, Answers
    <3> QED
      BY <1>1, <2>1, <3>1, <3>2 DEF IInv, Reached
  <2>4. from'[s] = from[s] \/ \E t \in Threads : Apply(t)
    BY <1>1, Cases DEF Begin, Get, Fetch, Fail, Unmodified, End, FetchFails, Abort, Tick,
       Delete, Create, Update, Call, Change, work, vars, tables
  <2> QED
    BY <2>2, <2>3, <2>4
<1> QED
  BY Invariance, <1>1, PTL DEF Spec, NeverOlder

\* "Not modified" is only answered to a sync whose ETag names the stored version.
THEOREM UnmodifiedIsStored == Spec => UnmodifiedMeansStored
<1> DEFINE Believed == \A t \in Threads :
      pc[t] = "fetch" /\ pc'[t] = "unmodified" /\ There(sub[t]) =>
        /\ from[sub[t]] # None
        /\ from[sub[t]].url = req[t].url =>
             from[sub[t]].version = version[req[t].url]
<1>1. ASSUME IInv, [Next]_vars PROVE Believed
  <2> SUFFICES ASSUME NEW t \in Threads, pc[t] = "fetch", pc'[t] = "unmodified"
              PROVE  from[sub[t]] # None /\ from[sub[t]].version = version[req[t].url]
    OBVIOUS
  <2>1. req[t] \in Requests /\ version[req[t].url] \in Nat
    BY <1>1, Constants DEF IInv, SyncOK, Answered, Requests
  <2>2. Fetch(t)
    <3> USE DEF Goto
    <3>1. pc \in [Threads -> Stages] /\ sub \in [Threads -> Subs]
      BY <1>1 DEF IInv, SyncOK
    <3>2. ASSUME NEW u \in Threads,
                 \/ Begin(u) \/ Get(u) \/ Fail(u) \/ Unmodified(u) \/ Apply(u) \/ End(u)
                 \/ FetchFails(u) \/ Abort(u)
          PROVE  FALSE
      <4>1. \E stage \in Stages \ {"unmodified"} : pc' = [pc EXCEPT ![u] = stage]
        BY <3>2 DEF Begin, Get, Fail, Unmodified, Apply, End, FetchFails, Abort, Returned, Stages
      <4> QED
        BY <3>1, <4>1
    <3>3. ASSUME NEW s \in Threads, Tick(s) \/ Call(s) PROVE FALSE
      BY <3>1, <3>3 DEF Tick, Call
    <3>4. Fetch(t) \/ \A u \in Threads : ~Fetch(u)
      BY <3>1 DEF Fetch
    <3>5. UNCHANGED pc \/ (\E u \in Threads : Fetch(u))
      <4>1. ASSUME NEW s \in Subs, NEW u \in Urls, NEW on \in BOOLEAN,
                   Create(s, u, on) \/ Update(s, u, on)
            PROVE  UNCHANGED pc
        BY <4>1 DEF Create, Update, threads
      <4>2. ASSUME NEW s \in Subs, Delete(s) PROVE UNCHANGED pc
        BY <4>2 DEF Delete, threads
      <4>3. ASSUME NEW u \in Urls, NEW list, Change(u, list) PROVE UNCHANGED pc
        BY <4>3 DEF Change, threads
      <4>4. ASSUME UNCHANGED work \/ UNCHANGED vars PROVE UNCHANGED pc
        BY <4>4 DEF work, vars, threads
      <4> QED
        BY <1>1, Cases, Constants, <3>2, <3>3, <4>1, <4>2, <4>3, <4>4 DEF Threads
    <3> QED
      BY <3>4, <3>5
  <2>3. req[t].etag = version[req[t].url]
    BY <1>1, <2>2 DEF Fetch, Verdict, Goto, IInv, SyncOK
  <2> QED
    BY <1>1, <2>1, <2>3, Constants DEF IInv, Stamped
<1> QED
  BY Invariance, <1>1, PTL DEF Spec, UnmodifiedMeansStored
-----------------------------------------------------------------------------
(* Rows.                                                                   *)

\* What the tables of subscriptions and nodes consist of.
nodes == <<table, rows, next, from>>

\* A flip of a switch is no new row, and no other payload.
LEMMA SwitchKeeps ==
  ASSUME NEW n \in Nat \ {0}, NEW items, Keyed(items, n), NEW i \in Nat, NEW v \in BOOLEAN
  PROVE  /\ Keyed(Switched(items, i, v), n)
         /\ \A raw \in Raws : Cardinality(Exact(Switched(items, i, v), raw))
                                = Cardinality(Exact(items, raw))
<1> DEFINE flipped == Switched(items, i, v)
           F(x) == [x EXCEPT !.on = IF x.id = i THEN v ELSE @]
<1>1. items \subseteq Row /\ IsFiniteSet(items) /\ \A x \in items : x.id < n
  BY DEF Keyed
<1>2. \A x \in items : F(x) \in Row /\ F(x).id = x.id /\ F(x).raw = x.raw
  BY <1>1 DEF Row
<1>3. flipped = {F(x) : x \in items}
  BY DEF Switched
<1> HIDE DEF F, flipped
<1>4. \A x, y \in items : F(x) = F(y) => x = y
  BY <1>2 DEF Keyed
<1>5. ASSUME NEW S \in SUBSET items
      PROVE  IsFiniteSet({F(x) : x \in S}) /\ Cardinality({F(x) : x \in S}) = Cardinality(S)
  <2> DEFINE g == [x \in S |-> F(x)]
             T == {F(x) : x \in S}
  <2>1. g \in [S -> T] /\ \A y \in T : \E x \in S : g[x] = y
    OBVIOUS
  <2>2. \A x, y \in S : g[x] = g[y] => x = y
    BY <1>4
  <2>3. g \in Bijection(S, T)
    BY <2>1, <2>2 DEF Bijection, Injection, Surjection, IsInjective
  <2>4. IsFiniteSet(S) /\ ExistsBijection(S, T)
    BY <1>1, <2>3, FS_Subset DEF ExistsBijection
  <2> HIDE DEF T
  <2>5. IsFiniteSet(T) /\ Cardinality(T) = Cardinality(S)
    BY <2>4, FS_Bijection
  <2> QED
    BY <2>5 DEF T
<1>6. IsFiniteSet(flipped)
  BY <1>3, <1>5
<1>7. Keyed(flipped, n)
  BY <1>1, <1>2, <1>3, <1>6 DEF Keyed
<1>8. ASSUME NEW raw \in Raws
      PROVE  Cardinality(Exact(flipped, raw)) = Cardinality(Exact(items, raw))
  <2>1. Exact(flipped, raw) = {F(x) : x \in Exact(items, raw)}
    BY <1>2, <1>3 DEF Exact
  <2>2. Exact(items, raw) \in SUBSET items
    BY DEF Exact
  <2> QED
    BY <1>5, <2>1, <2>2
<1> QED
  BY <1>7, <1>8 DEF flipped

\* Rows are whole while nobody touches them, and the subscriptions they belong to.
RowsWhole == Stored /\ RowsAreOneFetch

LEMMA RowsFrame ==
  ASSUME RowsWhole, UNCHANGED nodes
  PROVE  RowsWhole'
  BY DEF RowsWhole, Stored, RowsAreOneFetch, There, nodes

\* The rows of one subscription: each payload as often as in the list stored.
OneFetch(s) ==
  IF There(s) /\ from[s] # None
  THEN \A raw \in Raws : Cardinality(Exact(rows[s], raw)) = Occurrences(from[s].list, raw)
  ELSE rows[s] = {}

LEMMA ApplyRows ==
  ASSUME IInv, TypeOK, RowsWhole, NEW t \in Threads, Apply(t)
  PROVE  RowsWhole' /\ next' \in Nat \ {0}
<1> PICK s \in Subs : s = sub[t]
  BY DEF TypeOK, SyncOK
<1> DEFINE m == Match(rows[s], got[t].list, next)
<1>1. got[t] \in Answers /\ got[t].list \in Seq(Raws)
  <2>1. got[t] \in Answers /\ got[t].list \in Lists
    BY DEF Apply, IInv, Answered, Answers
  <2>2. Lists \subseteq Seq(Raws)
    BY SubscriptionsAssumption DEF Lists
  <2> QED
    BY <2>1, <2>2
<1>2. next \in Nat \ {0} /\ Keyed(rows[s], next)
  BY <1>1 DEF TypeOK, RowsWhole, Stored
<1>3. /\ m.next \in Nat \ {0} /\ next <= m.next /\ Keyed(m.rows, m.next)
      /\ \A raw \in Raws : Cardinality(Exact(m.rows, raw)) = Occurrences(got[t].list, raw)
  BY <1>1, <1>2, MatchIsTheList
<1>4. CASE There(s)
  <2>1. /\ rows' = [rows EXCEPT ![s] = m.rows] /\ next' = m.next /\ table' = table
        /\ from' = [from EXCEPT ![s] = [url |-> req[t].url, version |-> got[t].version,
                                        list |-> got[t].list]]
    BY <1>4 DEF Apply, Accepts
  <2> HIDE DEF m
  <2>2. rows \in [Subs -> SUBSET Row] /\ from \in [Subs -> Origins \cup {None}]
    BY DEF TypeOK, SyncOK
  <2>3. ASSUME NEW r \in Subs, r # s
        PROVE  /\ Keyed(rows'[r], next') /\ OneFetch(r)'
               /\ table'[r] = "new" => from'[r] = None
    <3>1. rows'[r] = rows[r] /\ from'[r] = from[r] /\ table'[r] = table[r]
      BY <2>1, <2>2, <2>3
    <3>2. Keyed(rows[r], next) /\ OneFetch(r) /\ (table[r] = "new" => from[r] = None)
      BY DEF RowsWhole, Stored, RowsAreOneFetch, OneFetch
    <3>3. Keyed(rows[r], next')
      <4>1. ASSUME NEW x \in rows[r] PROVE x.id < next'
        BY <1>2, <1>3, <2>1, <3>2 DEF Keyed, Row
      <4> QED
        BY <3>2, <4>1 DEF Keyed
    <3> QED
      BY <3>1, <3>2, <3>3 DEF OneFetch, There
  <2>4. /\ rows'[s] = m.rows /\ from'[s].list = got[t].list /\ table'[s] = "there"
    BY <1>1, <1>4, <2>1, <2>2 DEF There
  <2>5. from'[s] # None
    <3>1. req[t] \in Requests
      BY DEF Apply, IInv, Answered
    <3>2. [url |-> req[t].url, version |-> got[t].version, list |-> got[t].list] \in Origins
      BY <1>1, <3>1 DEF Requests, Answers, Origins
    <3> QED
      BY <1>1, <2>1, <2>2, <3>2, Constants
  <2>6. /\ Keyed(rows'[s], next') /\ OneFetch(s)'
        /\ table'[s] = "new" => from'[s] = None
    BY <1>3, <2>1, <2>4, <2>5 DEF OneFetch, There
  <2>7. next' \in Nat \ {0}
    BY <1>3, <2>1
  <2> QED
    BY <2>3, <2>6, <2>7 DEF RowsWhole, Stored, RowsAreOneFetch, OneFetch
<1>5. CASE ~There(s)
  <2>1. UNCHANGED nodes
    BY <1>5 DEF Apply, Accepts, nodes
  <2> QED
    BY <1>2, <2>1, RowsFrame DEF nodes
<1> QED
  BY <1>4, <1>5

LEMMA SwitchRows ==
  ASSUME TypeOK, RowsWhole, NEW g \in Togglers, WriteSwitch(g)
  PROVE  RowsWhole' /\ rows' \in [Subs -> SUBSET Row]
<1> DEFINE s == hand[g].sub
           i == hand[g].id
           v == ~hand[g].on
<1>1. s \in Subs /\ i \in Nat /\ v \in BOOLEAN
  BY DEF TypeOK, WriteSwitch
<1>2. /\ rows \in [Subs -> SUBSET Row] /\ next \in Nat \ {0}
      /\ UNCHANGED <<table, next, from>>
      /\ \A r \in Subs : Keyed(rows[r], next)
  BY DEF TypeOK, WriteSwitch, RowsWhole, Stored
<1>3. rows' = [rows EXCEPT ![s] = Switched(@, i, v)]
  BY DEF WriteSwitch
<1> HIDE DEF s, i, v
<1>4. ASSUME NEW r \in Subs
      PROVE  /\ Keyed(rows'[r], next)
             /\ rows[r] = {} => rows'[r] = {}
             /\ \A raw \in Raws :
                  Cardinality(Exact(rows'[r], raw)) = Cardinality(Exact(rows[r], raw))
  <2>1. CASE r = s
    <3>1. rows'[s] = Switched(rows[s], i, v)
      BY <1>1, <1>2, <1>3
    <3>2. rows[s] = {} => rows'[s] = {}
      BY <3>1 DEF Switched
    <3>3. Keyed(rows[s], next)
      BY <1>1, <1>2
    <3>4. /\ Keyed(rows'[s], next)
          /\ \A raw \in Raws :
               Cardinality(Exact(rows'[s], raw)) = Cardinality(Exact(rows[s], raw))
      BY <1>1, <1>2, <3>1, <3>3, SwitchKeeps
    <3> QED
      BY <2>1, <3>2, <3>4
  <2>2. CASE r # s
    BY <1>2, <1>3, <2>2
  <2> QED
    BY <2>1, <2>2
<1>5. RowsWhole'
  BY <1>2, <1>4 DEF RowsWhole, Stored, RowsAreOneFetch, There
<1>6. rows' \in [Subs -> SUBSET Row]
  <2>1. \A r \in Subs : rows'[r] \subseteq Row
    BY <1>4 DEF Keyed
  <2>2. rows' = [r \in Subs |-> rows'[r]]
    BY <1>2, <1>3
  <2> QED
    BY <2>1, <2>2
<1> QED
  BY <1>5, <1>6

\* The columns that no argument about syncs needs, and the counters.
Columns ==
  /\ enabled \subseteq Subs /\ status \in [Subs -> Statuses]
  /\ last \in [Subs -> {"never", "fresh", "due"}]
  /\ edits \in 0 .. MaxEdits /\ elapses \in 0 .. MaxElapses
  /\ failures \in 0 .. MaxFailures

Hands == hand \in [Togglers -> [sub : Subs, id : Nat, on : BOOLEAN] \cup {None}]

LEMMA ColumnsStep ==
  ASSUME TypeOK, Next
  PROVE  Columns'
<1> USE DEF Columns, tables, threads, world
<1>1. /\ Columns /\ sub \in [Threads -> Subs]
      /\ MaxEdits \in Nat /\ MaxElapses \in Nat /\ MaxFailures \in Nat
  BY SubscriptionsAssumption DEF TypeOK, SyncOK
<1>2. ASSUME NEW t \in Threads, Begin(t) \/ Get(t) \/ Fetch(t) \/ End(t)
      PROVE  Columns'
  BY <1>1, <1>2 DEF Begin, Get, Fetch, End
<1>3. ASSUME NEW t \in Threads, Fail(t) \/ Unmodified(t) \/ Apply(t) PROVE Columns'
  <2>1. UNCHANGED <<enabled, edits, elapses, failures>>
    BY <1>3 DEF Fail, Unmodified, Apply
  <2>2. \E r \in Statuses : status' \in {status, [status EXCEPT ![sub[t]] = r]}
    BY <1>3 DEF Fail, Unmodified, Apply, Statuses
  <2>3. last' \in {last, [last EXCEPT ![sub[t]] = "fresh"]}
    BY <1>3 DEF Fail, Unmodified, Apply
  <2>4. status' \in [Subs -> Statuses]
    BY <1>1, <2>2
  <2>5. last' \in [Subs -> {"never", "fresh", "due"}]
    BY <1>1, <2>3
  <2> QED
    BY <1>1, <2>1, <2>4, <2>5
<1>4. ASSUME NEW t \in Threads, FetchFails(t) \/ Abort(t) PROVE Columns'
  <2>1. /\ UNCHANGED <<enabled, status, last, edits, elapses>>
        /\ failures < MaxFailures /\ failures' = failures + 1
    BY <1>4 DEF FetchFails, Abort
  <2> QED
    BY <1>1, <2>1
<1>5. ASSUME NEW s \in Subs, Tick(s) \/ Delete(s) PROVE Columns'
  BY <1>1, <1>5 DEF Tick, Delete
<1>6. ASSUME NEW s \in Subs, Elapse(s) PROVE Columns'
  BY <1>1, <1>6 DEF Elapse
<1>7. ASSUME NEW s \in Subs, NEW u \in Urls, NEW on \in BOOLEAN,
             Create(s, u, on) \/ Update(s, u, on)
      PROVE  Columns'
  BY <1>1, <1>7 DEF Create, Update
<1>8. ASSUME NEW s \in Subs, NEW g \in Togglers, ReadSwitch(g, s) PROVE Columns'
  <2>1. /\ UNCHANGED <<enabled, status, last, elapses, failures>>
        /\ edits < MaxEdits /\ edits' = edits + 1
    BY <1>8 DEF ReadSwitch
  <2> QED
    BY <1>1, <2>1
<1>9. ASSUME NEW g \in Togglers, WriteSwitch(g) PROVE Columns'
  <2>1. hand[g].sub \in Subs /\ UNCHANGED <<status, last, edits, elapses, failures>>
    BY <1>9 DEF WriteSwitch, TypeOK
  <2>2. enabled' \subseteq enabled \cup {hand[g].sub}
    BY <1>9 DEF WriteSwitch
  <2> QED
    BY <1>1, <2>1, <2>2
<1>10. ASSUME NEW c \in Callers, Call(c) PROVE Columns'
  BY <1>1, <1>10 DEF Call
<1>11. ASSUME NEW u \in Urls, NEW list \in Offers[u], Change(u, list) PROVE Columns'
  BY <1>1, <1>11 DEF Change
<1>12. ASSUME Rest PROVE Columns'
  BY <1>1, <1>12 DEF Rest, vars
<1> HIDE DEF Columns
<1> QED
  BY <1>2, <1>3, <1>4, <1>5, <1>6, <1>7, <1>8, <1>9, <1>10, <1>11, <1>12 DEF Next, Sync

LEMMA HandsStep ==
  ASSUME TypeOK, Next
  PROVE  Hands'
<1>1. Hands
  BY DEF TypeOK, Hands
<1>2. ASSUME UNCHANGED hand PROVE Hands'
  BY <1>1, <1>2 DEF Hands
<1>3. ASSUME NEW s \in Subs, NEW g \in Togglers, ReadSwitch(g, s) PROVE Hands'
  <2>1. rows[s] \subseteq Row /\ (s \in enabled) \in BOOLEAN
    BY DEF TypeOK
  <2>2. \E i \in Nat, v \in BOOLEAN :
          hand' = [hand EXCEPT ![g] = [sub |-> s, id |-> i, on |-> v]]
    BY <1>3, <2>1 DEF ReadSwitch, Row
  <2> QED
    BY <1>1, <2>2 DEF Hands
<1>4. ASSUME NEW g \in Togglers, WriteSwitch(g) PROVE Hands'
  BY <1>1, <1>4 DEF Hands, WriteSwitch
<1>5. ASSUME NEW t \in Threads, Sync(t) \/ FetchFails(t) \/ Abort(t)
      PROVE  UNCHANGED hand
  BY <1>5 DEF Sync, Begin, Get, Fetch, Fail, Unmodified, Apply, End, FetchFails, Abort
<1>6. ASSUME NEW s \in Subs, NEW u \in Urls, NEW on \in BOOLEAN,
             Create(s, u, on) \/ Update(s, u, on)
      PROVE  UNCHANGED hand
  BY <1>6 DEF Create, Update
<1>7. ASSUME NEW s \in Subs, Tick(s) \/ Delete(s) \/ Elapse(s) PROVE UNCHANGED hand
  BY <1>7 DEF Tick, Delete, Elapse
<1>8. ASSUME NEW c \in Callers, Call(c) PROVE UNCHANGED hand
  BY <1>8 DEF Call
<1>9. ASSUME NEW u \in Urls, NEW list, Change(u, list) PROVE UNCHANGED hand
  BY <1>9 DEF Change
<1>10. ASSUME Rest PROVE UNCHANGED hand
  BY <1>10 DEF Rest, vars
<1> QED
  BY <1>2, <1>3, <1>4, <1>5, <1>6, <1>7, <1>8, <1>9, <1>10 DEF Next

\* The steps that touch the tables of subscriptions and nodes.
LEMMA NodeCases ==
  ASSUME Next
  PROVE  \/ UNCHANGED nodes
         \/ \E t \in Threads : Apply(t)
         \/ \E g \in Togglers : WriteSwitch(g)
         \/ \E s \in Subs : Delete(s)
         \/ \E s \in Subs, u \in Urls, on \in BOOLEAN : Create(s, u, on)
<1> USE DEF nodes, tables
<1>1. ASSUME NEW t \in Threads,
             \/ Begin(t) \/ Get(t) \/ Fetch(t) \/ Fail(t) \/ Unmodified(t) \/ End(t)
             \/ FetchFails(t) \/ Abort(t)
      PROVE  UNCHANGED nodes
  BY <1>1 DEF Begin, Get, Fetch, Fail, Unmodified, End, FetchFails, Abort
<1>2. ASSUME NEW s \in Subs, Tick(s) \/ Elapse(s) PROVE UNCHANGED nodes
  BY <1>2 DEF Tick, Elapse
<1>3. ASSUME NEW s \in Subs, NEW u \in Urls, NEW on \in BOOLEAN, Update(s, u, on)
      PROVE  UNCHANGED nodes
  BY <1>3 DEF Update
<1>4. ASSUME NEW s \in Subs, NEW g \in Togglers, ReadSwitch(g, s) PROVE UNCHANGED nodes
  BY <1>4 DEF ReadSwitch
<1>5. ASSUME NEW c \in Callers, Call(c) PROVE UNCHANGED nodes
  BY <1>5 DEF Call
<1>6. ASSUME NEW u \in Urls, NEW list \in Offers[u], Change(u, list)
      PROVE  UNCHANGED nodes
  BY <1>6 DEF Change
<1>7. ASSUME Rest PROVE UNCHANGED nodes
  BY <1>7 DEF Rest, vars
<1> HIDE DEF nodes
<1> QED
  BY <1>1, <1>2, <1>3, <1>4, <1>5, <1>6, <1>7 DEF Next, Sync

\* The rows stay whole in every step.
LEMMA RowsStep ==
  ASSUME IInv, TypeOK, RowsWhole, Next
  PROVE  RowsWhole' /\ rows' \in [Subs -> SUBSET Row] /\ next' \in Nat \ {0}
<1> DEFINE Goal == RowsWhole' /\ rows' \in [Subs -> SUBSET Row] /\ next' \in Nat \ {0}
<1>1. /\ rows \in [Subs -> SUBSET Row] /\ next \in Nat \ {0}
      /\ table \in [Subs -> {"new", "there", "deleted"}]
  BY DEF TypeOK, SyncOK
<1>2. ASSUME UNCHANGED nodes PROVE Goal
  BY <1>1, <1>2, RowsFrame DEF nodes
<1>3. ASSUME NEW t \in Threads, Apply(t) PROVE Goal
  <2>1. RowsWhole' /\ next' \in Nat \ {0}
    BY <1>3, ApplyRows
  <2>2. rows' \in [Subs -> SUBSET Row]
    <3>1. \A s \in Subs : rows'[s] \subseteq Row
      BY <2>1 DEF RowsWhole, Stored, Keyed
    <3>2. rows' = [s \in Subs |-> rows'[s]]
      BY <1>1, <1>3 DEF Apply
    <3> QED
      BY <3>1, <3>2
  <2> QED
    BY <2>1, <2>2
<1>4. ASSUME NEW g \in Togglers, WriteSwitch(g) PROVE Goal
  BY <1>1, <1>4, SwitchRows DEF WriteSwitch
<1>5. ASSUME NEW s \in Subs, NEW u \in Urls, NEW on \in BOOLEAN, Create(s, u, on)
      PROVE  Goal
  <2>1. /\ UNCHANGED <<rows, next, from>> /\ table[s] = "new"
        /\ table' = [table EXCEPT ![s] = "there"]
    BY <1>5 DEF Create
  <2>2. RowsWhole'
    BY <1>1, <2>1 DEF RowsWhole, Stored, RowsAreOneFetch, There
  <2> QED
    BY <1>1, <2>1, <2>2
<1>6. ASSUME NEW s \in Subs, Delete(s) PROVE Goal
  <2>1. /\ UNCHANGED <<next, from>> /\ table' = [table EXCEPT ![s] = "deleted"]
        /\ rows' = [rows EXCEPT ![s] = {}]
    BY <1>6 DEF Delete
  <2>2. Keyed({}, next)
    BY FS_EmptySet DEF Keyed
  <2>3. RowsWhole'
    BY <1>1, <2>1, <2>2 DEF RowsWhole, Stored, RowsAreOneFetch, There
  <2> QED
    BY <1>1, <2>1, <2>3
<1> HIDE DEF Goal
<1> QED
  BY <1>2, <1>3, <1>4, <1>5, <1>6, NodeCases DEF Goal

LEMMA InitRows ==
  ASSUME Init
  PROVE  RowsInv
<1>1. Columns /\ Hands
  <2>1. enabled \subseteq Subs /\ status \in [Subs -> Statuses]
    BY DEF Init, Statuses
  <2>2. last \in [Subs -> {"never", "fresh", "due"}] /\ Hands
    BY DEF Init, Hands
  <2>3. edits = 0 /\ elapses = 0 /\ failures = 0
    BY DEF Init
  <2>4. 0 \in 0 .. MaxEdits /\ 0 \in 0 .. MaxElapses /\ 0 \in 0 .. MaxFailures
    BY SubscriptionsAssumption
  <2> QED
    BY <2>1, <2>2, <2>3, <2>4 DEF Columns
<1>2. rows \in [Subs -> SUBSET Row] /\ next \in Nat \ {0}
  <2>1. rows = [s \in Subs |-> {}] /\ next = 1
    BY DEF Init
  <2> QED
    BY <2>1
<1>3. RowsWhole
  BY FS_EmptySet DEF Init, RowsWhole, Stored, RowsAreOneFetch, Keyed, There
<1>4. SyncOK
  BY InitIInv DEF IInv
<1>5. TypeOK
  BY <1>1, <1>2, <1>3, <1>4 DEF TypeOK, Columns, Hands, RowsWhole, Stored, Keyed
<1> QED
  BY <1>3, <1>5 DEF RowsInv, RowsWhole

LEMMA RowsInductive ==
  ASSUME IInv, RowsInv, [Next]_vars
  PROVE  RowsInv'
<1>1. TypeOK /\ RowsWhole
  BY DEF RowsInv, RowsWhole
<1>2. CASE Next
  <2>1. RowsWhole' /\ rows' \in [Subs -> SUBSET Row] /\ next' \in Nat \ {0}
    BY <1>1, <1>2, RowsStep
  <2>2. SyncOK' /\ Columns' /\ Hands'
    BY <1>1, <1>2, TypeStep, ColumnsStep, HandsStep
  <2>3. TypeOK'
    BY <2>1, <2>2 DEF TypeOK, Columns, Hands, RowsWhole, Stored, Keyed
  <2> QED
    BY <2>1, <2>3 DEF RowsInv, RowsWhole
<1>3. CASE UNCHANGED vars
  <2>1. UNCHANGED nodes
    BY <1>3 DEF vars, tables, nodes
  <2>2. RowsWhole'
    BY <1>1, <2>1, RowsFrame
  <2>3. TypeOK'
    BY <1>1, <1>3 DEF vars, tables, threads, world, TypeOK, SyncOK, There
  <2> QED
    BY <2>2, <2>3 DEF RowsInv, RowsWhole
<1> QED
  BY <1>2, <1>3

\* What is stored of a subscription is typed and is one list, in every reachable state.
THEOREM RowsInvariance == Spec => []RowsInv
<1>1. Init => RowsInv
  BY InitRows
<1>2. IInv /\ RowsInv /\ [Next]_vars => RowsInv'
  BY RowsInductive
<1> QED
  BY Invariance, <1>1, <1>2, PTL DEF Spec

\* Every variable keeps to its type, and a row's id is below the next one.
THEOREM Typed == Spec => []TypeOK
<1>1. RowsInv => TypeOK
  BY DEF RowsInv
<1> QED
  BY RowsInvariance, <1>1, PTL

\* The rows of a subscription are the list of one fetch, node for node, whatever the
\* list, the rows before it and the pairing of the two; a deleted one has no rows.
THEOREM WholeFetches == Spec => []RowsAreOneFetch
<1>1. RowsInv => RowsAreOneFetch
  BY DEF RowsInv
<1> QED
  BY RowsInvariance, <1>1, PTL
-----------------------------------------------------------------------------
\* What a step of a sync does with the rows of a subscription still there: nothing, or
\* it stores what Match has made of them.
LEMMA SyncStep ==
  ASSUME IInv, RowsInv, [Next]_vars, pc' # pc, NEW s \in Subs, There(s)
  PROVE  \/ rows'[s] = rows[s]
         \/ \E list \in Seq(Raws) : rows'[s] = Match(rows[s], list, next).rows
<1>1. /\ rows \in [Subs -> SUBSET Row] /\ sub \in [Threads -> Subs]
  BY DEF RowsInv, TypeOK, SyncOK
<1>2. CASE rows' = rows
  BY <1>2
<1>3. ASSUME NEW t \in Threads, Apply(t)
      PROVE  \/ rows'[s] = rows[s]
             \/ \E list \in Seq(Raws) : rows'[s] = Match(rows[s], list, next).rows
  <2>1. PICK r \in Subs : r = sub[t]
    BY <1>1
  <2>2. \/ rows' = rows
        \/ rows' = [rows EXCEPT ![r] = Match(rows[r], got[t].list, next).rows]
    BY <1>3, <2>1 DEF Apply
  <2>3. got[t].list \in Seq(Raws)
    <3>1. got[t].list \in Lists
      BY <1>3 DEF Apply, IInv, Answered, Answers
    <3>2. Lists \subseteq Seq(Raws)
      BY SubscriptionsAssumption DEF Lists
    <3> QED
      BY <3>1, <3>2
  <2>4. CASE r = s
    BY <1>1, <2>2, <2>3, <2>4
  <2>5. CASE r # s
    BY <1>1, <2>2, <2>5
  <2> QED
    BY <2>4, <2>5
<1>4. rows' = rows \/ \E t \in Threads : Apply(t)
  <2>1. Next
    BY DEF vars, threads
  <2>2. ASSUME NEW t \in Threads, Sync(t) \/ FetchFails(t) \/ Abort(t), ~Apply(t)
        PROVE  rows' = rows
    BY <2>2 DEF Sync, Begin, Get, Fetch, Fail, Unmodified, End, FetchFails, Abort, tables
  <2>3. ASSUME NEW r \in Subs, Tick(r) PROVE rows' = rows
    BY <2>3 DEF Tick, tables
  <2>4. ASSUME NEW c \in Callers, Call(c) PROVE rows' = rows
    BY <2>4 DEF Call, tables
  <2>5. ASSUME NEW r \in Subs, Delete(r) \/ Elapse(r) PROVE FALSE
    BY <2>5 DEF Delete, Elapse, threads
  <2>6. ASSUME NEW r \in Subs, NEW u \in Urls, NEW on \in BOOLEAN,
               Create(r, u, on) \/ Update(r, u, on)
        PROVE  FALSE
    BY <2>6 DEF Create, Update, threads
  <2>7. ASSUME NEW r \in Subs, NEW g \in Togglers, ReadSwitch(g, r) PROVE FALSE
    BY <2>7 DEF ReadSwitch, threads
  <2>8. ASSUME NEW g \in Togglers, WriteSwitch(g) PROVE FALSE
    BY <2>8 DEF WriteSwitch, threads
  <2>9. ASSUME NEW u \in Urls, NEW list, Change(u, list) PROVE FALSE
    BY <2>9 DEF Change, threads
  <2>10. ASSUME Rest PROVE FALSE
    BY <2>10 DEF Rest, vars, threads
  <2> QED
    BY <2>1, <2>2, <2>3, <2>4, <2>5, <2>6, <2>7, <2>8, <2>9, <2>10 DEF Next
<1> QED
  BY <1>2, <1>3, <1>4

\* A sync gives up no row it could keep: of the rows with one fingerprint as many
\* survive, with id and switch, as the old rows and the new ones have in common.
THEOREM SyncsKeepRows == Spec => IdentityKept
<1> DEFINE Keeps(s, f) ==
      Cardinality({x \in Alike(rows[s], f) : Kept(x, rows'[s])})
        = Least(Cardinality(Alike(rows[s], f)), Cardinality(Alike(rows'[s], f)))
<1>1. ASSUME IInv, RowsInv, [Next]_vars,
             NEW s \in Subs, There(s) /\ pc' # pc, NEW f \in Fingerprints
      PROVE  Keeps(s, f)
  <2>1. next \in Nat \ {0} /\ Keyed(rows[s], next)
    BY <1>1 DEF RowsInv, TypeOK, Stored
  <2>2. CASE rows'[s] = rows[s]
    <3>1. {x \in Alike(rows[s], f) : Kept(x, rows[s])} = Alike(rows[s], f)
      BY DEF Kept, Same, Alike
    <3>2. Cardinality(Alike(rows[s], f)) \in Nat
      BY <2>1, AlikeFinite DEF Keyed
    <3> QED
      BY <2>2, <3>1, <3>2 DEF Least
  <2>3. ASSUME NEW list \in Seq(Raws), rows'[s] = Match(rows[s], list, next).rows
        PROVE  Keeps(s, f)
    BY <2>1, <2>3, MatchKeepsRows
  <2> QED
    BY <1>1, <2>2, <2>3, SyncStep
<1>2. IInv /\ RowsInv /\ [Next]_vars =>
        \A s \in Subs : There(s) /\ pc' # pc => \A f \in Fingerprints : Keeps(s, f)
  BY <1>1
<1> QED
  BY Invariance, RowsInvariance, <1>2, PTL DEF Spec, IdentityKept

\* A list of the nodes already stored, in whatever order, changes no row: a sync that
\* changes rows changes how often some payload occurs.
THEOREM ReorderedListsChangeNothing == Spec => SameNodesSameRows
<1> DEFINE Differs(s) ==
      \E raw \in Raws : Cardinality(Exact(rows[s], raw)) # Cardinality(Exact(rows'[s], raw))
<1>1. ASSUME IInv, RowsInv, [Next]_vars, NEW s \in Subs, Rewrites(s)
      PROVE  Differs(s)
  <2>1. next \in Nat \ {0} /\ Keyed(rows[s], next)
    BY <1>1 DEF RowsInv, TypeOK, Stored
  <2>2. PICK list \in Seq(Raws) : rows'[s] = Match(rows[s], list, next).rows
    BY <1>1, SyncStep DEF Rewrites
  <2>3. \A raw \in Raws : Cardinality(Exact(rows'[s], raw)) = Occurrences(list, raw)
    BY <2>1, <2>2, MatchIsTheList
  <2>4. SUFFICES ASSUME ~Differs(s) PROVE FALSE
    OBVIOUS
  <2>5. \A raw \in Raws : Cardinality(Exact(rows[s], raw)) = Occurrences(list, raw)
    BY <2>3, <2>4
  <2>6. rows'[s] = rows[s]
    BY <2>1, <2>2, <2>5, MatchOfSameNodes
  <2> QED
    BY <1>1, <2>6 DEF Rewrites
<1>2. IInv /\ RowsInv /\ [Next]_vars => \A s \in Subs : Rewrites(s) => Differs(s)
  BY <1>1
<1> QED
  BY Invariance, RowsInvariance, <1>2, PTL DEF Spec, SameNodesSameRows
-----------------------------------------------------------------------------
(* Nodes as the rest of the program knows them.                            *)

\* Rows that are known alike are the same row, renamed at most.
LEMMA KnownAlike ==
  ASSUME NEW r, NEW s, NEW x, NEW y, Known(r, x) = Known(s, y)
  PROVE  r = s /\ Same(x, y)
  BY DEF Known, Same

LEMMA SameKnown ==
  ASSUME NEW s, NEW x, NEW y, Same(x, y)
  PROVE  Known(s, x) = Known(s, y)
  BY DEF Known, Same

\* The nodes of one subscription are renewed, by a sync or when it is deleted.
LEMMA Renewed ==
  ASSUME next \in Nat \ {0}, next' \in Nat \ {0}, next <= next', NEW s \in Subs,
         \A r \in Subs \ {s} : rows'[r] = rows[r],
         Keyed(rows'[s], next'), \A y \in rows'[s] : Explained(y, rows[s], next)
  PROVE  Ids!Renew(s)
<1> DEFINE gone == NodesThere \ NodesThere'
           come == NodesThere' \ NodesThere
<1>1. \A n : n \in NodesThere <=> \E r \in Subs : \E x \in rows[r] : n = Known(r, x)
  BY DEF NodesThere
<1>2. \A n : n \in NodesThere' <=> \E r \in Subs : \E x \in rows'[r] : n = Known(r, x)
  BY DEF NodesThere, Known
<1>3. ASSUME NEW n \in gone PROVE n \in Ids!Of(s)
  <2>1. PICK r \in Subs : \E x \in rows[r] : n = Known(r, x)
    BY <1>1
  <2>2. r = s
    BY <1>2, <2>1
  <2> QED
    BY <2>1, <2>2 DEF Ids!Of, Known
<1>4. ASSUME NEW n \in come
      PROVE  \E y \in rows'[s] : n = Known(s, y) /\ y.on /\ next <= y.id
  <2>1. PICK r \in Subs : \E y \in rows'[r] : n = Known(r, y)
    BY <1>2
  <2>2. r = s
    BY <1>1, <2>1
  <2>3. PICK y \in rows'[s] : n = Known(s, y)
    BY <2>1, <2>2
  <2>4. \A x \in rows[s] : ~Same(x, y)
    BY <1>1, <2>3, SameKnown
  <2> QED
    BY <2>3, <2>4 DEF Explained
<1>5. ASSUME NEW n \in come
      PROVE  n \in [id : (1 .. next' - 1) \ (1 .. next - 1), owner : {s},
                    print : Fingerprints, on : {TRUE}]
  <2>1. PICK y \in rows'[s] : n = Known(s, y) /\ y.on /\ next <= y.id
    BY <1>4
  <2>2. y \in Row /\ y.id < next'
    BY DEF Keyed
  <2>3. y.id \in (1 .. next' - 1) \ (1 .. next - 1)
    BY <2>1, <2>2 DEF Row
  <2>4. Fingerprint[y.raw] \in Fingerprints /\ y.on = TRUE
    BY <2>1, <2>2 DEF Row, Fingerprints
  <2> QED
    BY <2>1, <2>3, <2>4 DEF Known
<1>6. ASSUME NEW m \in come, NEW n \in come, m.id = n.id PROVE m = n
  <2>1. PICK x \in rows'[s] : m = Known(s, x)
    BY <1>4
  <2>2. PICK y \in rows'[s] : n = Known(s, y)
    BY <1>4
  <2>3. x.id = y.id
    BY <1>6, <2>1, <2>2 DEF Known
  <2> QED
    BY <2>1, <2>2, <2>3 DEF Keyed
<1>7. 1 .. next - 1 \subseteq 1 .. next' - 1
  OBVIOUS
<1>8. NodesThere' = (NodesThere \ gone) \cup come
  OBVIOUS
<1> HIDE DEF gone, come
<1>9. gone \in SUBSET Ids!Of(s)
  BY <1>3
<1>10. come \in SUBSET [id : (1 .. next' - 1) \ (1 .. next - 1), owner : {s},
                        print : Fingerprints, on : {TRUE}]
  BY <1>5
<1> QED
  BY <1>6, <1>7, <1>8, <1>9, <1>10 DEF Ids!Renew

\* A flip turns one node, or none when the row has gone or the switch is there already.
LEMMA Turned ==
  ASSUME TypeOK, Stored, NEW g \in Togglers, WriteSwitch(g)
  PROVE  UNCHANGED nodes \/ \E n \in NodesThere : Ids!Turn(n)
<1> DEFINE i == hand[g].id
           v == ~hand[g].on
<1> PICK s \in Subs : s = hand[g].sub
  BY DEF TypeOK, WriteSwitch
<1>1. /\ rows \in [Subs -> SUBSET Row] /\ UNCHANGED <<table, next, from>>
      /\ rows' = [rows EXCEPT ![s] = Switched(@, i, v)] /\ v \in BOOLEAN
      /\ \A r \in Subs : Keyed(rows[r], next)
  BY DEF TypeOK, WriteSwitch, Stored
<1> HIDE DEF i, v
<1>2. CASE \A x \in rows[s] : x.id = i => x.on = v
  <2>1. \A x \in rows[s] : x \in Row /\ [x EXCEPT !.on = IF x.id = i THEN v ELSE @] = x
    BY <1>1, <1>2 DEF Row
  <2>2. Switched(rows[s], i, v) = rows[s]
    BY <2>1 DEF Switched
  <2>3. rows' = rows
    BY <1>1, <2>2
  <2> QED
    BY <1>1, <2>3 DEF nodes
<1>3. ASSUME NEW x \in rows[s], x.id = i, x.on # v PROVE \E n \in NodesThere : Ids!Turn(n)
  <2> DEFINE n == Known(s, x)
             t == [n EXCEPT !.on = ~@]
  <2>1. x \in Row /\ v = ~x.on
    BY <1>1, <1>3 DEF Row
  <2>2. n \in NodesThere
    BY DEF NodesThere
  <2>3. t = [id |-> x.id, owner |-> s, print |-> Fingerprint[x.raw], on |-> v]
    BY <2>1 DEF Known
  <2>4. \A y \in rows[s] : y = x \/ y.id # i
    BY <1>1, <1>3 DEF Keyed
  <2>5. \A y \in rows[s] : Known(s, y) = n => y = x
    BY <1>3, <2>4 DEF Known
  <2>6. \A r \in Subs : r # s => \A y \in rows[r] : Known(r, y) # n
    BY KnownAlike
  <2> DEFINE w == [x EXCEPT !.on = v]
  <2>7. rows'[s] = (rows[s] \ {x}) \cup {w} /\ Known(s, w) = t
    <3>1. rows'[s] = Switched(rows[s], i, v)
      BY <1>1
    <3>2. \A y \in rows[s] \ {x} : [y EXCEPT !.on = IF y.id = i THEN v ELSE @] = y
      BY <1>1, <2>4 DEF Row
    <3>3. [x EXCEPT !.on = IF x.id = i THEN v ELSE @] = w
      BY <1>3
    <3>4. Known(s, w) = t
      BY <2>1, <2>3 DEF Known, Row
    <3> HIDE DEF w, t, n
    <3>5. Switched(rows[s], i, v) = (rows[s] \ {x}) \cup {w}
      BY <3>2, <3>3 DEF Switched
    <3> QED
      BY <3>1, <3>4, <3>5
  <2>8. \A r \in Subs : r # s => rows'[r] = rows[r]
    BY <1>1
  <2>9. \A k : k \in NodesThere <=> \E r \in Subs : \E y \in rows[r] : k = Known(r, y)
    BY DEF NodesThere
  <2>10. \A k : k \in NodesThere' <=> \E r \in Subs : \E y \in rows'[r] : k = Known(r, y)
    BY DEF NodesThere, Known
  <2> HIDE DEF n, t, w
  <2>11. NodesThere' = (NodesThere \ {n}) \cup {t}
    <3>1. ASSUME NEW k \in NodesThere' PROVE k \in (NodesThere \ {n}) \cup {t}
      <4>1. PICK r \in Subs : \E y \in rows'[r] : k = Known(r, y)
        BY <2>10
      <4>2. CASE r = s
        BY <2>5, <2>7, <2>9, <4>1, <4>2
      <4>3. CASE r # s
        BY <2>6, <2>8, <2>9, <4>1, <4>3
      <4> QED
        BY <4>2, <4>3
    <3>2. t \in NodesThere'
      BY <2>7, <2>10
    <3>3. ASSUME NEW k \in NodesThere, k # n PROVE k \in NodesThere'
      <4>1. PICK r \in Subs : \E y \in rows[r] : k = Known(r, y)
        BY <2>9
      <4>2. PICK y \in rows[r] : k = Known(r, y)
        BY <4>1
      <4>3. y \in rows'[r]
        BY <2>7, <2>8, <3>3, <4>2 DEF n
      <4> QED
        BY <2>10, <4>2, <4>3
    <3> QED
      BY <3>1, <3>2, <3>3
  <2>12. Ids!Turn(n)
    BY <1>1, <2>11 DEF Ids!Turn, t
  <2> QED
    BY <2>2, <2>12
<1> QED
  BY <1>2, <1>3

LEMMA IdsInit ==
  ASSUME Init
  PROVE  Ids!Init
<1>1. rows = [s \in Subs |-> {}] /\ next = 1
  BY DEF Init
<1> QED
  BY <1>1 DEF Ids!Init, NodesThere

LEMMA IdsStep ==
  ASSUME IInv, RowsInv, [Next]_vars
  PROVE  [Ids!Next]_<<NodesThere, 1 .. next - 1>>
<1>1. /\ TypeOK /\ Stored /\ RowsWhole
      /\ rows \in [Subs -> SUBSET Row] /\ next \in Nat \ {0}
  BY DEF RowsInv, RowsWhole, TypeOK
<1>2. ASSUME UNCHANGED nodes PROVE UNCHANGED <<NodesThere, 1 .. next - 1>>
  BY <1>2 DEF nodes, NodesThere, Known
<1>3. ASSUME NEW t \in Threads, Apply(t) PROVE UNCHANGED nodes \/ \E s \in Subs : Ids!Renew(s)
  <2> PICK s \in Subs : s = sub[t]
    BY <1>1 DEF TypeOK, SyncOK
  <2> DEFINE m == Match(rows[s], got[t].list, next)
  <2>1. CASE ~There(s)
    BY <1>3, <2>1 DEF Apply, Accepts, nodes
  <2>2. CASE There(s)
    <3>1. rows' = [rows EXCEPT ![s] = m.rows] /\ next' = m.next
      BY <1>3, <2>2 DEF Apply, Accepts
    <3>2. got[t].list \in Seq(Raws)
      <4>1. got[t].list \in Lists
        BY <1>3 DEF Apply, IInv, Answered, Answers
      <4>2. Lists \subseteq Seq(Raws)
        BY SubscriptionsAssumption DEF Lists
      <4> QED
        BY <4>1, <4>2
    <3>3. Keyed(rows[s], next)
      BY <1>1 DEF Stored
    <3>4. /\ m.next \in Nat \ {0} /\ next <= m.next /\ Keyed(m.rows, m.next)
          /\ \A y \in m.rows : Explained(y, rows[s], next)
      BY <1>1, <3>2, <3>3, MatchIsTheList, MatchNamesNewRows
    <3> HIDE DEF m
    <3>5. rows'[s] = m.rows /\ \A r \in Subs \ {s} : rows'[r] = rows[r]
      BY <1>1, <3>1
    <3>6. Ids!Renew(s)
      BY <1>1, <3>1, <3>4, <3>5, Renewed
    <3> QED
      BY <3>6
  <2> QED
    BY <2>1, <2>2
<1>4. ASSUME NEW s \in Subs, Delete(s) PROVE Ids!Renew(s)
  <2>1. rows'[s] = {} /\ next' = next /\ \A r \in Subs \ {s} : rows'[r] = rows[r]
    BY <1>1, <1>4 DEF Delete
  <2>2. Keyed(rows'[s], next')
    BY <2>1, FS_EmptySet DEF Keyed
  <2>3. next' \in Nat \ {0} /\ next <= next'
    BY <1>1, <2>1
  <2>4. \A y \in rows'[s] : Explained(y, rows[s], next)
    BY <2>1
  <2> QED
    BY <1>1, <2>1, <2>2, <2>3, <2>4, Renewed
<1>5. ASSUME NEW s \in Subs, NEW u \in Urls, NEW on \in BOOLEAN, Create(s, u, on)
      PROVE  UNCHANGED <<NodesThere, 1 .. next - 1>>
  BY <1>5 DEF Create, NodesThere, Known
<1>6. CASE UNCHANGED vars
  BY <1>2, <1>6 DEF vars, tables, nodes
<1>7. CASE Next
  <2>1. CASE UNCHANGED nodes
    BY <1>2, <2>1
  <2>2. CASE \E t \in Threads : Apply(t)
    BY <1>2, <1>3, <2>2 DEF Ids!Next
  <2>3. CASE \E g \in Togglers : WriteSwitch(g)
    <3>1. UNCHANGED nodes \/ \E n \in NodesThere : Ids!Turn(n)
      BY <1>1, <2>3, Turned
    <3> QED
      BY <1>2, <3>1 DEF Ids!Next
  <2>4. CASE \E s \in Subs : Delete(s)
    BY <1>4, <2>4 DEF Ids!Next
  <2>5. CASE \E s \in Subs, u \in Urls, on \in BOOLEAN : Create(s, u, on)
    BY <1>5, <2>5
  <2> QED
    BY <1>7, <2>1, <2>2, <2>3, <2>4, <2>5, NodeCases
<1> QED
  BY <1>6, <1>7

\* Subscriptions implements NodeIds: an id once given names the same node of the same
\* subscription until that node is gone, is not given again, and only a user turns
\* the switch of a node (service.go:343-397, AUTOINCREMENT in db.go:91).
THEOREM IdsLast == Spec => IdsNameOneNode
  BY IdsInit, IdsStep, Invariance, RowsInvariance, PTL DEF Spec, IdsNameOneNode, Ids!Spec
=============================================================================
