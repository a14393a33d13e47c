--------------------------------- MODULE Mux ---------------------------------
(***************************************************************************)
(* The connection multiplexer of internal/proxy/mux.go and the shutdown    *)
(* sequence of internal/app/app.go that waits for it.                      *)
(*                                                                         *)
(* One goroutine per accepted connection decides what the client speaks.   *)
(* Panel requests are queued for the HTTP server; proxy requests are       *)
(* authenticated, connected to the pool's internal listener, and relayed.  *)
(* Shutdown cancels the context, closes the listener and every connection  *)
(* registered in activeConns, waits for the HTTP server (ten seconds at    *)
(* most) and then for all goroutines (without a limit).                    *)
(***************************************************************************)
EXTENDS Naturals, Sequences, FiniteSets

CONSTANTS
  Conns,      \* client connections, each made at most once
  QueueCap,   \* capacity of httpConns (64 in Serve)
  None        \* "no connection"

ASSUME MuxAssumption == QueueCap \in Nat \ {0} /\ None \notin Conns

VARIABLES
  accepting,  \* connection Accept returned and no goroutine serves yet
  serve,      \* Serve's accept loop: looping or returned
  httpLoop,   \* the goroutine in httpServer.Serve: looping or returned
  queue,      \* httpConns
  web,        \* connections the HTTP server serves
  pc,         \* the goroutine of each connection
  client,     \* client socket: none, open, eof (the peer is done) or closed
  up,         \* upstream socket, likewise
  copied,     \* directions of the relay that have finished
  tracked,    \* activeConns: <<connection, side>>
  down,       \* position in the shutdown sequence
  late        \* history: relays not registered yet when Shutdown swept

loops == <<accepting, serve, httpLoop>>
panel == <<queue, web>>
relays == <<client, up, copied, tracked>>
phase == <<down, late>>
vars == <<loops, panel, pc, relays, phase>>

Sides == {"client", "up"}

\* The shutdown sequence, in its order; a program that log.Fatalf ended.
Phases == {"up", "cancelled", "deaf", "swept", "waiting", "returned", "exited",
           "aborted"}
Cancelled == down \notin {"up", "aborted"}
Swept     == down \in {"swept", "waiting", "returned", "exited"}

Connecting == {"dial", "handshake", "track", "trackUp"}
Handling   == {"peek", "lookup", "relay"} \cup Connecting

Init ==
  /\ accepting = None /\ serve = "looping" /\ httpLoop = "looping"
  /\ queue = <<>> /\ web = {}
  /\ pc = [c \in Conns |-> "none"]
  /\ client = [c \in Conns |-> "none"] /\ up = [c \in Conns |-> "none"]
  /\ copied = [c \in Conns |-> {}]
  /\ tracked = {} /\ down = "up" /\ late = {}

Alive == down \notin {"exited", "aborted"}
At(c, stage)   == Alive /\ pc[c] = stage
Goto(c, stage) == pc' = [pc EXCEPT ![c] = stage]
Hop(c, from, to) ==
  At(c, from) /\ Goto(c, to) /\ UNCHANGED <<loops, panel, relays, phase>>

-----------------------------------------------------------------------------
(* Accepting.                                                              *)

Listening == down \in {"up", "cancelled"}

Accept(c) ==
  /\ Listening /\ serve = "looping" /\ accepting = None /\ pc[c] = "none"
  /\ client[c] = "none"
  /\ accepting' = c
  /\ client' = [client EXCEPT ![c] = "open"]
  /\ UNCHANGED <<serve, httpLoop, panel, up, copied, tracked, phase, pc>>

\* wg.Add(1) and the goroutine of the connection, after Accept has returned.
Spawn ==
  /\ Alive /\ accepting # None
  /\ Goto(accepting, "peek")
  /\ accepting' = None
  /\ UNCHANGED <<serve, httpLoop, panel, relays, phase>>

\* Accept fails once the context is done: the listener is closed by then, or an
\* error came first.
ServeReturns ==
  /\ Alive /\ serve = "looping" /\ accepting = None /\ Cancelled
  /\ serve' = "returned"
  /\ UNCHANGED <<accepting, httpLoop, panel, relays, phase, pc>>

\* Accept fails before the context is done (no descriptor left, say): Serve
\* returns the error and Run ends the program on the spot.
AcceptFails ==
  /\ down = "up" /\ serve = "looping" /\ accepting = None
  /\ serve' = "returned"
  /\ down' = "aborted"
  /\ UNCHANGED <<accepting, httpLoop, panel, pc, relays, late>>

-----------------------------------------------------------------------------
(* handleConn.                                                             *)

\* defer upstream.Close, right after the dial: it runs on every return from there
\* on. Mutant: deferred only where the relay begins.
HangUpRelay(c) == IF pc[c] = "relay" THEN "closed" ELSE up[c]
HangUp(c)      == IF up[c] = "none" THEN "none" ELSE "closed"

\* The goroutine ends and closes its sockets (conn.Close, defer Close).
Leave(c) ==
  /\ Goto(c, "done")
  /\ client' = [client EXCEPT ![c] = "closed"]
  /\ up' = [up EXCEPT ![c] = HangUp(c)]

\* Nothing readable before the deadline, a bad request, wrong credentials, a
\* failed dial, or a handshake the upstream breaks off, answers wrongly or not in
\* time: answered where the protocol has an answer, closed.
Refuse(c) ==
  /\ \E stage \in {"peek", "lookup", "dial", "handshake"} : At(c, stage)
  /\ Leave(c)
  /\ UNCHANGED <<loops, panel, copied, tracked, phase>>

\* A SOCKS5 greeting or an absolute HTTP request: the proxy side.
WantsProxy(c) == Hop(c, "peek", "lookup")

\* Mutant of HasRoom: the buffer is one entry larger than QueueCap.
HasRoomPlusOne == Len(queue) <= QueueCap
HasRoom        == Len(queue) < QueueCap

\* A panel request: the select over the queue, the context and the default.
Enqueue(c) ==
  /\ At(c, "peek") /\ HasRoom
  /\ queue' = Append(queue, c)
  /\ Goto(c, "done")
  /\ UNCHANGED <<loops, web, relays, phase>>

Reject(c) ==
  /\ At(c, "peek")
  /\ Cancelled \/ ~HasRoom
  /\ Leave(c)
  /\ UNCHANGED <<loops, panel, copied, tracked, phase>>

\* LookupPoolByAuth under the context of the mux: fails once it is cancelled.
\* Mutant: under a context of its own.
AuthenticateAnyway(c) == Hop(c, "lookup", "dial")
Authenticate(c)       == ~Cancelled /\ Hop(c, "lookup", "dial")

\* net.DialTimeout, which does not look at the context. SOCKS5 goes on with a
\* handshake, an HTTP request is relayed as it came.
Dial(c) ==
  /\ At(c, "dial")
  /\ up' = [up EXCEPT ![c] = "open"]
  /\ Goto(c, "handshake") \/ Goto(c, "track")
  /\ UNCHANGED <<loops, panel, client, copied, tracked, phase>>

\* The internal listener has accepted the greeting and the credentials, in time.
Handshake(c) == Hop(c, "handshake", "track")

\* trackConn for one side, then for the other.
Track(c) ==
  /\ \/ At(c, "track")   /\ tracked' = tracked \cup {<<c, "client">>} /\ Goto(c, "trackUp")
     \/ At(c, "trackUp") /\ tracked' = tracked \cup {<<c, "up">>}     /\ Goto(c, "relay")
  /\ UNCHANGED <<loops, panel, client, up, copied, phase>>

-----------------------------------------------------------------------------
(* relay.                                                                  *)

\* io.Copy of one direction returns when its source is at its end or closed;
\* a destination closed under it makes the next write fail.
Source(s)   == IF s = "client" THEN client ELSE up
Sink(s)     == IF s = "client" THEN up ELSE client

CopyEnds(c, s) ==
  /\ At(c, "relay") /\ s \notin copied[c]
  /\ Source(s)[c] # "open" \/ Sink(s)[c] = "closed"
  /\ copied' = [copied EXCEPT ![c] = @ \cup {s}]
  /\ UNCHANGED <<loops, panel, client, up, tracked, phase, pc>>

Untracked(c) == tracked \ {<<c, s>> : s \in Sides}

\* Both directions are done: untrackConn twice, upstream.Close, conn.Close.
RelayEnds(c) ==
  /\ At(c, "relay") /\ copied[c] = Sides
  /\ tracked' = Untracked(c)
  /\ Leave(c)
  /\ UNCHANGED <<loops, panel, copied, phase>>

\* The client, or Mihomo's side of the upstream, sends no more.
PeerEnds(c, s) ==
  /\ Alive
  /\ \/ s = "client" /\ client[c] = "open" /\ client' = [client EXCEPT ![c] = "eof"]
        /\ UNCHANGED up
     \/ s = "up" /\ up[c] = "open" /\ up' = [up EXCEPT ![c] = "eof"]
        /\ UNCHANGED client
  /\ UNCHANGED <<loops, panel, copied, tracked, phase, pc>>

-----------------------------------------------------------------------------
(* The HTTP server behind the queue (peekedListener).                      *)

\* Mutant of HttpReady: requests are served one at a time, in the accept loop.
HttpReadyIdle == httpLoop = "looping" /\ queue # <<>> /\ web = {}
HttpReady     == httpLoop = "looping" /\ queue # <<>>

\* peekedListener.Accept: while both are ready, select takes either case.
HttpTake ==
  /\ Alive /\ HttpReady
  /\ web' = web \cup {Head(queue)}
  /\ queue' = Tail(queue)
  /\ UNCHANGED <<loops, relays, phase, pc>>

HttpLoopReturns ==
  /\ Alive /\ httpLoop = "looping" /\ Cancelled
  /\ httpLoop' = "returned"
  /\ UNCHANGED <<accepting, serve, panel, relays, phase, pc>>

\* A panel connection ends: answered and closed by either end.
HttpEnds(c) ==
  /\ Alive /\ c \in web
  /\ web' = web \ {c}
  /\ client' = [client EXCEPT ![c] = "closed"]
  /\ UNCHANGED <<loops, queue, up, copied, tracked, phase, pc>>

-----------------------------------------------------------------------------
(* Shutdown, called by Run when rootCtx is done.                           *)

Advance(from, to) ==
  /\ down = from /\ down' = to
  /\ UNCHANGED <<loops, panel, pc, relays, late>>

Cancel        == Advance("up", "cancelled")      \* m.cancel
CloseListener == Advance("cancelled", "deaf")    \* m.listener.Close

\* Mutant of SweptSides: only the client side of a relay is closed.
SweptClients(s) == {c \in Conns : s = "client" /\ <<c, s>> \in tracked}
SweptSides(s)   == {c \in Conns : <<c, s>> \in tracked}

\* Under the lock: close every registered connection.
Sweep ==
  /\ down = "deaf" /\ down' = "swept"
  /\ client' = [c \in Conns |-> IF c \in SweptSides("client") THEN "closed" ELSE client[c]]
  /\ up' = [c \in Conns |-> IF c \in SweptSides("up") THEN "closed" ELSE up[c]]
  /\ late' = {c \in Conns : pc[c] \in Connecting}
  /\ UNCHANGED <<loops, panel, copied, tracked, pc>>

\* httpServer.Shutdown: no connection left, or the ten seconds are over.
HttpShutdown == Advance("swept", "waiting")

\* wg.Wait: the HTTP server's goroutine and every connection's.
Waited ==
  /\ httpLoop = "returned" /\ \A c \in Conns : pc[c] \notin Handling
  /\ Advance("waiting", "returned")

\* Run goes on: mihomoMgr.Stop, and main returns.
Exit == Advance("returned", "exited")

Shutdown == CloseListener \/ Sweep \/ HttpShutdown \/ Waited \/ Exit

Terminated == ~Alive /\ UNCHANGED vars

-----------------------------------------------------------------------------
Handle(c) ==
  \/ Refuse(c) \/ WantsProxy(c) \/ Enqueue(c) \/ Reject(c) \/ Authenticate(c)
  \/ Dial(c) \/ Handshake(c) \/ Track(c) \/ RelayEnds(c)

Next ==
  \/ \E c \in Conns : Accept(c) \/ Handle(c) \/ HttpEnds(c)
  \/ \E c \in Conns, s \in Sides : CopyEnds(c, s) \/ PeerEnds(c, s)
  \/ Spawn \/ ServeReturns \/ AcceptFails \/ HttpTake \/ HttpLoopReturns
  \/ Cancel \/ Shutdown \/ Terminated

Spec == Init /\ [][Next]_vars

\* Goroutines run and deadlines pass. Nothing makes a client connect, a peer
\* close its end, a panel request finish or the user ask for a restart. A copy
\* whose sink is closed is only sure to end when its source ends.
Fairness ==
  /\ \A c \in Conns : WF_vars(Handle(c))
  /\ \A c \in Conns, s \in Sides : WF_vars(CopyEnds(c, s) /\ Source(s)[c] # "open")
  /\ WF_vars(Spawn) /\ WF_vars(ServeReturns) /\ WF_vars(HttpTake)
  /\ WF_vars(HttpLoopReturns) /\ WF_vars(Shutdown)

FairSpec == Spec /\ Fairness

-----------------------------------------------------------------------------
(* Properties.                                                             *)

TypeOK ==
  /\ accepting \in Conns \cup {None}
  /\ serve \in {"looping", "returned"} /\ httpLoop \in {"looping", "returned"}
  /\ queue \in Seq(Conns) /\ Len(queue) <= QueueCap
  /\ web \subseteq Conns
  /\ pc \in [Conns -> Handling \cup {"none", "done"}]
  /\ client \in [Conns -> {"none", "open", "eof", "closed"}]
  /\ up \in [Conns -> {"none", "open", "eof", "closed"}]
  /\ copied \in [Conns -> SUBSET Sides]
  /\ tracked \subseteq Conns \X Sides
  /\ down \in Phases
  /\ late \subseteq Conns

Queued(c) == \E i \in 1 .. Len(queue) : queue[i] = c

\* At least one: however its handling ended, a connection is closed, or queued for or served
\* by the HTTP server; no upstream socket is left open, and activeConns holds no
\* connection whose goroutine is gone (handleConn, handleSOCKS5, handleHTTPProxy).
NothingLeaks ==
  \A c \in Conns : pc[c] = "done" =>
    /\ client[c] = "closed" \/ Queued(c) \/ c \in web
    /\ up[c] \in {"none", "closed"}
    /\ \A s \in Sides : <<c, s>> \notin tracked

\* At most one: the accept loop, its goroutine, the queue or the HTTP server. It is
\* queued once.
OneOwner ==
  /\ \A c \in Conns :
       /\ c = accepting => pc[c] = "none"
       /\ Queued(c) => pc[c] = "done" /\ c \notin web
       /\ c \in web => pc[c] = "done"
  /\ \A i, j \in 1 .. Len(queue) : queue[i] = queue[j] => i = j

\* A connection has one owner until it is closed, and what it has opened or registered
\* goes with it: no path of a handler, a handshake that fails with the upstream open
\* among them, drops a socket or passes it on and keeps it (mux.go:126-382).
ClosedOrOwned == NothingLeaks /\ OneOwner

\* After the sweep a relay can still be open on both ends only when it was past
\* the cancellable lookup and not registered yet at the sweep.
SweepReachesRelays ==
  Swept => \A c \in Conns : pc[c] = "relay" /\ c \notin late =>
    client[c] = "closed" /\ up[c] = "closed"

\* wg.Add follows Accept, so Shutdown may return before the last connection accepted has
\* its goroutine (mux.go:90, 110). While the program stops Mihomo and exits, such a
\* goroutine reads its client and looks up its pool in vain: it dials nothing, so no
\* relay begins that nobody would close.
NothingDialsAfterShutdown ==
  down \in {"returned", "exited"} => \A c \in Conns :
    pc[c] \in Handling => pc[c] \in {"peek", "lookup"} /\ up[c] = "none"

\* The inductive invariant. A socket is registered exactly while its relay may
\* need closing; an upstream exists from the dial on; what can still become a
\* relay after the sweep was on its way at the sweep.
Registered ==
  \A c \in Conns :
    /\ <<c, "client">> \in tracked <=> pc[c] \in {"trackUp", "relay"}
    /\ <<c, "up">> \in tracked <=> pc[c] = "relay"
    /\ pc[c] \in {"peek", "lookup", "dial"} => up[c] = "none"
    /\ pc[c] = "none" => up[c] = "none"
    /\ Swept /\ pc[c] \in Connecting => c \in late

IInv == /\ TypeOK /\ Registered /\ NothingLeaks /\ OneOwner
        /\ SweepReachesRelays /\ NothingDialsAfterShutdown

\* A relay that nobody closed and whose peers stay silent.
Silent(c) ==
  /\ pc[c] = "relay" /\ c \in late
  /\ client[c] = "open" \/ up[c] = "open"

\* Shutdown returns and the program exits, unless a late relay keeps it waiting.
ExitsUnlessLate ==
  (down = "cancelled") ~> (down = "exited" \/ \E c \in Conns : Silent(c))

\* While the mux is up, a queued panel connection is served.
QueuedServed ==
  \A c \in Conns :
    Queued(c) ~> (c \in web \/ client[c] = "closed" \/ Cancelled \/ ~Alive)

\* README-.md:242-244: a restart stops the Mihomo processes and then exits.
RestartExits == (down = "cancelled") ~> (down = "exited")
=============================================================================
