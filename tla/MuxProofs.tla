------------------------------- MODULE MuxProofs -------------------------------
(***************************************************************************)
(* The safety of the connection multiplexer for any number of connections  *)
(* and any queue capacity: IInv of Mux is inductive.                       *)
(***************************************************************************)
EXTENDS Mux, TLAPS

\* Every step is one of these.
LEMMA Cases ==
  ASSUME Next
  PROVE  \/ \E c \in Conns : \/ Accept(c) \/ Refuse(c) \/ WantsProxy(c) \/ Enqueue(c)
                            \/ Reject(c) \/ Authenticate(c) \/ Dial(c) \/ Handshake(c)
                            \/ Track(c) \/ RelayEnds(c) \/ HttpEnds(c)
         \/ \E c \in Conns, s \in Sides : CopyEnds(c, s) \/ PeerEnds(c, s)
         \/ Spawn \/ ServeReturns \/ AcceptFails \/ HttpTake \/ HttpLoopReturns \/ Sweep
         \/ Cancel \/ CloseListener \/ HttpShutdown \/ Waited \/ Exit
         \/ UNCHANGED vars
  BY DEF Next, Handle, Shutdown, Terminated

LEMMA TypeStep ==
  ASSUME IInv, Next
  PROVE  TypeOK'
<1> USE MuxAssumption DEF IInv, TypeOK, Phases, At, Goto, loops, panel, relays, phase, Handling, Connecting, Sides
<1>1. ASSUME NEW c \in Conns, Accept(c) PROVE TypeOK'
  BY <1>1 DEF Accept, Listening
<1>2. ASSUME NEW c \in Conns, Refuse(c) PROVE TypeOK'
  BY <1>2 DEF Refuse, Leave, HangUp
<1>3. ASSUME NEW c \in Conns, WantsProxy(c) PROVE TypeOK'
  BY <1>3 DEF WantsProxy, Hop
<1>4. ASSUME NEW c \in Conns, Enqueue(c) PROVE TypeOK'
  BY <1>4 DEF Enqueue, HasRoom
<1>5. ASSUME NEW c \in Conns, Reject(c) PROVE TypeOK'
  BY <1>5 DEF Reject, HasRoom, Leave, HangUp
<1>6. ASSUME NEW c \in Conns, Authenticate(c) PROVE TypeOK'
  BY <1>6 DEF Authenticate, Hop
<1>7. ASSUME NEW c \in Conns, Dial(c) PROVE TypeOK'
  BY <1>7 DEF Dial
<1>7a. ASSUME NEW c \in Conns, Handshake(c) PROVE TypeOK'
  BY <1>7a DEF Handshake, Hop
<1>8. ASSUME NEW c \in Conns, Track(c) PROVE TypeOK'
  BY <1>8 DEF Track
<1>9. ASSUME NEW c \in Conns, RelayEnds(c) PROVE TypeOK'
  BY <1>9 DEF RelayEnds, Leave, HangUp, Untracked
<1>10. ASSUME NEW c \in Conns, HttpEnds(c) PROVE TypeOK'
  BY <1>10 DEF HttpEnds
<1>11. ASSUME NEW c \in Conns, NEW s \in Sides, CopyEnds(c, s) PROVE TypeOK'
  BY <1>11 DEF CopyEnds
<1>12. ASSUME NEW c \in Conns, NEW s \in Sides, PeerEnds(c, s) PROVE TypeOK'
  BY <1>12 DEF PeerEnds
<1>13. ASSUME Spawn PROVE TypeOK'
  BY <1>13 DEF Spawn
<1>14. ASSUME ServeReturns PROVE TypeOK'
  BY <1>14 DEF ServeReturns
<1>14a. ASSUME AcceptFails PROVE TypeOK'
  BY <1>14a DEF AcceptFails
<1>15. ASSUME HttpTake PROVE TypeOK'
  BY <1>15 DEF HttpTake, HttpReady
<1>16. ASSUME HttpLoopReturns PROVE TypeOK'
  BY <1>16 DEF HttpLoopReturns
<1>17. ASSUME Sweep PROVE TypeOK'
  BY <1>17 DEF Sweep, SweptSides
<1>18. ASSUME Cancel \/ CloseListener \/ HttpShutdown \/ Waited \/ Exit PROVE TypeOK'
  BY <1>18 DEF Cancel, CloseListener, HttpShutdown, Waited, Exit, Advance
<1>19. ASSUME UNCHANGED vars PROVE TypeOK'
  BY <1>19 DEF vars
<1> HIDE DEF TypeOK
<1>20. QED
  BY Cases, <1>1, <1>2, <1>3, <1>4, <1>5, <1>6, <1>7, <1>7a, <1>8, <1>9, <1>10, <1>11, <1>12, <1>13, <1>14, <1>14a, <1>15, <1>16, <1>17, <1>18, <1>19

LEMMA RegisteredStep ==
  ASSUME IInv, Next
  PROVE  Registered'
<1> USE MuxAssumption DEF IInv, TypeOK, Registered, Cancelled, Swept, At, Goto, loops, panel, relays, phase, Handling, Connecting, Sides
<1>1. ASSUME NEW c \in Conns, Accept(c) PROVE Registered'
  BY <1>1 DEF Accept, Listening
<1>2. ASSUME NEW c \in Conns, Refuse(c) PROVE Registered'
  BY <1>2 DEF Refuse, Leave, HangUp
<1>3. ASSUME NEW c \in Conns, WantsProxy(c) PROVE Registered'
  BY <1>3 DEF WantsProxy, Hop
<1>4. ASSUME NEW c \in Conns, Enqueue(c) PROVE Registered'
  BY <1>4 DEF Enqueue, HasRoom
<1>5. ASSUME NEW c \in Conns, Reject(c) PROVE Registered'
  BY <1>5 DEF Reject, HasRoom, Leave, HangUp
<1>6. ASSUME NEW c \in Conns, Authenticate(c) PROVE Registered'
  BY <1>6 DEF Authenticate, Hop
<1>7. ASSUME NEW c \in Conns, Dial(c) PROVE Registered'
  <2>1. pc[c] = "dial" /\ pc'[c] \in {"handshake", "track"} /\ up'[c] = "open"
    BY <1>7 DEF Dial
  <2>2. \A d \in Conns : d # c => pc'[d] = pc[d] /\ up'[d] = up[d]
    BY <1>7 DEF Dial
  <2>3. UNCHANGED <<tracked, down, late>>
    BY <1>7 DEF Dial
  <2>4. SUFFICES ASSUME NEW d \in Conns PROVE Registered!(d)'
    OBVIOUS
  <2>5. CASE d = c
    BY <2>1, <2>3, <2>5
  <2>6. CASE d # c
    BY <2>2, <2>3, <2>6
  <2>7. QED
    BY <2>5, <2>6
<1>7a. ASSUME NEW c \in Conns, Handshake(c) PROVE Registered'
  BY <1>7a DEF Handshake, Hop
<1>8. ASSUME NEW c \in Conns, Track(c) PROVE Registered'
  <2>1. \A d \in Conns, s \in Sides : d # c => (<<d, s>> \in tracked' <=> <<d, s>> \in tracked)
    BY <1>8 DEF Track
  <2>2. \A d \in Conns : d # c => pc'[d] = pc[d]
    BY <1>8 DEF Track
  <2>3. UNCHANGED <<up, down, late>>
    BY <1>8 DEF Track
  <2>4. CASE pc[c] = "track"
    <3>1. pc'[c] = "trackUp" /\ tracked' = tracked \cup {<<c, "client">>}
      BY <1>8, <2>4 DEF Track
    <3>2. QED
      BY <2>1, <2>2, <2>3, <2>4, <3>1
  <2>5. CASE pc[c] = "trackUp"
    <3>1. pc'[c] = "relay" /\ tracked' = tracked \cup {<<c, "up">>}
      BY <1>8, <2>5 DEF Track
    <3>2. QED
      BY <2>1, <2>2, <2>3, <2>5, <3>1
  <2>6. QED
    BY <1>8, <2>4, <2>5 DEF Track
<1>9. ASSUME NEW c \in Conns, RelayEnds(c) PROVE Registered'
  <2>1. pc[c] = "relay" /\ pc'[c] = "done"
    BY <1>9 DEF RelayEnds, Leave
  <2>2. \A d \in Conns : d # c => pc'[d] = pc[d] /\ up'[d] = up[d]
    BY <1>9 DEF RelayEnds, Leave
  <2>3. /\ \A d \in Conns, s \in Sides : <<d, s>> \in tracked' <=> <<d, s>> \in tracked /\ d # c
        /\ UNCHANGED <<down, late>>
    BY <1>9 DEF RelayEnds, Untracked
  <2>4. SUFFICES ASSUME NEW d \in Conns PROVE Registered!(d)'
    OBVIOUS
  <2>5. CASE d = c
    BY <2>1, <2>3, <2>5
  <2>6. CASE d # c
    BY <2>2, <2>3, <2>6
  <2>7. QED
    BY <2>5, <2>6
<1>10. ASSUME NEW c \in Conns, HttpEnds(c) PROVE Registered'
  BY <1>10 DEF HttpEnds
<1>11. ASSUME NEW c \in Conns, NEW s \in Sides, CopyEnds(c, s) PROVE Registered'
  BY <1>11 DEF CopyEnds
<1>12. ASSUME NEW c \in Conns, NEW s \in Sides, PeerEnds(c, s) PROVE Registered'
  BY <1>12 DEF PeerEnds
<1>13. ASSUME Spawn PROVE Registered'
  BY <1>13 DEF Spawn, OneOwner
<1>14. ASSUME ServeReturns PROVE Registered'
  BY <1>14 DEF ServeReturns
<1>14a. ASSUME AcceptFails PROVE Registered'
  BY <1>14a DEF AcceptFails
<1>15. ASSUME HttpTake PROVE Registered'
  BY <1>15 DEF HttpTake, HttpReady
<1>16. ASSUME HttpLoopReturns PROVE Registered'
  BY <1>16 DEF HttpLoopReturns
<1>17. ASSUME Sweep PROVE Registered'
  BY <1>17 DEF Sweep, SweptSides
<1>18. ASSUME Cancel \/ CloseListener \/ HttpShutdown \/ Waited \/ Exit PROVE Registered'
  BY <1>18 DEF Cancel, CloseListener, HttpShutdown, Waited, Exit, Advance
<1>19. ASSUME UNCHANGED vars PROVE Registered'
  BY <1>19 DEF vars
<1> HIDE DEF Registered
<1>20. QED
  BY Cases, <1>1, <1>2, <1>3, <1>4, <1>5, <1>6, <1>7, <1>7a, <1>8, <1>9, <1>10, <1>11, <1>12, <1>13, <1>14, <1>14a, <1>15, <1>16, <1>17, <1>18, <1>19

LEMMA LeaksStep ==
  ASSUME IInv, Next
  PROVE  NothingLeaks'
<1> USE MuxAssumption DEF IInv, TypeOK, Registered, NothingLeaks, OneOwner, Queued, At, Goto, loops, panel, relays, phase, Handling, Connecting, Sides
<1>1. ASSUME NEW c \in Conns, Accept(c) PROVE NothingLeaks'
  BY <1>1 DEF Accept, Listening
<1>2. ASSUME NEW c \in Conns, Refuse(c) PROVE NothingLeaks'
  BY <1>2 DEF Refuse, Leave, HangUp
<1>3. ASSUME NEW c \in Conns, WantsProxy(c) PROVE NothingLeaks'
  BY <1>3 DEF WantsProxy, Hop
<1>4. ASSUME NEW c \in Conns, Enqueue(c) PROVE NothingLeaks'
  BY <1>4 DEF Enqueue, HasRoom
<1>5. ASSUME NEW c \in Conns, Reject(c) PROVE NothingLeaks'
  BY <1>5 DEF Reject, HasRoom, Leave, HangUp
<1>6. ASSUME NEW c \in Conns, Authenticate(c) PROVE NothingLeaks'
  BY <1>6 DEF Authenticate, Hop
<1>7. ASSUME NEW c \in Conns, Dial(c) PROVE NothingLeaks'
  BY <1>7 DEF Dial
<1>7a. ASSUME NEW c \in Conns, Handshake(c) PROVE NothingLeaks'
  BY <1>7a DEF Handshake, Hop
<1>8. ASSUME NEW c \in Conns, Track(c) PROVE NothingLeaks'
  <2>1. \A d \in Conns : pc'[d] = "done" => d # c /\ pc[d] = "done"
    BY <1>8 DEF Track
  <2>2. \A d \in Conns \ {c}, s \in Sides : <<d, s>> \in tracked' <=> <<d, s>> \in tracked
    BY <1>8 DEF Track
  <2>3. UNCHANGED <<client, up, queue, web>>
    BY <1>8 DEF Track
  <2>4. QED
    BY <2>1, <2>2, <2>3
<1>9. ASSUME NEW c \in Conns, RelayEnds(c) PROVE NothingLeaks'
  <2>1. /\ \A d \in Conns \ {c} : pc'[d] = pc[d] /\ client'[d] = client[d] /\ up'[d] = up[d]
        /\ client'[c] = "closed" /\ up'[c] \in {"none", "closed"}
        /\ UNCHANGED <<queue, web>>
    BY <1>9 DEF RelayEnds, Leave, HangUp
  <2>2. \A s \in Sides : <<c, s>> \notin tracked'
    BY <1>9 DEF RelayEnds, Untracked
  <2>3. \A d \in Conns, s \in Sides : <<d, s>> \in tracked' => <<d, s>> \in tracked
    BY <1>9 DEF RelayEnds, Untracked
  <2>4. QED
    BY <2>1, <2>2, <2>3
<1>10. ASSUME NEW c \in Conns, HttpEnds(c) PROVE NothingLeaks'
  BY <1>10 DEF HttpEnds
<1>11. ASSUME NEW c \in Conns, NEW s \in Sides, CopyEnds(c, s) PROVE NothingLeaks'
  BY <1>11 DEF CopyEnds
<1>12. ASSUME NEW c \in Conns, NEW s \in Sides, PeerEnds(c, s) PROVE NothingLeaks'
  BY <1>12 DEF PeerEnds
<1>13. ASSUME Spawn PROVE NothingLeaks'
  BY <1>13 DEF Spawn
<1>14. ASSUME ServeReturns PROVE NothingLeaks'
  BY <1>14 DEF ServeReturns
<1>14a. ASSUME AcceptFails PROVE NothingLeaks'
  BY <1>14a DEF AcceptFails
<1>15. ASSUME HttpTake PROVE NothingLeaks'
  <2>1. \A c \in Conns : Queued(c) => Queued(c)' \/ c = Head(queue)
    <3> SUFFICES ASSUME NEW c \in Conns, NEW i \in 1 .. Len(queue), queue[i] = c
                 PROVE  Queued(c)' \/ c = Head(queue)
      OBVIOUS
    <3>1. CASE i = 1
      BY <3>1
    <3>2. CASE i > 1
      <4>1. i - 1 \in 1 .. Len(Tail(queue)) /\ Tail(queue)[i - 1] = c
        BY <3>2
      <4>2. QED
        BY <1>15, <4>1 DEF HttpTake, HttpReady
    <3>3. QED
      BY <3>1, <3>2
  <2>2. QED
    BY <1>15, <2>1 DEF HttpTake, HttpReady
<1>16. ASSUME HttpLoopReturns PROVE NothingLeaks'
  BY <1>16 DEF HttpLoopReturns
<1>17. ASSUME Sweep PROVE NothingLeaks'
  BY <1>17 DEF Sweep, SweptSides
<1>18. ASSUME Cancel \/ CloseListener \/ HttpShutdown \/ Waited \/ Exit PROVE NothingLeaks'
  BY <1>18 DEF Cancel, CloseListener, HttpShutdown, Waited, Exit, Advance
<1>19. ASSUME UNCHANGED vars PROVE NothingLeaks'
  BY <1>19 DEF vars
<1> HIDE DEF NothingLeaks
<1>20. QED
  BY Cases, <1>1, <1>2, <1>3, <1>4, <1>5, <1>6, <1>7, <1>7a, <1>8, <1>9, <1>10, <1>11, <1>12, <1>13, <1>14, <1>14a, <1>15, <1>16, <1>17, <1>18, <1>19

LEMMA OwnerStep ==
  ASSUME IInv, Next
  PROVE  OneOwner'
<1> USE MuxAssumption DEF IInv, TypeOK, OneOwner, Queued, At, Goto, loops, panel, relays, phase, Handling, Connecting, Sides
<1>1. ASSUME NEW c \in Conns, Accept(c) PROVE OneOwner'
  BY <1>1 DEF Accept, Listening
<1>2. ASSUME NEW c \in Conns, Refuse(c) PROVE OneOwner'
  BY <1>2 DEF Refuse, Leave, HangUp
<1>3. ASSUME NEW c \in Conns, WantsProxy(c) PROVE OneOwner'
  BY <1>3 DEF WantsProxy, Hop
<1>4. ASSUME NEW c \in Conns, Enqueue(c) PROVE OneOwner'
  BY <1>4 DEF Enqueue, HasRoom
<1>5. ASSUME NEW c \in Conns, Reject(c) PROVE OneOwner'
  BY <1>5 DEF Reject, HasRoom, Leave, HangUp
<1>6. ASSUME NEW c \in Conns, Authenticate(c) PROVE OneOwner'
  BY <1>6 DEF Authenticate, Hop
<1>7. ASSUME NEW c \in Conns, Dial(c) PROVE OneOwner'
  BY <1>7 DEF Dial
<1>7a. ASSUME NEW c \in Conns, Handshake(c) PROVE OneOwner'
  BY <1>7a DEF Handshake, Hop
<1>8. ASSUME NEW c \in Conns, Track(c) PROVE OneOwner'
  BY <1>8 DEF Track
<1>9. ASSUME NEW c \in Conns, RelayEnds(c) PROVE OneOwner'
  BY <1>9 DEF RelayEnds, Leave, HangUp, Untracked
<1>10. ASSUME NEW c \in Conns, HttpEnds(c) PROVE OneOwner'
  BY <1>10 DEF HttpEnds
<1>11. ASSUME NEW c \in Conns, NEW s \in Sides, CopyEnds(c, s) PROVE OneOwner'
  BY <1>11 DEF CopyEnds
<1>12. ASSUME NEW c \in Conns, NEW s \in Sides, PeerEnds(c, s) PROVE OneOwner'
  BY <1>12 DEF PeerEnds
<1>13. ASSUME Spawn PROVE OneOwner'
  BY <1>13 DEF Spawn
<1>14. ASSUME ServeReturns PROVE OneOwner'
  BY <1>14 DEF ServeReturns
<1>14a. ASSUME AcceptFails PROVE OneOwner'
  BY <1>14a DEF AcceptFails
<1>15. ASSUME HttpTake PROVE OneOwner'
  <2>1. \A i \in 1 .. Len(queue') : /\ i + 1 \in 2 .. Len(queue)
                                    /\ queue'[i] = queue[i + 1]
    BY <1>15 DEF HttpTake, HttpReady
  <2>2. web' = web \cup {queue[1]} /\ 1 \in 1 .. Len(queue)
    BY <1>15 DEF HttpTake, HttpReady
  <2>3. pc' = pc /\ accepting' = accepting
    BY <1>15 DEF HttpTake
  <2>4. \A c \in Conns : Queued(c)' => Queued(c) /\ c # queue[1]
    BY <2>1, <2>2
  <2>5. \A i, j \in 1 .. Len(queue') : queue'[i] = queue'[j] => i = j
    BY <2>1
  <2>6. \A c \in Conns : Queued(c)' => pc'[c] = "done" /\ c \notin web'
    BY <2>2, <2>3, <2>4
  <2>7. \A c \in web' : pc'[c] = "done"
    BY <2>2, <2>3
  <2>8. QED
    BY <2>3, <2>5, <2>6, <2>7
<1>16. ASSUME HttpLoopReturns PROVE OneOwner'
  BY <1>16 DEF HttpLoopReturns
<1>17. ASSUME Sweep PROVE OneOwner'
  BY <1>17 DEF Sweep, SweptSides
<1>18. ASSUME Cancel \/ CloseListener \/ HttpShutdown \/ Waited \/ Exit PROVE OneOwner'
  BY <1>18 DEF Cancel, CloseListener, HttpShutdown, Waited, Exit, Advance
<1>19. ASSUME UNCHANGED vars PROVE OneOwner'
  BY <1>19 DEF vars
<1> HIDE DEF OneOwner
<1>20. QED
  BY Cases, <1>1, <1>2, <1>3, <1>4, <1>5, <1>6, <1>7, <1>7a, <1>8, <1>9, <1>10, <1>11, <1>12, <1>13, <1>14, <1>14a, <1>15, <1>16, <1>17, <1>18, <1>19

LEMMA SweepStep ==
  ASSUME IInv, Next
  PROVE  SweepReachesRelays'
<1> USE MuxAssumption DEF IInv, TypeOK, Registered, SweepReachesRelays, Cancelled, Swept, At, Goto, loops, panel, relays, phase, Handling, Connecting, Sides
<1>1. ASSUME NEW c \in Conns, Accept(c) PROVE SweepReachesRelays'
  BY <1>1 DEF Accept, Listening
<1>2. ASSUME NEW c \in Conns, Refuse(c) PROVE SweepReachesRelays'
  BY <1>2 DEF Refuse, Leave, HangUp
<1>3. ASSUME NEW c \in Conns, WantsProxy(c) PROVE SweepReachesRelays'
  BY <1>3 DEF WantsProxy, Hop
<1>4. ASSUME NEW c \in Conns, Enqueue(c) PROVE SweepReachesRelays'
  BY <1>4 DEF Enqueue, HasRoom
<1>5. ASSUME NEW c \in Conns, Reject(c) PROVE SweepReachesRelays'
  BY <1>5 DEF Reject, HasRoom, Leave, HangUp
<1>6. ASSUME NEW c \in Conns, Authenticate(c) PROVE SweepReachesRelays'
  BY <1>6 DEF Authenticate, Hop
<1>7. ASSUME NEW c \in Conns, Dial(c) PROVE SweepReachesRelays'
  BY <1>7 DEF Dial
<1>7a. ASSUME NEW c \in Conns, Handshake(c) PROVE SweepReachesRelays'
  BY <1>7a DEF Handshake, Hop
<1>8. ASSUME NEW c \in Conns, Track(c) PROVE SweepReachesRelays'
  BY <1>8 DEF Track
<1>9. ASSUME NEW c \in Conns, RelayEnds(c) PROVE SweepReachesRelays'
  BY <1>9 DEF RelayEnds, Leave, HangUp, Untracked
<1>10. ASSUME NEW c \in Conns, HttpEnds(c) PROVE SweepReachesRelays'
  BY <1>10 DEF HttpEnds
<1>11. ASSUME NEW c \in Conns, NEW s \in Sides, CopyEnds(c, s) PROVE SweepReachesRelays'
  BY <1>11 DEF CopyEnds
<1>12. ASSUME NEW c \in Conns, NEW s \in Sides, PeerEnds(c, s) PROVE SweepReachesRelays'
  BY <1>12 DEF PeerEnds
<1>13. ASSUME Spawn PROVE SweepReachesRelays'
  BY <1>13 DEF Spawn
<1>14. ASSUME ServeReturns PROVE SweepReachesRelays'
  BY <1>14 DEF ServeReturns
<1>14a. ASSUME AcceptFails PROVE SweepReachesRelays'
  BY <1>14a DEF AcceptFails
<1>15. ASSUME HttpTake PROVE SweepReachesRelays'
  BY <1>15 DEF HttpTake, HttpReady
<1>16. ASSUME HttpLoopReturns PROVE SweepReachesRelays'
  BY <1>16 DEF HttpLoopReturns
<1>17. ASSUME Sweep PROVE SweepReachesRelays'
  BY <1>17 DEF Sweep, SweptSides
<1>18. ASSUME Cancel \/ CloseListener \/ HttpShutdown \/ Waited \/ Exit PROVE SweepReachesRelays'
  BY <1>18 DEF Cancel, CloseListener, HttpShutdown, Waited, Exit, Advance
<1>19. ASSUME UNCHANGED vars PROVE SweepReachesRelays'
  BY <1>19 DEF vars
<1> HIDE DEF SweepReachesRelays
<1>20. QED
  BY Cases, <1>1, <1>2, <1>3, <1>4, <1>5, <1>6, <1>7, <1>7a, <1>8, <1>9, <1>10, <1>11, <1>12, <1>13, <1>14, <1>14a, <1>15, <1>16, <1>17, <1>18, <1>19

\* Waited finds no goroutine; what Spawn starts later gets no further than the
\* lookup, which fails once the context is done.
LEMMA DialsStep ==
  ASSUME IInv, Next
  PROVE  NothingDialsAfterShutdown'
<1> USE MuxAssumption DEF IInv, TypeOK, Registered, NothingDialsAfterShutdown, Cancelled, At, Goto, loops, panel, relays, phase, Handling, Connecting
<1>1. ASSUME NEW c \in Conns, Accept(c) PROVE NothingDialsAfterShutdown'
  BY <1>1 DEF Accept, Listening
<1>2. ASSUME NEW c \in Conns, Refuse(c) PROVE NothingDialsAfterShutdown'
  BY <1>2 DEF Refuse, Leave, HangUp
<1>3. ASSUME NEW c \in Conns, WantsProxy(c) PROVE NothingDialsAfterShutdown'
  BY <1>3 DEF WantsProxy, Hop
<1>4. ASSUME NEW c \in Conns, Enqueue(c) PROVE NothingDialsAfterShutdown'
  BY <1>4 DEF Enqueue
<1>5. ASSUME NEW c \in Conns, Reject(c) PROVE NothingDialsAfterShutdown'
  BY <1>5 DEF Reject, Leave, HangUp
<1>6. ASSUME NEW c \in Conns, Authenticate(c) PROVE NothingDialsAfterShutdown'
  BY <1>6 DEF Authenticate, Hop
<1>7. ASSUME NEW c \in Conns, Dial(c) PROVE NothingDialsAfterShutdown'
  BY <1>7 DEF Dial
<1>8. ASSUME NEW c \in Conns, Handshake(c) PROVE NothingDialsAfterShutdown'
  BY <1>8 DEF Handshake, Hop
<1>9. ASSUME NEW c \in Conns, Track(c) PROVE NothingDialsAfterShutdown'
  BY <1>9 DEF Track
<1>10. ASSUME NEW c \in Conns, RelayEnds(c) PROVE NothingDialsAfterShutdown'
  BY <1>10 DEF RelayEnds, Leave, HangUp
<1>11. ASSUME NEW c \in Conns, HttpEnds(c) PROVE NothingDialsAfterShutdown'
  BY <1>11 DEF HttpEnds
<1>12. ASSUME NEW c \in Conns, NEW s \in Sides, CopyEnds(c, s) PROVE NothingDialsAfterShutdown'
  BY <1>12 DEF CopyEnds
<1>13. ASSUME NEW c \in Conns, NEW s \in Sides, PeerEnds(c, s) PROVE NothingDialsAfterShutdown'
  BY <1>13 DEF PeerEnds
<1>14. ASSUME Spawn PROVE NothingDialsAfterShutdown'
  BY <1>14 DEF Spawn, OneOwner
<1>15. ASSUME ServeReturns \/ AcceptFails PROVE NothingDialsAfterShutdown'
  BY <1>15 DEF ServeReturns, AcceptFails
<1>16. ASSUME HttpTake \/ HttpLoopReturns PROVE NothingDialsAfterShutdown'
  BY <1>16 DEF HttpTake, HttpLoopReturns
<1>17. ASSUME Sweep PROVE NothingDialsAfterShutdown'
  BY <1>17 DEF Sweep
<1>18. ASSUME Cancel \/ CloseListener \/ HttpShutdown \/ Exit PROVE NothingDialsAfterShutdown'
  BY <1>18 DEF Cancel, CloseListener, HttpShutdown, Exit, Advance
<1>19. ASSUME Waited PROVE NothingDialsAfterShutdown'
  BY <1>19 DEF Waited, Advance
<1>20. ASSUME UNCHANGED vars PROVE NothingDialsAfterShutdown'
  BY <1>20 DEF vars
<1> HIDE DEF NothingDialsAfterShutdown
<1>21. QED
  BY Cases, <1>1, <1>2, <1>3, <1>4, <1>5, <1>6, <1>7, <1>8, <1>9, <1>10, <1>11, <1>12,
     <1>13, <1>14, <1>15, <1>16, <1>17, <1>18, <1>19, <1>20

-----------------------------------------------------------------------------
(* The theorems.                                                           *)

LEMMA InitIInv == Init => IInv
  BY MuxAssumption DEF Init, IInv, TypeOK, Registered, NothingLeaks, OneOwner,
     SweepReachesRelays, NothingDialsAfterShutdown, Handling, Connecting, Sides,
     Phases, Swept, Queued

LEMMA StepIInv == IInv /\ [Next]_vars => IInv'
<1>1. ASSUME IInv, Next PROVE IInv'
  BY <1>1, TypeStep, RegisteredStep, LeaksStep, OwnerStep, SweepStep,
     DialsStep DEF IInv
<1>2. ASSUME IInv, UNCHANGED vars PROVE IInv'
  BY <1>2 DEF vars, loops, panel, relays, phase, IInv, TypeOK, Registered,
     NothingLeaks, OneOwner, SweepReachesRelays, NothingDialsAfterShutdown, Swept,
     Queued
<1>3. QED
  BY <1>1, <1>2

LEMMA Inductive == Spec => []IInv
  BY InitIInv, StepIInv, PTL DEF Spec

\* Type correctness of the multiplexer, with the bound of its queue.
THEOREM Typed == Spec => []TypeOK
<1>1. IInv => TypeOK
  BY DEF IInv
<1>2. QED
  BY <1>1, Inductive, PTL

\* No socket and no registration outlives its goroutine, wherever between the first
\* byte and the relay the goroutine ends, and no connection is in two hands.
THEOREM Owned == Spec => []ClosedOrOwned
<1>1. IInv => ClosedOrOwned
  BY DEF IInv, ClosedOrOwned
<1>2. QED
  BY <1>1, Inductive, PTL

\* Only relays that were still connecting at the sweep can stay open after it.
THEOREM Closed == Spec => []SweepReachesRelays
<1>1. IInv => SweepReachesRelays
  BY DEF IInv
<1>2. QED
  BY <1>1, Inductive, PTL

\* A goroutine that wg.Wait missed dials nothing once Shutdown has returned.
THEOREM Harmless == Spec => []NothingDialsAfterShutdown
<1>1. IInv => NothingDialsAfterShutdown
  BY DEF IInv
<1>2. QED
  BY <1>1, Inductive, PTL

=============================================================================
