------------------------------- MODULE Broker -------------------------------
(***************************************************************************)
(* Events (internal/events/broker.go) and the handler that streams them to *)
(* a browser.  Publish holds the read lock while it sends to one channel   *)
(* after the other and drops what a full one does not take; Subscribe and  *)
(* Unsubscribe, which closes the channel, take the write lock.             *)
(***************************************************************************)
EXTENDS Requests, Naturals

CONSTANT Room  \* messages a channel holds; 32 in the code

ASSUME BrokerAssumption == Room \in Nat

VARIABLES
  clients,  \* Broker.clients: the streams whose channel is open
  queue,    \* messages in the channel of each stream
  todo      \* each publisher: the channels it has not sent to yet

brokerVars == <<clients, queue, todo>>

BrokerInit == clients = {} /\ queue = [r \in R |-> 0] /\ todo = [r \in R |-> {}]

Reading(r) == stage[r] \in {"sending", "resending"}

\* The write lock is free.  Mutant of NoReaders: Unsubscribe takes no lock.
NoReadersNeeded == TRUE
NoReaders == \A r \in R : ~Reading(r)

Subscribe(r) == /\ At(r, "stream") /\ NoReaders /\ Goto(r, "streaming")
                /\ clients' = clients \cup {r} /\ UNCHANGED <<queue, todo>>

\* The handler's loop takes a message, or sees that the browser is gone.
Receive(r) == /\ At(r, "streaming") /\ queue[r] > 0
              /\ queue' = [queue EXCEPT ![r] = @ - 1] /\ UNCHANGED <<stage, clients, todo>>

HangUp(r) == At(r, "streaming") /\ Goto(r, "leaving") /\ UNCHANGED brokerVars

Unsubscribe(r) == /\ At(r, "leaving") /\ NoReaders /\ Goto(r, "done")
                  /\ clients' = clients \ {r} /\ queue' = [queue EXCEPT ![r] = 0]
                  /\ UNCHANGED todo

\* Publish takes the read lock, then sends: for an operation that has succeeded,
\* and once more in the goroutine of publishRuntimeAsync that the handler leaves
\* behind ("publish"; the rest of that goroutine is the module Publish).
Announce(r) == /\ \/ At(r, "announce") /\ Goto(r, "sending")
                  \/ At(r, "publish") /\ Goto(r, "resending")
               /\ todo' = [todo EXCEPT ![r] = clients] /\ UNCHANGED <<clients, queue>>

\* The send either fits or falls into the default of the select.  Mutants of
\* Offer: the select has no default, and the channel no bound.
OfferWaits(c) == queue[c] < Room /\ queue' = [queue EXCEPT ![c] = @ + 1]
OfferMore(c)  == queue' = [queue EXCEPT ![c] = @ + 1]
Offer(c)      == queue' = [queue EXCEPT ![c] = IF @ < Room THEN @ + 1 ELSE @]

Send(r, c) == /\ Reading(r) /\ c \in todo[r] /\ Offer(c)
              /\ todo' = [todo EXCEPT ![r] = @ \ {c}] /\ UNCHANGED <<stage, clients>>

Announced(r) == /\ todo[r] = {}
                /\ \/ At(r, "sending") /\ Goto(r, "publish")
                   \/ At(r, "resending") /\ Goto(r, "done")
                /\ UNCHANGED brokerVars

BrokerServes(r) == \/ Subscribe(r) \/ Unsubscribe(r) \/ Announce(r) \/ Announced(r)
                   \/ \E c \in R : Send(r, c)
=============================================================================
