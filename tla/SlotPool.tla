------------------------------- MODULE SlotPool -------------------------------
(* What the speed tests of internal/probe/service.go rely on: a pool of slots *)
(* that are lent, each to one client at a time.  Only the client that holds a *)
(* slot writes the entry behind it, and it leaves the entry blank when it     *)
(* gives the slot back.                                                       *)
CONSTANTS
  Slots, Clients,
  Values,  \* what an entry can hold
  Blank,   \* nothing in the entry
  NoSlot   \* nothing lent

VARIABLES
  free,   \* the slots nobody holds
  lease,  \* the slot each client holds
  entry   \* what is written behind each slot

pool == <<free, lease, entry>>

Init == /\ free = Slots
        /\ lease = [c \in Clients |-> NoSlot]
        /\ entry = [s \in Slots |-> Blank]

Take(c, s) == /\ lease[c] = NoSlot /\ s \in free
              /\ free' = free \ {s}
              /\ lease' = [lease EXCEPT ![c] = s]
              /\ UNCHANGED entry

Fill(c, v) == /\ lease[c] \in Slots
              /\ entry' = [entry EXCEPT ![lease[c]] = v]
              /\ UNCHANGED <<free, lease>>

Give(c) == /\ lease[c] \in Slots /\ entry[lease[c]] = Blank
           /\ free' = free \cup {lease[c]}
           /\ lease' = [lease EXCEPT ![c] = NoSlot]
           /\ UNCHANGED entry

Next == \E c \in Clients : \/ \E s \in Slots : Take(c, s)
                           \/ \E v \in Values \cup {Blank} : Fill(c, v)
                           \/ Give(c)

Spec == Init /\ [][Next]_pool
=============================================================================
