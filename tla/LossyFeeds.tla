------------------------------ MODULE LossyFeeds ------------------------------
(***************************************************************************)
(* What the event bus promises each subscriber, with no queue in sight:    *)
(* the events it is due reach it in order, and those it does not get are   *)
(* counted and were, when given up, more than Capacity events behind.      *)
(* (`Back-pressure by drop-oldest', services/event_bus_service.py:39.)     *)
(***************************************************************************)
EXTENDS Naturals, Sequences

CONSTANTS Clients, Events, Capacity

VARIABLES
  open,      \* clients with a subscription
  due,       \* due[c]: the matching events published since c subscribed
  received,  \* received[c]: the events c's handler has taken, in that order
  lost       \* lost[c]: how many were given up

feeds == <<open, due, received, lost>>

Settled(c) == Len(received[c]) + lost[c]
Backlog(c) == Len(due[c]) - Settled(c)

Init ==
  /\ open = {}
  /\ due = [c \in Clients |-> <<>>]
  /\ received = [c \in Clients |-> <<>>]
  /\ lost = [c \in Clients |-> 0]

Open(c) ==
  /\ c \notin open
  /\ open' = open \cup {c}
  /\ due' = [due EXCEPT ![c] = <<>>]
  /\ received' = [received EXCEPT ![c] = <<>>]
  /\ lost' = [lost EXCEPT ![c] = 0]

Close(c) ==
  /\ c \in open
  /\ open' = open \ {c}
  /\ UNCHANGED <<due, received, lost>>

\* e goes to the clients of S, whatever the others are doing
Broadcast(e, S) ==
  /\ due' = [c \in Clients |-> IF c \in S THEN Append(due[c], e) ELSE due[c]]
  /\ lost' = [c \in Clients |-> IF c \in S /\ Backlog(c) = Capacity THEN lost[c] + 1 ELSE lost[c]]
  /\ UNCHANGED <<open, received>>

\* c gets the oldest event that is neither received nor given up
Take(c) ==
  /\ c \in open
  /\ Backlog(c) > 0
  /\ received' = [received EXCEPT ![c] = Append(@, due[c][Settled(c) + 1])]
  /\ UNCHANGED <<open, due, lost>>

Next ==
  \/ \E c \in Clients : Open(c) \/ Close(c) \/ Take(c)
  \/ \E e \in Events, S \in SUBSET open : Broadcast(e, S)

Spec == Init /\ [][Next]_feeds
==============================================================================
