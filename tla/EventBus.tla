------------------------------- MODULE EventBus -------------------------------
(***************************************************************************)
(* The live event bus, services/event_bus_service.py, and the WebSocket    *)
(* handler that serves a subscriber, routers/events.py.  All of it runs on *)
(* one event loop; nobody ever waits while holding the bus's lock, so that *)
(* publish and subscribe are single steps and a handler can be overtaken   *)
(* only at queue.get() and at its sends.                                   *)
(*                                                                         *)
(* Events are numbered as they are published; of their content only what   *)
(* the filters look at is kept, one kind for camera and task together.     *)
(***************************************************************************)
EXTENDS Naturals, Sequences

CONSTANTS Clients,    \* WebSocket handlers
          Prompt,     \* those whose client goes on reading
          Kinds,      \* what a filter can tell apart
          QueueSize,  \* subscriber_queue_size
          MaxEvents,  \* bound: events published
          MaxVisits   \* bound: connections of one client

ASSUME BusAssumption ==
  QueueSize \in Nat \ {0} /\ MaxEvents \in Nat /\ MaxVisits \in Nat /\ Prompt \subseteq Clients

VARIABLES
  published,  \* number of events so far
  phase,      \* phase[c]: "out", "greet", "wait" (queue.get), "send", "notice"
  gone,       \* the transport of c has seen its client leave
  filter,     \* filter[c]: the kinds c asked for
  queue,      \* the _Subscriber of c: queue, dropped
  dropped,
  reported,   \* the handler's reported_drops
  due,        \* history: events since the subscription that match the filter
  received,   \* history: events the handler has taken from the queue
  visits      \* history: connections of c so far

subscriber == <<queue, dropped, due, received>>
vars == <<published, phase, gone, filter, subscriber, reported, visits>>

Subscribed == {c \in Clients : phase[c] \in {"wait", "send", "notice"}}
------------------------------------------------------------------------------
TypeOK ==
  /\ published \in 0..MaxEvents
  /\ phase \in [Clients -> {"out", "greet", "wait", "send", "notice"}]
  /\ gone \in [Clients -> BOOLEAN]
  /\ filter \in [Clients -> SUBSET Kinds]
  /\ queue \in [Clients -> Seq(Nat)]
  /\ dropped \in [Clients -> Nat]
  /\ reported \in [Clients -> Nat]
  /\ due \in [Clients -> Seq(Nat)]
  /\ received \in [Clients -> Seq(Nat)]
  /\ visits \in [Clients -> 0..MaxVisits]
  /\ \A c \in Clients : Len(queue[c]) <= QueueSize

Init ==
  /\ published = 0
  /\ phase = [c \in Clients |-> "out"]
  /\ gone = [c \in Clients |-> FALSE]
  /\ filter = [c \in Clients |-> {}]
  /\ queue = [c \in Clients |-> <<>>]
  /\ dropped = [c \in Clients |-> 0]
  /\ reported = [c \in Clients |-> 0]
  /\ due = [c \in Clients |-> <<>>]
  /\ received = [c \in Clients |-> <<>>]
  /\ visits = [c \in Clients |-> 0]
------------------------------------------------------------------------------
(* EventBus *)

Targets(k) == {c \in Subscribed : k \in filter[c]}
Full(c)    == Len(queue[c]) = QueueSize

\* Mutant: an unbounded queue
EnqueuedAlways(c, n) == Append(queue[c], n)

Enqueued(c, n) == IF Full(c) THEN Append(Tail(queue[c]), n) ELSE Append(queue[c], n)

\* Mutant: the newest event is the one that is dropped
PublishDropNewest(k) ==
  /\ published < MaxEvents
  /\ published' = published + 1
  /\ LET T == Targets(k) IN
     /\ queue' = [c \in Clients |-> IF c \in T /\ ~Full(c) THEN Append(queue[c], published') ELSE queue[c]]
     /\ dropped' = [c \in Clients |-> IF c \in T /\ Full(c) THEN dropped[c] + 1 ELSE dropped[c]]
     /\ due' = [c \in Clients |-> IF c \in T THEN Append(due[c], published') ELSE due[c]]
  /\ UNCHANGED <<phase, gone, filter, received, reported, visits>>

\* publish: to every matching subscriber, at the price of its oldest event
Publish(k) ==
  /\ published < MaxEvents
  /\ published' = published + 1
  /\ LET T == Targets(k) IN
     /\ queue' = [c \in Clients |-> IF c \in T THEN Enqueued(c, published') ELSE queue[c]]
     /\ dropped' = [c \in Clients |-> IF c \in T /\ Full(c) THEN dropped[c] + 1 ELSE dropped[c]]
     /\ due' = [c \in Clients |-> IF c \in T THEN Append(due[c], published') ELSE due[c]]
  /\ UNCHANGED <<phase, gone, filter, received, reported, visits>>
------------------------------------------------------------------------------
(* events_stream *)

\* Authenticated and accepted; the "subscribed" frame is on its way
Connect(c, F) ==
  /\ phase[c] = "out" /\ visits[c] < MaxVisits
  /\ visits' = [visits EXCEPT ![c] = @ + 1]
  /\ phase' = [phase EXCEPT ![c] = "greet"]
  /\ gone' = [gone EXCEPT ![c] = FALSE]
  /\ filter' = [filter EXCEPT ![c] = F]
  /\ UNCHANGED <<published, subscriber, reported>>

Subscribe(c) ==
  /\ phase[c] = "greet" /\ ~gone[c]
  /\ phase' = [phase EXCEPT ![c] = "wait"]
  /\ queue' = [queue EXCEPT ![c] = <<>>]
  /\ dropped' = [dropped EXCEPT ![c] = 0]
  /\ reported' = [reported EXCEPT ![c] = 0]
  /\ due' = [due EXCEPT ![c] = <<>>]
  /\ received' = [received EXCEPT ![c] = <<>>]
  /\ UNCHANGED <<published, gone, filter, visits>>

\* Mutant: the newest event first
FetchNewest(c) ==
  IF queue[c] = <<>>
  THEN /\ phase' = [phase EXCEPT ![c] = "wait"]
       /\ UNCHANGED <<queue, received>>
  ELSE /\ phase' = [phase EXCEPT ![c] = "send"]
       /\ queue' = [queue EXCEPT ![c] = SubSeq(@, 1, Len(@) - 1)]
       /\ received' = [received EXCEPT ![c] = Append(@, queue[c][Len(queue[c])])]

\* Back at queue.get(), which only waits if there is nothing to get
Fetch(c) ==
  IF queue[c] = <<>>
  THEN /\ phase' = [phase EXCEPT ![c] = "wait"]
       /\ UNCHANGED <<queue, received>>
  ELSE /\ phase' = [phase EXCEPT ![c] = "send"]
       /\ queue' = [queue EXCEPT ![c] = Tail(@)]
       /\ received' = [received EXCEPT ![c] = Append(@, Head(queue[c]))]

\* queue.get() returns
Wake(c) ==
  /\ phase[c] = "wait" /\ queue[c] # <<>>
  /\ Fetch(c)
  /\ UNCHANGED <<published, gone, filter, dropped, due, reported, visits>>

\* Mutant: the handlers send one at a time, under the bus's lock
SentInTurn(c) ==
  /\ phase[c] = "send" /\ ~gone[c]
  /\ dropped[c] <= reported[c]
  /\ \A d \in Clients \ {c} : phase[d] # "send"
  /\ Fetch(c)
  /\ UNCHANGED <<published, gone, filter, dropped, due, reported, visits>>

Sent(c) ==
  /\ phase[c] = "send" /\ ~gone[c]
  /\ dropped[c] <= reported[c]
  /\ Fetch(c)
  /\ UNCHANGED <<published, gone, filter, dropped, due, reported, visits>>

SentLagging(c) ==
  /\ phase[c] = "send" /\ ~gone[c]
  /\ dropped[c] > reported[c]
  /\ phase' = [phase EXCEPT ![c] = "notice"]
  /\ UNCHANGED <<published, gone, filter, subscriber, reported, visits>>

\* reported_drops is read after the send: drops during it are in no notice
NoticeSent(c) ==
  /\ phase[c] = "notice" /\ ~gone[c]
  /\ reported' = [reported EXCEPT ![c] = dropped[c]]
  /\ Fetch(c)
  /\ UNCHANGED <<published, gone, filter, dropped, due, visits>>

Hangup(c) ==
  /\ phase[c] # "out" /\ ~gone[c]
  /\ gone' = [gone EXCEPT ![c] = TRUE]
  /\ UNCHANGED <<published, phase, filter, subscriber, reported, visits>>

\* A send raises, and the subscription ends with the handler; a handler that
\* waits at queue.get() does not see its client leave.
SendFails(c) ==
  /\ phase[c] \in {"greet", "send", "notice"} /\ gone[c]
  /\ phase' = [phase EXCEPT ![c] = "out"]
  /\ UNCHANGED <<published, gone, filter, subscriber, reported, visits>>
------------------------------------------------------------------------------
Send(c) == Sent(c) \/ SentLagging(c) \/ NoticeSent(c)

Next ==
  \/ \E k \in Kinds : Publish(k)
  \/ \E c \in Clients :
       \/ \E F \in SUBSET Kinds \ {{}} : Connect(c, F)
       \/ Subscribe(c) \/ Wake(c) \/ Send(c) \/ Hangup(c) \/ SendFails(c)

Spec == Init /\ [][Next]_vars

\* Publishers go on; a handler runs when it can; a send ends, but for a client
\* that has stopped reading it need not.
Fairness ==
  /\ WF_vars(\E k \in Kinds : Publish(k))
  /\ \A c \in Clients : WF_vars(Wake(c)) /\ WF_vars(SendFails(c))
  /\ \A c \in Prompt : WF_vars(Send(c))

FairSpec == Spec /\ Fairness
------------------------------------------------------------------------------
(* Properties *)

\* Nothing is lost that is not counted: what a handler has taken, what it has
\* dropped and what waits in its queue add up to the events it was due, and
\* what waits is the newest of them, in the order of publication.
Accounted ==
  \A c \in Subscribed :
    /\ Len(received[c]) + dropped[c] + Len(queue[c]) = Len(due[c])
    /\ \A i \in 1..Len(queue[c]) : queue[c][i] = due[c][Len(received[c]) + dropped[c] + i]

\* The bus is the lossy feed of each subscriber: no interleaving of publishers,
\* subscribers and slow sends reorders, repeats or silently drops an event.
Feeds == INSTANCE LossyFeeds WITH
  Events <- 1..MaxEvents, Capacity <- QueueSize, open <- Subscribed, lost <- dropped

FeedSpec == Feeds!Spec

\* ... `or the rest of the fleet': a client that goes on reading has its queue
\* served, whatever the other clients do.
PromptIsServed == \A c \in Prompt : queue[c] # <<>> ~> (queue[c] = <<>> \/ phase[c] = "out")
==============================================================================
