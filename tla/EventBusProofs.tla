---------------------------- MODULE EventBusProofs ----------------------------
(***************************************************************************)
(* The event bus is type correct, accounts for every event and implements  *)
(* LossyFeeds, for any set of clients and any size of queue.               *)
(***************************************************************************)
EXTENDS EventBus, TLAPS

IInv == TypeOK /\ Accounted

\* q is what is left of the sequence D after its first s elements
Suffix(q, s, D) ==
  /\ s + Len(q) = Len(D)
  /\ \A i \in 1..Len(q) : q[i] = D[s + i]

AccountedFor(c) == Suffix(queue[c], Len(received[c]) + dropped[c], due[c])
------------------------------------------------------------------------------
(* Queues *)

\* A bounded queue that takes an element keeps its bound, and shifts by one if
\* it was full.
LEMMA Overflow ==
  ASSUME NEW q \in Seq(Nat), NEW n \in Nat, NEW N \in Nat \ {0}, Len(q) <= N,
         NEW r, r = IF Len(q) = N THEN Append(Tail(q), n) ELSE Append(q, n)
  PROVE  /\ r \in Seq(Nat) /\ Len(r) <= N
         /\ Len(q) = N => Len(r) = N /\ \A i \in 1..N - 1 : r[i] = q[i + 1]
         /\ Len(q) # N => Len(r) = Len(q) + 1 /\ \A i \in 1..Len(q) : r[i] = q[i]
         /\ r[Len(r)] = n
<1>1. CASE Len(q) = N
  <2>1. q # <<>> /\ Tail(q) \in Seq(Nat) /\ Len(Tail(q)) = N - 1
    BY <1>1
  <2>2. \A i \in 1..N - 1 : Tail(q)[i] = q[i + 1]
    BY <1>1, <2>1
  <2> QED BY <1>1, <2>1, <2>2
<1>2. CASE Len(q) # N
  BY <1>2
<1> QED BY <1>1, <1>2

\* Taking the head of a queue.
LEMMA Dequeue ==
  ASSUME NEW q \in Seq(Nat), q # <<>>
  PROVE  /\ Head(q) \in Nat /\ Head(q) = q[1]
         /\ Tail(q) \in Seq(Nat) /\ Len(Tail(q)) = Len(q) - 1
         /\ \A i \in 1..Len(q) - 1 : Tail(q)[i] = q[i + 1]
OBVIOUS
------------------------------------------------------------------------------
(* Type correctness *)

LEMMA InitIInv == Init => IInv
BY BusAssumption DEF Init, IInv, TypeOK, Accounted, Subscribed

LEMMA PublishType ==
  ASSUME TypeOK, NEW k \in Kinds, Publish(k)
  PROVE  TypeOK'
<1>1. published' \in 0..MaxEvents /\ published' \in Nat
  BY BusAssumption DEF TypeOK, Publish
<1>2. ASSUME NEW c \in Clients
      PROVE  Enqueued(c, published') \in Seq(Nat) /\ Len(Enqueued(c, published')) <= QueueSize
  BY <1>1, Overflow, BusAssumption DEF TypeOK, Enqueued, Full
<1>3. queue' \in [Clients -> Seq(Nat)] /\ \A c \in Clients : Len(queue'[c]) <= QueueSize
  BY <1>2 DEF TypeOK, Publish
<1>4. dropped' \in [Clients -> Nat] /\ due' \in [Clients -> Seq(Nat)]
  BY <1>1 DEF TypeOK, Publish
<1> QED BY <1>1, <1>3, <1>4 DEF TypeOK, Publish

LEMMA FetchType ==
  ASSUME TypeOK, NEW c \in Clients, Fetch(c)
  PROVE  /\ phase' \in [Clients -> {"out", "greet", "wait", "send", "notice"}]
         /\ queue' \in [Clients -> Seq(Nat)] /\ received' \in [Clients -> Seq(Nat)]
         /\ \A d \in Clients : Len(queue'[d]) <= QueueSize
<1>1. CASE queue[c] = <<>>
  BY <1>1 DEF TypeOK, Fetch
<1>2. CASE queue[c] # <<>>
  <2>1. /\ queue[c] \in Seq(Nat) /\ received[c] \in Seq(Nat)
        /\ Head(queue[c]) \in Nat /\ Tail(queue[c]) \in Seq(Nat)
        /\ Len(Tail(queue[c])) = Len(queue[c]) - 1 /\ Len(queue[c]) \in Nat
    BY <1>2, Dequeue DEF TypeOK
  <2>2. queue' = [queue EXCEPT ![c] = Tail(queue[c])]
        /\ received' = [received EXCEPT ![c] = Append(received[c], Head(queue[c]))]
    BY <1>2 DEF Fetch
  <2>3. queue' \in [Clients -> Seq(Nat)] /\ received' \in [Clients -> Seq(Nat)]
    BY <2>1, <2>2 DEF TypeOK
  <2>4. ASSUME NEW d \in Clients PROVE Len(queue'[d]) <= QueueSize
    BY <2>1, <2>2, BusAssumption DEF TypeOK
  <2> QED BY <1>2, <2>3, <2>4 DEF TypeOK, Fetch
<1> QED BY <1>1, <1>2

LEMMA HandlerType ==
  ASSUME TypeOK, NEW c \in Clients,
         \/ \E F \in SUBSET Kinds \ {{}} : Connect(c, F)
         \/ Subscribe(c) \/ Wake(c) \/ Send(c) \/ Hangup(c) \/ SendFails(c)
  PROVE  TypeOK'
<1>1. ASSUME NEW F \in SUBSET Kinds, Connect(c, F) PROVE TypeOK'
  <2>1. visits' \in [Clients -> 0..MaxVisits]
    <3>1. visits[c] + 1 \in 0..MaxVisits
      BY <1>1, BusAssumption DEF TypeOK, Connect
    <3> QED BY <1>1, <3>1 DEF TypeOK, Connect
  <2>2. /\ phase' \in [Clients -> {"out", "greet", "wait", "send", "notice"}]
        /\ gone' \in [Clients -> BOOLEAN] /\ filter' \in [Clients -> SUBSET Kinds]
    BY <1>1 DEF TypeOK, Connect
  <2> QED BY <1>1, <2>1, <2>2 DEF TypeOK, Connect, subscriber
<1>2. CASE Subscribe(c)
  BY <1>2, BusAssumption DEF TypeOK, Subscribe
<1>3. CASE Wake(c) \/ Sent(c)
  BY <1>3, FetchType DEF TypeOK, Wake, Sent
<1>4. CASE SentLagging(c)
  BY <1>4 DEF TypeOK, SentLagging, subscriber
<1>5. CASE NoticeSent(c)
  BY <1>5, FetchType DEF TypeOK, NoticeSent
<1>6. CASE Hangup(c) \/ SendFails(c)
  BY <1>6 DEF TypeOK, Hangup, SendFails, subscriber
<1> QED BY <1>1, <1>2, <1>3, <1>4, <1>5, <1>6 DEF Send

LEMMA TypeStep == TypeOK /\ [Next]_vars => TypeOK'
<1> SUFFICES ASSUME TypeOK, [Next]_vars PROVE TypeOK'
  OBVIOUS
<1>1. CASE UNCHANGED vars
  BY <1>1 DEF TypeOK, vars, subscriber
<1> QED BY <1>1, PublishType, HandlerType DEF Next

\* EventBus is type correct; no queue outgrows subscriber_queue_size (publish
\* drops the oldest event).
THEOREM BusTypeCorrect == Spec => []TypeOK
<1>1. Init => TypeOK
  BY InitIInv DEF IInv
<1> QED BY <1>1, TypeStep, PTL DEF Spec
------------------------------------------------------------------------------
(* Accounting *)

\* A full queue that drops its oldest for n is left with one element less of
\* a sequence that got n as well.
LEMMA SuffixPut ==
  ASSUME NEW q \in Seq(Nat), NEW D \in Seq(Nat), NEW s \in Nat, Suffix(q, s, D),
         NEW n \in Nat, NEW N \in Nat \ {0}, Len(q) <= N,
         NEW r, r = IF Len(q) = N THEN Append(Tail(q), n) ELSE Append(q, n),
         NEW t, t = IF Len(q) = N THEN s + 1 ELSE s
  PROVE  Suffix(r, t, Append(D, n))
<1> DEFINE E == Append(D, n)
<1>1. Len(E) = Len(D) + 1 /\ E[Len(D) + 1] = n /\ \A i \in 1..Len(D) : E[i] = D[i]
  OBVIOUS
<1>2. Len(q) \in Nat /\ Len(D) = s + Len(q) /\ \A i \in 1..Len(q) : q[i] = D[s + i]
  BY DEF Suffix
<1>3. CASE Len(q) = N
  <2>1. t = s + 1 /\ Len(r) = N /\ r[N] = n /\ \A i \in 1..N - 1 : r[i] = q[i + 1]
    BY <1>3, Overflow
  <2>2. ASSUME NEW i \in 1..N - 1 PROVE r[i] = E[t + i]
    <3>1. i + 1 \in 1..Len(q) /\ s + (i + 1) \in 1..Len(D) /\ s + (i + 1) = t + i
      BY <1>2, <1>3, <2>1
    <3> HIDE DEF E
    <3> QED BY <1>1, <1>2, <2>1, <3>1
  <2>3. t + N = Len(D) + 1
    BY <1>2, <1>3, <2>1
  <2>4. \A i \in 1..N : i \in 1..N - 1 \/ i = N
    OBVIOUS
  <2> HIDE DEF E
  <2>5. \A i \in 1..N : r[i] = E[t + i]
    BY <1>1, <2>1, <2>2, <2>3, <2>4
  <2> QED BY <1>1, <2>1, <2>3, <2>5 DEF Suffix, E
<1>4. CASE Len(q) # N
  <2>1. t = s /\ r = Append(q, n) /\ Len(r) = Len(q) + 1 /\ r[Len(q) + 1] = n
        /\ \A i \in 1..Len(q) : r[i] = q[i]
    BY <1>4
  <2>2. ASSUME NEW i \in 1..Len(q) PROVE r[i] = E[t + i]
    <3>1. s + i \in 1..Len(D)
      BY <1>2
    <3> HIDE DEF E
    <3> QED BY <1>1, <1>2, <2>1, <3>1
  <2>3. t + (Len(q) + 1) = Len(D) + 1
    BY <1>2, <2>1
  <2>4. \A i \in 1..Len(q) + 1 : i \in 1..Len(q) \/ i = Len(q) + 1
    BY <1>2
  <2> HIDE DEF E
  <2>5. \A i \in 1..Len(q) + 1 : r[i] = E[t + i]
    BY <1>1, <2>1, <2>2, <2>3, <2>4
  <2> QED BY <1>1, <2>1, <2>3, <2>5 DEF Suffix, E
<1> QED BY <1>3, <1>4

LEMMA SuffixTake ==
  ASSUME NEW q \in Seq(Nat), NEW D \in Seq(Nat), NEW s \in Nat, Suffix(q, s, D), q # <<>>
  PROVE  Suffix(Tail(q), s + 1, D) /\ s < Len(D) /\ Head(q) = D[s + 1]
<1>1. /\ Len(q) \in Nat \ {0} /\ Len(D) = s + Len(q) /\ Head(q) = q[1]
      /\ Len(Tail(q)) = Len(q) - 1 /\ \A i \in 1..Len(q) - 1 : Tail(q)[i] = q[i + 1]
  BY Dequeue DEF Suffix
<1>2. ASSUME NEW i \in 1..Len(q) - 1 PROVE Tail(q)[i] = D[(s + 1) + i]
  <2>1. i + 1 \in 1..Len(q) /\ s + (i + 1) = (s + 1) + i
    BY <1>1
  <2>2. q[i + 1] = D[s + (i + 1)]
    BY <2>1 DEF Suffix
  <2> QED BY <1>1, <2>1, <2>2
<1>3. q[1] = D[s + 1]
  BY <1>1 DEF Suffix
<1> QED BY <1>1, <1>2, <1>3 DEF Suffix

LEMMA Each == Accounted <=> \A c \in Subscribed : AccountedFor(c)
BY Zenon DEF Accounted, AccountedFor, Suffix

LEMMA SubscriberType ==
  ASSUME IInv, NEW c \in Subscribed
  PROVE  /\ c \in Clients /\ queue[c] \in Seq(Nat) /\ due[c] \in Seq(Nat)
         /\ received[c] \in Seq(Nat) /\ dropped[c] \in Nat /\ Len(queue[c]) <= QueueSize
         /\ Len(received[c]) + dropped[c] \in Nat
         /\ AccountedFor(c)
<1>1. AccountedFor(c)
  BY Each DEF IInv
<1> QED BY <1>1 DEF IInv, TypeOK, Subscribed

LEMMA PublishAccounts ==
  ASSUME IInv, NEW k \in Kinds, Publish(k), NEW c \in Subscribed
  PROVE  AccountedFor(c)'
<1> DEFINE seen == Len(received[c]) + dropped[c]
<1>1. /\ c \in Clients /\ queue[c] \in Seq(Nat) /\ due[c] \in Seq(Nat)
      /\ Len(queue[c]) <= QueueSize /\ dropped[c] \in Nat /\ received[c] \in Seq(Nat)
      /\ seen \in Nat /\ Suffix(queue[c], seen, due[c])
  BY SubscriberType DEF AccountedFor
<1>0. published' \in Nat /\ received' = received
  BY BusAssumption DEF IInv, TypeOK, Publish
<1>2. CASE c \notin Targets(k)
  BY <1>0, <1>1, <1>2 DEF Publish, AccountedFor
<1>3. CASE c \in Targets(k)
  <2>1. /\ queue'[c] = Enqueued(c, published') /\ due'[c] = Append(due[c], published')
        /\ dropped'[c] = IF Full(c) THEN dropped[c] + 1 ELSE dropped[c]
    <3>1. queue' = [d \in Clients |-> IF d \in Targets(k) THEN Enqueued(d, published') ELSE queue[d]]
      BY DEF Publish
    <3>2. due' = [d \in Clients |-> IF d \in Targets(k) THEN Append(due[d], published') ELSE due[d]]
      BY DEF Publish
    <3>3. dropped' = [d \in Clients |-> IF d \in Targets(k) /\ Full(d) THEN dropped[d] + 1 ELSE dropped[d]]
      BY DEF Publish
    <3> QED BY <1>1, <1>3, <3>1, <3>2, <3>3, Zenon
  <2>2. Len(received'[c]) + dropped'[c] = IF Full(c) THEN seen + 1 ELSE seen
    <3>1. Len(received'[c]) \in Nat /\ received'[c] = received[c]
      BY <1>0, <1>1
    <3>2. CASE Full(c)
      BY <1>1, <2>1, <3>1, <3>2
    <3>3. CASE ~Full(c)
      BY <1>1, <2>1, <3>1, <3>3
    <3> QED BY <3>2, <3>3
  <2> HIDE DEF seen
  <2> DEFINE n == published'
             r == queue'[c]
             t == Len(received'[c]) + dropped'[c]
  <2>3. n \in Nat /\ due'[c] = Append(due[c], n) /\ QueueSize \in Nat \ {0}
        /\ r = (IF Len(queue[c]) = QueueSize THEN Append(Tail(queue[c]), n) ELSE Append(queue[c], n))
        /\ t = (IF Len(queue[c]) = QueueSize THEN seen + 1 ELSE seen)
    BY <1>0, <2>1, <2>2, BusAssumption DEF Full, Enqueued
  <2>4. AccountedFor(c)' <=> Suffix(r, t, Append(due[c], n))
    BY <2>3 DEF AccountedFor, Suffix
  <2> HIDE DEF n, r, t
  <2>5. Suffix(r, t, Append(due[c], n))
    BY <1>1, <2>3, SuffixPut
  <2> QED BY <2>4, <2>5
<1> QED BY <1>2, <1>3

LEMMA FetchAccounts ==
  ASSUME IInv, NEW c \in Subscribed, Fetch(c), UNCHANGED <<dropped, due>>, NEW d \in Subscribed
  PROVE  AccountedFor(d)'
<1> DEFINE seen == Len(received[c]) + dropped[c]
<1>1. /\ c \in Clients /\ d \in Clients /\ queue[c] \in Seq(Nat) /\ received[c] \in Seq(Nat)
      /\ due[c] \in Seq(Nat) /\ dropped[c] \in Nat /\ AccountedFor(d)
      /\ seen \in Nat /\ Suffix(queue[c], seen, due[c])
  BY SubscriberType DEF AccountedFor
<1>2. CASE queue[c] = <<>> \/ d # c
  BY <1>1, <1>2 DEF Fetch, AccountedFor, IInv, TypeOK
<1>3. CASE queue[c] # <<>> /\ d = c
  <2>1. queue'[c] = Tail(queue[c]) /\ received'[c] = Append(received[c], Head(queue[c]))
    BY <1>1, <1>3 DEF Fetch, IInv, TypeOK
  <2>2. Head(queue[c]) \in Nat
    BY <1>1, <1>3, Dequeue
  <2>3. Len(received'[c]) + dropped'[c] = seen + 1
    BY <1>1, <2>1, <2>2
  <2> HIDE DEF seen
  <2> QED BY <1>1, <1>3, <2>1, <2>3, SuffixTake DEF AccountedFor
<1> QED BY <1>2, <1>3

LEMMA AccountStep == IInv /\ [Next]_vars => Accounted'
<1> SUFFICES ASSUME IInv, [Next]_vars, NEW c \in Clients, phase'[c] \in {"wait", "send", "notice"}
             PROVE  AccountedFor(c)'
  <2>1. (\A c \in Subscribed : AccountedFor(c))' => Accounted'
    BY Each, PTL
  <2> QED BY <2>1 DEF Subscribed
<1>0. c \in Subscribed => AccountedFor(c)
  BY SubscriberType
<1>1. CASE UNCHANGED vars
  BY <1>0, <1>1 DEF vars, subscriber, AccountedFor, Subscribed
<1>2. ASSUME NEW k \in Kinds, Publish(k) PROVE AccountedFor(c)'
  BY <1>2, PublishAccounts DEF Publish, Subscribed
<1>3. ASSUME NEW d \in Clients,
             \/ \E F \in SUBSET Kinds \ {{}} : Connect(d, F)
             \/ SentLagging(d) \/ Hangup(d) \/ SendFails(d)
      PROVE  AccountedFor(c)'
  BY <1>0, <1>3 DEF Connect, SentLagging, Hangup, SendFails, subscriber, AccountedFor, Subscribed,
                    IInv, TypeOK
<1>4. ASSUME NEW d \in Clients, Subscribe(d) PROVE AccountedFor(c)'
  <2>1. CASE c = d
    BY <1>4, <2>1 DEF Subscribe, AccountedFor, Suffix, IInv, TypeOK
  <2>2. CASE c # d
    BY <1>0, <1>4, <2>2 DEF Subscribe, AccountedFor, Subscribed, IInv, TypeOK
  <2> QED BY <2>1, <2>2
<1>5. ASSUME NEW d \in Clients, Wake(d) \/ Sent(d) \/ NoticeSent(d) PROVE AccountedFor(c)'
  <2>1. Fetch(d) /\ UNCHANGED <<dropped, due>> /\ d \in Subscribed
    BY <1>5 DEF Wake, Sent, NoticeSent, Subscribed
  <2>2. c \in Subscribed
    BY <2>1 DEF Fetch, Subscribed, IInv, TypeOK
  <2> QED BY <2>1, <2>2, FetchAccounts
<1> QED BY <1>1, <1>2, <1>3, <1>4, <1>5 DEF Next, Send

\* Taken, dropped and queued events are exactly those a subscriber was due, the
\* queued ones the newest, in order (publish's drop-oldest against queue.get).
THEOREM EveryEventAccounted == Spec => []Accounted
<1>1. IInv /\ [Next]_vars => IInv'
  BY TypeStep, AccountStep DEF IInv
<1>2. IInv => Accounted
  BY DEF IInv
<1> QED BY <1>1, <1>2, InitIInv, PTL DEF Spec
------------------------------------------------------------------------------
(* The refinement *)

LEMMA InitRefines == Init => Feeds!Init
BY DEF Init, Feeds!Init, Subscribed

LEMMA PublishRefines ==
  ASSUME IInv, NEW k \in Kinds, Publish(k)
  PROVE  Feeds!Next
<1>1. published' \in 1..MaxEvents
  BY BusAssumption DEF IInv, TypeOK, Publish
<1>2. Targets(k) \in SUBSET Subscribed
  BY DEF Targets
<1>3. ASSUME NEW c \in Subscribed PROVE Full(c) <=> Feeds!Backlog(c) = QueueSize
  BY SubscriberType, BusAssumption DEF Full, Feeds!Backlog, Feeds!Settled, AccountedFor, Suffix
<1>4. Feeds!Broadcast(published', Targets(k))
  <2>1. due' = [c \in Clients |-> IF c \in Targets(k) THEN Append(due[c], published') ELSE due[c]]
    BY DEF Publish
  <2>2. dropped' = [c \in Clients |-> IF c \in Targets(k) /\ Feeds!Backlog(c) = QueueSize
                                      THEN dropped[c] + 1 ELSE dropped[c]]
    BY <1>2, <1>3 DEF Publish
  <2>3. Subscribed' = Subscribed /\ received' = received
    BY DEF Publish, Subscribed
  <2> QED BY <2>1, <2>2, <2>3 DEF Feeds!Broadcast
<1> QED BY <1>1, <1>2, <1>4 DEF Feeds!Next

LEMMA FetchRefines ==
  ASSUME IInv, NEW c \in Subscribed, Fetch(c), UNCHANGED <<dropped, due>>
  PROVE  Feeds!Next \/ UNCHANGED Feeds!feeds
<1>0. c \in Clients /\ Subscribed' = Subscribed
  BY DEF Fetch, Subscribed, IInv, TypeOK
<1>1. CASE queue[c] = <<>>
  BY <1>0, <1>1 DEF Fetch, Feeds!feeds
<1>2. CASE queue[c] # <<>>
  <2>1. Feeds!Settled(c) < Len(due[c]) /\ Head(queue[c]) = due[c][Feeds!Settled(c) + 1]
    BY <1>2, SubscriberType, SuffixTake DEF Feeds!Settled, AccountedFor
  <2>2. Feeds!Backlog(c) > 0
    BY <2>1, SubscriberType DEF Feeds!Backlog, Feeds!Settled
  <2>3. Feeds!Take(c)
    BY <1>0, <1>2, <2>1, <2>2 DEF Fetch, Feeds!Take
  <2> QED BY <1>0, <2>3 DEF Feeds!Next
<1> QED BY <1>1, <1>2

LEMMA HandlerRefines ==
  ASSUME IInv, NEW c \in Clients,
         \/ \E F \in SUBSET Kinds \ {{}} : Connect(c, F)
         \/ Subscribe(c) \/ Wake(c) \/ Send(c) \/ Hangup(c) \/ SendFails(c)
  PROVE  Feeds!Next \/ UNCHANGED Feeds!feeds
<1>1. CASE Subscribe(c)
  <2>1. c \notin Subscribed /\ Subscribed' = Subscribed \cup {c}
    BY <1>1 DEF Subscribe, Subscribed, IInv, TypeOK
  <2> QED BY <1>1, <2>1 DEF Subscribe, Feeds!Next, Feeds!Open
<1>2. CASE SendFails(c)
  <2>1. Subscribed' = Subscribed \ {c}
    BY <1>2 DEF SendFails, Subscribed, IInv, TypeOK
  <2>2. CASE c \in Subscribed
    BY <1>2, <2>1, <2>2 DEF SendFails, subscriber, Feeds!Next, Feeds!Close
  <2>3. CASE c \notin Subscribed
    BY <1>2, <2>1, <2>3 DEF SendFails, subscriber, Feeds!feeds
  <2> QED BY <2>2, <2>3
<1>3. CASE Wake(c) \/ Sent(c) \/ NoticeSent(c)
  <2>1. Fetch(c) /\ UNCHANGED <<dropped, due>> /\ c \in Subscribed
    BY <1>3 DEF Wake, Sent, NoticeSent, Subscribed
  <2> QED BY <2>1, FetchRefines
<1>4. CASE (\E F \in SUBSET Kinds \ {{}} : Connect(c, F)) \/ SentLagging(c) \/ Hangup(c)
  <2>1. Subscribed' = Subscribed
    BY <1>4 DEF Connect, SentLagging, Hangup, Subscribed, IInv, TypeOK
  <2> QED BY <1>4, <2>1 DEF Connect, SentLagging, Hangup, subscriber, Feeds!feeds
<1> QED BY <1>1, <1>2, <1>3, <1>4 DEF Send

\* The bus implements the lossy feeds: however publishers, subscribers and slow
\* sends interleave, a handler gets its events in order and without repeats, and
\* those it misses are counted and were the oldest of a full queue.
THEOREM BusImplementsFeeds == Spec => FeedSpec
<1>1. IInv /\ [Next]_vars => IInv'
  BY TypeStep, AccountStep DEF IInv
<1>2. IInv /\ [Next]_vars => [Feeds!Next]_Feeds!feeds
  <2> SUFFICES ASSUME IInv, [Next]_vars PROVE Feeds!Next \/ UNCHANGED Feeds!feeds
    OBVIOUS
  <2>1. CASE UNCHANGED vars
    BY <2>1 DEF vars, subscriber, Feeds!feeds, Subscribed
  <2> QED BY <2>1, PublishRefines, HandlerRefines DEF Next
<1> QED BY <1>1, <1>2, InitIInv, InitRefines, PTL DEF Spec, FeedSpec, Feeds!Spec
==============================================================================
