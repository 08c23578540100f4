------------------------------ MODULE AlertChannel ------------------------------
(***************************************************************************)
(* The SDK's NatsAlertChannel (opennvr_app_sdk/alerts.py): senders of any  *)
(* thread have their alert published by a coroutine on an event loop, that *)
(* runs in a thread of its own; close stops that thread, and the next send *)
(* is to start another.                                                    *)
(*                                                                         *)
(* Loops and clients are numbered as they are made; 0 is None.  A loop is  *)
(* made with a thread and a _connect_lock of its number.  A sender that    *)
(* gives up after its budget leaves its coroutine as it is: the model does *)
(* not say whether anybody still waits for it.                             *)
(***************************************************************************)
EXTENDS Integers, Sequences

CONSTANTS
  Sends,       \* how many alerts are under way at a time is bounded by this set
  MaxLoops,    \* bound on the loops made
  MaxClients   \* bound on the connections made

ChannelAssumption == MaxLoops \in Nat \ {0} /\ MaxClients \in Nat /\ "none" \notin Sends

VARIABLES
  loop,     \* _loop, with _thread and _connect_lock
  loops,    \* loops made so far
  stopped,  \* the loops that do not run: stopped, or their thread was never started
  cached,   \* _nc
  owner,    \* owner[c]: the loop on which client c was connected
  lock,     \* lock[l]: who holds the lock of loop l, the loop a wait has bound it to, and
            \* whether a coroutine that no longer runs was left waiting for it
  send,     \* send[s]: where the alert is, its loop, the lock and the client it uses
  closing,  \* close: not called, draining a client, or about to stop a loop
  drained,  \* clients that were drained
  dropped,  \* clients let go of by a failure, or replaced where one of the two is late
  late      \* history: clients that were connected after a close had let go of their loop

vars == <<loop, loops, stopped, cached, owner, lock, send, closing, drained, dropped, late>>

Loops   == 1..loops
Clients == 1..Len(owner)
Idle    == [at |-> "idle", loop |-> 0, lock |-> 0, on |-> 0]
Free    == [holder |-> "none", bound |-> 0, left |-> FALSE]
------------------------------------------------------------------------------
TypeOK ==
  /\ loops \in 0..MaxLoops /\ loop \in 0..loops /\ stopped \subseteq Loops
  /\ owner \in Seq(Loops) /\ Len(owner) <= MaxClients /\ cached \in 0..Len(owner)
  /\ lock \in [1..MaxLoops -> [holder : Sends \cup {"none"}, bound : 0..loops, left : BOOLEAN]]
  /\ send \in [Sends -> [at : {"idle", "ensured", "scheduled", "wait", "connect", "send", "publish"},
                         loop : 0..loops, lock : 0..loops, on : 0..Len(owner)]]
  /\ closing \in [at : {"no", "drain", "stop"}, loop : 0..loops, on : 0..Len(owner)]
  /\ drained \cup dropped \cup late \subseteq Clients

Init ==
  /\ loop = 0 /\ loops = 0 /\ stopped = {}
  /\ cached = 0 /\ owner = <<>>
  /\ lock = [l \in 1..MaxLoops |-> Free]
  /\ send = [s \in Sends |-> Idle]
  /\ closing = [at |-> "no", loop |-> 0, on |-> 0]
  /\ drained = {} /\ dropped = {} /\ late = {}
------------------------------------------------------------------------------
Ends(s)     == send' = [send EXCEPT ![s] = Idle]
Goes(s, at) == send' = [send EXCEPT ![s].at = at]

\* _nc = None after a failure: the client is not closed
LetsGo == cached' = 0 /\ dropped' = dropped \cup ({cached} \ {0})

NewLoop == loop = 0 /\ loops < MaxLoops /\ loops' = loops + 1 /\ loop' = loops'

\* send, _ensure_thread: under the channel's lock
Ensure(s) ==
  /\ send[s] = Idle
  /\ NewLoop \/ (loop # 0 /\ UNCHANGED <<loop, loops>>)
  /\ Goes(s, "ensured")
  /\ UNCHANGED <<stopped, cached, owner, lock, closing, drained, dropped, late>>

\* No loop can be made, or its thread does not start: the loop is kept then, and
\* what is scheduled on it never runs
EnsureFails(s) ==
  /\ send[s] = Idle /\ loop = 0
  /\ \/ NewLoop /\ stopped' = stopped \cup {loops'}
     \/ UNCHANGED <<loop, loops, stopped>>
  /\ UNCHANGED <<send, cached, owner, lock, closing, drained, dropped, late>>

\* send reads _loop again, without the lock; its assertion fails if a close has come
\* between, and on a loop that does not run nothing happens
Schedule(s) ==
  /\ send[s].at = "ensured"
  /\ IF loop \in {0} \cup stopped
     THEN Ends(s)
     ELSE send' = [send EXCEPT ![s] = [Idle EXCEPT !.at = "scheduled", !.loop = loop]]
  /\ UNCHANGED <<loop, loops, stopped, cached, owner, lock, closing, drained, dropped, late>>

Waiters(l) == {s \in Sends : send[s].at = "wait" /\ send[s].lock = l}

\* async with _connect_lock: at once, or after a wait that binds the lock to a loop;
\* a wait on another loop than that raises
Acquires(s, l) ==
  IF lock[l].holder = "none" /\ Waiters(l) = {} /\ ~lock[l].left
  THEN /\ lock' = [lock EXCEPT ![l].holder = s]
       /\ send' = [send EXCEPT ![s].at = "connect", ![s].lock = l]
  ELSE IF lock[l].bound \in {0, send[s].loop}
       THEN /\ lock' = [lock EXCEPT ![l].bound = send[s].loop]
            /\ send' = [send EXCEPT ![s].at = "wait", ![s].lock = l]
       ELSE Ends(s) /\ UNCHANGED lock

\* _publish_once begins: the lock is that of the loop that is current by now, or None
Begin(s) ==
  /\ send[s].at = "scheduled"
  /\ IF loop = 0 THEN Ends(s) /\ UNCHANGED lock
     ELSE IF cached # 0 THEN Goes(s, "send") /\ UNCHANGED lock
     ELSE Acquires(s, loop)
  /\ UNCHANGED <<loop, loops, stopped, cached, owner, closing, drained, dropped, late>>

\* Mutant: whoever gets the lock connects
LockedConnectsAgain(s) ==
  /\ send[s].at = "wait"
  /\ lock[send[s].lock].holder = "none"
  /\ lock' = [lock EXCEPT ![send[s].lock].holder = s] /\ Goes(s, "connect")
  /\ UNCHANGED <<loop, loops, stopped, cached, owner, closing, drained, dropped, late>>

\* Another send may have connected while this one waited
Locked(s) ==
  /\ send[s].at = "wait"
  /\ lock[send[s].lock].holder = "none"
  /\ IF cached # 0
     THEN Goes(s, "send") /\ UNCHANGED lock
     ELSE lock' = [lock EXCEPT ![send[s].lock].holder = s] /\ Goes(s, "connect")
  /\ UNCHANGED <<loop, loops, stopped, cached, owner, closing, drained, dropped, late>>

\* nats.connect answers or fails; whether the channel still has this loop is not looked at
Connected(s) ==
  /\ send[s].at = "connect"
  /\ lock' = [lock EXCEPT ![send[s].lock].holder = "none"]
  /\ \/ /\ Len(owner) < MaxClients
        /\ owner' = Append(owner, send[s].loop)
        /\ cached' = Len(owner')
        /\ late' = IF send[s].loop = loop THEN late ELSE late \cup {cached'}
        /\ dropped' = dropped \cup (IF {cached, cached'} \cap late' = {} THEN {} ELSE {cached} \ {0})
        /\ Goes(s, "send")
     \/ LetsGo /\ Ends(s) /\ UNCHANGED <<owner, late>>
  /\ UNCHANGED <<loop, loops, stopped, closing, drained>>

\* _nc is read again: None by now fails like a publish that fails
Send(s) ==
  /\ send[s].at = "send"
  /\ IF cached = 0 THEN Ends(s) ELSE send' = [send EXCEPT ![s].at = "publish", ![s].on = cached]
  /\ UNCHANGED <<loop, loops, stopped, cached, owner, lock, closing, drained, dropped, late>>

\* A failure lets go of whatever client is cached by now
Published(s) ==
  /\ send[s].at = "publish"
  /\ Ends(s)
  /\ \/ send[s].on \notin drained /\ UNCHANGED <<cached, dropped>>
     \/ LetsGo
  /\ UNCHANGED <<loop, loops, stopped, owner, lock, closing, drained, late>>
------------------------------------------------------------------------------
\* Mutant: close forgets the loop and keeps the client
CloseKeepsClient ==
  /\ closing.at = "no" /\ loop # 0
  /\ closing' = [at |-> IF cached = 0 THEN "stop" ELSE "drain", loop |-> loop, on |-> cached]
  /\ loop' = 0
  /\ UNCHANGED <<loops, stopped, cached, owner, lock, send, drained, dropped, late>>

\* close, under the channel's lock: all four attributes are None from here
Close ==
  /\ closing.at = "no" /\ loop # 0
  /\ closing' = [at |-> IF cached = 0 THEN "stop" ELSE "drain", loop |-> loop, on |-> cached]
  /\ loop' = 0 /\ cached' = 0
  /\ UNCHANGED <<loops, stopped, owner, lock, send, drained, dropped, late>>

\* The drain runs on the loop, and may fail or take longer than close waits
Drained ==
  /\ closing.at = "drain"
  /\ closing' = [closing EXCEPT !.at = "stop", !.on = 0]
  /\ \/ closing.loop \notin stopped /\ drained' = drained \cup {closing.on} /\ UNCHANGED dropped
     \/ dropped' = dropped \cup {closing.on} /\ UNCHANGED drained
  /\ UNCHANGED <<loop, loops, stopped, cached, owner, lock, send, late>>

Abandoned == {s \in Sends : send[s].loop = closing.loop}

\* loop.stop: its coroutines never go on, and keep the lock they hold or wait for
Stop ==
  /\ closing.at = "stop"
  /\ closing' = [at |-> "no", loop |-> 0, on |-> 0]
  /\ stopped' = stopped \cup {closing.loop}
  /\ send' = [s \in Sends |-> IF s \in Abandoned THEN Idle ELSE send[s]]
  /\ lock' = [l \in 1..MaxLoops |->
                [lock[l] EXCEPT !.left = @ \/ Waiters(l) \cap Abandoned # {}]]
  /\ UNCHANGED <<loop, loops, cached, owner, drained, dropped, late>>

Next ==
  \/ \E s \in Sends : \/ Ensure(s) \/ EnsureFails(s) \/ Schedule(s) \/ Begin(s) \/ Locked(s)
                      \/ Connected(s) \/ Send(s) \/ Published(s)
  \/ Close \/ Drained \/ Stop

Spec == Init /\ [][Next]_vars
------------------------------------------------------------------------------
\* The next send after a close does not publish on a client of a loop that was
\* stopped: the client the channel keeps is one of its current loop, unless its
\* connect outlived the close of its loop.
ClientIsOfTheLoop == cached # 0 => owner[cached] = loop \/ cached \in late

\* Two sends that find no client do not both connect: every client is kept, being
\* drained, was drained or was let go of, and a client is replaced by another only
\* if the connect of one of the two outlived a close.
ClientsAreHeld == Clients = ({cached, closing.on} \ {0}) \cup drained \cup dropped
==============================================================================
