----------------------------- MODULE NatsPublisher -----------------------------
(***************************************************************************)
(* KAI-C's publisher of inference events (kai_c/nats_publisher.py): calls  *)
(* of publish_inference_completed that share one cached connection, made   *)
(* under a lock when there is none, and the close at shutdown.             *)
(*                                                                         *)
(* Connections are numbered as they are made; 0 is None.                   *)
(***************************************************************************)
EXTENDS Naturals

CONSTANTS
  Calls,          \* how many publishes are under way at a time is bounded by this set
  MaxConnections  \* bound on the connections made

VARIABLES
  cached,    \* _client
  made,      \* connections made so far
  holder,    \* who holds _connect_lock, "none" if nobody does
  call,      \* call[k]: where the publish is, and the connection it sends on
  closing,   \* close: not called, draining a connection, or over
  released,  \* connections that were drained and closed
  dropped    \* connections that a failed publish has let go of, still open

vars == <<cached, made, holder, call, closing, released, dropped>>

Idle == [at |-> "idle", on |-> 0]
------------------------------------------------------------------------------
TypeOK ==
  /\ cached \in 0..made /\ made \in 0..MaxConnections
  /\ holder \in Calls \cup {"none"}
  /\ call \in [Calls -> [at : {"idle", "lock", "connect", "publish"}, on : 0..made]]
  /\ closing \in [at : {"no", "drain", "closed"}, on : 0..made]
  /\ released \subseteq 1..made /\ dropped \subseteq 1..made

\* start has connected, or it has failed and KAI-C serves without
Init ==
  /\ made \in 0..1 /\ made <= MaxConnections
  /\ cached = made
  /\ holder = "none"
  /\ call = [k \in Calls |-> Idle]
  /\ closing = [at |-> "no", on |-> 0]
  /\ released = {} /\ dropped = {}
------------------------------------------------------------------------------
\* Counted as published or as failed
Ends(k) == call' = [call EXCEPT ![k] = Idle]

Sends(k, c) == call' = [call EXCEPT ![k] = [at |-> "publish", on |-> c]]

\* publish_inference_completed: on the cached connection, or after _ensure_connected
Publish(k) ==
  /\ call[k] = Idle
  /\ IF cached # 0 THEN Sends(k, cached) ELSE call' = [call EXCEPT ![k].at = "lock"]
  /\ UNCHANGED <<cached, made, holder, closing, released, dropped>>

\* Mutant: whoever gets the lock connects
LockedConnectsAnyway(k) ==
  /\ call[k].at = "lock" /\ holder = "none"
  /\ holder' = k
  /\ call' = [call EXCEPT ![k].at = "connect"]
  /\ UNCHANGED <<cached, made, closing, released, dropped>>

\* Another call may have connected while this one waited for the lock
Locked(k) ==
  /\ call[k].at = "lock" /\ holder = "none"
  /\ IF cached # 0
     THEN Sends(k, cached) /\ UNCHANGED holder
     ELSE holder' = k /\ call' = [call EXCEPT ![k].at = "connect"]
  /\ UNCHANGED <<cached, made, closing, released, dropped>>

\* nats.connect answers within its timeout, or fails; close is not looked at
Connected(k) ==
  /\ call[k].at = "connect"
  /\ holder' = "none"
  /\ \/ /\ made < MaxConnections
        /\ made' = made + 1
        /\ cached' = made'
        /\ Sends(k, made')
     \/ Ends(k) /\ UNCHANGED <<cached, made>>
  /\ UNCHANGED <<closing, released, dropped>>

\* A failure drops whatever connection is cached by now, and closes none
Published(k) ==
  /\ call[k].at = "publish"
  /\ Ends(k)
  /\ \/ UNCHANGED <<cached, dropped>>
     \/ cached' = 0 /\ dropped' = dropped \cup ({cached} \ {0})
  /\ UNCHANGED <<made, holder, closing, released>>

\* The handler's request is cancelled: no counter
CallCancelled(k) ==
  /\ call[k] # Idle
  /\ call' = [call EXCEPT ![k] = Idle]
  /\ holder' = IF holder = k THEN "none" ELSE holder
  /\ UNCHANGED <<cached, made, closing, released, dropped>>

\* close, in the shutdown hook: drain or close, and then None
Close ==
  /\ closing.at = "no"
  /\ closing' = IF cached = 0 THEN [at |-> "closed", on |-> 0] ELSE [at |-> "drain", on |-> cached]
  /\ UNCHANGED <<cached, made, holder, call, released, dropped>>

Closed ==
  /\ closing.at = "drain"
  /\ closing' = [at |-> "closed", on |-> 0]
  /\ released' = released \cup {closing.on}
  /\ cached' = 0
  /\ dropped' = (dropped \cup {cached}) \ {0, closing.on}
  /\ UNCHANGED <<made, holder, call>>

Next ==
  \/ \E k \in Calls : Publish(k) \/ Locked(k) \/ Connected(k) \/ Published(k) \/ CallCancelled(k)
  \/ Close \/ Closed

Spec == Init /\ [][Next]_vars
------------------------------------------------------------------------------
\* However calls and failures interleave there is one connection in use: each that
\* was made is cached, was closed, or was let go of by a failed publish or a close.
\* Two calls that find none do not both connect.
ConnectionsAreHeld == 1..made = ({cached} \ {0}) \cup released \cup dropped
==============================================================================
