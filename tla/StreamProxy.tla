------------------------------ MODULE StreamProxy ------------------------------
(***************************************************************************)
(* A session of KAI-C's stream proxy (kai_c/stream_proxy.py): the task     *)
(* that runs it, its two pumps, the sockets on both sides and what it      *)
(* leaves in the audit log.                                                *)
(*                                                                         *)
(* A step is what a task does between two awaits.  The run may be          *)
(* cancelled at any of its awaits.  The adapter's messages are counted,    *)
(* and are all results; those of the client are not told apart.            *)
(***************************************************************************)
EXTENDS Naturals

CONSTANTS MaxResults  \* bound on the results an adapter sends

VARIABLES
  run,       \* where the run is
  upstream,  \* the adapter's socket: open says the proxy holds it, ended how the adapter left
  client,    \* the client's: waiting for the upgrade, open, gone by itself, or closed
  toClient,  \* the pump of the adapter's messages
  toAdapter, \* the pump of the client's messages
  captured,  \* _upstream_close_code is one of a failure
  audit,     \* the session's events: failed, opened and the reason it was closed
  results,   \* sent by the adapter, and read (and broadcast) by the pump
  excused,   \* history: the ways out on which the upstream is not closed
  blamed     \* history: at the run's wake the adapter had failed, its pump had ended, the client was there

history == <<excused, blamed>>
sockets == <<upstream, client>>
pumps   == <<toClient, toAdapter, captured, results>>
vars    == <<run, sockets, pumps, audit, history>>

PumpStates == {"off", "reading", "sending", "ended", "raised", "cancelled"}
Over == {"ended", "raised"}
------------------------------------------------------------------------------
TypeOK ==
  /\ run \in {"connect", "accept", "pump", "drain", "close_upstream", "close_client", "done"}
  /\ upstream \in [open : BOOLEAN, ended : {"no", "normal", "error"}]
  /\ client \in {"waiting", "open", "gone", "closed"}
  /\ toClient \in PumpStates /\ toAdapter \in PumpStates
  /\ captured \in BOOLEAN
  /\ audit \in [failed : BOOLEAN, opened : 0..1, closed : 0..1,
                reason : {"none", "normal", "exception", "upstream_close"}]
  /\ results \in [sent : 0..MaxResults, read : 0..MaxResults]
  /\ excused \in BOOLEAN /\ blamed \in BOOLEAN

Init ==
  /\ run = "connect"
  /\ upstream = [open |-> FALSE, ended |-> "no"]
  /\ client = "waiting"
  /\ toClient = "off" /\ toAdapter = "off"
  /\ captured = FALSE
  /\ audit = [failed |-> FALSE, opened |-> 0, closed |-> 0, reason |-> "none"]
  /\ results = [sent |-> 0, read |-> 0]
  /\ excused = FALSE /\ blamed = FALSE
------------------------------------------------------------------------------
(* run, to the pumps *)

\* The adapter is there; it is not, which is audited and closes the client; or it
\* refuses the handshake, with an exception run does not catch
Connect ==
  /\ run = "connect"
  /\ \/ /\ upstream' = [upstream EXCEPT !.open = TRUE]
        /\ run' = "accept"
        /\ UNCHANGED <<client, audit>>
     \/ /\ audit' = [audit EXCEPT !.failed = TRUE]
        /\ client' = "closed"
        /\ run' = "done"
        /\ UNCHANGED upstream
     \/ run' = "done" /\ UNCHANGED <<upstream, client, audit>>
  /\ UNCHANGED <<pumps, history>>

\* Mutant: the session is audited as opened before the client is accepted
AcceptAuditsFirst ==
  /\ run = "accept"
  /\ audit' = [audit EXCEPT !.opened = 1]
  /\ IF client = "gone"
     THEN run' = "done" /\ excused' = TRUE /\ UNCHANGED <<client, toClient, toAdapter>>
     ELSE /\ client' = "open"
          /\ toClient' = "reading" /\ toAdapter' = "reading"
          /\ run' = "pump"
          /\ UNCHANGED excused
  /\ UNCHANGED <<upstream, captured, results, blamed>>

\* A client that is gone makes accept raise, and the upstream stays open
Accept ==
  /\ run = "accept"
  /\ IF client = "gone"
     THEN run' = "done" /\ excused' = TRUE /\ UNCHANGED <<client, toClient, toAdapter, audit>>
     ELSE /\ client' = "open"
          /\ audit' = [audit EXCEPT !.opened = 1]
          /\ toClient' = "reading" /\ toAdapter' = "reading"
          /\ run' = "pump"
          /\ UNCHANGED excused
  /\ UNCHANGED <<upstream, captured, results, blamed>>
------------------------------------------------------------------------------
(* The peers *)

AdapterSends ==
  /\ upstream.open /\ upstream.ended = "no"
  /\ results.sent < MaxResults
  /\ results' = [results EXCEPT !.sent = @ + 1]
  /\ UNCHANGED <<run, sockets, toClient, toAdapter, captured, audit, history>>

AdapterLeaves ==
  /\ upstream.open /\ upstream.ended = "no"
  /\ \E how \in {"normal", "error"} : upstream' = [upstream EXCEPT !.ended = how]
  /\ UNCHANGED <<run, client, pumps, audit, history>>

ClientLeaves ==
  /\ client \in {"waiting", "open"}
  /\ client' = "gone"
  /\ UNCHANGED <<run, upstream, pumps, audit, history>>
------------------------------------------------------------------------------
(* The pumps *)

\* A result is read, scheduled for NATS, and then sent
ReadResult ==
  /\ toClient = "reading" /\ upstream.open /\ results.read < results.sent
  /\ results' = [results EXCEPT !.read = @ + 1]
  /\ toClient' = "sending"
  /\ UNCHANGED <<run, sockets, toAdapter, captured, audit, history>>

\* A client that is gone is a WebSocketDisconnect, or an exception of another kind
RelayResult ==
  /\ toClient = "sending"
  /\ IF client = "open" THEN toClient' = "reading" ELSE toClient' \in Over
  /\ UNCHANGED <<run, sockets, toAdapter, captured, results, audit, history>>

\* What was received before the close is read first
AdapterGone ==
  /\ toClient = "reading"
  /\ ~upstream.open \/ (upstream.ended # "no" /\ results.read = results.sent)
  /\ toClient' = "ended"
  /\ captured' = (upstream.ended = "error")
  /\ UNCHANGED <<run, sockets, toAdapter, results, audit, history>>

ReceiveFromClient ==
  /\ toAdapter = "reading"
  /\ toAdapter' = IF client = "open" THEN "sending" ELSE "ended"
  /\ UNCHANGED <<run, sockets, toClient, captured, results, audit, history>>

\* ConnectionClosed is a return here, without its code
SendToAdapter ==
  /\ toAdapter = "sending"
  /\ toAdapter' = IF upstream.open /\ upstream.ended = "no" THEN "reading" ELSE "ended"
  /\ UNCHANGED <<run, sockets, toClient, captured, results, audit, history>>
------------------------------------------------------------------------------
(* run, from the pumps on *)

Blamed == upstream.ended = "error" /\ toClient = "ended" /\ client = "open"

Cancelled(pump) == IF pump \in Over THEN pump ELSE "cancelled"

\* Mutant: the run waits for both pumps
PumpEndsWithBoth ==
  /\ run = "pump"
  /\ toClient \in Over /\ toAdapter \in Over
  /\ run' = "drain"
  /\ UNCHANGED <<sockets, pumps, audit, history>>

\* FIRST_COMPLETED: the other pump is cancelled
PumpEnds ==
  /\ run = "pump"
  /\ toClient \in Over \/ toAdapter \in Over
  /\ run' = "drain"
  /\ toClient' = Cancelled(toClient) /\ toAdapter' = Cancelled(toAdapter)
  /\ blamed' = Blamed
  /\ UNCHANGED <<sockets, captured, results, audit, excused>>

Reason(raised) ==
  CASE raised   -> "exception"
    [] ~raised /\ captured -> "upstream_close"
    [] OTHER    -> "normal"

\* The event is written before the sockets are closed
Close(raised) ==
  /\ audit' = [audit EXCEPT !.closed = @ + 1, !.reason = Reason(raised)]
  /\ run' = "close_upstream"

Drained ==
  /\ run = "drain"
  /\ Close(toClient = "raised" \/ toAdapter = "raised")
  /\ UNCHANGED <<sockets, pumps, history>>

\* Each close is given a second
CloseUpstream ==
  /\ run = "close_upstream"
  /\ \/ upstream' = [upstream EXCEPT !.open = FALSE] /\ UNCHANGED excused
     \/ excused' = TRUE /\ UNCHANGED upstream
  /\ run' = "close_client"
  /\ UNCHANGED <<client, pumps, audit, blamed>>

CloseClient ==
  /\ run = "close_client"
  /\ client' \in {client, "closed"}
  /\ run' = "done"
  /\ UNCHANGED <<upstream, pumps, audit, history>>

\* Cancelled while the pumps are at work, the run goes through its finally and
\* leaves them to themselves; a cancellation of the drain is swallowed
Cancel ==
  \/ /\ run \in {"connect", "accept"}
     /\ run' = "done"
     /\ excused' = TRUE
     /\ UNCHANGED <<sockets, pumps, audit, blamed>>
  \/ /\ run = "pump"
     /\ Close(FALSE)
     /\ blamed' = Blamed
     /\ UNCHANGED <<sockets, pumps, excused>>
  \/ /\ run \in {"close_upstream", "close_client"}
     /\ run' = "done"
     /\ excused' = (excused \/ run = "close_upstream")
     /\ UNCHANGED <<sockets, pumps, audit, blamed>>

Pumps == ReadResult \/ RelayResult \/ AdapterGone \/ ReceiveFromClient \/ SendToAdapter
Run   == Connect \/ Accept \/ PumpEnds \/ Drained \/ CloseUpstream \/ CloseClient
Next  == Run \/ Pumps \/ AdapterSends \/ AdapterLeaves \/ ClientLeaves \/ Cancel

Spec == Init /\ [][Next]_vars

\* The loop runs its tasks, and no peer blocks a send for ever: a socket that does
\* not answer its pings is closed
Fairness ==
  /\ WF_vars(Run)
  /\ WF_vars(ReadResult) /\ WF_vars(RelayResult) /\ WF_vars(AdapterGone)
  /\ WF_vars(ReceiveFromClient) /\ WF_vars(SendToAdapter)
FairSpec == Spec /\ Fairness
------------------------------------------------------------------------------
\* "Every opened session has a closed event you can read immediately after the WS
\* returns", wherever a peer leaves and the run is cancelled; and no session is
\* closed that was not opened.
OpenedIsClosed ==
  /\ audit.closed <= audit.opened
  /\ run \in {"close_upstream", "close_client", "done"} => audit.closed = audit.opened

\* A session that ends because the adapter failed is audited as that.  Where the
\* client's pump ends before the adapter's has seen the close, the code is lost.
FailureIsAudited == audit.closed = 1 /\ blamed => audit.reason = "upstream_close"

\* Once one side has left, the session ends.
SessionEnds ==
  (run = "pump" /\ (client = "gone" \/ upstream.ended # "no")) ~> run = "done"

\* The upstream is not left open, but by a client that leaves before it is
\* accepted, by a close that takes too long, or by a cancellation.
UpstreamIsClosed == run = "done" /\ upstream.open => excused

\* What a session leaves behind is in order, wherever it ended: all of the above.
SessionIsSettled == OpenedIsClosed /\ FailureIsAudited /\ UpstreamIsClosed
==============================================================================
