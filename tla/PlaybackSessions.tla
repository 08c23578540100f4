--------------------------- MODULE PlaybackSessions ---------------------------
(***************************************************************************)
(* The table of HLS playback sessions (services/hls_playback_service.py    *)
(* with the routes of routers/recordings.py), for one user.                *)
(*                                                                         *)
(* create_session suspends between the two times it holds the lock, for    *)
(* MediaMTX's answer and for a thread that reads the file.                 *)
(***************************************************************************)
EXTENDS Naturals, Sequences, FiniteSets, SequencesExt, Lists

CONSTANTS
  Creators,     \* how many creations are under way at a time is bounded by this set
  Ids,          \* session ids still to be drawn
  MaxSessions   \* MAX_SESSIONS_PER_USER

VARIABLES
  sessions,  \* _sessions: the ids it holds
  mine,      \* _user_sessions of the user, oldest first
  creator,   \* creator[k]: the id a creation under way has drawn
  expired    \* ids whose expires_at is past; a creation takes its time before it suspends

vars == <<sessions, mine, creator, expired>>

Creating == {k \in Creators : creator[k] # "none"}
Drawn    == sessions \cup {creator[k] : k \in Creating} \cup expired
------------------------------------------------------------------------------
TypeOK ==
  /\ sessions \subseteq Ids
  /\ mine \in Seq(Ids)
  /\ creator \in [Creators -> Ids \cup {"none"}]
  /\ expired \subseteq Ids

Init ==
  /\ sessions = {}
  /\ mine = << >>
  /\ creator = [k \in Creators |-> "none"]
  /\ expired = {}

\* Mutant: room is made only for who has more than the limit
BeginOneTooMany(k, i) ==
  /\ creator[k] = "none" /\ i \notin Drawn
  /\ IF Len(mine) > MaxSessions
     THEN mine' = Tail(mine) /\ sessions' = sessions \ {Head(mine)}
     ELSE UNCHANGED <<mine, sessions>>
  /\ creator' = [creator EXCEPT ![k] = i]
  /\ UNCHANGED expired

\* create_session to its call of MediaMTX: one session, the oldest, makes room
Begin(k, i) ==
  /\ creator[k] = "none" /\ i \notin Drawn
  /\ IF Len(mine) >= MaxSessions
     THEN mine' = Tail(mine) /\ sessions' = sessions \ {Head(mine)}
     ELSE UNCHANGED <<mine, sessions>>
  /\ creator' = [creator EXCEPT ![k] = i]
  /\ UNCHANGED expired

\* ... and from the answer on: the session is stored, also if there is no recording
\* (404) or no file to index
Store(k) ==
  /\ creator[k] # "none"
  /\ sessions' = sessions \cup {creator[k]}
  /\ mine' = Append(mine, creator[k])
  /\ creator' = [creator EXCEPT ![k] = "none"]
  /\ UNCHANGED expired

\* The request is cancelled while it waits: the room it made stays
CreateCancelled(k) ==
  /\ creator[k] # "none"
  /\ creator' = [creator EXCEPT ![k] = "none"]
  /\ UNCHANGED <<sessions, mine, expired>>

TimePasses(i) ==
  /\ i \in Drawn \ expired
  /\ expired' = expired \cup {i}
  /\ UNCHANGED <<sessions, mine, creator>>

\* The user's list without some of its sessions
Without(gone) == Kept(mine, {n \in DOMAIN mine : mine[n] \notin gone})

\* Mutant: the user's list keeps what expired
CleanupLeavesList ==
  /\ sessions \cap expired # {}
  /\ sessions' = sessions \ expired
  /\ UNCHANGED <<mine, creator, expired>>

\* _cleanup_expired_sessions
Cleanup ==
  /\ sessions \cap expired # {}
  /\ sessions' = sessions \ expired
  /\ mine' = Without(sessions \cap expired)
  /\ UNCHANGED <<creator, expired>>

\* delete_hls_session and invalidate_session
Invalidate(i) ==
  /\ i \in sessions
  /\ sessions' = sessions \ {i}
  /\ mine' = Without({i})
  /\ UNCHANGED <<creator, expired>>

ServerRestarts ==
  /\ sessions' = {} /\ mine' = << >>
  /\ creator' = [k \in Creators |-> "none"]
  /\ expired' = {}

Next ==
  \/ \E k \in Creators : (\E i \in Ids : Begin(k, i)) \/ Store(k) \/ CreateCancelled(k)
  \/ \E i \in Ids : TimePasses(i) \/ Invalidate(i)
  \/ Cleanup \/ ServerRestarts

Spec == Init /\ [][Next]_vars
------------------------------------------------------------------------------
\* The table and the user's list name the same sessions, each once, whatever
\* creations, evictions, deletions and cleanups interleave: nothing stays in one
\* of them that the other has lost, where it would never be evicted or would take
\* the place of a live session.
ListMatchesTable ==
  /\ ToSet(mine) = sessions
  /\ \A k, l \in DOMAIN mine : mine[k] = mine[l] => k = l
  /\ \A k \in Creating : creator[k] \notin sessions

\* MAX_SESSIONS_PER_USER holds but for the creations that are under way at once:
\* each counts the sessions before it suspends and stores its own after, so that
\* n of them may leave n - 1 sessions too many, and no more however often they
\* come.
LimitButForRaces ==
  Len(mine) + Cardinality(Creating) <= MaxSessions - 1 + Cardinality(Creators)
==============================================================================
