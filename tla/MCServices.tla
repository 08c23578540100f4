------------------------------ MODULE MCServices ------------------------------
(* Instances for TLC of six components that share no state: a behaviour is    *)
(* one of the component that world names, and the others stay as they began.  *)
EXTENDS CloudInference, Sequences

CONSTANTS
  Targets, MaxReconnect, MaxBoots,   \* CloudStreaming
  Libraries, Horizon,                \* PlaybackIndex
  Creators, Ids, MaxSessions,        \* PlaybackSessions
  MaxResults,                        \* StreamProxy
  Calls, MaxConnections              \* NatsPublisher

ASSUME ServicesAssumption == {MaxReconnect, MaxBoots, MaxResults, MaxConnections} \subseteq Nat
ASSUME SessionsAssumption == MaxSessions \in Nat \ {0} /\ IsFiniteSet(Creators) /\ "none" \notin Ids \cup Calls

VARIABLES
  world,
  row, stream, seen, mon, boots, stray, asked, raced,
  library, window, index,
  sessions, mine, creator, expired,
  run, upstream, client, toClient, toAdapter, captured, audit, results, excused, blamed,
  cached, made, holder, call, closing, released, dropped

Box(type, length) == [type |-> type, length |-> length, cut |-> FALSE]
Fragments(n) == [i \in 1..(2 * n) |-> IF i % 2 = 1 THEN Box("moof", 1) ELSE Box("mdat", 2)]
Recording(n) == <<Box("ftyp", 1), Box("moov", 2)>> \o Fragments(n)

\* Boxes in any order, also after a moov, the last of a file that is still written
Boxes    == {Box(type, 1) : type \in {"moov", "moof", "mdat", "free"}}
              \cup {[type |-> "mdat", length |-> 2, cut |-> TRUE]}
OddFiles == UNION {{b, <<Box("moov", 1)>> \o b} : b \in UNION {[1..k -> Boxes] : k \in 1..3}}

\* No file, an odd one, or two recordings with or without a gap between them
SmallLibraries ==
  {{}} \cup {{[start |-> 0, boxes |-> b]} : b \in OddFiles}
    \cup {{[start |-> 0, boxes |-> Recording(m)], [start |-> m + gap, boxes |-> Recording(n)]}
            : m \in {1, 3, 6}, n \in 1..2, gap \in 0..2}

streamingVars == <<row, stream, seen, mon, boots, stray, asked, raced>>
indexVars     == <<library, window, index>>
sessionVars   == <<sessions, mine, creator, expired>>
proxyVars     == <<run, upstream, client, toClient, toAdapter, captured, audit, results, excused, blamed>>
natsVars      == <<cached, made, holder, call, closing, released, dropped>>
servicesVars  == <<world, vars, streamingVars, indexVars, sessionVars, proxyVars, natsVars>>

Streaming == INSTANCE CloudStreaming
Index     == INSTANCE PlaybackIndex
Sessions  == INSTANCE PlaybackSessions
Proxy     == INSTANCE StreamProxy
Nats      == INSTANCE NatsPublisher

ASSUME PlaybackAssumption == Index!IndexAssumption

\* In another world a component has one initial state
ServicesInit ==
  /\ world \in {"streaming", "inference", "index", "sessions", "proxy", "nats"}
  /\ Streaming!Init /\ Sessions!Init /\ Proxy!Init
  /\ Init       /\ (world # "inference" => /\ quota.limit = CHOOSE n \in Limits : TRUE
                                          /\ quota.quota = CHOOSE n \in Quotas : TRUE)
  /\ Nats!Init  /\ (world # "nats" => made = 0)
  /\ Index!Init /\ (world # "index" => library = {})

ServicesNext ==
  /\ UNCHANGED world
  /\ \/ /\ world = "streaming" /\ Streaming!Next
        /\ UNCHANGED <<vars, indexVars, sessionVars, proxyVars, natsVars>>
     \/ /\ world = "inference" /\ Next
        /\ UNCHANGED <<streamingVars, indexVars, sessionVars, proxyVars, natsVars>>
     \/ /\ world = "index" /\ Index!Next
        /\ UNCHANGED <<streamingVars, vars, sessionVars, proxyVars, natsVars>>
     \/ /\ world = "sessions" /\ Sessions!Next
        /\ UNCHANGED <<streamingVars, vars, indexVars, proxyVars, natsVars>>
     \/ /\ world = "proxy" /\ Proxy!Next
        /\ UNCHANGED <<streamingVars, vars, indexVars, sessionVars, natsVars>>
     \/ /\ world = "nats" /\ Nats!Next
        /\ UNCHANGED <<streamingVars, vars, indexVars, sessionVars, proxyVars>>

ServicesSpec ==
  /\ ServicesInit /\ [][ServicesNext]_servicesVars
  /\ Streaming!Fairness /\ Fairness
  /\ world = "proxy" => Proxy!Fairness
------------------------------------------------------------------------------
\* The type invariants of the components.
ServicesTypeOK ==
  TypeOK /\ Streaming!TypeOK /\ Index!TypeOK /\ Sessions!TypeOK /\ Proxy!TypeOK /\ Nats!TypeOK

\* Their properties, as the modules state them.
StreamsAsAsked          == Streaming!StreamsAsAsked
OnlyRestartsLeaveStrays == Streaming!OnlyRestartsLeaveStrays
PlaylistIsWhole         == Index!PlaylistIsWhole

\* Nothing is lost sight of: the two tables of the playback sessions agree, and a
\* creator has more than the limit only by a race; a proxied session that is over
\* has its event and closed sockets; and every connection to NATS is cached, in
\* use, released or known to be dropped.
ResourcesAreTracked ==
  /\ Sessions!ListMatchesTable /\ Sessions!LimitButForRaces
  /\ Proxy!SessionIsSettled
  /\ Nats!ConnectionsAreHeld

\* What is under way comes to an end: an exited ffmpeg is noticed, a job of the
\* cloud is settled, and a proxied session that one side has left ends.
NothingHangs == Streaming!ExitIsNoticed /\ JobsSettle /\ Proxy!SessionEnds
==============================================================================
