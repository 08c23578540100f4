--------------------------- MODULE AdapterRegistry ---------------------------
(***************************************************************************)
(* KAI-C's registry of AI adapters: kai_c/registry.py, with the HTTP and   *)
(* WebSocket handlers of main.py that call it.  One event loop runs the    *)
(* background poller, any number of refresh, register and permission       *)
(* requests and the streaming sessions; they interleave only where they    *)
(* await the adapter, so each action is the code between two awaits.       *)
(*                                                                         *)
(* A RegisteredAdapter is an object on a heap (Objs): `adapters` maps a    *)
(* name to the object stored last, while a refresh goes on with the object *)
(* it looked up, stored or not.  A declaration (/capabilities) is reduced  *)
(* to its permission keys and the model's fingerprint, which the adapter   *)
(* behind a name changes when it likes (Change), at most MaxChanges times. *)
(* The audit log is not modelled.                                          *)
(***************************************************************************)
EXTENDS Naturals

CONSTANTS Names,       \* registry names
          Keys,        \* permission keys an adapter can declare
          Forbidden,   \* keys the sovereignty mode refuses
          Prints,      \* values of model.fingerprint
          NoPrint,     \* an omitted fingerprint
          Poller,      \* the background poll task
          Manual,      \* refresh requests that can be in flight at once
          Streams,     \* streaming sessions that can be open at once
          Threshold,   \* UNAVAILABLE_THRESHOLD
          MaxObjs,     \* bound: registrations in a behaviour
          MaxChanges   \* bound: changes of the adapters' declarations

ASSUME KeyAssumption == Forbidden \subseteq Keys /\ NoPrint \notin Prints
ASSUME BoundAssumption == /\ Threshold \in Nat \ {0}
                          /\ MaxObjs \in Nat
                          /\ MaxChanges \in Nat
ASSUME TaskAssumption == Poller \notin Manual

VARIABLES
  seeding,    \* the lifespan handler is still registering the configured names
  offers,     \* offers[n]: what the adapter behind n declares right now
  changes,    \* history: changes of the declarations, for the bound
  adapters,   \* AdapterRegistry._adapters: the object of each name, 0 for none
  born,       \* objects created so far
  caps,       \* caps[o]: RegisteredAdapter.capabilities
  granted,    \* granted[o]: RegisteredAdapter.granted_permissions
  fprint,     \* fprint[o]: RegisteredAdapter.fingerprint
  fails,      \* fails[o]: consecutive_health_failures, Threshold for that or more
  series,     \* names with a series in the metrics rollup
  joining,    \* the register call in flight: the name and the answer it got
  pc,         \* pc[r]: where the refresh stands
  todo,       \* todo[r]: names the refresh loop has still to visit
  cur,        \* cur[r]: the name being refreshed
  obj,        \* obj[r]: the object looked up for it
  resp,       \* resp[r]: the answer of /capabilities
  session,    \* session[s]: "closed", "connecting" or "open"
  sobj        \* sobj[s]: the object that passed the serving gate

world   == <<offers, changes>>
objects == <<born, caps, granted, fprint, fails>>
refresh == <<pc, todo, cur, obj, resp>>
streams == <<session, sobj>>
vars == <<seeding, world, adapters, objects, series, joining, refresh, streams>>

Objs       == 1..MaxObjs
Refreshers == {Poller} \cup Manual
Caps       == [keys : SUBSET Keys, print : Prints \cup {NoPrint}]
NoCaps     == [keys |-> {}, print |-> NoPrint]
NoJoin     == [name |-> "none", caps |-> NoCaps]

Live(n)     == adapters[n] # 0
LiveNames   == {n \in Names : Live(n)}
Approved(o) == caps[o].keys \subseteq granted[o]

\* check_adapter under the active mode
Violates(c) == c.keys \cap Forbidden # {}
------------------------------------------------------------------------------
RegistryType ==
  /\ seeding \in BOOLEAN
  /\ offers \in [Names -> Caps]
  /\ changes \in 0..MaxChanges
  /\ adapters \in [Names -> 0..MaxObjs]
  /\ born \in 0..MaxObjs
  /\ \A n \in Names : adapters[n] <= born
  /\ series \subseteq Names
  /\ joining \in [name : Names, caps : Caps] \cup {NoJoin}

ObjectType ==
  /\ caps \in [Objs -> Caps \cup {NoCaps}]
  /\ granted \in [Objs -> SUBSET Keys]
  /\ fprint \in [Objs -> Prints \cup {NoPrint}]
  /\ fails \in [Objs -> 0..Threshold]
  /\ \A o \in Objs : o <= born => caps[o] \in Caps

RefreshType ==
  /\ pc \in [Refreshers -> {"idle", "health", "metrics", "caps", "answered"}]
  /\ todo \in [Refreshers -> SUBSET Names]
  /\ cur \in [Refreshers -> Names \cup {"none"}]
  /\ obj \in [Refreshers -> 0..MaxObjs]
  /\ resp \in [Refreshers -> Caps \cup {NoCaps}]
  /\ \A r \in Refreshers : pc[r] # "idle" => cur[r] \in Names /\ obj[r] \in 1..born
  /\ \A r \in Refreshers : pc[r] = "answered" => resp[r] \in Caps

StreamType ==
  /\ session \in [Streams -> {"closed", "connecting", "open"}]
  /\ sobj \in [Streams -> 0..MaxObjs]

TypeOK == RegistryType /\ ObjectType /\ RefreshType /\ StreamType

Init ==
  /\ seeding = TRUE
  /\ offers \in [Names -> Caps]
  /\ changes = 0
  /\ adapters = [n \in Names |-> 0]
  /\ born = 0
  /\ caps = [o \in Objs |-> NoCaps]
  /\ granted = [o \in Objs |-> {}]
  /\ fprint = [o \in Objs |-> NoPrint]
  /\ fails = [o \in Objs |-> 0]
  /\ series = {}
  /\ joining = NoJoin
  /\ pc = [r \in Refreshers |-> "idle"]
  /\ todo = [r \in Refreshers |-> {}]
  /\ cur = [r \in Refreshers |-> "none"]
  /\ obj = [r \in Refreshers |-> 0]
  /\ resp = [r \in Refreshers |-> NoCaps]
  /\ session = [s \in Streams |-> "closed"]
  /\ sobj = [s \in Streams |-> 0]
------------------------------------------------------------------------------
(* The adapters themselves *)

Change(n, c) ==
  /\ changes < MaxChanges
  /\ c # offers[n]
  /\ offers' = [offers EXCEPT ![n] = c]
  /\ changes' = changes + 1
  /\ UNCHANGED <<seeding, adapters, objects, series, joining, refresh, streams>>
------------------------------------------------------------------------------
(* register and deregister *)

\* A fresh object for n, stored over whatever object held the name
Store(n, c, keys) ==
  /\ born < MaxObjs
  /\ born' = born + 1
  /\ adapters' = [adapters EXCEPT ![n] = born']
  /\ caps' = [caps EXCEPT ![born'] = c]
  /\ granted' = [granted EXCEPT ![born'] = keys]
  /\ fprint' = [fprint EXCEPT ![born'] = c.print]
  /\ UNCHANGED <<world, fails, series, refresh, streams>>

\* Startup: register each configured adapter and grant all it declares
Seed(n) ==
  /\ seeding
  /\ ~Live(n)
  /\ ~Violates(offers[n])
  /\ Store(n, offers[n], offers[n].keys)
  /\ UNCHANGED <<seeding, joining>>

Serve ==
  /\ seeding
  /\ seeding' = FALSE
  /\ UNCHANGED <<world, adapters, objects, series, joining, refresh, streams>>

\* Mutant: only the URL is checked, not what the adapter declares
RegisterUnchecked(n) ==
  /\ ~seeding
  /\ joining = NoJoin
  /\ born < MaxObjs
  /\ joining' = [name |-> n, caps |-> offers[n]]
  /\ UNCHANGED <<seeding, world, adapters, objects, series, refresh, streams>>

\* The adapter answers a register call; a refused declaration ends the call
RegisterAnswered(n) ==
  /\ ~seeding
  /\ joining = NoJoin
  /\ born < MaxObjs
  /\ ~Violates(offers[n])
  /\ joining' = [name |-> n, caps |-> offers[n]]
  /\ UNCHANGED <<seeding, world, adapters, objects, series, refresh, streams>>

RegisterStore ==
  /\ joining # NoJoin
  /\ Store(joining.name, joining.caps, {})
  /\ joining' = NoJoin
  /\ UNCHANGED seeding

\* What deregister leaves behind
Dropped(n) ==
  /\ adapters' = [adapters EXCEPT ![n] = 0]
  /\ series' = IF Live(n) THEN series \ {n} ELSE series

Deregister(n) ==
  /\ ~seeding
  /\ Live(n)
  /\ Dropped(n)
  /\ UNCHANGED <<seeding, world, objects, joining, refresh, streams>>
------------------------------------------------------------------------------
(* Permission requests of the operator *)

\* Mutant: grant whatever was asked for
GrantAsked(n, keys) ==
  /\ ~seeding
  /\ Live(n)
  /\ granted' = [granted EXCEPT ![adapters[n]] = @ \cup keys]
  /\ UNCHANGED <<seeding, world, adapters, born, caps, fprint, fails,
                 series, joining, refresh, streams>>

\* grant_permissions; approve_all is the call with every declared key
Grant(n, keys) ==
  /\ ~seeding
  /\ Live(n)
  /\ LET o == adapters[n]
         now == keys \cap caps[o].keys
     IN granted' = [granted EXCEPT ![o] = @ \cup now]
  /\ UNCHANGED <<seeding, world, adapters, born, caps, fprint, fails,
                 series, joining, refresh, streams>>

Revoke(n, keys) ==
  /\ ~seeding
  /\ Live(n)
  /\ granted' = [granted EXCEPT ![adapters[n]] = @ \ keys]
  /\ UNCHANGED <<seeding, world, adapters, born, caps, fprint, fails,
                 series, joining, refresh, streams>>
------------------------------------------------------------------------------
(* refresh, run by the poll loop and by POST /api/v1/adapters/refresh *)

\* A round over the registered names; a manual one may be of a single name
Round(r, ns) ==
  /\ ~seeding
  /\ pc[r] = "idle" /\ todo[r] = {} /\ ns # {}
  /\ ns = LiveNames \/ (r # Poller /\ ns \in {{n} : n \in LiveNames})
  /\ todo' = [todo EXCEPT ![r] = ns]
  /\ UNCHANGED <<seeding, world, adapters, objects, series, joining, pc, cur, obj,
                 resp, streams>>

\* Mutant: no early return for a name deregistered since the round began
LookupUnchecked(r, n) ==
  /\ pc[r] = "idle" /\ n \in todo[r]
  /\ todo' = [todo EXCEPT ![r] = @ \ {n}]
  /\ pc' = [pc EXCEPT ![r] = "health"]
  /\ cur' = [cur EXCEPT ![r] = n]
  /\ obj' = [obj EXCEPT ![r] = adapters[n]]
  /\ UNCHANGED <<seeding, world, adapters, objects, series, joining, resp, streams>>

Lookup(r, n) ==
  /\ pc[r] = "idle" /\ n \in todo[r]
  /\ todo' = [todo EXCEPT ![r] = @ \ {n}]
  /\ IF Live(n)
     THEN /\ pc' = [pc EXCEPT ![r] = "health"]
          /\ cur' = [cur EXCEPT ![r] = n]
          /\ obj' = [obj EXCEPT ![r] = adapters[n]]
     ELSE UNCHANGED <<pc, cur, obj>>
  /\ UNCHANGED <<seeding, world, adapters, objects, series, joining, resp, streams>>

HealthOk(r) ==
  /\ pc[r] = "health"
  /\ pc' = [pc EXCEPT ![r] = "metrics"]
  /\ fails' = [fails EXCEPT ![obj[r]] = 0]
  /\ UNCHANGED <<seeding, world, adapters, born, caps, granted, fprint, series, joining,
                 todo, cur, obj, resp, streams>>

HealthFailed(r) ==
  /\ pc[r] = "health"
  /\ pc' = [pc EXCEPT ![r] = "metrics"]
  /\ fails' = [fails EXCEPT ![obj[r]] = IF @ < Threshold THEN @ + 1 ELSE @]
  /\ UNCHANGED <<seeding, world, adapters, born, caps, granted, fprint, series, joining,
                 todo, cur, obj, resp, streams>>

\* record_sample creates the series it does not find
MetricsScraped(r) ==
  /\ pc[r] = "metrics"
  /\ pc' = [pc EXCEPT ![r] = "caps"]
  /\ series' = series \cup {cur[r]}
  /\ UNCHANGED <<seeding, world, adapters, objects, joining, todo, cur, obj, resp,
                 streams>>

MetricsFailed(r) ==
  /\ pc[r] = "metrics"
  /\ pc' = [pc EXCEPT ![r] = "caps"]
  /\ UNCHANGED <<seeding, world, adapters, objects, series, joining, todo, cur, obj,
                 resp, streams>>

\* The adapter answers with what it declares at that moment; the answer is
\* handled later, in Refuse or Apply.
Answer(r) ==
  /\ pc[r] = "caps"
  /\ pc' = [pc EXCEPT ![r] = "answered"]
  /\ resp' = [resp EXCEPT ![r] = offers[cur[r]]]
  /\ UNCHANGED <<seeding, world, adapters, objects, series, joining, todo, cur, obj,
                 streams>>

\* What every path out of refresh leaves behind
Return(r) ==
  /\ pc' = [pc EXCEPT ![r] = "idle"]
  /\ cur' = [cur EXCEPT ![r] = "none"]
  /\ obj' = [obj EXCEPT ![r] = 0]
  /\ resp' = [resp EXCEPT ![r] = NoCaps]
  /\ UNCHANGED todo

CapsFailed(r) ==
  /\ pc[r] = "caps"
  /\ Return(r)
  /\ UNCHANGED <<seeding, world, adapters, objects, series, joining, streams>>

\* Sovereignty violated by the answer: deregister the name
Refuse(r) ==
  /\ pc[r] = "answered"
  /\ Violates(resp[r])
  /\ Dropped(cur[r])
  /\ Return(r)
  /\ UNCHANGED <<seeding, world, objects, joining, streams>>

\* The fingerprint is compared, and recorded, only when both are known
Mismatch(o, c) == c.print # NoPrint /\ fprint[o] # NoPrint /\ c.print # fprint[o]

\* Mutant: the mismatch is reported, the new fingerprint not recorded
CompareOnly(r) ==
  /\ UNCHANGED fprint
  /\ series' = IF Mismatch(obj[r], resp[r]) THEN series \cup {cur[r]} ELSE series

CompareFingerprint(r) ==
  LET o == obj[r]
  IN IF Mismatch(o, resp[r])
     THEN /\ fprint' = [fprint EXCEPT ![o] = resp[r].print]
          /\ series' = series \cup {cur[r]}
     ELSE UNCHANGED <<fprint, series>>

\* Mutant: a refresh leaves the grants alone
KeptAll(o, c) == granted[o]

\* Mutant: any change of the declared keys voids every grant
KeptNone(o, c) == IF c.keys = caps[o].keys THEN granted[o] ELSE {}

\* The grants that survive declaration c.  With keys added: `k in new_declared
\* and k in old_declared'.  With none added: granted less the stale grants,
\* the same set, since the declared keys are then among the old ones.
Kept(o, c) == granted[o] \cap c.keys \cap caps[o].keys

\* Mutant: a declaration that adds no key is not stored
ApplyWidening(r) ==
  /\ pc[r] = "answered"
  /\ ~Violates(resp[r])
  /\ CompareFingerprint(r)
  /\ caps' = IF resp[r].keys \subseteq caps[obj[r]].keys THEN caps
             ELSE [caps EXCEPT ![obj[r]] = resp[r]]
  /\ granted' = [granted EXCEPT ![obj[r]] = Kept(obj[r], resp[r])]
  /\ Return(r)
  /\ UNCHANGED <<seeding, world, adapters, born, fails, joining, streams>>

\* Store the answer; with keys added this is what moves back to pending
Apply(r) ==
  /\ pc[r] = "answered"
  /\ ~Violates(resp[r])
  /\ CompareFingerprint(r)
  /\ caps' = [caps EXCEPT ![obj[r]] = resp[r]]
  /\ granted' = [granted EXCEPT ![obj[r]] = Kept(obj[r], resp[r])]
  /\ Return(r)
  /\ UNCHANGED <<seeding, world, adapters, born, fails, joining, streams>>
------------------------------------------------------------------------------
(* v1_infer_stream and StreamProxy.run *)

\* The serving gate, passed before the connection to the adapter is awaited
Connect(s, n) ==
  /\ ~seeding
  /\ session[s] = "closed"
  /\ Live(n)
  /\ Approved(adapters[n])
  /\ session' = [session EXCEPT ![s] = "connecting"]
  /\ sobj' = [sobj EXCEPT ![s] = adapters[n]]
  /\ UNCHANGED <<seeding, world, adapters, objects, series, joining, refresh>>

Open(s) ==
  /\ session[s] = "connecting"
  /\ session' = [session EXCEPT ![s] = "open"]
  /\ UNCHANGED <<seeding, world, adapters, objects, series, joining, refresh, sobj>>

\* The adapter is unreachable, or either side ends an open session
Close(s) ==
  /\ session[s] # "closed"
  /\ session' = [session EXCEPT ![s] = "closed"]
  /\ sobj' = [sobj EXCEPT ![s] = 0]
  /\ UNCHANGED <<seeding, world, adapters, objects, series, joining, refresh>>
------------------------------------------------------------------------------
Refreshing(r) ==
  \/ \E ns \in SUBSET Names : Round(r, ns)
  \/ \E n \in Names : Lookup(r, n)
  \/ HealthOk(r) \/ HealthFailed(r)
  \/ MetricsScraped(r) \/ MetricsFailed(r)
  \/ Answer(r) \/ CapsFailed(r)
  \/ Refuse(r) \/ Apply(r)

Next ==
  \/ \E n \in Names, c \in Caps : Change(n, c)
  \/ \E n \in Names : Seed(n) \/ RegisterAnswered(n) \/ Deregister(n)
  \/ Serve \/ RegisterStore
  \/ \E n \in Names, keys \in SUBSET Keys : Grant(n, keys) \/ Revoke(n, keys)
  \/ \E r \in Refreshers : Refreshing(r)
  \/ \E s \in Streams : (\E n \in Names : Connect(s, n)) \/ Open(s) \/ Close(s)

Spec == Init /\ [][Next]_vars

\* The poll loop runs for ever and every await of it has a timeout; each
\* adapter answers some of the polls that ask it (SF, a promise of the
\* environment); the lifespan handler finishes.
PollFairness ==
  /\ WF_vars(Serve)
  /\ WF_vars(Refreshing(Poller))
  /\ \A n \in Names : SF_vars(Answer(Poller) /\ cur[Poller] = n)

FairSpec == Spec /\ PollFairness
------------------------------------------------------------------------------
(* Properties *)

\* An object never holds a grant for a key its current declaration lacks,
\* also an object that was replaced while a refresh of it was in flight.
GrantedIsDeclared == \A o \in Objs : granted[o] \subseteq caps[o].keys

\* The contract's rule that a re-added key must earn fresh approval: the step
\* that makes an object declare a key leaves that key ungranted, whatever
\* refreshes, grants and removals of the key came before.
NewScopeNeedsConsent ==
  [][\A o \in 1..born' :
       ~seeding => (caps'[o].keys \ caps[o].keys) \cap granted'[o] = {}]_vars

\* A refresh that only narrows what an approved adapter declares leaves it
\* serving, however it interleaves with the operator's requests.
NarrowingKeepsServing ==
  [][\A o \in 1..born :
       (Approved(o) /\ caps'[o] # caps[o] /\ caps'[o].keys \subseteq caps[o].keys)
         => Approved(o)']_vars

\* Sovereignty is absolute: no registered adapter's declaration violates the
\* mode, although answers are awaited and applied in any order.
SovereignLive == \A n \in Names : Live(n) => ~Violates(caps[adapters[n]])

\* The fingerprint a mismatch is measured against is the declared one, when
\* both are known: no change of weights goes unnoticed because the reference
\* was not moved with an earlier one.
FingerprintFollows ==
  \A o \in 1..born :
    (fprint[o] # NoPrint /\ caps[o].print # NoPrint) => fprint[o] = caps[o].print

\* Once the adapters stop changing, the registry ends up serving under what
\* each registered adapter really declares.
PollConverges ==
  <>[](\A n \in Names : Live(n) => caps[adapters[n]] = offers[n])

\* docs/AI_ADAPTER_CONTRACT.md: `Revoking any granted key immediately flips
\* the adapter back to pending and stops serving'; the same is said of an
\* added permission.  An open session is serving.
PendingStopsServing ==
  \A s \in Streams :
    session[s] = "open" => \E n \in Names : adapters[n] = sobj[s] /\ Approved(sobj[s])
==============================================================================
