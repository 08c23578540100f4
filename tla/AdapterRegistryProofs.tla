------------------------ MODULE AdapterRegistryProofs ------------------------
(***************************************************************************)
(* AdapterRegistry is type correct, no object holds a grant its current    *)
(* declaration lacks, no registered adapter violates the sovereignty mode, *)
(* a newly declared key starts ungranted, a narrower declaration goes on   *)
(* serving and the recorded fingerprint follows the declared one: for      *)
(* every set of names, keys, refresh requests and sessions, and every      *)
(* bound.                                                                  *)
(***************************************************************************)
EXTENDS AdapterRegistry, TLAPS

\* An answer that passed the check of register stays one that passes it.
JoiningChecked == joining # NoJoin => ~Violates(joining.caps)

\* Each stored declaration passed the check, also those of replaced objects.
CapsChecked == \A o \in Objs : ~Violates(caps[o])

IInv == TypeOK /\ GrantedIsDeclared /\ JoiningChecked /\ CapsChecked
------------------------------------------------------------------------------

LEMMA InitTypeOK == Init => TypeOK
BY BoundAssumption
   DEF Init, TypeOK, RegistryType, ObjectType, RefreshType, StreamType, Objs, Caps, NoCaps,
       NoJoin, Refreshers

LEMMA InitRest == Init => GrantedIsDeclared /\ JoiningChecked /\ CapsChecked
BY DEF Init, GrantedIsDeclared, JoiningChecked, CapsChecked, Violates, NoCaps, NoJoin

\* Storing a fresh object, which register and the startup seeding share.
LEMMA StoreType ==
  ASSUME TypeOK, NEW n \in Names, NEW c \in Caps, NEW keys \in SUBSET Keys,
         Store(n, c, keys), seeding' = seeding, joining' \in {joining, NoJoin}
  PROVE  TypeOK'
<1>1. RegistryType'
  BY BoundAssumption DEF Store, TypeOK, RegistryType, world
<1>2. ObjectType'
  BY BoundAssumption DEF Store, TypeOK, RegistryType, ObjectType, Objs, Caps
<1>3. RefreshType'
  BY BoundAssumption DEF Store, TypeOK, RegistryType, RefreshType, refresh
<1>4. StreamType'
  BY DEF Store, TypeOK, StreamType, streams
<1> QED BY <1>1, <1>2, <1>3, <1>4 DEF TypeOK

\* The type invariant under each action of a refresh.
LEMMA RefreshStepType ==
  ASSUME TypeOK, NEW r \in Refreshers, Refreshing(r)
  PROVE  TypeOK'
<1>1. CASE (\E ns \in SUBSET Names : Round(r, ns)) \/ \E n \in Names : Lookup(r, n)
  <2>1. UNCHANGED <<seeding, world, adapters, objects, series, joining, streams>>
    BY <1>1 DEF Round, Lookup
  <2>2. RegistryType' /\ ObjectType' /\ StreamType'
    BY <2>1 DEF TypeOK, RegistryType, ObjectType, StreamType, world, objects, streams
  <2>3. ASSUME NEW ns \in SUBSET Names, Round(r, ns) PROVE RefreshType'
    BY <2>3 DEF Round, TypeOK, RefreshType, objects
  <2>4. ASSUME NEW n \in Names, Lookup(r, n) PROVE RefreshType'
    BY <2>4 DEF Lookup, Live, TypeOK, RegistryType, RefreshType, objects
  <2> QED BY <1>1, <2>2, <2>3, <2>4 DEF TypeOK
<1>2. CASE HealthOk(r) \/ HealthFailed(r)
  <2>1. RegistryType' /\ StreamType'
    BY <1>2 DEF HealthOk, HealthFailed, TypeOK, RegistryType, StreamType, world, streams
  <2>2. RefreshType'
    BY <1>2 DEF HealthOk, HealthFailed, TypeOK, RefreshType
  <2>3. ObjectType'
    BY <1>2, BoundAssumption DEF HealthOk, HealthFailed, TypeOK, ObjectType
  <2> QED BY <2>1, <2>2, <2>3 DEF TypeOK
<1>3. CASE MetricsScraped(r) \/ MetricsFailed(r) \/ Answer(r)
  <2>1. RegistryType' /\ StreamType' /\ ObjectType'
    BY <1>3 DEF MetricsScraped, MetricsFailed, Answer, TypeOK, RegistryType, RefreshType,
                ObjectType, StreamType, world, streams, objects
  <2>2. RefreshType'
    BY <1>3 DEF MetricsScraped, MetricsFailed, Answer, TypeOK, RegistryType, RefreshType, objects
  <2> QED BY <2>1, <2>2 DEF TypeOK
<1>4. CASE CapsFailed(r) \/ Refuse(r)
  <2>1. RegistryType'
    BY <1>4, BoundAssumption
       DEF CapsFailed, Refuse, Dropped, TypeOK, RegistryType, RefreshType, world, objects
  <2>2. ObjectType' /\ StreamType'
    BY <1>4 DEF CapsFailed, Refuse, TypeOK, ObjectType, StreamType, objects, streams
  <2>3. RefreshType'
    BY <1>4, BoundAssumption DEF CapsFailed, Refuse, Return, TypeOK, RefreshType, objects
  <2> QED BY <2>1, <2>2, <2>3 DEF TypeOK
<1>5. CASE Apply(r)
  <2>1. Apply(r) /\ obj[r] \in 1..born /\ cur[r] \in Names /\ resp[r] \in Caps
    BY <1>5 DEF Apply, TypeOK, RefreshType
  <2>2. fprint' \in [Objs -> Prints \cup {NoPrint}] /\ series' \subseteq Names
    <3>1. resp[r].print \in Prints \cup {NoPrint}
      BY <2>1 DEF Caps
    <3> QED BY <2>1, <3>1
            DEF Apply, CompareFingerprint, TypeOK, RegistryType, ObjectType
  <2>3. RegistryType'
    BY <2>1, <2>2 DEF Apply, TypeOK, RegistryType, world
  <2>4. ObjectType'
    BY <2>1, <2>2 DEF Apply, Kept, TypeOK, ObjectType
  <2>5. RefreshType' /\ StreamType'
    BY <2>1, BoundAssumption DEF Apply, Return, TypeOK, RefreshType, StreamType, streams
  <2> QED BY <2>3, <2>4, <2>5 DEF TypeOK
<1> QED BY <1>1, <1>2, <1>3, <1>4, <1>5 DEF Refreshing

LEMMA StepType == TypeOK /\ [Next]_vars => TypeOK'
<1> SUFFICES ASSUME TypeOK, [Next]_vars PROVE TypeOK'
  OBVIOUS
<1> USE DEF TypeOK, RegistryType, ObjectType, RefreshType, StreamType
<1>1. ASSUME NEW n \in Names, NEW c \in Caps, Change(n, c) PROVE TypeOK'
  BY <1>1, BoundAssumption DEF Change, objects, refresh, streams
<1>2. ASSUME NEW n \in Names, Seed(n) PROVE TypeOK'
  <2>1. offers[n] \in Caps /\ offers[n].keys \in SUBSET Keys
    BY DEF Caps
  <2> QED BY <1>2, <2>1, StoreType DEF Seed
<1>3. CASE Serve
  BY <1>3 DEF Serve, world, objects, refresh, streams
<1>4. ASSUME NEW n \in Names, RegisterAnswered(n) PROVE TypeOK'
  BY <1>4 DEF RegisterAnswered, world, objects, refresh, streams
<1>5. ASSUME NEW n \in Names, Deregister(n) PROVE TypeOK'
  BY <1>5, BoundAssumption DEF Deregister, Dropped, world, objects, refresh, streams
<1>6. CASE RegisterStore
  BY <1>6, StoreType DEF RegisterStore
<1>7. ASSUME NEW n \in Names, NEW keys \in SUBSET Keys, Grant(n, keys) \/ Revoke(n, keys)
      PROVE  TypeOK'
  <2>1. adapters[n] \in Objs
    BY <1>7 DEF Grant, Revoke, Live, Objs
  <2> QED BY <1>7, <2>1 DEF Grant, Revoke, world, refresh, streams
<1>8. ASSUME NEW r \in Refreshers, Refreshing(r) PROVE TypeOK'
  BY <1>8, RefreshStepType
<1>9. ASSUME NEW s \in Streams, (\E n \in Names : Connect(s, n)) \/ Open(s) \/ Close(s)
      PROVE  TypeOK'
  BY <1>9, BoundAssumption DEF Connect, Open, Close, world, objects, refresh
<1>10. CASE UNCHANGED vars
  BY <1>10 DEF vars, world, objects, refresh, streams
<1> QED BY <1>1, <1>2, <1>3, <1>4, <1>5, <1>6, <1>7, <1>8, <1>9, <1>10 DEF Next

\* AdapterRegistry is type correct: in particular a refresh under way always
\* holds a name and an object that exist (the early returns of refresh).
THEOREM RegistryTypeCorrect == Spec => []TypeOK
<1>1. Init => TypeOK
  BY InitTypeOK
<1>2. TypeOK /\ [Next]_vars => TypeOK'
  BY StepType
<1> QED BY <1>1, <1>2, PTL DEF Spec
------------------------------------------------------------------------------

\* Steps that leave declarations, grants and the register call alone.
LEMMA QuietStep ==
  ASSUME IInv, UNCHANGED <<caps, granted, joining>>
  PROVE  GrantedIsDeclared' /\ JoiningChecked' /\ CapsChecked'
BY DEF IInv, GrantedIsDeclared, JoiningChecked, CapsChecked

\* A fresh object, with a checked declaration and no grant beyond it.
LEMMA StoreStep ==
  ASSUME IInv, NEW n \in Names, NEW c \in Caps, NEW keys \in SUBSET c.keys,
         Store(n, c, keys), ~Violates(c), joining' \in {joining, NoJoin}
  PROVE  GrantedIsDeclared' /\ JoiningChecked' /\ CapsChecked'
<1>1. GrantedIsDeclared'
  BY DEF Store, IInv, TypeOK, RegistryType, ObjectType, RefreshType, GrantedIsDeclared, Objs
<1>2. CapsChecked'
  BY DEF Store, IInv, TypeOK, RegistryType, ObjectType, RefreshType, CapsChecked, Violates, Objs
<1>3. JoiningChecked'
  BY DEF IInv, JoiningChecked
<1> QED BY <1>1, <1>2, <1>3

\* A refresh stores only checked answers and keeps only declared grants.
LEMMA ApplyStep ==
  ASSUME IInv, NEW r \in Refreshers, Apply(r)
  PROVE  GrantedIsDeclared' /\ JoiningChecked' /\ CapsChecked'
<1>1. obj[r] \in Objs
  BY DEF IInv, TypeOK, RegistryType, ObjectType, RefreshType, Apply, Objs
<1>2. GrantedIsDeclared'
  BY <1>1 DEF Apply, IInv, TypeOK, RegistryType, ObjectType, RefreshType, GrantedIsDeclared, Kept
<1>3. CapsChecked'
  BY <1>1 DEF Apply, IInv, TypeOK, RegistryType, ObjectType, RefreshType, CapsChecked, Violates
<1>4. JoiningChecked'
  BY DEF IInv, JoiningChecked, Apply
<1> QED BY <1>2, <1>3, <1>4

LEMMA Inductive == Spec => []IInv
<1>1. Init => IInv
  BY InitTypeOK, InitRest DEF IInv
<1>2. IInv /\ [Next]_vars => IInv'
  <2> SUFFICES ASSUME IInv, [Next]_vars
               PROVE  GrantedIsDeclared' /\ JoiningChecked' /\ CapsChecked'
    BY StepType DEF IInv
  <2>1. ASSUME NEW n \in Names, Seed(n)
        PROVE  GrantedIsDeclared' /\ JoiningChecked' /\ CapsChecked'
    BY <2>1, StoreStep DEF Seed, IInv, TypeOK, RegistryType, ObjectType, RefreshType
  <2>2. CASE RegisterStore
    BY <2>2, StoreStep DEF RegisterStore, IInv, TypeOK, RegistryType, ObjectType, RefreshType, JoiningChecked
  <2>3. ASSUME NEW n \in Names, RegisterAnswered(n)
        PROVE  GrantedIsDeclared' /\ JoiningChecked' /\ CapsChecked'
    BY <2>3 DEF RegisterAnswered, objects, IInv, GrantedIsDeclared, JoiningChecked, CapsChecked
  <2>4. ASSUME NEW n \in Names, NEW keys \in SUBSET Keys, Grant(n, keys) \/ Revoke(n, keys)
        PROVE  GrantedIsDeclared' /\ JoiningChecked' /\ CapsChecked'
    <3>1. adapters[n] \in Objs
      BY <2>4 DEF Grant, Revoke, Live, IInv, TypeOK, RegistryType, Objs
    <3>2. GrantedIsDeclared'
      BY <2>4, <3>1 DEF Grant, Revoke, IInv, TypeOK, ObjectType, GrantedIsDeclared
    <3>3. JoiningChecked' /\ CapsChecked'
      BY <2>4 DEF Grant, Revoke, IInv, JoiningChecked, CapsChecked
    <3> QED BY <3>2, <3>3
  <2>5. ASSUME NEW r \in Refreshers, Refreshing(r)
        PROVE  GrantedIsDeclared' /\ JoiningChecked' /\ CapsChecked'
    <3>1. CASE Apply(r)
      BY <3>1, ApplyStep
    <3>2. CASE ~Apply(r)
      BY <2>5, <3>2, QuietStep
         DEF Refreshing, Round, Lookup, HealthOk, HealthFailed, MetricsScraped,
             MetricsFailed, Answer, CapsFailed, Refuse, objects
    <3> QED BY <3>1, <3>2
  <2>6. ASSUME NEW n \in Names, (\E c \in Caps : Change(n, c)) \/ Deregister(n)
        PROVE  GrantedIsDeclared' /\ JoiningChecked' /\ CapsChecked'
    BY <2>6, QuietStep DEF Change, Deregister, objects
  <2>7. ASSUME NEW s \in Streams, (\E n \in Names : Connect(s, n)) \/ Open(s) \/ Close(s)
        PROVE  GrantedIsDeclared' /\ JoiningChecked' /\ CapsChecked'
    BY <2>7, QuietStep DEF Connect, Open, Close, objects
  <2>8. CASE Serve \/ UNCHANGED vars
    BY <2>8, QuietStep DEF Serve, vars, objects
  <2> QED BY <2>1, <2>2, <2>3, <2>4, <2>5, <2>6, <2>7, <2>8 DEF Next
<1> QED BY <1>1, <1>2, PTL DEF Spec
------------------------------------------------------------------------------

\* No object holds a grant for a key it does not declare (refresh's pruning,
\* grant_permissions' intersection with the declared keys).
THEOREM GrantsAreDeclared == Spec => []GrantedIsDeclared
BY Inductive, PTL DEF IInv

\* No registered adapter's declaration violates the sovereignty mode
\* (check_adapter in register and in refresh).
THEOREM RegisteredIsSovereign == Spec => []SovereignLive
<1>1. IInv => SovereignLive
  BY DEF IInv, TypeOK, RegistryType, ObjectType, RefreshType, CapsChecked, SovereignLive, Live, Objs
<1> QED BY <1>1, Inductive, PTL

\* The step that makes an object declare a key leaves the key ungranted.
THEOREM NewScopeIsUngranted == Spec => NewScopeNeedsConsent
<1> DEFINE Ungranted == \A o \in 1..born' :
             ~seeding => (caps'[o].keys \ caps[o].keys) \cap granted'[o] = {}
<1>1. IInv /\ [Next]_vars => [Ungranted]_vars
  <2> SUFFICES ASSUME IInv, Next, ~seeding, NEW o \in 1..born'
               PROVE  (caps'[o].keys \ caps[o].keys) \cap granted'[o] = {}
    OBVIOUS
  <2>1. ASSUME NEW r \in Refreshers, Apply(r)
        PROVE  (caps'[o].keys \ caps[o].keys) \cap granted'[o] = {}
    BY <2>1 DEF Apply, Kept, IInv, TypeOK, RegistryType, ObjectType, RefreshType, Objs
  <2>2. CASE RegisterStore
    BY <2>2 DEF RegisterStore, Store, IInv, TypeOK, RegistryType, ObjectType, RefreshType, Objs
  <2>3. ASSUME UNCHANGED caps
        PROVE  (caps'[o].keys \ caps[o].keys) \cap granted'[o] = {}
    BY <2>3
  <2>4. ASSUME NEW r \in Refreshers, Refreshing(r)
        PROVE  (caps'[o].keys \ caps[o].keys) \cap granted'[o] = {}
    BY <2>1, <2>3, <2>4
       DEF Refreshing, Round, Lookup, HealthOk, HealthFailed, MetricsScraped,
           MetricsFailed, Answer, CapsFailed, Refuse, objects
  <2>5. ASSUME NEW n \in Names, NEW keys \in SUBSET Keys, Grant(n, keys) \/ Revoke(n, keys)
        PROVE  UNCHANGED caps
    BY <2>5 DEF Grant, Revoke
  <2>6. ASSUME NEW n \in Names, RegisterAnswered(n) \/ Deregister(n) \/ \E c \in Caps : Change(n, c)
        PROVE  UNCHANGED caps
    BY <2>6 DEF RegisterAnswered, Deregister, Change, objects
  <2>7. ASSUME NEW s \in Streams, (\E n \in Names : Connect(s, n)) \/ Open(s) \/ Close(s)
        PROVE  UNCHANGED caps
    BY <2>7 DEF Connect, Open, Close, objects
  <2> QED BY <2>2, <2>3, <2>4, <2>5, <2>6, <2>7 DEF Next, Seed, Serve
<1> QED BY <1>1, Inductive, PTL DEF NewScopeNeedsConsent, Spec
------------------------------------------------------------------------------

\* A refresh stores an answer in its object, and narrows its grants; other
\* objects are left alone.
LEMMA ApplyWrites ==
  ASSUME TypeOK, NEW r \in Refreshers, Apply(r), NEW o \in 1..born
  PROVE  /\ obj[r] \in Objs /\ resp[r] \in Caps /\ born' = born
         /\ o # obj[r] => caps'[o] = caps[o] /\ granted'[o] = granted[o] /\ fprint'[o] = fprint[o]
         /\ o = obj[r] => /\ caps'[o] = resp[r] /\ granted'[o] = Kept(o, resp[r])
                          /\ fprint'[o] = IF Mismatch(o, resp[r]) THEN resp[r].print ELSE fprint[o]
<1>1. obj[r] \in Objs /\ resp[r] \in Caps /\ born' = born /\ o \in Objs
  BY BoundAssumption DEF Apply, TypeOK, RegistryType, RefreshType, Objs
<1>2. /\ caps' = [caps EXCEPT ![obj[r]] = resp[r]]
      /\ granted' = [granted EXCEPT ![obj[r]] = Kept(obj[r], resp[r])]
      /\ fprint' = IF Mismatch(obj[r], resp[r])
                   THEN [fprint EXCEPT ![obj[r]] = resp[r].print] ELSE fprint
  BY DEF Apply, CompareFingerprint
<1> QED BY <1>1, <1>2 DEF TypeOK, ObjectType

\* A registration writes nothing of the objects there already are.
LEMMA StoreWrites ==
  ASSUME TypeOK, NEW n \in Names, NEW c \in Caps, NEW keys \in SUBSET Keys, Store(n, c, keys)
  PROVE  /\ born \in Nat /\ born' = born + 1
         /\ \A o \in 1..born : /\ caps'[o] = caps[o] /\ granted'[o] = granted[o]
                               /\ fprint'[o] = fprint[o]
         /\ caps'[born'] = c /\ fprint'[born'] = c.print
BY BoundAssumption DEF Store, TypeOK, RegistryType, ObjectType, Objs

\* The steps of the registry that write no declaration and no fingerprint.
LEMMA OtherSteps ==
  ASSUME TypeOK, Next
  PROVE  \/ \E r \in Refreshers : Apply(r)
         \/ \E n \in Names, c \in Caps, keys \in SUBSET Keys : Store(n, c, keys)
         \/ UNCHANGED <<born, caps, fprint>>
<1>1. ASSUME NEW n \in Names, Seed(n) PROVE Store(n, offers[n], offers[n].keys)
                                            /\ offers[n] \in Caps /\ offers[n].keys \in SUBSET Keys
  BY <1>1 DEF Seed, TypeOK, RegistryType, Caps
<1>2. ASSUME RegisterStore
      PROVE  \E n \in Names, c \in Caps, keys \in SUBSET Keys : Store(n, c, keys)
  <2>1. joining.name \in Names /\ joining.caps \in Caps /\ {} \in SUBSET Keys
    BY <1>2 DEF RegisterStore, TypeOK, RegistryType
  <2> QED BY <1>2, <2>1 DEF RegisterStore
<1>3. ASSUME NEW r \in Refreshers, Refreshing(r), ~Apply(r) PROVE UNCHANGED <<born, caps, fprint>>
  BY <1>3 DEF Refreshing, Round, Lookup, HealthOk, HealthFailed, MetricsScraped,
              MetricsFailed, Answer, CapsFailed, Refuse, objects
<1>4. ASSUME NEW n \in Names, NEW keys \in SUBSET Keys, Grant(n, keys) \/ Revoke(n, keys)
      PROVE  UNCHANGED <<born, caps, fprint>>
  BY <1>4 DEF Grant, Revoke
<1>5. ASSUME NEW n \in Names, RegisterAnswered(n) \/ Deregister(n) \/ \E c \in Caps : Change(n, c)
      PROVE  UNCHANGED <<born, caps, fprint>>
  BY <1>5 DEF RegisterAnswered, Deregister, Change, objects
<1>6. ASSUME NEW s \in Streams, (\E n \in Names : Connect(s, n)) \/ Open(s) \/ Close(s)
      PROVE  UNCHANGED <<born, caps, fprint>>
  BY <1>6 DEF Connect, Open, Close, objects
<1>7. ASSUME Serve PROVE UNCHANGED <<born, caps, fprint>>
  BY <1>7 DEF Serve, objects
<1> QED BY <1>1, <1>2, <1>3, <1>4, <1>5, <1>6, <1>7 DEF Next

\* What a mismatch is measured against is the fingerprint last declared, when
\* both are known (the branch of refresh that compares them also records it).
THEOREM FingerprintsFollow == Spec => []FingerprintFollows
<1>1. Init => FingerprintFollows
  BY DEF Init, FingerprintFollows
<1>2. TypeOK /\ FingerprintFollows /\ [Next]_vars => FingerprintFollows'
  <2> SUFFICES ASSUME TypeOK, FingerprintFollows, [Next]_vars PROVE FingerprintFollows'
    OBVIOUS
  <2>1. ASSUME NEW r \in Refreshers, Apply(r) PROVE FingerprintFollows'
    <3> SUFFICES ASSUME NEW o \in 1..born, fprint'[o] # NoPrint, caps'[o].print # NoPrint
                 PROVE  fprint'[o] = caps'[o].print
      BY <2>1 DEF FingerprintFollows, Apply
    <3> QED BY <2>1, ApplyWrites DEF FingerprintFollows, Mismatch
  <2>2. ASSUME NEW n \in Names, NEW c \in Caps, NEW keys \in SUBSET Keys, Store(n, c, keys)
        PROVE  FingerprintFollows'
    <3> SUFFICES ASSUME NEW o \in 1..born', fprint'[o] # NoPrint, caps'[o].print # NoPrint
                 PROVE  fprint'[o] = caps'[o].print
      BY DEF FingerprintFollows
    <3>1. o \in 1..born \/ o = born'
      BY <2>2, StoreWrites
    <3> QED BY <2>2, <3>1, StoreWrites DEF FingerprintFollows
  <2>3. CASE UNCHANGED <<born, caps, fprint>>
    BY <2>3 DEF FingerprintFollows
  <2> QED BY <2>1, <2>2, <2>3, OtherSteps DEF vars, objects
<1> QED BY <1>1, <1>2, RegistryTypeCorrect, PTL DEF Spec

\* An approved adapter that declares less than before goes on serving: the
\* pruning of the stale grants leaves those it still needs.
THEOREM NarrowingServes == Spec => NarrowingKeepsServing
<1> DEFINE Served == \A o \in 1..born :
             (Approved(o) /\ caps'[o] # caps[o] /\ caps'[o].keys \subseteq caps[o].keys)
               => Approved(o)'
<1>1. TypeOK /\ [Next]_vars => [Served]_vars
  <2> SUFFICES ASSUME TypeOK, Next, NEW o \in 1..born, Approved(o), caps'[o] # caps[o],
                      caps'[o].keys \subseteq caps[o].keys
               PROVE  Approved(o)'
    OBVIOUS
  <2>1. ASSUME NEW r \in Refreshers, Apply(r) PROVE Approved(o)'
    BY <2>1, ApplyWrites DEF Approved, Kept
  <2>2. ASSUME NEW n \in Names, NEW c \in Caps, NEW keys \in SUBSET Keys, Store(n, c, keys)
        PROVE  Approved(o)'
    BY <2>2, StoreWrites
  <2> QED BY <2>1, <2>2, OtherSteps
<1> QED BY <1>1, RegistryTypeCorrect, PTL DEF NarrowingKeepsServing, Spec
==============================================================================
