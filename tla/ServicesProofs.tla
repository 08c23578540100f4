---------------------------- MODULE ServicesProofs ----------------------------
(***************************************************************************)
(* The six components of MCServices, each for any values of its constants: *)
(* their types, what their invariants say, and with these the invariants   *)
(* of the composition.                                                     *)
(***************************************************************************)
EXTENDS MCServices, Lists, FiniteSetTheorems, SequenceTheorems, TLAPS

(* CloudInference *)

LEMMA GivenBackType == ASSUME NEW q \in QuotaType PROVE GivenBack(q) \in QuotaType
BY DEF GivenBack, QuotaType

\* What the breaker records keeps its type.
LEMMA RecordsType ==
  ASSUME TypeOK
  PROVE  RecordSuccess \in CircuitType /\ RecordFailure \in CircuitType /\ HalfOpened \in CircuitType
<1>1. circuit \in CircuitType
  BY DEF TypeOK
<1>2. RecordSuccess \in CircuitType
  <2>1. CASE circuit.state = "half_open"
    <3>1. CASE circuit.successes + 1 < RetryLimit
      <4>1. circuit.successes + 1 \in 0..(RetryLimit - 1)
        BY <1>1, <3>1, BreakerAssumption DEF CircuitType
      <4>2. RecordSuccess = [circuit EXCEPT !.successes = @ + 1]
        BY <1>1, <2>1, <3>1, BreakerAssumption DEF RecordSuccess, CircuitType
      <4> QED BY <1>1, <4>1, <4>2 DEF CircuitType
    <3>2. CASE ~(circuit.successes + 1 < RetryLimit)
      <4>1. circuit.successes + 1 >= RetryLimit /\ 0 \in 0..(RetryLimit - 1)
        BY <1>1, <3>2, BreakerAssumption DEF CircuitType
      <4>2. RecordSuccess = [circuit EXCEPT !.state = "closed", !.failures = 0, !.successes = 0]
        BY <2>1, <3>2, <4>1 DEF RecordSuccess
      <4> QED BY <1>1, <4>1, <4>2 DEF CircuitType
    <3> QED BY <3>1, <3>2
  <2>2. CASE circuit.state = "closed"
    BY <1>1, <2>2 DEF RecordSuccess, CircuitType
  <2>3. CASE circuit.state = "open"
    BY <1>1, <2>3 DEF RecordSuccess, CircuitType
  <2> QED BY <1>1, <2>1, <2>2, <2>3 DEF CircuitType
<1>3. RecordFailure \in CircuitType
  BY <1>1, BreakerAssumption DEF RecordFailure, CircuitType
<1>4. HalfOpened \in CircuitType
  <2>1. 0 \in 0..(RetryLimit - 1)
    BY BreakerAssumption
  <2>2. [circuit EXCEPT !.state = "half_open", !.successes = 0] \in CircuitType
    BY <1>1, <2>1 DEF CircuitType
  <2> QED BY <1>1, <2>2 DEF HalfOpened
<1> QED BY <1>2, <1>3, <1>4

LEMMA InferenceInit == Init => TypeOK
BY QuotaAssumption, BreakerAssumption DEF Init, TypeOK, QuotaType, CircuitType

LEMMA InferenceStep == TypeOK /\ [Next]_vars => TypeOK'
<1> SUFFICES ASSUME TypeOK, [Next]_vars PROVE TypeOK'
  OBVIOUS
<1>0. quota \in QuotaType /\ circuit \in CircuitType
  BY DEF TypeOK
<1>1. ASSUME NEW limit \in Limits, NEW n \in Quotas, UpdateQuotas(limit, n) PROVE TypeOK'
  <2>1. [quota EXCEPT !.limit = limit, !.quota = n] \in QuotaType
    BY <1>0 DEF QuotaType
  <2> QED BY <1>1, <2>1 DEF UpdateQuotas, TypeOK, history
<1>2. CASE TimeoutExpires
  BY <1>0, <1>2 DEF TimeoutExpires, TypeOK, CircuitType, history
<1>3. CASE NewDay
  BY <1>3 DEF NewDay, TypeOK
<1>4. CASE Crash
  <2>1. Cardinality(Calling) \in Nat
    BY RequestsAssumption, FS_Subset, FS_CardinalityType DEF Calling
  <2> QED BY <1>4, <2>1 DEF Crash, TypeOK
<1>5. ASSUME NEW r \in Requests, Refuse(r) \/ RefusalSent(r) PROVE TypeOK'
  BY <1>5 DEF Refuse, RefusalSent, TypeOK, history
<1>6. ASSUME NEW r \in Requests, Admit(r) PROVE TypeOK'
  <2> DEFINE counted == [quota EXCEPT !.usage = @ + 1, !.concurrent = @ + 1]
  <2>1. counted \in QuotaType
    <3>1. ~(quota.usage >= quota.quota)
      BY <1>6 DEF Admit, OverQuota
    <3>2. quota.usage + 1 \in Nat /\ quota.concurrent + 1 \in Nat
      BY <1>0, <3>1, QuotaAssumption DEF QuotaType
    <3> QED BY <1>0, <3>2 DEF QuotaType
  <2>2. quota' \in QuotaType
    BY <1>6, <2>1, GivenBackType DEF Admit
  <2>3. circuit' \in CircuitType
    BY <1>6, RecordsType DEF Admit
  <2> QED BY <1>6, <2>2, <2>3 DEF Admit, TypeOK
<1>7. ASSUME NEW r \in Requests, Succeeds(r) \/ Fails(r) \/ Cancelled(r) \/ StoreFails(r) PROVE TypeOK'
  <2>1. quota' \in QuotaType
    BY <1>0, <1>7, GivenBackType DEF Succeeds, Fails, Cancelled, StoreFails
  <2>2. circuit' \in CircuitType
    BY <1>0, <1>7, RecordsType DEF Succeeds, Fails, Cancelled, StoreFails
  <2> QED BY <1>7, <2>1, <2>2 DEF Succeeds, Fails, Cancelled, StoreFails, Ends, TypeOK, history
<1>8. ASSUME NEW j \in AsyncJobs, CreateJob(j) \/ JobStarts(j) \/ JobAnswered(j) \/ JobDies(j) PROVE TypeOK'
  BY <1>8 DEF CreateJob, JobStarts, JobAnswered, JobDies, TypeOK, history
<1>9. CASE UNCHANGED vars
  BY <1>9 DEF vars, history, TypeOK
<1> QED BY <1>1, <1>2, <1>3, <1>4, <1>5, <1>6, <1>7, <1>8, <1>9 DEF Next

\* The rows, the requests and the tasks keep their types; the usage never passes
\* the highest quota there was.
THEOREM InferenceTypeCorrect == Spec => []TypeOK
BY InferenceInit, InferenceStep, PTL DEF Spec
------------------------------------------------------------------------------
(* SlotsAccounted *)

\* The requests that are calling are finitely many.
LEMMA CallingIsFinite == IsFiniteSet(Calling) /\ Cardinality(Calling) \in Nat
BY RequestsAssumption, FS_Subset, FS_CardinalityType DEF Calling

\* One more request is calling, or one less.
LEMMA CallingChanges ==
  ASSUME TypeOK, NEW r \in Requests
  PROVE  /\ request[r] # "calling" /\ request' = [request EXCEPT ![r] = "calling"]
              => Cardinality(Calling') = Cardinality(Calling) + 1
         /\ request[r] = "calling" /\ Ends(r)
              => Cardinality(Calling') = Cardinality(Calling) - 1 /\ Cardinality(Calling) > 0
<1>1. ASSUME request[r] # "calling", request' = [request EXCEPT ![r] = "calling"]
      PROVE  Cardinality(Calling') = Cardinality(Calling) + 1
  <2>1. Calling' = Calling \cup {r} /\ r \notin Calling
    BY <1>1 DEF Calling, TypeOK
  <2> QED BY <2>1, CallingIsFinite, FS_AddElement
<1>2. ASSUME request[r] = "calling", Ends(r)
      PROVE  Cardinality(Calling') = Cardinality(Calling) - 1 /\ Cardinality(Calling) > 0
  <2>1. Calling' = Calling \ {r} /\ r \in Calling
    BY <1>2 DEF Calling, Ends, TypeOK
  <2>2. Cardinality(Calling') = Cardinality(Calling) - 1
    BY <2>1, CallingIsFinite, FS_RemoveElement
  <2>3. Cardinality(Calling) # 0
    BY <2>1, CallingIsFinite, FS_EmptySet
  <2> QED BY <2>2, <2>3, CallingIsFinite
<1> QED BY <1>1, <1>2

LEMMA SlotsStep == TypeOK /\ SlotsAccounted /\ [Next]_vars => SlotsAccounted'
<1> SUFFICES ASSUME TypeOK, SlotsAccounted, [Next]_vars PROVE SlotsAccounted'
  OBVIOUS
<1>0. /\ quota \in QuotaType /\ leaked \in Nat /\ Cardinality(Calling) \in Nat
      /\ quota.concurrent = Cardinality(Calling) + leaked
  BY CallingIsFinite DEF TypeOK, SlotsAccounted
<1>1. CASE UNCHANGED <<request, leaked>> /\ quota'.concurrent = quota.concurrent
  BY <1>0, <1>1 DEF SlotsAccounted, Calling
<1>2. ASSUME NEW limit \in Limits, NEW n \in Quotas, UpdateQuotas(limit, n) PROVE SlotsAccounted'
  BY <1>0, <1>1, <1>2 DEF UpdateQuotas, QuotaType, history
<1>3. CASE TimeoutExpires \/ NewDay \/ UNCHANGED vars
  BY <1>1, <1>3 DEF TimeoutExpires, NewDay, vars, history
<1>4. CASE Crash
  <2>1. Calling' = {}
    BY <1>4 DEF Crash, Calling
  <2>2. Cardinality(Calling') = 0
    BY <2>1, FS_EmptySet
  <2> QED BY <1>0, <1>4, <2>2 DEF Crash, SlotsAccounted
<1>5. ASSUME NEW r \in Requests, Refuse(r) \/ RefusalSent(r) PROVE SlotsAccounted'
  <2>1. Calling' = Calling
    BY <1>5 DEF Refuse, RefusalSent, Calling, TypeOK
  <2> QED BY <1>0, <1>5, <2>1 DEF Refuse, RefusalSent, SlotsAccounted, history
<1>6. ASSUME NEW r \in Requests, Admit(r) PROVE SlotsAccounted'
  <2> DEFINE counted == [quota EXCEPT !.usage = @ + 1, !.concurrent = @ + 1]
  <2>1. counted.concurrent = quota.concurrent + 1
    BY <1>0 DEF QuotaType
  <2>2. GivenBack(counted).concurrent = quota.concurrent
    BY <1>0 DEF GivenBack, QuotaType
  <2>3. CASE quota' = counted /\ request' = [request EXCEPT ![r] = "calling"] /\ UNCHANGED leaked
    <3>1. request[r] # "calling"
      BY <1>6 DEF Admit
    <3>2. Cardinality(Calling') = Cardinality(Calling) + 1
      BY <2>3, <3>1, CallingChanges
    <3>3. quota'.concurrent = quota.concurrent + 1
      BY <2>1, <2>3
    <3> QED BY <1>0, <2>3, <3>2, <3>3 DEF SlotsAccounted
  <2>4. CASE quota' = GivenBack(counted) /\ UNCHANGED <<request, leaked>>
    BY <1>1, <2>2, <2>4
  <2>5. CASE quota' = counted /\ leaked' = leaked + 1 /\ UNCHANGED request
    BY <1>0, <2>1, <2>5 DEF SlotsAccounted, Calling
  <2> QED BY <1>6, <2>3, <2>4, <2>5 DEF Admit
<1>7. ASSUME NEW r \in Requests, Succeeds(r) \/ Fails(r) \/ Cancelled(r) PROVE SlotsAccounted'
  <2>1. quota' = GivenBack(quota) /\ request[r] = "calling" /\ Ends(r) /\ UNCHANGED leaked
    BY <1>7 DEF Succeeds, Fails, Cancelled, history
  <2>2. Cardinality(Calling') = Cardinality(Calling) - 1 /\ Cardinality(Calling) > 0
    BY <2>1, CallingChanges
  <2>3. quota'.concurrent = quota.concurrent - 1
    BY <1>0, <2>1, <2>2 DEF GivenBack, QuotaType
  <2> QED BY <1>0, <2>1, <2>2, <2>3 DEF SlotsAccounted
<1>8. ASSUME NEW r \in Requests, StoreFails(r) PROVE SlotsAccounted'
  BY <1>0, <1>8, CallingChanges DEF StoreFails, SlotsAccounted
<1>9. ASSUME NEW j \in AsyncJobs, CreateJob(j) \/ JobStarts(j) \/ JobAnswered(j) \/ JobDies(j)
      PROVE  SlotsAccounted'
  BY <1>1, <1>9 DEF CreateJob, JobStarts, JobAnswered, JobDies, history
<1> QED BY <1>2, <1>3, <1>4, <1>5, <1>6, <1>7, <1>8, <1>9 DEF Next

LEMMA InitSlots == Init => SlotsAccounted
<1> SUFFICES ASSUME Init PROVE SlotsAccounted
  OBVIOUS
<1>1. Calling = {}
  BY DEF Init, Calling
<1>2. Cardinality(Calling) = 0
  BY <1>1, FS_EmptySet
<1> QED BY <1>2 DEF Init, SlotsAccounted

\* The concurrent counter is the calls under way and the slots lost for good.
THEOREM SlotsAreAccounted == Spec => []SlotsAccounted
<1>1. Init => TypeOK /\ SlotsAccounted
  BY InferenceInit, InitSlots
<1>2. TypeOK /\ SlotsAccounted /\ [Next]_vars => TypeOK' /\ SlotsAccounted'
  BY InferenceStep, SlotsStep
<1> QED BY <1>1, <1>2, PTL DEF Spec
------------------------------------------------------------------------------
(* FailuresInARow *)

LEMMA FailuresStep == TypeOK /\ FailuresInARow /\ [Next]_vars => FailuresInARow'
<1> SUFFICES ASSUME TypeOK, FailuresInARow, [Next]_vars PROVE FailuresInARow'
  OBVIOUS
<1>0. circuit \in CircuitType /\ streak \in Nat /\ Threshold \in Nat \ {0}
  BY BreakerAssumption DEF TypeOK
<1>1. CASE UNCHANGED <<circuit, streak>>
  BY <1>1 DEF FailuresInARow
<1>2. CASE TimeoutExpires
  BY <1>0, <1>2 DEF TimeoutExpires, FailuresInARow, CircuitType, history
<1>3. ASSUME NEW r \in Requests, Admit(r) PROVE FailuresInARow'
  BY <1>0, <1>3 DEF Admit, HalfOpened, FailuresInARow, CircuitType
<1>4. ASSUME NEW r \in Requests, Succeeds(r) PROVE FailuresInARow'
  <2>1. circuit' = RecordSuccess /\ streak' = 0
    BY <1>4 DEF Succeeds
  <2>2. CASE circuit.state = "half_open"
    BY <1>0, <2>1, <2>2 DEF RecordSuccess, FailuresInARow, CircuitType
  <2>3. CASE circuit.state = "closed"
    BY <1>0, <2>1, <2>3 DEF RecordSuccess, FailuresInARow, CircuitType
  <2>4. CASE circuit.state = "open"
    BY <2>1, <2>4 DEF RecordSuccess, FailuresInARow
  <2> QED BY <1>0, <2>2, <2>3, <2>4 DEF CircuitType
<1>5. ASSUME NEW r \in Requests, Fails(r) PROVE FailuresInARow'
  BY <1>0, <1>5 DEF Fails, RecordFailure, FailuresInARow, CircuitType
<1>6. CASE ~TimeoutExpires /\ \A r \in Requests : ~Admit(r) /\ ~Succeeds(r) /\ ~Fails(r)
  <2>1. UNCHANGED <<circuit, streak>>
    BY <1>6 DEF Next, UpdateQuotas, NewDay, Crash, Refuse, RefusalSent, Cancelled, StoreFails,
                CreateJob, JobStarts, JobAnswered, JobDies, vars, history
  <2> QED BY <1>1, <2>1
<1> QED BY <1>2, <1>3, <1>4, <1>5, <1>6

\* While the circuit is closed its count is of failures in a row, short of the
\* threshold.
THEOREM FailuresAreInARow == Spec => []FailuresInARow
<1>1. Init => TypeOK /\ FailuresInARow
  BY InferenceInit, BreakerAssumption DEF Init, FailuresInARow
<1>2. TypeOK /\ FailuresInARow /\ [Next]_vars => TypeOK' /\ FailuresInARow'
  BY InferenceStep, FailuresStep
<1> QED BY <1>1, <1>2, PTL DEF Spec
------------------------------------------------------------------------------
(* CloudStreaming *)

LEMMA Values ==
  /\ Streaming!Unset.status = "none" /\ Streaming!Unset.process = "none"
  /\ Streaming!Entry.status = "entry" /\ Streaming!Unset # Streaming!Entry
  /\ Streaming!New \in Streaming!StreamProcess /\ Streaming!New.status = "running" /\ Streaming!New.process = "live"
  /\ \A object \in Streaming!StreamProcess : object # Streaming!Unset /\ object # Streaming!Entry
BY DEF Streaming!Unset, Streaming!Entry, Streaming!New, Streaming!StreamProcess

LEMMA StreamingInit == Streaming!Init => Streaming!TypeOK
BY Values DEF Streaming!Init, Streaming!TypeOK, Streaming!NoMonitor, Streaming!Has

\* An object that stop_stream has marked.
LEMMA StoppedType ==
  ASSUME Streaming!TypeOK, NEW t \in Targets, Streaming!Has(t)
   PROVE  /\ Streaming!Stopped(t) \in Streaming!StreamProcess
          /\ Streaming!Stopped(t).status = "stopped" /\ Streaming!Stopped(t).process = "none"
BY DEF Streaming!TypeOK, Streaming!Has, Streaming!Stopped, Streaming!StreamProcess

\* What a start and a stop do to the entries and to the monitor's snapshot.
LEMMA StartEffect ==
  ASSUME Streaming!TypeOK, NEW t \in Targets, Streaming!Start(t)
  PROVE  \/ UNCHANGED <<stream, seen, stray>>
         \/ /\ Streaming!Launches(t)
            /\ stream' = [stream EXCEPT ![t] = Streaming!New]
            /\ \/ seen[t] = Streaming!Entry /\ seen' = [seen EXCEPT ![t] = stream[t]]
               \/ seen[t] # Streaming!Entry /\ UNCHANGED seen
            /\ \/ Streaming!Streams(t) /\ stray' = stray \cup {t}
               \/ ~Streaming!Streams(t) /\ UNCHANGED stray
BY DEF Streaming!Start, Streaming!Detach

LEMMA StopEffect ==
  ASSUME Streaming!TypeOK, NEW t \in Targets, Streaming!Stop(t)
  PROVE  /\ asked' = asked \ {t} /\ UNCHANGED <<mon, stray>>
         /\ \/ (t \in mon.of \/ Streaming!Replaced(t)) /\ raced' = raced \cup {t}
            \/ t \notin mon.of /\ ~Streaming!Replaced(t) /\ UNCHANGED raced
         /\ \/ ~Streaming!Has(t) /\ UNCHANGED <<stream, seen>>
            \/ /\ Streaming!Has(t) /\ stream' = [stream EXCEPT ![t] = Streaming!Unset]
               /\ \/ seen[t] = Streaming!Entry /\ seen' = [seen EXCEPT ![t] = Streaming!Stopped(t)]
                  \/ seen[t] # Streaming!Entry /\ UNCHANGED seen
BY DEF Streaming!Stop, Streaming!Detach

\* A request starts its target or stops it.
LEMMA RequestEffect ==
  ASSUME Streaming!Request
  PROVE  /\ \E t \in Targets : Streaming!StartRequest(t) \/ Streaming!Stop(t)
         /\ row' \in [Targets -> {"none", "off", "on"}] \/ ~Streaming!TypeOK
         /\ UNCHANGED boots /\ Streaming!Free
<1>1. PICK t \in Targets :
         \/ \E enabled \in BOOLEAN : Streaming!CreateOrUpdate(t, enabled)
         \/ Streaming!StartTarget(t) \/ Streaming!StopTarget(t) \/ Streaming!DeleteTarget(t)
  BY DEF Streaming!Request
<1>2. Streaming!StartRequest(t) \/ Streaming!Stop(t)
  BY <1>1 DEF Streaming!CreateOrUpdate, Streaming!StartTarget, Streaming!StopTarget, Streaming!DeleteTarget
<1>3. Streaming!TypeOK => row' \in [Targets -> {"none", "off", "on"}]
  BY <1>1 DEF Streaming!CreateOrUpdate, Streaming!StartTarget, Streaming!StopTarget, Streaming!DeleteTarget,
         Streaming!TypeOK
<1>4. UNCHANGED boots /\ Streaming!Free
  BY <1>1 DEF Streaming!CreateOrUpdate, Streaming!StartTarget, Streaming!StopTarget, Streaming!DeleteTarget
<1> QED BY <1>2, <1>3, <1>4

\* The monitor's types.
MonType == mon \in [at : {"none", "pass", "delay", "sleep", "done"}, of : SUBSET Targets]
           /\ ((mon.at = "delay") <=> (mon.of # {}))
SeenType == /\ stream \in [Targets -> Streaming!StreamProcess \cup {Streaming!Unset}]
            /\ seen \in [Targets -> Streaming!StreamProcess \cup {Streaming!Unset, Streaming!Entry}]
            /\ \A t \in Targets : seen[t] = Streaming!Entry => Streaming!Has(t)

LEMMA WatchType ==
  ASSUME Streaming!TypeOK, mon' = Streaming!Watch \/ UNCHANGED mon
  PROVE  MonType' /\ mon'.of = mon.of
BY DEF Streaming!TypeOK, MonType, Streaming!Watch

LEMMA StartSeen ==
  ASSUME Streaming!TypeOK, NEW t \in Targets, Streaming!Start(t)
  PROVE  SeenType' /\ stray' \subseteq Targets
<1>1. CASE UNCHANGED <<stream, seen, stray>>
  BY <1>1 DEF Streaming!TypeOK, SeenType, Streaming!Has
<1>2. CASE stream' = [stream EXCEPT ![t] = Streaming!New]
  <2>1. stream' \in [Targets -> Streaming!StreamProcess \cup {Streaming!Unset}]
    BY <1>2, Values DEF Streaming!TypeOK
  <2>2. seen' \in [Targets -> Streaming!StreamProcess \cup {Streaming!Unset, Streaming!Entry}]
    BY StartEffect DEF Streaming!TypeOK
  <2>3. \A s \in Targets : seen'[s] = Streaming!Entry => Streaming!Has(s)'
    BY <1>2, StartEffect, Values DEF Streaming!TypeOK, Streaming!Has
  <2>4. stray' \subseteq Targets
    BY StartEffect DEF Streaming!TypeOK
  <2> QED BY <2>1, <2>2, <2>3, <2>4 DEF SeenType
<1> QED BY <1>1, <1>2, StartEffect

LEMMA StopSeen == ASSUME Streaming!TypeOK, NEW t \in Targets, Streaming!Stop(t) PROVE SeenType'
<1>1. CASE UNCHANGED <<stream, seen>>
  BY <1>1 DEF Streaming!TypeOK, SeenType, Streaming!Has
<1>2. CASE Streaming!Has(t) /\ stream' = [stream EXCEPT ![t] = Streaming!Unset]
  <2>1. stream' \in [Targets -> Streaming!StreamProcess \cup {Streaming!Unset}]
    BY <1>2 DEF Streaming!TypeOK
   <2>2. /\ seen' \in [Targets -> Streaming!StreamProcess \cup {Streaming!Unset, Streaming!Entry}]
         /\ seen'[t] # Streaming!Entry
    BY <1>2, StopEffect, StoppedType, Values DEF Streaming!TypeOK
  <2>3. \A s \in Targets : s # t => seen'[s] = seen[s] /\ stream'[s] = stream[s]
    BY <1>2, StopEffect DEF Streaming!TypeOK
  <2>4. \A s \in Targets : seen'[s] = Streaming!Entry => Streaming!Has(s)'
    BY <2>2, <2>3 DEF Streaming!TypeOK, Streaming!Has
  <2> QED BY <2>1, <2>2, <2>4 DEF SeenType
<1> QED BY <1>1, <1>2, StopEffect

LEMMA RequestType == Streaming!TypeOK /\ Streaming!Request => Streaming!TypeOK'
<1> SUFFICES ASSUME Streaming!TypeOK, Streaming!Request PROVE Streaming!TypeOK'
  OBVIOUS
<1>1. row' \in [Targets -> {"none", "off", "on"}] /\ UNCHANGED boots
  BY RequestEffect
<1>2. ASSUME NEW t \in Targets, Streaming!StartRequest(t) PROVE Streaming!TypeOK'
  <2>1. MonType' /\ SeenType' /\ stray' \subseteq Targets
    BY <1>2, StartSeen, WatchType DEF Streaming!StartRequest
  <2> QED BY <1>1, <1>2, <2>1 DEF Streaming!StartRequest, Streaming!TypeOK, MonType, SeenType
<1>3. ASSUME NEW t \in Targets, Streaming!Stop(t) PROVE Streaming!TypeOK'
  <2>1. MonType' /\ SeenType'
    BY <1>3, StopSeen, StopEffect, WatchType
  <2> QED BY <1>1, <1>3, <2>1, StopEffect DEF Streaming!TypeOK, MonType, SeenType
<1> QED BY <1>2, <1>3, RequestEffect

\* What the monitor looks at is an object.
LEMMA ObjectType ==
  ASSUME Streaming!TypeOK, NEW t \in Targets, seen[t] # Streaming!Unset
  PROVE  /\ Streaming!Object(t) \in Streaming!StreamProcess
         /\ \A object \in Streaming!StreamProcess : Streaming!Update(t, object) => SeenType'
<1>1. Streaming!Object(t) \in Streaming!StreamProcess
  BY DEF Streaming!TypeOK, Streaming!Object, Streaming!Has
<1>2. ASSUME NEW object \in Streaming!StreamProcess, Streaming!Update(t, object) PROVE SeenType'
  BY <1>2, Values DEF Streaming!Update, Streaming!TypeOK, SeenType, Streaming!Has
<1> QED BY <1>1, <1>2

LEMMA Reconnecting ==
  ASSUME NEW o \in Streaming!StreamProcess
  PROVE  LET object == [o EXCEPT !.status = "reconnecting", !.attempts = @ + 1]
         IN /\ object \in Streaming!StreamProcess /\ object.status = "reconnecting"
            /\ object.process = o.process
<1> DEFINE object == [o EXCEPT !.status = "reconnecting", !.attempts = @ + 1]
<1>1. o.attempts + 1 \in Nat /\ o.process \in {"live", "exited", "none"}
  BY DEF Streaming!StreamProcess
<1>2. object \in [status : {"reconnecting"}, process : {o.process}, attempts : {o.attempts + 1}]
  BY DEF Streaming!StreamProcess
<1> QED BY <1>1, <1>2 DEF Streaming!StreamProcess

\* Looking at a target: nothing, a delay, or the end of its attempts.
LEMMA LooksEffect ==
  ASSUME Streaming!TypeOK, NEW t \in Targets, Streaming!MonitorLooks(t)
  PROVE  /\ seen[t] # Streaming!Unset /\ mon.at = "pass" /\ UNCHANGED <<row, boots, stray, Streaming!history>>
         /\ \/ Streaming!Skip(t) /\ UNCHANGED <<stream, mon>>
            \/ /\ Streaming!Object(t).status # "stopped" /\ Streaming!Object(t).process = "exited"
               /\ \E object \in Streaming!StreamProcess : /\ Streaming!Update(t, object)
                                                /\ object.status = "reconnecting" /\ object.process = "exited"
               /\ mon' = [at |-> "delay", of |-> {t}]
            \/ /\ Streaming!Skip(t) /\ UNCHANGED mon /\ seen[t] = Streaming!Entry /\ stream[t].process = "exited"
               /\ stream' = [stream EXCEPT ![t].status = "error"]
<1>1. seen[t] # Streaming!Unset /\ mon.at = "pass" /\ UNCHANGED <<row, boots, stray, Streaming!history>>
  BY DEF Streaming!MonitorLooks
<1>2. Streaming!Object(t) \in Streaming!StreamProcess
  BY <1>1, ObjectType
<1>3. CASE Streaming!Object(t).status = "stopped" \/ Streaming!Object(t).process # "exited"
  BY <1>1, <1>3 DEF Streaming!MonitorLooks
<1>4. CASE /\ Streaming!Object(t).status # "stopped" /\ Streaming!Object(t).process = "exited"
           /\ Streaming!Object(t).attempts < MaxReconnect
  <2> DEFINE object == [Streaming!Object(t) EXCEPT !.status = "reconnecting", !.attempts = @ + 1]
  <2>1. object \in Streaming!StreamProcess /\ object.status = "reconnecting" /\ object.process = "exited"
    BY <1>2, <1>4, Reconnecting
  <2>2. Streaming!Update(t, object) /\ mon' = [at |-> "delay", of |-> {t}]
    BY <1>4 DEF Streaming!MonitorLooks
  <2> QED BY <1>1, <1>4, <2>1, <2>2
<1>5. CASE /\ Streaming!Object(t).status # "stopped" /\ Streaming!Object(t).process = "exited"
           /\ ~(Streaming!Object(t).attempts < MaxReconnect)
  BY <1>1, <1>5 DEF Streaming!MonitorLooks, Streaming!Object
<1> QED BY <1>3, <1>4, <1>5

LEMMA MonitorType == Streaming!TypeOK /\ Streaming!Monitor => Streaming!TypeOK'
<1> SUFFICES ASSUME Streaming!TypeOK, Streaming!Monitor PROVE Streaming!TypeOK'
  OBVIOUS
<1>1. CASE Streaming!MonitorWakes
  <2>1. CASE \E t \in Targets : Streaming!Has(t)
    BY <1>1, <2>1, Values DEF Streaming!MonitorWakes, Streaming!TypeOK, Streaming!Has, Streaming!history
  <2>2. CASE ~\E t \in Targets : Streaming!Has(t)
    BY <1>1, <2>2 DEF Streaming!MonitorWakes, Streaming!TypeOK, Streaming!Has, Streaming!history
  <2> QED BY <2>1, <2>2
<1>2. ASSUME NEW t \in Targets, Streaming!MonitorLooks(t) PROVE Streaming!TypeOK'
  <2>1. MonType'
    <3>1. UNCHANGED mon \/ mon' = [at |-> "delay", of |-> {t}]
      BY <1>2, LooksEffect
    <3> QED BY <3>1 DEF Streaming!TypeOK, MonType
  <2>2. SeenType'
    <3>1. CASE Streaming!Skip(t) /\ UNCHANGED stream
      BY <3>1, Values DEF Streaming!Skip, Streaming!TypeOK, SeenType, Streaming!Has
    <3>2. CASE \E object \in Streaming!StreamProcess : Streaming!Update(t, object)
      BY <1>2, <3>2, LooksEffect, ObjectType
    <3>3. CASE Streaming!Skip(t) /\ seen[t] = Streaming!Entry /\ stream' = [stream EXCEPT ![t].status = "error"]
      <4>1. stream[t] \in Streaming!StreamProcess
        BY <3>3 DEF Streaming!TypeOK, Streaming!Has
      <4>2. [stream[t] EXCEPT !.status = "error"] \in Streaming!StreamProcess
        BY <4>1 DEF Streaming!StreamProcess
      <4>3. stream' = [stream EXCEPT ![t] = [stream[t] EXCEPT !.status = "error"]]
        BY <3>3
      <4> QED BY <3>3, <4>2, <4>3, Values DEF Streaming!Skip, Streaming!TypeOK, SeenType, Streaming!Has
    <3> QED BY <1>2, <3>1, <3>2, <3>3, LooksEffect
  <2> QED BY <1>2, <2>1, <2>2, LooksEffect DEF Streaming!TypeOK, MonType, SeenType, Streaming!history
<1>3. CASE Streaming!MonitorRestarts
  <2>1. PICK t \in Targets :
          /\ t \in mon.of /\ Streaming!Skip(t)
          /\ \/ UNCHANGED <<stream, stray>>
             \/ stream' = [stream EXCEPT ![t] = Streaming!New] /\ stray' \subseteq stray \cup {t}
    BY <1>3 DEF Streaming!MonitorRestarts, Streaming!TypeOK
  <2>2. SeenType' /\ stray' \subseteq Targets
    BY <2>1, Values DEF Streaming!Skip, Streaming!TypeOK, SeenType, Streaming!Has
  <2> QED BY <1>3, <2>2 DEF Streaming!MonitorRestarts, Streaming!TypeOK, SeenType, Streaming!history
<1>4. CASE Streaming!MonitorRests
  BY <1>4 DEF Streaming!MonitorRests, Streaming!TypeOK, Streaming!Has, Streaming!history
<1> QED BY <1>1, <1>2, <1>3, <1>4 DEF Streaming!Monitor

LEMMA StreamingStep == Streaming!TypeOK /\ [Streaming!Next]_(Streaming!vars) => Streaming!TypeOK'
<1> SUFFICES ASSUME Streaming!TypeOK, [Streaming!Next]_(Streaming!vars) PROVE Streaming!TypeOK'
  OBVIOUS
<1>1. ASSUME NEW t \in Targets, Streaming!FfmpegExits(t) PROVE Streaming!TypeOK'
  <2>1. stream[t] \in Streaming!StreamProcess
    BY <1>1, Values DEF Streaming!FfmpegExits, Streaming!Streams, Streaming!TypeOK
  <2>2. [stream[t] EXCEPT !.process = "exited"] \in Streaming!StreamProcess
    BY <2>1 DEF Streaming!StreamProcess
  <2>3. stream' = [stream EXCEPT ![t] = [stream[t] EXCEPT !.process = "exited"]]
    BY <1>1 DEF Streaming!FfmpegExits
  <2> QED BY <1>1, <2>2, <2>3, Values
             DEF Streaming!FfmpegExits, Streaming!TypeOK, Streaming!Has, Streaming!history
<1>2. CASE Streaming!ServerRestarts
  BY <1>2, Values DEF Streaming!ServerRestarts, Streaming!TypeOK, Streaming!NoMonitor, Streaming!Has
<1>3. CASE UNCHANGED Streaming!vars
  BY <1>3 DEF Streaming!vars, Streaming!history, Streaming!TypeOK, Streaming!Has
<1> QED BY <1>1, <1>2, <1>3, RequestType, MonitorType DEF Streaming!Next

\* Entries, snapshot and monitor keep their types; the snapshot never names an
\* entry that is gone.
THEOREM StreamingTypeCorrect == Streaming!Spec => []Streaming!TypeOK
BY StreamingInit, StreamingStep, PTL DEF Streaming!Spec
------------------------------------------------------------------------------
(* OnlyRestartsLeaveStrays *)

\* A live process is that of an entry that says running, so that no launch
\* replaces it
LiveSaysRunning == \A t \in Targets : Streaming!Streams(t) => stream[t].status = "running"

LEMMA StartLive ==
  ASSUME Streaming!TypeOK, LiveSaysRunning, NEW t \in Targets, Streaming!Start(t)
  PROVE  LiveSaysRunning' /\ UNCHANGED stray
<1>1. CASE UNCHANGED <<stream, seen, stray>>
  BY <1>1 DEF LiveSaysRunning, Streaming!Streams
<1>2. CASE Streaming!Launches(t) /\ stream' = [stream EXCEPT ![t] = Streaming!New]
  <2>1. ~Streaming!Streams(t)
    BY <1>2 DEF Streaming!Launches, LiveSaysRunning
  <2>2. UNCHANGED stray
    BY <2>1, StartEffect
  <2> QED BY <1>2, <2>2, Values DEF LiveSaysRunning, Streaming!Streams, Streaming!TypeOK
<1> QED BY <1>1, <1>2, StartEffect

LEMMA LiveStep ==
  ASSUME Streaming!TypeOK, LiveSaysRunning, [Streaming!Next]_(Streaming!vars)
  PROVE  LiveSaysRunning' /\ (stray' \subseteq stray \/ boots' # boots)
<1>1. CASE Streaming!Request
  <2>1. ASSUME NEW t \in Targets, Streaming!StartRequest(t) PROVE LiveSaysRunning' /\ UNCHANGED stray
    BY <2>1, StartLive DEF Streaming!StartRequest
  <2>2. ASSUME NEW t \in Targets, Streaming!Stop(t) PROVE LiveSaysRunning' /\ UNCHANGED stray
    <3>1. UNCHANGED stray /\ (UNCHANGED stream \/ stream' = [stream EXCEPT ![t] = Streaming!Unset])
      BY <2>2, StopEffect
    <3> QED BY <3>1, Values DEF LiveSaysRunning, Streaming!Streams, Streaming!TypeOK
  <2> QED BY <1>1, <2>1, <2>2, RequestEffect
<1>2. ASSUME NEW t \in Targets, Streaming!FfmpegExits(t) PROVE LiveSaysRunning' /\ UNCHANGED stray
  <2>1. stream[t] \in Streaming!StreamProcess
    BY <1>2, Values DEF Streaming!FfmpegExits, Streaming!Streams, Streaming!TypeOK
  <2> QED BY <1>2, <2>1
             DEF Streaming!FfmpegExits, LiveSaysRunning, Streaming!Streams, Streaming!TypeOK,
                 Streaming!StreamProcess
<1>3. CASE Streaming!MonitorWakes \/ Streaming!MonitorRests \/ UNCHANGED Streaming!vars
  BY <1>3 DEF Streaming!MonitorWakes, Streaming!MonitorRests, Streaming!vars, LiveSaysRunning,
         Streaming!Streams
<1>4. ASSUME NEW t \in Targets, Streaming!MonitorLooks(t) PROVE LiveSaysRunning' /\ UNCHANGED stray
  <2>1. UNCHANGED stray
    BY <1>4, LooksEffect
  <2>2. CASE UNCHANGED stream
    BY <2>1, <2>2 DEF LiveSaysRunning, Streaming!Streams
  <2>3. ASSUME NEW object \in Streaming!StreamProcess, Streaming!Update(t, object), object.process = "exited"
        PROVE  LiveSaysRunning'
    BY <2>3 DEF Streaming!Update, LiveSaysRunning, Streaming!Streams, Streaming!TypeOK
   <2>4. CASE /\ seen[t] = Streaming!Entry /\ stream[t].process = "exited"
              /\ stream' = [stream EXCEPT ![t].status = "error"]
    <3>1. stream[t] \in Streaming!StreamProcess
      BY <2>4 DEF Streaming!TypeOK, Streaming!Has
    <3>2. stream'[t].process = "exited"
      BY <2>4, <3>1 DEF Streaming!TypeOK, Streaming!StreamProcess
    <3>3. \A s \in Targets : s # t => stream'[s] = stream[s]
      BY <2>4 DEF Streaming!TypeOK
    <3> QED BY <2>1, <3>2, <3>3 DEF LiveSaysRunning, Streaming!Streams
  <2> QED BY <1>4, <2>1, <2>2, <2>3, <2>4, LooksEffect
<1>5. CASE Streaming!MonitorRestarts
  <2>1. PICK t \in Targets :
          \/ UNCHANGED <<stream, stray>>
          \/ /\ Streaming!Launches(t) /\ stream' = [stream EXCEPT ![t] = Streaming!New]
             /\ Streaming!Streams(t) \/ UNCHANGED stray
    BY <1>5 DEF Streaming!MonitorRestarts, Streaming!TypeOK
  <2>2. Streaming!Launches(t) => ~Streaming!Streams(t)
    BY DEF Streaming!Launches, LiveSaysRunning
  <2>3. UNCHANGED stray
    BY <2>1, <2>2
  <2> QED BY <2>1, <2>3, Values DEF LiveSaysRunning, Streaming!Streams, Streaming!TypeOK
<1>6. CASE Streaming!ServerRestarts
  BY <1>6, Values DEF Streaming!ServerRestarts, LiveSaysRunning, Streaming!Streams, Streaming!TypeOK
<1> QED BY <1>1, <1>2, <1>3, <1>4, <1>5, <1>6 DEF Streaming!Next, Streaming!Monitor

LEMMA InitLive == Streaming!Init => LiveSaysRunning
BY Values DEF Streaming!Init, LiveSaysRunning, Streaming!Streams

\* However starts, exits and the monitor interleave, no launch replaces an entry
\* whose ffmpeg is at work.
THEOREM StraysComeOfRestarts == Streaming!Spec => Streaming!OnlyRestartsLeaveStrays
<1>1. Streaming!Init => Streaming!TypeOK /\ LiveSaysRunning
  BY StreamingInit, InitLive
<1>2. Streaming!TypeOK /\ LiveSaysRunning /\ [Streaming!Next]_(Streaming!vars)
        => Streaming!TypeOK' /\ LiveSaysRunning' /\ [stray' \subseteq stray \/ boots' # boots]_(Streaming!vars)
  BY StreamingStep, LiveStep
<1> QED BY <1>1, <1>2, PTL DEF Streaming!Spec, Streaming!OnlyRestartsLeaveStrays
------------------------------------------------------------------------------
(* StreamsAsAsked *)

\* Whoever may stream, now or by the monitor's doing, has been asked to, or has
\* been stopped too late
Wanted(t) == t \in asked \cup raced
OnlyWanted ==
  \A t \in Targets : Streaming!Has(t) \/ t \in mon.of \/ Streaming!Replaced(t) => Wanted(t)

\* Nothing becomes of the other targets.
Apart(t) ==
  \A s \in Targets : s # t => /\ stream'[s] = stream[s] /\ seen'[s] = seen[s]
                              /\ (s \in asked' <=> s \in asked) /\ (s \in raced' <=> s \in raced)

LEMMA WantedFrame ==
  ASSUME Streaming!TypeOK, OnlyWanted, NEW t \in Targets, Apart(t), mon'.of \subseteq mon.of \cup {t},
         Streaming!Has(t)' \/ t \in mon'.of \/ Streaming!Replaced(t)' => Wanted(t)'
  PROVE  OnlyWanted'
BY DEF OnlyWanted, Apart, Wanted, Streaming!Has, Streaming!Replaced

LEMMA StartWanted ==
  ASSUME Streaming!TypeOK, OnlyWanted, NEW t \in Targets, Streaming!StartRequest(t)
  PROVE  OnlyWanted'
<1>1. mon'.of = mon.of /\ Wanted(t)' /\ asked' = asked \cup {t} /\ raced' = raced \ {t}
  BY WatchType DEF Streaming!StartRequest, Wanted
<1>2. \A s \in Targets : s # t => stream'[s] = stream[s] /\ seen'[s] = seen[s]
  BY StartEffect DEF Streaming!StartRequest, Streaming!TypeOK
<1>3. Apart(t)
  BY <1>1, <1>2 DEF Apart
<1> QED BY <1>1, <1>3, WantedFrame

LEMMA StopWanted ==
  ASSUME Streaming!TypeOK, OnlyWanted, NEW t \in Targets, Streaming!Stop(t)
  PROVE  OnlyWanted'
<1>1. /\ asked' = asked \ {t} /\ UNCHANGED mon
      /\ \A s \in Targets : s # t => (s \in raced' <=> s \in raced)
  BY StopEffect
<1>2. \A s \in Targets : s # t => stream'[s] = stream[s] /\ seen'[s] = seen[s]
  BY StopEffect DEF Streaming!TypeOK
<1>3. Apart(t)
  BY <1>1, <1>2 DEF Apart
<1>4. ~Streaming!Has(t)'
  BY StopEffect DEF Streaming!Has, Streaming!TypeOK
<1>5. CASE t \in mon.of \/ Streaming!Replaced(t)
  <2>1. Wanted(t)'
    BY <1>5, StopEffect DEF Wanted
  <2> QED BY <1>1, <1>3, <2>1, WantedFrame
<1>6. CASE t \notin mon.of /\ ~Streaming!Replaced(t)
  <2>1. ~Streaming!Replaced(t)'
    <3>1. CASE UNCHANGED seen
      BY <1>6, <3>1 DEF Streaming!Replaced
    <3>2. CASE Streaming!Has(t) /\ seen' = [seen EXCEPT ![t] = Streaming!Stopped(t)]
      BY <3>2, StoppedType DEF Streaming!Replaced, Streaming!TypeOK
    <3> QED BY <3>1, <3>2, StopEffect
  <2> QED BY <1>1, <1>3, <1>4, <1>6, <2>1, WantedFrame
<1> QED BY <1>5, <1>6

LEMMA LooksWanted ==
  ASSUME Streaming!TypeOK, OnlyWanted, NEW t \in Targets, Streaming!MonitorLooks(t)
  PROVE  OnlyWanted'
<1>0. seen[t] # Streaming!Unset /\ UNCHANGED <<asked, raced>>
  BY LooksEffect DEF Streaming!history
<1>1. CASE Streaming!Skip(t) /\ UNCHANGED <<stream, mon>>
  <2>1. Apart(t) /\ ~Streaming!Replaced(t)' /\ Streaming!Has(t)' = Streaming!Has(t)
    BY <1>0, <1>1 DEF Streaming!Skip, Apart, Streaming!Replaced, Streaming!Has, Streaming!TypeOK
  <2>2. Streaming!Has(t) \/ t \in mon.of => Wanted(t)'
    BY <1>0 DEF OnlyWanted, Wanted
  <2> QED BY <1>1, <2>1, <2>2, WantedFrame
<1>2. ASSUME Streaming!Object(t).status # "stopped",
              NEW object \in Streaming!StreamProcess, Streaming!Update(t, object),
             mon' = [at |-> "delay", of |-> {t}]
      PROVE  OnlyWanted'
  <2>1. Streaming!Has(t) \/ Streaming!Replaced(t)
    BY <1>0, <1>2 DEF Streaming!TypeOK, Streaming!Object, Streaming!Replaced
  <2>2. Wanted(t)'
    BY <1>0, <2>1 DEF OnlyWanted, Wanted
  <2>3. Apart(t)
    BY <1>0, <1>2 DEF Streaming!Update, Apart, Streaming!TypeOK
  <2> QED BY <1>2, <2>2, <2>3, WantedFrame
<1>3. CASE /\ Streaming!Skip(t) /\ UNCHANGED mon
            /\ seen[t] = Streaming!Entry /\ stream' = [stream EXCEPT ![t].status = "error"]
  <2>1. Streaming!Has(t)
    BY <1>3 DEF Streaming!TypeOK
  <2>2. Wanted(t)'
    BY <1>0, <2>1 DEF OnlyWanted, Wanted
  <2>3. Apart(t)
    BY <1>0, <1>3 DEF Streaming!Skip, Apart, Streaming!TypeOK
  <2> QED BY <1>3, <2>2, <2>3, WantedFrame
<1> QED BY <1>1, <1>2, <1>3, LooksEffect

LEMMA WantedStep == Streaming!TypeOK /\ OnlyWanted /\ [Streaming!Next]_(Streaming!vars) => OnlyWanted'
<1> SUFFICES ASSUME Streaming!TypeOK, OnlyWanted, [Streaming!Next]_(Streaming!vars) PROVE OnlyWanted'
  OBVIOUS
<1>1. ASSUME NEW t \in Targets, Streaming!FfmpegExits(t) PROVE OnlyWanted'
  <2>1. Streaming!Has(t) /\ UNCHANGED <<seen, mon, asked, raced>>
    BY <1>1, Values DEF Streaming!FfmpegExits, Streaming!Streams, Streaming!Has, Streaming!history
  <2>2. Wanted(t)'
    BY <2>1 DEF OnlyWanted, Wanted
  <2>3. Apart(t)
    BY <1>1, <2>1 DEF Streaming!FfmpegExits, Apart, Streaming!TypeOK
  <2> QED BY <2>1, <2>2, <2>3, WantedFrame
<1>2. CASE Streaming!MonitorWakes
  <2>1. UNCHANGED <<stream, asked, raced>> /\ mon'.of = mon.of
    BY <1>2 DEF Streaming!MonitorWakes, Streaming!history, Streaming!TypeOK
  <2>2. \A t \in Targets : Streaming!Replaced(t)' => Streaming!Replaced(t)
    BY <1>2 DEF Streaming!MonitorWakes, Streaming!Replaced
  <2> QED BY <2>1, <2>2 DEF OnlyWanted, Wanted, Streaming!Has
<1>3. CASE Streaming!MonitorRestarts
  <2>1. PICK t \in Targets : /\ t \in mon.of /\ Streaming!Skip(t)
                             /\ UNCHANGED stream \/ stream' = [stream EXCEPT ![t] = Streaming!New]
    BY <1>3 DEF Streaming!MonitorRestarts, Streaming!TypeOK
  <2>2. mon'.of = {} /\ UNCHANGED <<asked, raced>>
    BY <1>3 DEF Streaming!MonitorRestarts, Streaming!history
  <2>3. Wanted(t)'
    BY <2>1, <2>2 DEF OnlyWanted, Wanted
  <2>4. Apart(t)
    BY <2>1, <2>2 DEF Streaming!Skip, Apart, Streaming!TypeOK
  <2> QED BY <2>2, <2>3, <2>4, WantedFrame
<1>4. CASE Streaming!MonitorRests \/ UNCHANGED Streaming!vars
  <2>1. UNCHANGED <<stream, seen, asked, raced>> /\ mon'.of = mon.of
    BY <1>4 DEF Streaming!MonitorRests, Streaming!vars, Streaming!history, Streaming!TypeOK
  <2> QED BY <2>1 DEF OnlyWanted, Wanted, Streaming!Has, Streaming!Replaced
<1>5. CASE Streaming!ServerRestarts
  BY <1>5, Values
     DEF Streaming!ServerRestarts, Streaming!NoMonitor, OnlyWanted, Streaming!Has, Streaming!Replaced
<1> QED BY <1>1, <1>2, <1>3, <1>4, <1>5, RequestEffect, StartWanted, StopWanted, LooksWanted
           DEF Streaming!Next, Streaming!Monitor

LEMMA InitWanted == Streaming!Init => OnlyWanted
BY DEF Streaming!Init, Streaming!NoMonitor, OnlyWanted, Streaming!Has, Streaming!Replaced

\* A stopped target streams again only by the two stops that come too late.
THEOREM StoppedStaysStopped == Streaming!Spec => []Streaming!StreamsAsAsked
<1>1. Streaming!Init => Streaming!TypeOK /\ OnlyWanted
  BY StreamingInit, InitWanted
<1>2. Streaming!TypeOK /\ OnlyWanted /\ [Streaming!Next]_(Streaming!vars) => Streaming!TypeOK' /\ OnlyWanted'
  BY StreamingStep, WantedStep
<1>3. OnlyWanted => Streaming!StreamsAsAsked
  BY Values DEF OnlyWanted, Streaming!StreamsAsAsked, Streaming!Streams, Streaming!Has, Wanted
<1> QED BY <1>1, <1>2, <1>3, PTL DEF Streaming!Spec
------------------------------------------------------------------------------
(* Lists *)

\* The places that are kept are counted in their order: each count up to that of
\* the places is that of one place.
LEMMA KeptPlaces ==
  ASSUME NEW m \in Nat, NEW K \in SUBSET (1..m)
  PROVE  /\ Cardinality(K) \in 0..m
         /\ \A n \in 1..Cardinality(K) : Place(K, n) \in K
         /\ \A i \in K : \E n \in 1..Cardinality(K) : Place(K, n) = i
         /\ \A n, l \in 1..Cardinality(K) : Place(K, n) = Place(K, l) => n = l
<1> DEFINE Count(i) == Cardinality(K \cap (1..i))
           f == [i \in K |-> Count(i)]
<1>1. IsFiniteSet(1..m) /\ Cardinality(1..m) = m
  BY FS_Interval
<1>2. IsFiniteSet(K) /\ Cardinality(K) \in 0..m
  <2>1. IsFiniteSet(K) /\ Cardinality(K) <= m
    BY <1>1, FS_Subset
  <2> QED BY <2>1, FS_CardinalityType
<1>3. \A i \in K : IsFiniteSet(K \cap (1..i)) /\ Count(i) \in 0..Cardinality(K) /\ i \in K \cap (1..i)
  BY <1>2, FS_Subset, FS_CardinalityType
<1>4. \A i \in K : Count(i) \in 1..Cardinality(K)
  BY <1>3, FS_EmptySet
<1>5. \A i, j \in K : i < j => Count(i) < Count(j)
  <2> SUFFICES ASSUME NEW i \in K, NEW j \in K, i < j PROVE Count(i) < Count(j)
    OBVIOUS
  <2>1. K \cap (1..i) \subseteq K \cap (1..j) /\ j \notin 1..i
    OBVIOUS
  <2>2. Count(i) <= Count(j) /\ Count(i) # Count(j)
    BY <1>3, <2>1, FS_Subset
  <2> QED BY <1>3, <2>2
<1>6. \A i, j \in K : Count(i) = Count(j) => i = j
  BY <1>3, <1>5
<1>7. \A n \in 1..Cardinality(K) : \E i \in K : Count(i) = n
  <2> HIDE DEF Count
  <2>1. f \in Injection(K, 1..Cardinality(K))
    BY <1>4, <1>6 DEF Injection, IsInjective
  <2>2. Cardinality(1..Cardinality(K)) = Cardinality(K) /\ IsFiniteSet(1..Cardinality(K))
    BY <1>2, FS_Interval
  <2>3. f \in Surjection(K, 1..Cardinality(K))
    BY <2>1, <2>2, FS_Injection
  <2> QED BY <2>3 DEF Surjection
<1>8. \A n \in 1..Cardinality(K) : Place(K, n) \in K /\ Count(Place(K, n)) = n
  BY <1>7 DEF Place
<1>9. \A i \in K : Place(K, Count(i)) = i
  BY <1>4, <1>6, <1>8
<1> HIDE DEF Count
<1> QED BY <1>2, <1>4, <1>8, <1>9

LEMMA KeptItems ==
  ASSUME NEW S, NEW list \in Seq(S), NEW K \in SUBSET DOMAIN list
  PROVE  /\ Kept(list, K) \in Seq(S)
         /\ Len(Kept(list, K)) <= Len(list)
         /\ \A n \in DOMAIN Kept(list, K) : \E i \in K : Kept(list, K)[n] = list[i]
         /\ \A i \in K : \E n \in DOMAIN Kept(list, K) : Kept(list, K)[n] = list[i]
         /\ (\A i, j \in DOMAIN list : list[i] = list[j] => i = j)
              => \A n, l \in DOMAIN Kept(list, K) : Kept(list, K)[n] = Kept(list, K)[l] => n = l
<1>1. Len(list) \in Nat /\ DOMAIN list = 1..Len(list)
  OBVIOUS
<1>2. /\ Cardinality(K) \in 0..Len(list)
      /\ \A n \in 1..Cardinality(K) : Place(K, n) \in K
      /\ \A i \in K : \E n \in 1..Cardinality(K) : Place(K, n) = i
      /\ \A n, l \in 1..Cardinality(K) : Place(K, n) = Place(K, l) => n = l
  BY <1>1, KeptPlaces
<1>3. \A n \in 1..Cardinality(K) : Kept(list, K)[n] = list[Place(K, n)] /\ list[Place(K, n)] \in S
  BY <1>1, <1>2 DEF Kept
<1>4. DOMAIN Kept(list, K) = 1..Cardinality(K) /\ Kept(list, K) \in Seq(S) /\ Len(Kept(list, K)) = Cardinality(K)
  BY <1>2, <1>3 DEF Kept
<1>5. \A n \in DOMAIN Kept(list, K) : \E i \in K : Kept(list, K)[n] = list[i]
  BY <1>2, <1>3, <1>4
<1>6. \A i \in K : \E n \in DOMAIN Kept(list, K) : Kept(list, K)[n] = list[i]
  BY <1>2, <1>3, <1>4
<1>7. ASSUME \A i, j \in DOMAIN list : list[i] = list[j] => i = j
      PROVE  \A n, l \in DOMAIN Kept(list, K) : Kept(list, K)[n] = Kept(list, K)[l] => n = l
  BY <1>2, <1>3, <1>4, <1>7
<1> QED BY <1>1, <1>2, <1>4, <1>5, <1>6, <1>7
------------------------------------------------------------------------------
(* PlaybackSessions *)

\* The instance's operators on sets and lists are those that this module has by name.
LEMMA SessionsOperators ==
  /\ \A S : Sessions!Cardinality(S) = Cardinality(S)
  /\ \A list, K : Sessions!Kept(list, K) = Kept(list, K)
<1>1. \A S : Sessions!Cardinality(S) = Cardinality(S)
  BY DEF Sessions!Cardinality, Cardinality
<1>2. \A K, n : Sessions!Place(K, n) = Place(K, n)
  BY <1>1 DEF Sessions!Place, Place
<1> QED BY <1>1, <1>2 DEF Sessions!Kept, Kept

\* The limit, as the counts it is made of.
LEMMA LimitCounts ==
  /\ Sessions!LimitButForRaces
       <=> Len(mine) + Cardinality(Sessions!Creating) <= MaxSessions - 1 + Cardinality(Creators)
  /\ Sessions!LimitButForRaces'
       <=> Len(mine') + Cardinality(Sessions!Creating') <= MaxSessions - 1 + Cardinality(Creators)
BY SessionsOperators DEF Sessions!LimitButForRaces

\* Creations under way have drawn ids of their own
OwnIds == \A k, l \in Sessions!Creating : creator[k] = creator[l] => k = l

SessionsInv ==
  Sessions!TypeOK /\ OwnIds /\ Sessions!ListMatchesTable /\ Sessions!LimitButForRaces

\* The creations under way are as many as the creators at most.
LEMMA CreatingIsFinite ==
  /\ IsFiniteSet(Sessions!Creating) /\ Cardinality(Sessions!Creating) \in Nat /\ Cardinality(Creators) \in Nat
  /\ Cardinality(Sessions!Creating) <= Cardinality(Creators)
  /\ Cardinality(Sessions!Creating') <= Cardinality(Creators) /\ Cardinality(Sessions!Creating') \in Nat
BY SessionsAssumption, FS_Subset, FS_CardinalityType DEF Sessions!Creating

LEMMA SessionsInit == Sessions!Init => SessionsInv
<1> SUFFICES ASSUME Sessions!Init PROVE SessionsInv
  OBVIOUS
<1>1. Sessions!Creating = {}
  BY DEF Sessions!Init, Sessions!Creating
<1>2. Sessions!TypeOK
  BY DEF Sessions!Init, Sessions!TypeOK
<1>3. OwnIds /\ Sessions!ListMatchesTable
  BY <1>1 DEF Sessions!Init, OwnIds, Sessions!ListMatchesTable, Sessions!ToSet
<1>4. Cardinality(Sessions!Creating) = 0
  BY <1>1, FS_EmptySet
<1>5. Sessions!LimitButForRaces
  BY <1>4, CreatingIsFinite, SessionsAssumption, LimitCounts DEF Sessions!Init
<1> QED BY <1>2, <1>3, <1>5 DEF SessionsInv

\* A creation is over.
LEMMA CreationEnds ==
  ASSUME SessionsInv, NEW k \in Creators, creator[k] # "none", creator' = [creator EXCEPT ![k] = "none"]
  PROVE  /\ creator' \in [Creators -> Ids \cup {"none"}] /\ OwnIds'
         /\ Sessions!Creating' = Sessions!Creating \ {k}
         /\ \A l \in Sessions!Creating' : creator'[l] = creator[l] /\ creator[l] # creator[k]
         /\ Cardinality(Sessions!Creating') = Cardinality(Sessions!Creating) - 1
<1>1. creator \in [Creators -> Ids \cup {"none"}] /\ OwnIds
  BY DEF SessionsInv, Sessions!TypeOK
<1>2. Sessions!Creating' = Sessions!Creating \ {k} /\ k \in Sessions!Creating
  BY <1>1 DEF Sessions!Creating
<1>3. \A l \in Sessions!Creating' : creator'[l] = creator[l] /\ creator[l] # creator[k]
  BY <1>1, <1>2 DEF OwnIds, Sessions!Creating
<1>4. OwnIds'
  BY <1>1, <1>2, <1>3 DEF OwnIds
<1>5. Cardinality(Sessions!Creating') = Cardinality(Sessions!Creating) - 1
  BY <1>2, CreatingIsFinite, FS_RemoveElement
<1> QED BY <1>1, <1>2, <1>3, <1>4, <1>5

\* Sessions go from the table and the list.
LEMMA SessionsGo ==
  ASSUME SessionsInv, NEW gone \in SUBSET sessions,
         sessions' = sessions \ gone, mine' = Sessions!Without(gone), UNCHANGED <<creator, expired>>
  PROVE  SessionsInv'
<1> DEFINE K == {n \in DOMAIN mine : mine[n] \notin gone}
<1>0. /\ Sessions!TypeOK /\ OwnIds /\ Sessions!ListMatchesTable /\ Sessions!LimitButForRaces
      /\ mine \in Seq(Ids) /\ Len(mine) \in Nat
  BY DEF SessionsInv, Sessions!TypeOK
<1>1. /\ mine' \in Seq(Ids) /\ Len(mine') <= Len(mine)
      /\ \A n \in DOMAIN mine' : \E i \in K : mine'[n] = mine[i]
      /\ \A i \in K : \E n \in DOMAIN mine' : mine'[n] = mine[i]
      /\ (\A i, j \in DOMAIN mine : mine[i] = mine[j] => i = j)
           => \A n, l \in DOMAIN mine' : mine'[n] = mine'[l] => n = l
  <2>1. K \in SUBSET DOMAIN mine /\ mine' = Kept(mine, K)
    BY SessionsOperators DEF Sessions!Without
  <2> HIDE DEF K
  <2> QED BY <1>0, <2>1, KeptItems
<1>2. Sessions!TypeOK'
  BY <1>0, <1>1 DEF Sessions!TypeOK
<1>3. Sessions!ToSet(mine') = sessions'
  <2>1. sessions = {mine[n] : n \in DOMAIN mine}
    BY <1>0 DEF Sessions!ListMatchesTable, Sessions!ToSet
  <2>2. Sessions!ToSet(mine') \subseteq sessions'
    BY <1>1, <2>1 DEF Sessions!ToSet
  <2>3. sessions' \subseteq Sessions!ToSet(mine')
    BY <1>1, <2>1 DEF Sessions!ToSet
  <2> QED BY <2>2, <2>3
<1>4. Sessions!Creating' = Sessions!Creating
  BY DEF Sessions!Creating
<1>5. Sessions!ListMatchesTable'
  BY <1>0, <1>1, <1>3, <1>4 DEF Sessions!ListMatchesTable
<1>6. Sessions!LimitButForRaces'
  BY <1>0, <1>1, <1>4, CreatingIsFinite, SessionsAssumption, LimitCounts
<1>7. OwnIds'
  BY <1>0, <1>4 DEF OwnIds
<1> QED BY <1>2, <1>5, <1>6, <1>7 DEF SessionsInv

\* A creation begins, and the oldest session may go.
LEMMA CreationBegins ==
  ASSUME SessionsInv, NEW k \in Creators, NEW i \in Ids, Sessions!Begin(k, i)
  PROVE  SessionsInv'
<1>0. /\ Sessions!TypeOK /\ OwnIds /\ Sessions!ListMatchesTable /\ Sessions!LimitButForRaces
      /\ mine \in Seq(Ids) /\ Len(mine) \in Nat /\ MaxSessions \in Nat \ {0}
      /\ creator \in [Creators -> Ids \cup {"none"}] /\ "none" \notin Ids
  BY SessionsAssumption DEF SessionsInv, Sessions!TypeOK
<1>1. /\ creator[k] = "none" /\ i \notin Sessions!Drawn /\ creator' = [creator EXCEPT ![k] = i] /\ UNCHANGED expired
      /\ k \notin Sessions!Creating
  BY DEF Sessions!Begin, Sessions!Creating
<1>2. Sessions!Creating' = Sessions!Creating \cup {k}
  BY <1>0, <1>1 DEF Sessions!Creating
<1>3. Cardinality(Sessions!Creating') = Cardinality(Sessions!Creating) + 1
  BY <1>1, <1>2, CreatingIsFinite, FS_AddElement
<1>4. \A l \in Sessions!Creating : creator'[l] = creator[l] /\ creator[l] # i
  BY <1>0, <1>1 DEF Sessions!Creating, Sessions!Drawn
<1>5. i \notin sessions /\ creator'[k] = i
  BY <1>0, <1>1 DEF Sessions!Drawn
<1>6. OwnIds'
  BY <1>0, <1>2, <1>4, <1>5 DEF OwnIds
<1>7. CASE Len(mine) >= MaxSessions
  <2>1. mine' = Tail(mine) /\ sessions' = sessions \ {Head(mine)}
    BY <1>7 DEF Sessions!Begin
  <2>2. /\ mine # <<>> /\ mine' \in Seq(Ids) /\ Len(mine') = Len(mine) - 1
        /\ \A n \in 1..(Len(mine) - 1) : mine'[n] = mine[n + 1]
        /\ DOMAIN mine = 1..Len(mine) /\ DOMAIN mine' = 1..(Len(mine) - 1)
    BY <1>0, <1>7, <2>1
  <2>3. \A n, l \in DOMAIN mine' : mine'[n] = mine'[l] => n = l
    <3>1. \A n \in DOMAIN mine' : n + 1 \in DOMAIN mine /\ mine'[n] = mine[n + 1]
      BY <2>2
    <3>2. \A n, l \in DOMAIN mine' : mine'[n] = mine'[l] => n + 1 = l + 1
      BY <1>0, <3>1 DEF Sessions!ListMatchesTable
    <3>3. DOMAIN mine' \subseteq Nat
      BY <2>2
    <3> QED BY <3>2, <3>3
  <2>4. Sessions!ToSet(mine') = sessions'
    <3>1. Head(mine) = mine[1] /\ 1 \in DOMAIN mine
      BY <2>2
    <3>2. \A n \in DOMAIN mine : n # 1 => n - 1 \in DOMAIN mine' /\ mine'[n - 1] = mine[n]
      BY <2>2
    <3>3. \A n \in DOMAIN mine' : n + 1 \in DOMAIN mine /\ mine'[n] = mine[n + 1] /\ n + 1 # 1
      BY <2>2
    <3>4. \A n \in DOMAIN mine : n # 1 => mine[n] # mine[1]
      BY <1>0, <3>1 DEF Sessions!ListMatchesTable
    <3>5. sessions = {mine[n] : n \in DOMAIN mine}
      BY <1>0 DEF Sessions!ListMatchesTable, Sessions!ToSet
    <3>6. sessions' \subseteq Sessions!ToSet(mine')
      BY <2>1, <3>1, <3>2, <3>5 DEF Sessions!ToSet
    <3>7. Sessions!ToSet(mine') \subseteq sessions'
      BY <2>1, <3>1, <3>3, <3>4, <3>5 DEF Sessions!ToSet
    <3> QED BY <3>6, <3>7
  <2>5. Sessions!ListMatchesTable'
    BY <1>0, <1>2, <1>4, <1>5, <2>1, <2>3, <2>4 DEF Sessions!ListMatchesTable
  <2>6. Sessions!LimitButForRaces'
    BY <1>0, <1>3, <2>2, CreatingIsFinite, LimitCounts
  <2>7. Sessions!TypeOK'
    BY <1>0, <1>1, <2>1, <2>2 DEF Sessions!TypeOK
  <2> QED BY <1>6, <2>5, <2>6, <2>7 DEF SessionsInv
<1>8. CASE ~(Len(mine) >= MaxSessions)
  <2>1. UNCHANGED <<mine, sessions>>
    BY <1>8 DEF Sessions!Begin
  <2>2. Sessions!ListMatchesTable'
    BY <1>0, <1>2, <1>4, <1>5, <2>1 DEF Sessions!ListMatchesTable
  <2>3. Sessions!LimitButForRaces'
    BY <1>0, <1>8, <2>1, CreatingIsFinite, LimitCounts
  <2>4. Sessions!TypeOK'
    BY <1>0, <1>1, <2>1 DEF Sessions!TypeOK
  <2> QED BY <1>6, <2>2, <2>3, <2>4 DEF SessionsInv
<1> QED BY <1>7, <1>8

LEMMA SessionStored ==
  ASSUME SessionsInv, NEW k \in Creators, Sessions!Store(k)
  PROVE  SessionsInv'
<1>0. /\ Sessions!TypeOK /\ OwnIds /\ Sessions!ListMatchesTable /\ Sessions!LimitButForRaces
      /\ mine \in Seq(Ids) /\ Len(mine) \in Nat /\ MaxSessions \in Nat \ {0} /\ "none" \notin Ids
  BY SessionsAssumption DEF SessionsInv, Sessions!TypeOK
<1>1. /\ creator[k] # "none" /\ sessions' = sessions \cup {creator[k]} /\ mine' = Append(mine, creator[k])
      /\ creator' = [creator EXCEPT ![k] = "none"] /\ UNCHANGED expired
  BY DEF Sessions!Store
<1>2. creator[k] \in Ids /\ creator[k] \notin sessions /\ k \in Sessions!Creating
  BY <1>0, <1>1 DEF Sessions!TypeOK, Sessions!ListMatchesTable, Sessions!Creating
<1>3. /\ mine' \in Seq(Ids) /\ Len(mine') = Len(mine) + 1 /\ mine'[Len(mine) + 1] = creator[k]
      /\ \A n \in DOMAIN mine : mine'[n] = mine[n] /\ n # Len(mine) + 1
      /\ DOMAIN mine' = DOMAIN mine \cup {Len(mine) + 1}
  BY <1>0, <1>1, <1>2
<1>4. Sessions!ToSet(mine') = sessions'
  BY <1>0, <1>1, <1>3 DEF Sessions!ListMatchesTable, Sessions!ToSet
<1>5. \A n \in DOMAIN mine : mine[n] # creator[k]
  BY <1>0, <1>2 DEF Sessions!ListMatchesTable, Sessions!ToSet
<1>6. \A n, l \in DOMAIN mine' : mine'[n] = mine'[l] => n = l
  BY <1>0, <1>3, <1>5 DEF Sessions!ListMatchesTable
<1>7. /\ creator' \in [Creators -> Ids \cup {"none"}] /\ OwnIds'
      /\ Sessions!Creating' = Sessions!Creating \ {k}
      /\ \A l \in Sessions!Creating' : creator'[l] = creator[l] /\ creator[l] # creator[k]
      /\ Cardinality(Sessions!Creating') = Cardinality(Sessions!Creating) - 1
  BY <1>1, CreationEnds
<1>8. Sessions!ListMatchesTable'
  BY <1>0, <1>1, <1>4, <1>6, <1>7 DEF Sessions!ListMatchesTable
<1>9. Sessions!LimitButForRaces'
  BY <1>0, <1>3, <1>7, CreatingIsFinite, LimitCounts
<1>10. Sessions!TypeOK'
  BY <1>0, <1>1, <1>2, <1>3, <1>7 DEF Sessions!TypeOK
<1> QED BY <1>7, <1>8, <1>9, <1>10 DEF SessionsInv

LEMMA SessionsStep == SessionsInv /\ [Sessions!Next]_sessionVars => SessionsInv'
<1> SUFFICES ASSUME SessionsInv, [Sessions!Next]_sessionVars PROVE SessionsInv'
  OBVIOUS
<1>0. Sessions!TypeOK /\ OwnIds /\ Sessions!ListMatchesTable /\ Sessions!LimitButForRaces
  BY DEF SessionsInv
<1>1. ASSUME NEW k \in Creators, Sessions!CreateCancelled(k) PROVE SessionsInv'
  <2>1. /\ creator' \in [Creators -> Ids \cup {"none"}] /\ OwnIds'
        /\ Sessions!Creating' = Sessions!Creating \ {k}
        /\ \A l \in Sessions!Creating' : creator'[l] = creator[l]
        /\ Cardinality(Sessions!Creating') = Cardinality(Sessions!Creating) - 1
    BY <1>1, CreationEnds DEF Sessions!CreateCancelled
  <2>2. UNCHANGED <<sessions, mine, expired>> /\ Len(mine) \in Nat
    BY <1>0, <1>1 DEF Sessions!CreateCancelled, Sessions!TypeOK
  <2>3. Sessions!ListMatchesTable'
    BY <1>0, <2>1, <2>2 DEF Sessions!ListMatchesTable
  <2>4. Sessions!LimitButForRaces'
    BY <1>0, <2>1, <2>2, CreatingIsFinite, SessionsAssumption, LimitCounts
  <2>5. Sessions!TypeOK'
    BY <1>0, <2>1, <2>2 DEF Sessions!TypeOK
  <2> QED BY <2>1, <2>3, <2>4, <2>5 DEF SessionsInv
<1>2. CASE UNCHANGED <<sessions, mine, creator>> /\ expired' \in SUBSET Ids
  BY <1>0, <1>2
     DEF SessionsInv, Sessions!TypeOK, OwnIds, Sessions!ListMatchesTable, Sessions!LimitButForRaces,
     Sessions!Creating
<1>3. ASSUME NEW i \in Ids, Sessions!TimePasses(i) PROVE SessionsInv'
  BY <1>0, <1>2, <1>3 DEF Sessions!TimePasses, Sessions!TypeOK
<1>4. ASSUME NEW i \in Ids, Sessions!Invalidate(i) PROVE SessionsInv'
  BY <1>4, SessionsGo DEF Sessions!Invalidate
<1>5. CASE Sessions!Cleanup
  <2>1. sessions' = sessions \ (sessions \cap expired)
    BY <1>5 DEF Sessions!Cleanup
  <2> QED BY <1>5, <2>1, SessionsGo DEF Sessions!Cleanup
<1>6. CASE Sessions!ServerRestarts
  <2>1. Sessions!Creating' = {} /\ sessions' = {} /\ mine' = <<>> /\ expired' = {}
        /\ creator' = [k \in Creators |-> "none"]
    BY <1>6 DEF Sessions!ServerRestarts, Sessions!Creating
  <2>2. Sessions!TypeOK'
    BY <2>1 DEF Sessions!TypeOK
  <2>3. OwnIds' /\ Sessions!ListMatchesTable'
    BY <2>1 DEF OwnIds, Sessions!ListMatchesTable, Sessions!ToSet
  <2>4. Cardinality(Sessions!Creating') = 0 /\ Len(mine') = 0
    BY <2>1, FS_EmptySet
  <2>5. Sessions!LimitButForRaces'
    BY <2>4, CreatingIsFinite, SessionsAssumption, LimitCounts
  <2> QED BY <2>2, <2>3, <2>5 DEF SessionsInv
<1>7. CASE UNCHANGED sessionVars
  BY <1>0, <1>2, <1>7 DEF sessionVars, Sessions!TypeOK
<1> QED BY <1>1, <1>3, <1>4, <1>5, <1>6, <1>7, CreationBegins, SessionStored DEF Sessions!Next

\* The table of the playback sessions and the user's list name the same sessions,
\* each once, and the limit is passed only by creations that are under way at once.
THEOREM PlaybackSessionsAgree ==
  Sessions!Spec => [](Sessions!TypeOK /\ Sessions!ListMatchesTable /\ Sessions!LimitButForRaces)
<1>1. [Sessions!Next]_(Sessions!vars) => [Sessions!Next]_sessionVars
  BY DEF Sessions!vars, sessionVars
<1>2. SessionsInv => Sessions!TypeOK /\ Sessions!ListMatchesTable /\ Sessions!LimitButForRaces
  BY DEF SessionsInv
<1> QED BY <1>1, <1>2, SessionsInit, SessionsStep, PTL DEF Sessions!Spec
------------------------------------------------------------------------------
(* StreamProxy *)

AuditEvents ==
  [failed : BOOLEAN, opened : 0..1, closed : 0..1,
   reason : {"none", "normal", "exception", "upstream_close"}]
UpstreamSocket == [open : BOOLEAN, ended : {"no", "normal", "error"}]

\* The parts of the type that a step of the run, of a pump and of a peer may touch
RunType  == /\ run \in {"connect", "accept", "pump", "drain", "close_upstream", "close_client", "done"}
            /\ excused \in BOOLEAN /\ blamed \in BOOLEAN
PeerType == upstream \in UpstreamSocket /\ client \in {"waiting", "open", "gone", "closed"}
PumpType == /\ toClient \in Proxy!PumpStates /\ toAdapter \in Proxy!PumpStates /\ captured \in BOOLEAN
            /\ results \in [sent : 0..MaxResults, read : 0..MaxResults]

LEMMA ProxyTypeParts ==
  /\ Proxy!TypeOK <=> RunType /\ PeerType /\ PumpType /\ audit \in AuditEvents
  /\ Proxy!TypeOK' <=> RunType' /\ PeerType' /\ PumpType' /\ audit' \in AuditEvents
BY DEF Proxy!TypeOK, RunType, PeerType, PumpType, AuditEvents, UpstreamSocket

\* What the audit has by where the run is
AuditByRun ==
  /\ run \in {"connect", "accept"} => audit.opened = 0 /\ audit.closed = 0
  /\ run \in {"pump", "drain"} => audit.opened = 1 /\ audit.closed = 0
  /\ run \in {"close_upstream", "close_client"} => audit.opened = 1 /\ audit.closed = 1
  /\ run = "done" => audit.closed = audit.opened

\* The adapter's pump that ended under a client that is there has seen how the
\* adapter left; the client's pump never raises
PumpsSaw ==
  /\ toClient = "ended" /\ client = "open"
       => (~upstream.open \/ upstream.ended # "no") /\ (captured <=> upstream.ended = "error")
  /\ toAdapter # "raised"

\* What the run found when it woke is still so when it writes the reason
BlameKept ==
  /\ run \in {"connect", "accept", "pump"} => ~blamed
  /\ run = "drain" => toClient \notin {"reading", "sending"} /\ (blamed => captured /\ toClient # "raised")

\* The adapter's socket by where the run is; no pump is at work before the client is accepted
UpstreamByRun ==
  /\ run = "connect" => ~upstream.open
  /\ run \in {"connect", "accept"} => toClient = "off" /\ toAdapter = "off"
  /\ run \in {"accept", "pump", "drain"} => upstream.open
  /\ run \in {"close_client", "done"} /\ upstream.open => excused

ProxyParts == AuditByRun /\ PumpsSaw /\ BlameKept /\ UpstreamByRun /\ Proxy!FailureIsAudited

LEMMA ProxyInit == Proxy!Init => Proxy!TypeOK /\ ProxyParts
<1> SUFFICES ASSUME Proxy!Init PROVE Proxy!TypeOK /\ ProxyParts
  OBVIOUS
<1>1. results \in [sent : 0..MaxResults, read : 0..MaxResults]
  BY ServicesAssumption DEF Proxy!Init
<1>2. RunType /\ PeerType
  BY DEF Proxy!Init, RunType, PeerType, UpstreamSocket
<1>3. PumpType
  BY <1>1 DEF Proxy!Init, PumpType, Proxy!PumpStates
<1>4. audit \in AuditEvents
  BY DEF Proxy!Init, AuditEvents
<1>5. ProxyParts
  BY DEF Proxy!Init, ProxyParts, AuditByRun, PumpsSaw, BlameKept, UpstreamByRun, Proxy!FailureIsAudited
<1> QED BY <1>2, <1>3, <1>4, <1>5, ProxyTypeParts

\* The run ends, with the event of how it was closed.
LEMMA CloseEffect ==
  ASSUME Proxy!TypeOK, audit.closed = 0, NEW raised \in BOOLEAN, Proxy!Close(raised)
  PROVE  /\ run' = "close_upstream" /\ audit' \in AuditEvents
         /\ audit'.opened = audit.opened /\ audit'.closed = 1
         /\ captured /\ ~raised => audit'.reason = "upstream_close"
<1>1. audit \in AuditEvents
  BY ProxyTypeParts
<1>2. Proxy!Reason(raised) \in {"normal", "exception", "upstream_close"}
  BY DEF Proxy!Reason
<1>3. captured /\ ~raised => Proxy!Reason(raised) = "upstream_close"
  BY DEF Proxy!Reason
<1>4. audit' = [audit EXCEPT !.closed = 1, !.reason = Proxy!Reason(raised)]
  BY DEF Proxy!Close
<1>5. audit' = [failed |-> audit.failed, opened |-> audit.opened, closed |-> 1, reason |-> Proxy!Reason(raised)]
  BY <1>1, <1>4 DEF AuditEvents
<1> QED BY <1>1, <1>2, <1>3, <1>5 DEF Proxy!Close, AuditEvents

LEMMA RunStep ==
  ASSUME Proxy!TypeOK, ProxyParts, Proxy!Run
  PROVE  Proxy!TypeOK' /\ ProxyParts'
<1>0. RunType /\ PeerType /\ PumpType /\ audit \in AuditEvents
  BY ProxyTypeParts
<1>1. CASE Proxy!Connect
  <2>1. audit' \in AuditEvents /\ audit'.opened = audit.opened /\ audit'.closed = audit.closed
    BY <1>0, <1>1 DEF Proxy!Connect, AuditEvents
  <2>2. PumpType' /\ PeerType'
    BY <1>0, <1>1 DEF Proxy!Connect, Proxy!pumps, PumpType, PeerType, UpstreamSocket
  <2>3. RunType'
    BY <1>0, <1>1 DEF Proxy!Connect, Proxy!history, RunType
  <2>4. (run' = "done" => ~upstream'.open) /\ (run' = "accept" => upstream'.open)
    BY <1>0, <1>1 DEF Proxy!Connect, ProxyParts, UpstreamByRun, PeerType, UpstreamSocket
  <2>5. run' \in {"accept", "done"} /\ UNCHANGED <<toClient, toAdapter, captured, blamed, excused>>
    BY <1>1 DEF Proxy!Connect, Proxy!pumps, Proxy!history
  <2>6. run = "connect"
    BY <1>1 DEF Proxy!Connect
  <2>7. ProxyParts'
    BY <2>1, <2>4, <2>5, <2>6
       DEF ProxyParts, AuditByRun, PumpsSaw, BlameKept, UpstreamByRun, Proxy!FailureIsAudited
  <2> QED BY <2>1, <2>2, <2>3, <2>7, ProxyTypeParts
<1>2. CASE Proxy!Accept
  <2>1. CASE client = "gone"
    <3>1. /\ UNCHANGED <<audit, upstream, client, toClient, toAdapter, captured, results, blamed>>
          /\ run' = "done" /\ excused' = TRUE
      BY <1>2, <2>1 DEF Proxy!Accept
    <3>2. RunType' /\ PeerType' /\ PumpType' /\ audit' \in AuditEvents
      BY <1>0, <3>1 DEF RunType, PeerType, PumpType
    <3>3. ProxyParts'
      BY <1>2, <3>1
         DEF Proxy!Accept, ProxyParts, AuditByRun, PumpsSaw, BlameKept, UpstreamByRun, Proxy!FailureIsAudited
    <3> QED BY <3>2, <3>3, ProxyTypeParts
  <2>2. CASE client # "gone"
    <3>1. UNCHANGED <<upstream, captured, results, blamed, excused>> /\ run' = "pump"
          /\ client' = "open" /\ toClient' = "reading" /\ toAdapter' = "reading"
      BY <1>2, <2>2 DEF Proxy!Accept
    <3>2. audit' \in AuditEvents /\ audit'.opened = 1 /\ audit'.closed = audit.closed
      BY <1>0, <1>2, <2>2 DEF Proxy!Accept, AuditEvents
    <3>3. RunType' /\ PeerType' /\ PumpType'
      BY <1>0, <3>1 DEF RunType, PeerType, PumpType, Proxy!PumpStates
    <3>4. ProxyParts'
      BY <1>2, <3>1, <3>2
         DEF Proxy!Accept, ProxyParts, AuditByRun, PumpsSaw, BlameKept, UpstreamByRun, Proxy!FailureIsAudited
    <3> QED BY <3>2, <3>3, <3>4, ProxyTypeParts
  <2> QED BY <2>1, <2>2
<1>3. CASE Proxy!PumpEnds
  BY <1>3 DEF Proxy!PumpEnds, Proxy!Cancelled, Proxy!Blamed, Proxy!Over, Proxy!sockets, Proxy!TypeOK,
     Proxy!PumpStates, ProxyParts, AuditByRun, PumpsSaw, BlameKept, UpstreamByRun, Proxy!FailureIsAudited
<1>4. CASE Proxy!Drained
  <2> DEFINE raised == toClient = "raised" \/ toAdapter = "raised"
  <2>1. raised \in BOOLEAN /\ Proxy!Close(raised) /\ audit.closed = 0 /\ run = "drain" /\ audit.opened = 1
    BY <1>4 DEF Proxy!Drained, ProxyParts, AuditByRun
  <2>2. UNCHANGED <<upstream, client, toClient, toAdapter, captured, results, excused, blamed>>
    BY <1>4 DEF Proxy!Drained, Proxy!sockets, Proxy!pumps, Proxy!history
  <2> HIDE DEF raised
  <2>3. RunType' /\ PeerType' /\ PumpType' /\ audit' \in AuditEvents
    BY <1>0, <2>1, <2>2, CloseEffect DEF RunType, PeerType, PumpType
  <2>4. blamed => captured /\ ~raised
    BY <2>1 DEF ProxyParts, BlameKept, PumpsSaw, raised
  <2>5. ProxyParts'
    BY <2>1, <2>2, <2>4, CloseEffect
       DEF ProxyParts, AuditByRun, PumpsSaw, BlameKept, UpstreamByRun, Proxy!FailureIsAudited
  <2> QED BY <2>3, <2>5, ProxyTypeParts
<1>5. CASE Proxy!CloseUpstream
  <2>1. UNCHANGED <<client, toClient, toAdapter, captured, results, audit, blamed>> /\ run' = "close_client"
    BY <1>5 DEF Proxy!CloseUpstream, Proxy!pumps
  <2>2. /\ upstream' \in UpstreamSocket /\ upstream'.ended = upstream.ended
        /\ (upstream'.open => upstream.open /\ excused')
        /\ excused' \in BOOLEAN
    BY <1>0, <1>5 DEF Proxy!CloseUpstream, PeerType, RunType, UpstreamSocket
  <2>3. RunType' /\ PeerType' /\ PumpType'
    BY <1>0, <2>1, <2>2 DEF RunType, PeerType, PumpType
  <2>4. ProxyParts'
    BY <1>5, <2>1, <2>2
       DEF Proxy!CloseUpstream, ProxyParts, AuditByRun, PumpsSaw, BlameKept, UpstreamByRun,
           Proxy!FailureIsAudited
  <2> QED BY <1>0, <2>1, <2>3, <2>4, ProxyTypeParts
<1>6. CASE Proxy!CloseClient
  BY <1>6 DEF Proxy!CloseClient, Proxy!pumps, Proxy!history, Proxy!TypeOK, Proxy!PumpStates,
     ProxyParts, AuditByRun, PumpsSaw, BlameKept, UpstreamByRun, Proxy!FailureIsAudited
<1> QED BY <1>1, <1>2, <1>3, <1>4, <1>5, <1>6 DEF Proxy!Run

LEMMA PumpsStep ==
  ASSUME Proxy!TypeOK, ProxyParts, Proxy!Pumps
  PROVE  Proxy!TypeOK' /\ ProxyParts'
<1>0. RunType /\ PeerType /\ PumpType /\ audit \in AuditEvents
  BY ProxyTypeParts
<1>1. UNCHANGED <<run, upstream, client, audit, excused, blamed>>
  BY DEF Proxy!Pumps, Proxy!ReadResult, Proxy!RelayResult, Proxy!AdapterGone, Proxy!ReceiveFromClient,
     Proxy!SendToAdapter, Proxy!sockets, Proxy!history
<1>2. PumpType'
  <2>1. results' \in [sent : 0..MaxResults, read : 0..MaxResults]
    BY <1>0, ServicesAssumption
       DEF PumpType, Proxy!Pumps, Proxy!ReadResult, Proxy!RelayResult, Proxy!AdapterGone,
       Proxy!ReceiveFromClient, Proxy!SendToAdapter
  <2> QED BY <1>0, <2>1 DEF PumpType, Proxy!Pumps, Proxy!ReadResult, Proxy!RelayResult, Proxy!AdapterGone,
       Proxy!ReceiveFromClient, Proxy!SendToAdapter, Proxy!PumpStates, Proxy!Over
<1>3. PumpsSaw'
  <2>1. CASE Proxy!AdapterGone
    BY <1>1, <2>1 DEF Proxy!AdapterGone, ProxyParts, PumpsSaw
  <2>2. CASE Proxy!ReadResult \/ Proxy!RelayResult
    BY <1>1, <2>2 DEF Proxy!ReadResult, Proxy!RelayResult, ProxyParts, PumpsSaw
  <2>3. CASE Proxy!ReceiveFromClient \/ Proxy!SendToAdapter
    BY <1>1, <2>3 DEF Proxy!ReceiveFromClient, Proxy!SendToAdapter, ProxyParts, PumpsSaw
  <2> QED BY <2>1, <2>2, <2>3 DEF Proxy!Pumps
<1>4. BlameKept' /\ UpstreamByRun'
  BY <1>1 DEF ProxyParts, BlameKept, UpstreamByRun, Proxy!Pumps, Proxy!ReadResult, Proxy!RelayResult,
         Proxy!AdapterGone,
     Proxy!ReceiveFromClient, Proxy!SendToAdapter, Proxy!Over
<1>5. AuditByRun' /\ Proxy!FailureIsAudited'
  BY <1>1 DEF ProxyParts, AuditByRun, Proxy!FailureIsAudited
<1>6. RunType' /\ PeerType' /\ audit' \in AuditEvents
  BY <1>0, <1>1 DEF RunType, PeerType
<1> QED BY <1>2, <1>3, <1>4, <1>5, <1>6, ProxyTypeParts DEF ProxyParts

LEMMA PeersStep ==
  ASSUME Proxy!TypeOK, ProxyParts, Proxy!AdapterSends \/ Proxy!AdapterLeaves \/ Proxy!ClientLeaves
  PROVE  Proxy!TypeOK' /\ ProxyParts'
<1>0. RunType /\ PeerType /\ PumpType /\ audit \in AuditEvents
  BY ProxyTypeParts
<1>1. UNCHANGED <<run, toClient, toAdapter, captured, audit, excused, blamed>>
  BY DEF Proxy!AdapterSends, Proxy!AdapterLeaves, Proxy!ClientLeaves, Proxy!pumps, Proxy!history
<1>2. results' \in [sent : 0..MaxResults, read : 0..MaxResults]
  BY <1>0, ServicesAssumption
     DEF PumpType, Proxy!AdapterSends, Proxy!AdapterLeaves, Proxy!ClientLeaves, Proxy!pumps
<1>3. PeerType' /\ upstream'.open = upstream.open /\ (client' = "open" => client = "open")
  BY <1>0 DEF PeerType, UpstreamSocket, Proxy!AdapterSends, Proxy!AdapterLeaves, Proxy!ClientLeaves,
         Proxy!sockets
<1>4. upstream.ended # "no" => upstream'.ended = upstream.ended
  BY DEF Proxy!AdapterSends, Proxy!AdapterLeaves, Proxy!ClientLeaves, Proxy!sockets
<1>5. ~upstream.open => upstream'.ended = upstream.ended
  BY DEF Proxy!AdapterSends, Proxy!AdapterLeaves, Proxy!ClientLeaves, Proxy!sockets
<1>6. ProxyParts'
  BY <1>1, <1>3, <1>4, <1>5
     DEF ProxyParts, AuditByRun, PumpsSaw, BlameKept, UpstreamByRun, Proxy!FailureIsAudited
<1>7. RunType' /\ PumpType' /\ audit' \in AuditEvents
  BY <1>0, <1>1, <1>2 DEF RunType, PumpType
<1> QED BY <1>3, <1>6, <1>7, ProxyTypeParts

LEMMA CancelStep ==
  ASSUME Proxy!TypeOK, ProxyParts, Proxy!Cancel
  PROVE  Proxy!TypeOK' /\ ProxyParts'
<1>0. RunType /\ PeerType /\ PumpType /\ audit \in AuditEvents
  BY ProxyTypeParts
<1>1. UNCHANGED <<upstream, client, toClient, toAdapter, captured, results>>
  BY DEF Proxy!Cancel, Proxy!sockets, Proxy!pumps
<1>2. PeerType' /\ PumpType'
  BY <1>0, <1>1 DEF PeerType, PumpType
<1>3. CASE run = "pump"
  <2>1. Proxy!Close(FALSE) /\ blamed' = Proxy!Blamed /\ UNCHANGED excused
    BY <1>3 DEF Proxy!Cancel
  <2>2. audit.closed = 0 /\ audit.opened = 1
    BY <1>3 DEF ProxyParts, AuditByRun
  <2>3. /\ run' = "close_upstream" /\ audit' \in AuditEvents /\ audit'.opened = 1 /\ audit'.closed = 1
        /\ captured => audit'.reason = "upstream_close"
    BY <2>1, <2>2, CloseEffect
  <2>4. blamed' \in BOOLEAN /\ (blamed' => captured)
    BY <1>0, <2>1 DEF Proxy!Blamed, ProxyParts, PumpsSaw, PumpType
  <2>5. RunType'
    BY <1>0, <2>1, <2>3, <2>4 DEF RunType
  <2>6. ProxyParts'
    BY <1>1, <1>3, <2>1, <2>3, <2>4
       DEF ProxyParts, AuditByRun, PumpsSaw, BlameKept, UpstreamByRun, Proxy!FailureIsAudited
  <2> QED BY <1>2, <2>3, <2>5, <2>6, ProxyTypeParts
<1>4. CASE run # "pump"
  <2>1. /\ UNCHANGED <<audit, blamed>> /\ run' = "done" /\ excused' \in BOOLEAN /\ (excused => excused')
        /\ run \in {"connect", "accept", "close_upstream", "close_client"}
        /\ run # "close_client" => excused'
    BY <1>0, <1>4 DEF Proxy!Cancel, RunType
  <2>2. RunType' /\ audit' \in AuditEvents
    BY <1>0, <2>1 DEF RunType
  <2>3. ProxyParts'
    BY <1>1, <2>1 DEF ProxyParts, AuditByRun, PumpsSaw, BlameKept, UpstreamByRun, Proxy!FailureIsAudited
  <2> QED BY <1>2, <2>2, <2>3, ProxyTypeParts
<1> QED BY <1>3, <1>4

LEMMA ProxyStep == Proxy!TypeOK /\ ProxyParts /\ [Proxy!Next]_proxyVars => Proxy!TypeOK' /\ ProxyParts'
<1>1. Proxy!TypeOK /\ ProxyParts /\ UNCHANGED proxyVars => Proxy!TypeOK' /\ ProxyParts'
  BY DEF proxyVars, Proxy!TypeOK, ProxyParts, AuditByRun, PumpsSaw, BlameKept, UpstreamByRun,
         Proxy!FailureIsAudited
<1> QED BY <1>1, RunStep, PumpsStep, PeersStep, CancelStep DEF Proxy!Next

LEMMA SettledByParts == Proxy!TypeOK /\ ProxyParts => Proxy!SessionIsSettled
BY DEF Proxy!TypeOK, ProxyParts, AuditByRun, UpstreamByRun,
       Proxy!SessionIsSettled, Proxy!OpenedIsClosed, Proxy!UpstreamIsClosed

\* Wherever a peer leaves and the run is cancelled, a proxied session that was
\* opened is audited as closed, with the adapter's failure as its reason if that
\* ended it, and the adapter's socket is not left open.
THEOREM ProxySessionIsSettled == Proxy!Spec => [](Proxy!TypeOK /\ Proxy!SessionIsSettled)
<1>1. [Proxy!Next]_(Proxy!vars) => [Proxy!Next]_proxyVars
  BY DEF Proxy!vars, Proxy!sockets, Proxy!pumps, Proxy!history, proxyVars
<1> QED BY <1>1, SettledByParts, ProxyInit, ProxyStep, PTL DEF Proxy!Spec
------------------------------------------------------------------------------
(* NatsPublisher *)

\* Who connects has the lock, and nobody connects while there is a connection
OneConnects ==
  /\ \A k \in Calls : call[k].at = "connect" <=> holder = k
  /\ holder # "none" => cached = 0
  /\ closing.at = "drain" => closing.on # 0

NatsInv == Nats!TypeOK /\ OneConnects /\ Nats!ConnectionsAreHeld

LEMMA NatsInit == Nats!Init => NatsInv
BY SessionsAssumption DEF Nats!Init, Nats!Idle, Nats!TypeOK, Nats!ConnectionsAreHeld, OneConnects, NatsInv

\* A call goes on; nothing else changes but, perhaps, the lock.
LEMMA CallGoesOn ==
  ASSUME NatsInv, NEW k \in Calls, NEW at \in {"idle", "lock", "connect", "publish"}, NEW on \in 0..made,
         call' = [call EXCEPT ![k] = [at |-> at, on |-> on]],
         \/ holder' = holder /\ (at = "connect" <=> holder = k)
         \/ holder = "none" /\ holder' = k /\ at = "connect" /\ cached = 0
         \/ holder = k /\ holder' = "none" /\ at # "connect",
         UNCHANGED <<cached, made, closing, released, dropped>>
  PROVE  NatsInv'
<1>1. call' \in [Calls -> [at : {"idle", "lock", "connect", "publish"}, on : 0..made]]
  BY DEF NatsInv, Nats!TypeOK
<1>2. call'[k].at = at /\ \A j \in Calls : j # k => call'[j] = call[j]
  BY DEF NatsInv, Nats!TypeOK
<1>3. Nats!TypeOK'
  BY <1>1 DEF NatsInv, Nats!TypeOK
<1>4. OneConnects'
  BY <1>2, SessionsAssumption DEF NatsInv, OneConnects
<1> QED BY <1>3, <1>4 DEF NatsInv, Nats!ConnectionsAreHeld

LEMMA NatsStep == NatsInv /\ [Nats!Next]_natsVars => NatsInv'
<1> SUFFICES ASSUME NatsInv, [Nats!Next]_natsVars PROVE NatsInv'
  OBVIOUS
<1>0. /\ Nats!TypeOK /\ OneConnects /\ Nats!ConnectionsAreHeld
      /\ MaxConnections \in Nat /\ made \in Nat /\ 0 \in 0..made
  BY ServicesAssumption DEF NatsInv, Nats!TypeOK
<1>a. ASSUME NEW k \in Calls
      PROVE  /\ call[k] = [at |-> call[k].at, on |-> call[k].on]
             /\ call[k].at \in {"idle", "lock", "connect", "publish"} /\ call[k].on \in 0..made
  BY <1>0 DEF Nats!TypeOK
<1>1. ASSUME NEW k \in Calls, Nats!Publish(k) PROVE NatsInv'
  <2>1. call[k].at = "idle" /\ call[k].on = 0 /\ holder # k
    BY <1>0, <1>1 DEF Nats!Publish, Nats!Idle, OneConnects
  <2>2. CASE cached # 0
    BY <1>0, <1>1, <2>1, <2>2, CallGoesOn DEF Nats!Publish, Nats!Sends, Nats!TypeOK
  <2>3. CASE cached = 0
    <3>1. call' = [call EXCEPT ![k] = [at |-> "lock", on |-> 0]]
      BY <1>1, <2>1, <2>3, <1>a DEF Nats!Publish
    <3>2. UNCHANGED <<cached, made, holder, closing, released, dropped>>
      BY <1>1 DEF Nats!Publish
    <3> QED BY <1>0, <2>1, <3>1, <3>2, CallGoesOn
  <2> QED BY <2>2, <2>3
<1>2. ASSUME NEW k \in Calls, Nats!Locked(k) PROVE NatsInv'
  <2>1. call[k].at = "lock" /\ holder = "none" /\ holder # k
    BY <1>2, SessionsAssumption DEF Nats!Locked
  <2>2. CASE cached # 0
    BY <1>0, <1>2, <2>1, <2>2, CallGoesOn DEF Nats!Locked, Nats!Sends, Nats!TypeOK
  <2>3. CASE cached = 0
    <3>1. call' = [call EXCEPT ![k] = [at |-> "connect", on |-> call[k].on]]
      BY <1>2, <2>1, <2>3, <1>a DEF Nats!Locked
    <3> QED BY <1>2, <1>a, <2>1, <2>3, <3>1, CallGoesOn DEF Nats!Locked
  <2> QED BY <2>2, <2>3
<1>3. ASSUME NEW k \in Calls, Nats!Connected(k) PROVE NatsInv'
  <2>1. call[k].at = "connect" /\ holder = k /\ holder' = "none" /\ cached = 0
    BY <1>0, <1>3, SessionsAssumption DEF Nats!Connected, OneConnects
  <2>2. CASE made < MaxConnections /\ made' = made + 1 /\ cached' = made' /\ Nats!Sends(k, made')
    <3>1. made' \in 0..MaxConnections /\ cached' \in 0..made' /\ \A n \in 0..made : n \in 0..made'
      BY <1>0, <2>2
    <3>2. call' \in [Calls -> [at : {"idle", "lock", "connect", "publish"}, on : 0..made']]
      BY <1>0, <2>2, <3>1 DEF Nats!TypeOK, Nats!Sends
    <3>3. Nats!TypeOK'
      BY <1>0, <1>3, <2>1, <3>1, <3>2 DEF Nats!Connected, Nats!TypeOK
    <3>4. call'[k].at # "connect" /\ \A j \in Calls : j # k => call'[j].at = call[j].at
      BY <1>0, <2>2 DEF Nats!TypeOK, Nats!Sends
    <3>5. OneConnects'
      BY <1>0, <1>3, <2>1, <3>4, SessionsAssumption DEF Nats!Connected, OneConnects
    <3>6. 1..made' = (1..made) \cup {made'}
      BY <1>0, <2>2
    <3>7. Nats!ConnectionsAreHeld'
      BY <1>0, <1>3, <2>1, <2>2, <3>6 DEF Nats!Connected, Nats!ConnectionsAreHeld
    <3> QED BY <3>3, <3>5, <3>7 DEF NatsInv
  <2>3. CASE Nats!Ends(k) /\ UNCHANGED <<cached, made>>
    BY <1>0, <1>3, <2>1, <2>3, CallGoesOn DEF Nats!Connected, Nats!Ends, Nats!Idle, Nats!TypeOK
  <2> QED BY <1>3, <2>2, <2>3 DEF Nats!Connected
<1>4. ASSUME NEW k \in Calls, Nats!Published(k) PROVE NatsInv'
  <2>1. call[k].at = "publish" /\ holder # k
    BY <1>0, <1>4 DEF Nats!Published, OneConnects
  <2>2. CASE UNCHANGED <<cached, dropped>>
    <3>1. call' = [call EXCEPT ![k] = [at |-> "idle", on |-> 0]]
      BY <1>4 DEF Nats!Published, Nats!Ends, Nats!Idle
    <3>2. UNCHANGED <<cached, made, holder, closing, released, dropped>>
      BY <1>4, <2>2 DEF Nats!Published
    <3> QED BY <1>0, <2>1, <3>1, <3>2, CallGoesOn
  <2>3. CASE cached' = 0 /\ dropped' = dropped \cup ({cached} \ {0})
    <3>1. call' = [call EXCEPT ![k] = [at |-> "idle", on |-> 0]]
      BY <1>4 DEF Nats!Published, Nats!Ends, Nats!Idle
    <3>2. Nats!TypeOK'
      BY <1>0, <1>4, <2>3, <3>1 DEF Nats!Published, Nats!TypeOK
    <3>3. OneConnects'
      BY <1>0, <1>4, <2>1, <2>3, <3>1 DEF Nats!Published, OneConnects, Nats!TypeOK
    <3>4. Nats!ConnectionsAreHeld'
      BY <1>0, <1>4, <2>3 DEF Nats!Published, Nats!ConnectionsAreHeld
    <3> QED BY <3>2, <3>3, <3>4 DEF NatsInv
  <2> QED BY <1>4, <2>2, <2>3 DEF Nats!Published
<1>5. ASSUME NEW k \in Calls, Nats!CallCancelled(k) PROVE NatsInv'
  <2>1. call' = [call EXCEPT ![k] = [at |-> "idle", on |-> 0]]
    BY <1>5 DEF Nats!CallCancelled, Nats!Idle
  <2>2. UNCHANGED <<cached, made, closing, released, dropped>>
    BY <1>5 DEF Nats!CallCancelled
  <2>3. CASE holder = k
    <3>1. holder' = "none"
      BY <1>5, <2>3 DEF Nats!CallCancelled
    <3> QED BY <1>0, <2>1, <2>2, <2>3, <3>1, CallGoesOn
  <2>4. CASE holder # k
    <3>1. holder' = holder
      BY <1>5, <2>4 DEF Nats!CallCancelled
    <3> QED BY <1>0, <2>1, <2>2, <2>4, <3>1, CallGoesOn
  <2> QED BY <2>3, <2>4
<1>6. CASE Nats!Close
  <2>1. Nats!TypeOK'
    BY <1>0, <1>6 DEF Nats!Close, Nats!TypeOK
  <2> QED BY <1>0, <1>6, <2>1 DEF Nats!Close, OneConnects, Nats!ConnectionsAreHeld, NatsInv
<1>7. CASE Nats!Closed
  <2>1. closing.on \in 1..made
    BY <1>0, <1>7 DEF Nats!Closed, Nats!TypeOK, OneConnects
  <2>2. Nats!TypeOK'
    <3>0. /\ cached \in 0..made /\ released \subseteq 1..made /\ dropped \subseteq 1..made
          /\ made' = made /\ cached' = 0 /\ released' = released \cup {closing.on}
          /\ dropped' = (dropped \cup {cached}) \ {0, closing.on}
      BY <1>0, <1>7 DEF Nats!Closed, Nats!TypeOK
    <3>1. cached' \in 0..made' /\ released' \subseteq 1..made' /\ dropped' \subseteq 1..made'
      <4>1. cached # 0 => cached \in 1..made
        BY <1>0, <3>0
      <4>2. dropped' \subseteq 1..made
        BY <3>0, <4>1
      <4> QED BY <1>0, <2>1, <3>0, <4>2
    <3>2. closing' \in [at : {"no", "drain", "closed"}, on : 0..made']
      BY <1>0, <1>7 DEF Nats!Closed
    <3> QED BY <1>0, <1>7, <3>1, <3>2 DEF Nats!Closed, Nats!TypeOK
  <2>3. OneConnects'
    BY <1>0, <1>7 DEF Nats!Closed, OneConnects
  <2>4. Nats!ConnectionsAreHeld'
    BY <1>0, <1>7, <2>1 DEF Nats!Closed, Nats!ConnectionsAreHeld
  <2> QED BY <2>2, <2>3, <2>4 DEF NatsInv
<1>8. CASE UNCHANGED natsVars
  BY <1>0, <1>8 DEF natsVars, Nats!TypeOK, OneConnects, Nats!ConnectionsAreHeld, NatsInv
<1> QED BY <1>1, <1>2, <1>3, <1>4, <1>5, <1>6, <1>7, <1>8 DEF Nats!Next

\* No connection to NATS is lost sight of, however publishes, failures and the
\* close interleave: two calls never connect at once.
THEOREM NatsConnectionsAreHeld == Nats!Spec => [](Nats!TypeOK /\ Nats!ConnectionsAreHeld)
<1>1. [Nats!Next]_(Nats!vars) => [Nats!Next]_natsVars
  BY DEF Nats!vars, natsVars
<1>2. NatsInv => Nats!TypeOK /\ Nats!ConnectionsAreHeld
  BY DEF NatsInv
<1> QED BY <1>1, <1>2, NatsInit, NatsStep, PTL DEF Nats!Spec
------------------------------------------------------------------------------
(* PlaybackIndex *)

LEMMA IndexInit == Index!Init => Index!TypeOK
BY PlaybackAssumption
   DEF Index!IndexAssumption, Index!Init, Index!TypeOK, Index!NoWindow, Index!NoIndex, Index!Second

LEMMA IndexStep == Index!TypeOK /\ [Index!Next]_indexVars => Index!TypeOK'
<1> SUFFICES ASSUME Index!TypeOK, [Index!Next]_indexVars PROVE Index!TypeOK'
  OBVIOUS
<1>1. ASSUME NEW start \in 0..Horizon, NEW end \in 0..Horizon, Index!Create(start, end)
      PROVE  Index!TypeOK'
  <2>1. PICK total \in 0..(Index!Second * Horizon) :
          /\ window' = [start |-> start, end |-> end, total |-> total]
          /\ IF Index!Resolve(start) = {} THEN UNCHANGED index
             ELSE \E file \in Index!Resolve(start) : index' = Index!Attach(file, total)
    BY <1>1 DEF Index!Create
  <2>2. Index!Resolve(start) \subseteq library
    BY DEF Index!Resolve
  <2>3. \A file \in library : Index!Attach(file, total).file \subseteq library
    BY DEF Index!Attach, Index!NoIndex
  <2>4. index'.file \subseteq library
    BY <2>1, <2>2, <2>3 DEF Index!TypeOK
  <2> QED BY <1>1, <2>1, <2>4 DEF Index!Create, Index!TypeOK
<1>2. CASE Index!SessionEnds
  BY <1>2, PlaybackAssumption
     DEF Index!IndexAssumption, Index!SessionEnds, Index!TypeOK, Index!NoWindow, Index!NoIndex, Index!Second
<1>3. CASE UNCHANGED indexVars
  BY <1>3 DEF indexVars, Index!TypeOK
<1> QED BY <1>1, <1>2, <1>3 DEF Index!Next

\* What a manifest of a recording of any length says of it.
LEMMA ManifestOfAnyLength ==
  ASSUME NEW total \in Nat
  PROVE  LET n == Index!ProxySegments(total)
         IN /\ n \in Nat
            /\ \A i \in 0..(n - 1) : Index!Served(i, total)
            /\ total - n * 20 < 2
<1> DEFINE q == total \div 20
           rest == total % 20
           n == Index!ProxySegments(total)
<1>1. q \in Nat /\ rest \in 0..19 /\ total = 20 * q + rest
  OBVIOUS
<1>2. n = IF rest < 2 THEN q ELSE q + 1
  BY <1>1 DEF Index!ProxySegments, Index!SEGMENT_DURATION, Index!Shortest
<1>3. \A i : Index!Served(i, total) <=> i < q + 1 /\ i * 20 < total
  BY DEF Index!Served, Index!SEGMENT_DURATION
<1> HIDE DEF q, rest, n
<1>4. \A i \in 0..(n - 1) : Index!Served(i, total)
  BY <1>1, <1>2, <1>3
<1>5. n \in Nat /\ total - n * 20 < 2
  BY <1>1, <1>2
<1> QED BY <1>4, <1>5 DEF n

LEMMA LesserOfTwo == ASSUME NEW a \in Nat, NEW b \in Nat PROVE Index!Min({a, b}) = IF a <= b THEN a ELSE b
BY DEF Index!Min

\* Of a recording of any length the proxied manifest names segments that are served
\* and not empty, and leaves out less than half a second.
THEOREM ManifestsAreServed == Index!Spec => [](Index!TypeOK /\ Index!ManifestIsServed)
<1>1. Index!TypeOK => Index!ManifestIsServed
  <2> SUFFICES ASSUME Index!TypeOK PROVE Index!ManifestIsServed
    OBVIOUS
  <2> DEFINE total == window.total
             n == Index!ProxySegments(total)
  <2>1. total \in Nat
    BY DEF Index!TypeOK
  <2> HIDE DEF total
  <2>2. n \in Nat /\ (\A i \in 0..(n - 1) : Index!Served(i, total)) /\ total - n * 20 < 2
    BY <2>1, ManifestOfAnyLength
  <2> HIDE DEF n
  <2>3. n * 20 \in Nat
    BY <2>2
  <2>4. total - Index!Min({n * 20, total}) < 2
    BY <2>1, <2>2, <2>3, LesserOfTwo
  <2> QED BY <2>2, <2>4 DEF Index!ManifestIsServed, Index!SEGMENT_DURATION, Index!Shortest, n, total
<1>2. [Index!Next]_(Index!vars) => [Index!Next]_indexVars
  BY DEF Index!vars, indexVars
<1> QED BY <1>1, <1>2, IndexInit, IndexStep, PTL DEF Index!Spec
------------------------------------------------------------------------------
(* PlaybackIndex: the byte ranges of a file. The provers cannot use the library's *)
(* induction; EveryNumber is induction over a set, proved by counting it.          *)

\* Induction over a set: were m the end of it, adding one would map its part up
\* to m into less than that.
LEMMA EveryNumber ==
  ASSUME NEW S, 0 \in S, \A n \in Nat : n \in S => n + 1 \in S
  PROVE  Nat \subseteq S
<1> SUFFICES ASSUME NEW m \in Nat, m \notin S PROVE FALSE
  OBVIOUS
<1> DEFINE K == (0..m) \cap S
           next == [n \in K |-> n + 1]
<1>1. IsFiniteSet(K) /\ Cardinality(K) \in Nat
  <2>1. IsFiniteSet(0..m)
    BY FS_Interval
  <2> QED BY <2>1, FS_Subset, FS_CardinalityType
<1>2. IsFiniteSet(K \ {0}) /\ Cardinality(K \ {0}) = Cardinality(K) - 1
  <2>1. 0 \in K
    OBVIOUS
  <2> HIDE DEF K
  <2> QED BY <1>1, <2>1, FS_RemoveElement
<1>3. next \in Injection(K, K \ {0})
  <2>1. \A n \in K : n + 1 \in K \ {0}
    OBVIOUS
  <2> QED BY <2>1 DEF Injection, IsInjective
<1>4. Cardinality(K) <= Cardinality(K \ {0})
  BY <1>2, <1>3, FS_Injection
<1> QED BY <1>1, <1>2, <1>4

\* Division with remainder, and multiples of k in their order.
LEMMA Division ==
  ASSUME NEW a \in Nat, NEW k \in Nat \ {0}
  PROVE  /\ a \div k \in Nat /\ k * (a \div k) <= a /\ a < k * (a \div k) + k
OBVIOUS

LEMMA Multiples ==
  ASSUME NEW k \in Nat \ {0}, NEW i \in Nat, NEW j \in Nat, i < j
  PROVE  k * i + k <= k * j
<1>1. k * j = k * i + k * (j - i)
  BY SMT
<1>2. k * (j - i) >= k
  BY SMT
<1> QED BY <1>1, <1>2

\* f begins with start and goes on by the steps.
Goes(f, start, step, n) == f[0] = start /\ \A i \in 1..n : f[i] = step[i][f[i - 1]]

\* A start and a step for each number make a function.
LEMMA Folded ==
  ASSUME NEW S, NEW start \in S, NEW N \in Nat, NEW step \in [1..N -> [S -> S]]
  PROVE  \E f \in [0..N -> S] : Goes(f, start, step, N)
<1> DEFINE T == {n \in Nat : n <= N => \E f \in [0..n -> S] : Goes(f, start, step, n)}
<1>1. 0 \in T
  <2>1. Goes([i \in 0..0 |-> start], start, step, 0) /\ [i \in 0..0 |-> start] \in [0..0 -> S]
    BY DEF Goes
  <2> QED BY <2>1
<1>2. \A n \in Nat : n \in T => n + 1 \in T
  <2> SUFFICES ASSUME NEW n \in Nat, n + 1 <= N, NEW f \in [0..n -> S], Goes(f, start, step, n)
               PROVE  \E g \in [0..(n + 1) -> S] : Goes(g, start, step, n + 1)
    <3> QED OBVIOUS
  <2> DEFINE g == [i \in 0..(n + 1) |-> IF i = n + 1 THEN step[n + 1][f[n]] ELSE f[i]]
  <2>1. step[n + 1][f[n]] \in S /\ f[n] \in S
    OBVIOUS
  <2>2. g \in [0..(n + 1) -> S] /\ g[0] = start
    BY <2>1 DEF Goes
  <2>3. ASSUME NEW i \in 1..(n + 1) PROVE g[i] = step[i][g[i - 1]]
    <3>1. CASE i = n + 1
      BY <3>1
    <3>2. CASE i \in 1..n
      <4>1. g[i] = f[i] /\ g[i - 1] = f[i - 1]
        BY <3>2
      <4> QED BY <3>2, <4>1 DEF Goes
    <3> QED BY <3>1, <3>2
  <2> HIDE DEF g
  <2>4. Goes(g, start, step, n + 1)
    BY <2>2, <2>3 DEF Goes
  <2> QED BY <2>2, <2>4
<1>3. N \in T
  <2> HIDE DEF T
  <2> QED BY <1>1, <1>2, EveryNumber
<1> QED BY <1>3

LEMMA BoxesAre ==
  ASSUME NEW boxes \in Seq(Index!Box)
  PROVE  Len(boxes) \in Nat /\ \A i \in 1..Len(boxes) :
           boxes[i] \in Index!Box /\ boxes[i].length \in Nat /\ boxes[i].length >= 1
<1>1. Len(boxes) \in Nat /\ \A i \in 1..Len(boxes) : boxes[i] \in Index!Box
  OBVIOUS
<1>2. \A b \in Index!Box : b.length \in Nat /\ b.length >= 1
  BY DEF Index!Box
<1> QED BY <1>1, <1>2

\* Where the boxes of a file end.
BoxEnds(boxes, at) ==
  /\ at \in [0..Len(boxes) -> Nat] /\ at[0] = 0
  /\ \A i \in 1..Len(boxes) : at[i] = at[i - 1] + boxes[i].length

LEMMA BoxesEnd ==
  ASSUME NEW boxes \in Seq(Index!Box)
  PROVE  \E at : BoxEnds(boxes, at)
<1> DEFINE N == Len(boxes)
           step == [i \in 1..N |-> [n \in Nat |-> n + boxes[i].length]]
<1>1. N \in Nat /\ \A i \in 1..N : boxes[i].length \in Nat
  BY BoxesAre
<1>2. step \in [1..N -> [Nat -> Nat]]
  BY <1>1
<1>3. PICK at \in [0..N -> Nat] : Goes(at, 0, step, N)
  <2> DEFINE S == Nat
  <2>1. N \in Nat /\ 0 \in S /\ step \in [1..N -> [S -> S]]
    BY <1>1, <1>2
  <2> HIDE DEF step, N, S
  <2>2. \E at \in [0..N -> S] : Goes(at, 0, step, N)
    BY <2>1, Folded
  <2> QED BY <2>2 DEF S
<1>4. ASSUME NEW i \in 1..N PROVE at[i] = at[i - 1] + boxes[i].length
  <2>1. at[i - 1] \in Nat
    BY <1>1
  <2> QED BY <1>1, <1>3, <2>1 DEF Goes
<1> QED BY <1>3, <1>4 DEF BoxEnds, Goes

LEMMA EndsAscend ==
  ASSUME NEW boxes \in Seq(Index!Box), NEW at, BoxEnds(boxes, at),
         NEW i \in 0..Len(boxes), NEW j \in 0..Len(boxes)
  PROVE  /\ i <= j => at[i] <= at[j]
         /\ i < j => at[i] < at[j]
<1> DEFINE N == Len(boxes)
           T == {d \in Nat : \A k \in 0..N : k + d <= N => at[k] + d <= at[k + d]}
<1>1. /\ N \in Nat /\ \A k \in 1..N : boxes[k].length \in Nat /\ boxes[k].length >= 1
      /\ at \in [0..N -> Nat]
  BY BoxesAre DEF BoxEnds
<1>2. 0 \in T
  BY <1>1
<1>3. ASSUME NEW d \in Nat, d \in T PROVE d + 1 \in T
  <2>1. ASSUME NEW k \in 0..N, k + (d + 1) <= N PROVE at[k] + (d + 1) <= at[k + (d + 1)]
    <3>1. at[k] + d <= at[k + d] /\ k + d \in 0..N /\ k + (d + 1) \in 1..N
      BY <1>1, <1>3, <2>1
    <3>2. at[k + (d + 1)] = at[k + d] + boxes[k + (d + 1)].length
      <4>1. at[k + (d + 1)] = at[(k + (d + 1)) - 1] + boxes[k + (d + 1)].length
        BY <3>1 DEF BoxEnds
      <4>2. (k + (d + 1)) - 1 = k + d
        BY <3>1
      <4> QED BY <4>1, <4>2
    <3>3. boxes[k + (d + 1)].length >= 1 /\ at[k] \in Nat /\ at[k + d] \in Nat
      BY <1>1, <2>1, <3>1
    <3>4. boxes[k + (d + 1)].length \in Nat
      BY <1>1, <3>1
    <3>5. at[k] + (d + 1) <= at[k + d] + boxes[k + (d + 1)].length
      <4>1. \A a, b, c \in Nat : a + d <= b /\ c >= 1 => a + (d + 1) <= b + c
        OBVIOUS
      <4> QED BY <3>1, <3>3, <3>4, <4>1
    <3> QED BY <3>2, <3>5
  <2> QED BY <2>1
<1>4. Nat \subseteq T
  <2> HIDE DEF T
  <2> QED BY <1>2, <1>3, EveryNumber
<1>5. ASSUME i <= j PROVE at[i] + (j - i) <= at[j]
  <2>1. j - i \in Nat /\ i + (j - i) = j /\ j <= N
    BY <1>1, <1>5
  <2>2. j - i \in T
    <3> HIDE DEF T
    <3> QED BY <1>4, <2>1
  <2> QED BY <2>1, <2>2
<1> QED BY <1>1, <1>5

\* The size of a file's first boxes is where they end.
LEMMA SizeOfBoxes ==
  ASSUME NEW boxes \in Seq(Index!Box), NEW at, BoxEnds(boxes, at), NEW n \in 0..Len(boxes)
  PROVE  Index!Size(SubSeq(boxes, 1, n)) = at[n]
<1> DEFINE first == SubSeq(boxes, 1, n)
           Sums(f) == f = [i \in 0..n |-> IF i = 0 THEN 0 ELSE f[i - 1] + boxes[i].length]
           f == CHOOSE f : Sums(f)
           g == [i \in 0..n |-> at[i]]
           T == {i \in Nat : i <= n => f[i] = at[i]}
<1>1. Len(boxes) \in Nat /\ first \in Seq(Index!Box) /\ Len(first) = n /\ \A i \in 1..n : first[i] = boxes[i]
  OBVIOUS
<1>2. Sums(g)
  BY <1>1 DEF BoxEnds
<1>3. Sums(f)
  <2> HIDE DEF g, Sums
  <2> QED BY <1>2
<1>4. Index!Size(first) = f[n]
  <2>1. \A h : h = [i \in 0..Len(first) |-> IF i = 0 THEN 0 ELSE h[i - 1] + first[i].length] <=> Sums(h)
    <3> TAKE h
    <3>1. [i \in 0..Len(first) |-> IF i = 0 THEN 0 ELSE h[i - 1] + first[i].length]
           = [i \in 0..n |-> IF i = 0 THEN 0 ELSE h[i - 1] + boxes[i].length]
      <4> HIDE DEF first
      <4> QED BY <1>1
    <3> QED BY <3>1
  <2>2. (CHOOSE h : h = [i \in 0..Len(first) |-> IF i = 0 THEN 0 ELSE h[i - 1] + first[i].length]) = f
    <3> HIDE DEF Sums, first
    <3> QED BY <2>1
  <2> HIDE DEF f, Sums
  <2> QED BY <1>1, <2>2 DEF Index!Size
<1> HIDE DEF f
<1>5. 0 \in T
  BY <1>3 DEF BoxEnds
<1>6. ASSUME NEW i \in Nat, i \in T PROVE i + 1 \in T
  BY <1>1, <1>3, <1>6 DEF BoxEnds
<1>7. n \in T
  <2> HIDE DEF T
  <2> QED BY <1>5, <1>6, EveryNumber
<1> QED BY <1>4, <1>7

Scans == [at : Nat, init : Nat, moof : Int, fragments : Seq(Int \X Int), broken : BOOLEAN]

LEMMA ScanBoxType ==
  ASSUME NEW s \in Scans, NEW box \in Index!Box
  PROVE  Index!ScanBox(s, box) \in Scans
<1> DEFINE end == s.at + box.length
<1>1. end \in Nat /\ s.at \in Int /\ -1 \in Int /\ s.fragments \in Seq(Int \X Int) /\ s.moof \in Int
  BY DEF Scans, Index!Box
<1>2. Append(s.fragments, <<s.moof, end - s.moof>>) \in Seq(Int \X Int)
  BY <1>1
<1> HIDE DEF end
<1>3. /\ [s EXCEPT !.broken = TRUE] \in Scans
      /\ [s EXCEPT !.at = end, !.init = end] \in Scans
      /\ [s EXCEPT !.at = end, !.moof = s.at] \in Scans
      /\ [s EXCEPT !.at = end] \in Scans
  BY <1>1 DEF Scans
<1>4. [s EXCEPT !.at = end, !.moof = -1,
                !.fragments = Append(s.fragments, <<s.moof, end - s.moof>>)] \in Scans
  BY <1>1, <1>2 DEF Scans
<1> QED BY <1>3, <1>4 DEF Index!ScanBox, end

\* The states that the walk goes through.
Walks(boxes, scan) ==
  /\ scan \in [0..Len(boxes) -> Scans] /\ scan[0] = Index!Start
  /\ \A i \in 1..Len(boxes) : scan[i] = Index!ScanBox(scan[i - 1], boxes[i])

LEMMA ScanWalks ==
  ASSUME NEW boxes \in Seq(Index!Box)
  PROVE  \E scan : Walks(boxes, scan) /\ Index!Scan(boxes) = scan[Len(boxes)]
<1> DEFINE N == Len(boxes)
           step == [i \in 1..N |-> [s \in Scans |-> Index!ScanBox(s, boxes[i])]]
           Is(f) == f = [i \in 0..N |-> IF i = 0 THEN Index!Start ELSE Index!ScanBox(f[i - 1], boxes[i])]
           f == CHOOSE f : Is(f)
           T == {i \in Nat : i <= N => f[i] \in Scans}
<1>1. N \in Nat /\ Index!Start \in Scans /\ \A i \in 1..N : boxes[i] \in Index!Box
  BY BoxesAre DEF Index!Start, Scans
<1>2. step \in [1..N -> [Scans -> Scans]]
  BY <1>1, ScanBoxType
<1>3. PICK g \in [0..N -> Scans] : Goes(g, Index!Start, step, N)
  <2> HIDE DEF step, N
  <2> QED BY <1>1, <1>2, Folded
<1>4. Is(g)
  <2>1. ASSUME NEW i \in 1..N PROVE g[i] = Index!ScanBox(g[i - 1], boxes[i])
    <3>1. g[i - 1] \in Scans /\ g[i] = step[i][g[i - 1]]
      BY <1>1, <1>3 DEF Goes
    <3> QED BY <3>1
  <2>2. g[0] = Index!Start
    BY <1>3 DEF Goes
  <2>3. \A i \in 0..N : g[i] = IF i = 0 THEN Index!Start ELSE Index!ScanBox(g[i - 1], boxes[i])
    BY <1>1, <2>1, <2>2
  <2> HIDE DEF N
  <2> QED BY <2>3
<1>5. Is(f)
  <2> HIDE DEF Is
  <2> QED BY <1>4
<1>6. Index!Scan(boxes) = f[N]
  BY DEF Index!Scan
<1> HIDE DEF f
<1>7. f[0] = Index!Start /\ DOMAIN f = 0..N /\ \A i \in 1..N : f[i] = Index!ScanBox(f[i - 1], boxes[i])
  BY <1>1, <1>5
<1>8. Nat \subseteq T
  <2>1. 0 \in T
    BY <1>1, <1>7
  <2>2. ASSUME NEW i \in Nat, i \in T PROVE i + 1 \in T
    <3>1. CASE i + 1 <= N
      <4>1. i + 1 \in 1..N /\ (i + 1) - 1 = i /\ f[i] \in Scans
        BY <1>1, <2>2, <3>1
      <4>2. f[i + 1] = Index!ScanBox(f[i], boxes[i + 1])
        BY <1>7, <4>1
      <4> QED BY <1>1, <4>1, <4>2, ScanBoxType
    <3> QED BY <1>1, <3>1
  <2> HIDE DEF T
  <2> QED BY <2>1, <2>2, EveryNumber
<1>9. f \in [0..N -> Scans]
  <2>1. f = [i \in 0..N |-> f[i]]
    BY <1>5
  <2>2. \A i \in 0..N : f[i] \in Scans
    BY <1>1, <1>8
  <2> QED BY <2>1, <2>2
<1> QED BY <1>6, <1>7, <1>9 DEF Walks

\* By the order of the boxes alone: the first i are whole; box j is a moof that
\* waits for its mdat after i boxes; boxes a to b are a fragment.
Whole(boxes, i)     == \A k \in 1..i : ~boxes[k].cut
Media(box)          == box.type \in {"moof", "mdat"}
Waits(boxes, j, i)  == boxes[j].type = "moof" /\ \A k \in (j + 1)..i : ~Media(boxes[k])
Makes(boxes, a, b)  ==
  /\ a < b /\ boxes[a].type = "moof" /\ boxes[b].type = "mdat"
  /\ \A k \in (a + 1)..(b - 1) : ~Media(boxes[k])
Piece(at, a, b)     == <<at[a - 1], at[b] - at[a - 1]>>

\* The fragments found are those of the first i boxes, in their order.
Found(boxes, at, fragments, i) ==
  /\ \A a, b \in 1..i : Makes(boxes, a, b) /\ Whole(boxes, b) =>
       \E m \in 1..Len(fragments) : fragments[m] = Piece(at, a, b)
  /\ \A m \in 1..Len(fragments) : \E a, b \in 1..i :
       Makes(boxes, a, b) /\ Whole(boxes, b) /\ fragments[m] = Piece(at, a, b)
  /\ \A l, m \in 1..Len(fragments) :
       l < m => fragments[l][1] + fragments[l][2] <= fragments[m][1]

\* No fragment found ends after limit.
EndBy(fragments, limit) ==
  \A m \in 1..Len(fragments) : fragments[m][1] + fragments[m][2] <= limit

\* What the walk knows after i boxes: it stops at the first that is cut short; until
\* then it is where that box ends and holds the start of a moof that waits, after
\* all of its fragments.
ScanTells(boxes, at, s, i) ==
  /\ s.broken <=> ~Whole(boxes, i)
  /\ s.at <= at[i] /\ (~s.broken => s.at = at[i])
  /\ ~s.broken => \A j \in 1..i : Waits(boxes, j, i) => s.moof = at[j - 1]
  /\ ~s.broken => s.moof = -1 \/ \E j \in 1..i : Waits(boxes, j, i) /\ s.moof = at[j - 1]
  /\ EndBy(s.fragments, s.at)
  /\ ~s.broken /\ s.moof >= 0 => EndBy(s.fragments, s.moof)
  /\ Found(boxes, at, s.fragments, i)

\* One box more.
LEMMA OneMore ==
  ASSUME NEW boxes \in Seq(Index!Box), NEW i \in 1..Len(boxes)
  PROVE  /\ Whole(boxes, i) <=> Whole(boxes, i - 1) /\ ~boxes[i].cut
         /\ \A j \in 1..(i - 1) : Waits(boxes, j, i) <=> Waits(boxes, j, i - 1) /\ ~Media(boxes[i])
         /\ Waits(boxes, i, i) <=> boxes[i].type = "moof"
         /\ \A a \in 1..i : Makes(boxes, a, i)
              <=> a <= i - 1 /\ Waits(boxes, a, i - 1) /\ boxes[i].type = "mdat"
         /\ \A b \in 1..i : Whole(boxes, i) => Whole(boxes, b)
         /\ \A a, b \in 1..i : Makes(boxes, a, b) => a < b
<1>1. Len(boxes) \in Nat /\ i \in Nat
  OBVIOUS
<1>2. 1..i = (1..(i - 1)) \cup {i} /\ (i + 1)..i = {} /\ i \notin 1..(i - 1)
  BY <1>1
<1>3. \A j \in 1..(i - 1) : (j + 1)..i = ((j + 1)..(i - 1)) \cup {i}
  BY <1>1
<1>4. Whole(boxes, i) <=> Whole(boxes, i - 1) /\ ~boxes[i].cut
  BY <1>2 DEF Whole
<1>5. \A j \in 1..(i - 1) : Waits(boxes, j, i) <=> Waits(boxes, j, i - 1) /\ ~Media(boxes[i])
  BY <1>3 DEF Waits
<1>6. Waits(boxes, i, i) <=> boxes[i].type = "moof"
  BY <1>2 DEF Waits
<1>7. \A a \in 1..i : Makes(boxes, a, i) <=> a <= i - 1 /\ Waits(boxes, a, i - 1) /\ boxes[i].type = "mdat"
  BY <1>1 DEF Makes, Waits
<1>8. \A b \in 1..i : Whole(boxes, i) => Whole(boxes, b)
  BY <1>1 DEF Whole
<1>9. \A a, b \in 1..i : Makes(boxes, a, b) => a < b
  BY DEF Makes
<1> QED BY <1>4, <1>5, <1>6, <1>7, <1>8, <1>9

\* A box that ends no fragment leaves them as they are.
LEMMA FragmentsStay ==
  ASSUME NEW boxes \in Seq(Index!Box), NEW at, NEW i \in 1..Len(boxes),
         NEW fragments, Found(boxes, at, fragments, i - 1),
         \A a \in 1..i : Makes(boxes, a, i) => ~Whole(boxes, i)
  PROVE  Found(boxes, at, fragments, i)
<1>1. 1..(i - 1) \subseteq 1..i
  OBVIOUS
<1>2. ASSUME NEW a \in 1..i, NEW b \in 1..i, Makes(boxes, a, b), Whole(boxes, b)
      PROVE  a \in 1..(i - 1) /\ b \in 1..(i - 1)
  <2>1. b # i /\ a < b
    BY <1>2, OneMore
  <2> QED BY <2>1
<1>3. \A a, b \in 1..i : Makes(boxes, a, b) /\ Whole(boxes, b) =>
        \E m \in 1..Len(fragments) : fragments[m] = Piece(at, a, b)
  BY <1>2 DEF Found
<1>4. \A m \in 1..Len(fragments) : \E a, b \in 1..i :
        Makes(boxes, a, b) /\ Whole(boxes, b) /\ fragments[m] = Piece(at, a, b)
  BY <1>1 DEF Found
<1> QED BY <1>3, <1>4 DEF Found

LEMMA ScanStep ==
  ASSUME NEW boxes \in Seq(Index!Box), NEW at, BoxEnds(boxes, at), NEW i \in 1..Len(boxes),
         NEW s \in Scans, ScanTells(boxes, at, s, i - 1),
         NEW t, t = Index!ScanBox(s, boxes[i])
  PROVE  ScanTells(boxes, at, t, i)
<1> DEFINE box == boxes[i]
           end == s.at + box.length
           Old(m) == s.fragments[m][1] + s.fragments[m][2]
<1>1. /\ i - 1 \in 0..Len(boxes) /\ i \in 0..Len(boxes) /\ box.length \in Nat
      /\ \A k \in 0..Len(boxes) : at[k] \in Nat
      /\ at[i] = at[i - 1] + box.length /\ at[i - 1] <= at[i]
      /\ at[i] \in Nat /\ at[i - 1] \in Nat
  <2>1. Len(boxes) \in Nat /\ box.length \in Nat
    BY BoxesAre
  <2>2. at \in [0..Len(boxes) -> Nat] /\ at[i] = at[i - 1] + box.length
    BY DEF BoxEnds, box
  <2>3. i - 1 \in 0..Len(boxes) /\ i \in 0..Len(boxes)
    BY <2>1
  <2>4. (\A k \in 0..Len(boxes) : at[k] \in Nat) /\ at[i] \in Nat /\ at[i - 1] \in Nat
    BY <2>2, <2>3
  <2> HIDE DEF box
  <2>5. at[i - 1] <= at[i]
    BY <2>1, <2>2, <2>4
  <2> QED BY <2>1, <2>2, <2>3, <2>4, <2>5
<1>2. /\ s.at \in Nat /\ s.moof \in Int /\ s.fragments \in Seq(Int \X Int) /\ s.broken \in BOOLEAN
      /\ s = [at |-> s.at, init |-> s.init, moof |-> s.moof, fragments |-> s.fragments, broken |-> s.broken]
  BY DEF Scans
<1>3. \A m \in 1..Len(s.fragments) : s.fragments[m][1] \in Int /\ s.fragments[m][2] \in Int /\ Old(m) \in Int
  BY <1>2
<1>4. /\ s.broken <=> ~Whole(boxes, i - 1)
      /\ s.at <= at[i - 1] /\ (~s.broken => s.at = at[i - 1])
      /\ EndBy(s.fragments, s.at) /\ (~s.broken /\ s.moof >= 0 => EndBy(s.fragments, s.moof))
      /\ ~s.broken => \A j \in 1..(i - 1) : Waits(boxes, j, i - 1) => s.moof = at[j - 1]
      /\ ~s.broken => s.moof = -1 \/ \E j \in 1..(i - 1) : Waits(boxes, j, i - 1) /\ s.moof = at[j - 1]
      /\ Found(boxes, at, s.fragments, i - 1)
  BY DEF ScanTells
<1>5. \A j \in 1..i : at[j - 1] \in Nat
  <2>1. \A j \in 1..i : j - 1 \in 0..Len(boxes)
    OBVIOUS
  <2> QED BY <1>1, <2>1
<1>6. EndBy(s.fragments, at[i])
  <2>1. \A m \in 1..Len(s.fragments) : Old(m) <= at[i]
    <3> TAKE m \in 1..Len(s.fragments)
    <3>1. Old(m) <= s.at
      BY <1>4 DEF EndBy
    <3>2. Old(m) \in Int
      BY <1>3
    <3>3. s.at <= at[i] /\ s.at \in Int
      <4>1. s.at \in Int
        BY <1>2
      <4>2. s.at <= at[i - 1]
        BY <1>4
      <4> QED BY <1>1, <4>1, <4>2
    <3>4. Old(m) <= at[i]
      <4> HIDE DEF Old
      <4>1. \A x, y, z \in Int : x <= y /\ y <= z => x <= z
        OBVIOUS
      <4>2. at[i] \in Int
        BY <1>1
      <4> QED BY <3>1, <3>2, <3>3, <4>1, <4>2
    <3> QED BY <3>4
  <2> QED BY <2>1 DEF EndBy
<1>7. CASE s.broken \/ box.cut
  <2>1. t = [s EXCEPT !.broken = TRUE]
    BY <1>7 DEF Index!ScanBox
  <2>2. t.broken /\ t.at = s.at /\ t.fragments = s.fragments
    BY <1>2, <2>1
  <2>3. ~Whole(boxes, i)
    BY <1>4, <1>7, OneMore
  <2>4. t.at <= at[i]
    BY <1>1, <1>2, <1>4, <2>2
  <2>5. Found(boxes, at, s.fragments, i)
    BY <1>4, <2>3, FragmentsStay
  <2> QED BY <1>4, <2>2, <2>3, <2>4, <2>5 DEF ScanTells
<1>8. CASE ~s.broken /\ ~box.cut /\ box.type = "moof"
  <2>1. t = [s EXCEPT !.at = end, !.moof = s.at]
    BY <1>8 DEF Index!ScanBox
  <2>2. ~t.broken /\ t.at = at[i] /\ t.moof = at[i - 1] /\ t.fragments = s.fragments
    BY <1>1, <1>2, <1>4, <1>8, <2>1
  <2>3. Whole(boxes, i) /\ Waits(boxes, i, i) /\ \A j \in 1..(i - 1) : ~Waits(boxes, j, i)
    BY <1>4, <1>8, OneMore DEF Media
  <2>4. \A j \in 1..i : Waits(boxes, j, i) => t.moof = at[j - 1]
    BY <2>2, <2>3
  <2>5. \E j \in 1..i : Waits(boxes, j, i) /\ t.moof = at[j - 1]
    <3>1. i \in 1..i
      OBVIOUS
    <3> QED BY <2>2, <2>3, <3>1
  <2>6. Found(boxes, at, s.fragments, i)
    <3>1. \A a \in 1..i : ~Makes(boxes, a, i)
      BY <1>8, OneMore
    <3> QED BY <1>4, <3>1, FragmentsStay
  <2>7. t.at <= at[i] /\ EndBy(s.fragments, at[i - 1])
    BY <1>1, <1>4, <1>8, <2>2
  <2> QED BY <1>6, <2>2, <2>3, <2>4, <2>5, <2>6, <2>7 DEF ScanTells
<1>9. CASE ~s.broken /\ ~box.cut /\ box.type = "mdat" /\ s.moof >= 0
  <2> DEFINE piece == <<s.moof, end - s.moof>>
             n == Len(s.fragments)
             found == Append(s.fragments, piece)
  <2>1. t = [s EXCEPT !.at = end, !.moof = -1, !.fragments = found]
    BY <1>9 DEF Index!ScanBox
  <2>2. ~t.broken /\ t.at = at[i] /\ t.moof = -1 /\ t.fragments = found
    BY <1>1, <1>2, <1>4, <1>9, <2>1
  <2>3. PICK j \in 1..(i - 1) : Waits(boxes, j, i - 1) /\ s.moof = at[j - 1]
    BY <1>4, <1>9
  <2>4. piece = <<s.moof, at[i] - s.moof>>
    BY <1>1, <1>4, <1>9
  <2>5. /\ n \in Nat /\ Len(found) = n + 1 /\ found[n + 1] = piece
        /\ \A m \in 1..n : found[m] = s.fragments[m]
    BY <1>2
  <2> HIDE DEF piece, found
  <2>6. Whole(boxes, i) /\ \A k \in 1..i : ~Waits(boxes, k, i)
    <3>1. Whole(boxes, i) /\ ~Waits(boxes, i, i) /\ \A k \in 1..(i - 1) : ~Waits(boxes, k, i)
      BY <1>4, <1>9, OneMore DEF Media
    <3> QED BY <3>1
  <2>7. \A a \in 1..i : Makes(boxes, a, i) => Piece(at, a, i) = piece
    <3>1. \A a \in 1..i : Makes(boxes, a, i) => a \in 1..(i - 1) /\ Waits(boxes, a, i - 1)
      BY OneMore
    <3>2. \A a \in 1..i : Makes(boxes, a, i) => s.moof = at[a - 1]
      BY <1>4, <1>9, <3>1
    <3> QED BY <2>4, <3>2 DEF Piece
  <2>8. j \in 1..i /\ i \in 1..i /\ Makes(boxes, j, i) /\ Piece(at, j, i) = piece
    <3>1. j \in 1..i /\ i \in 1..i /\ j <= i - 1
      OBVIOUS
    <3>2. Makes(boxes, j, i)
      BY <1>9, <2>3, <3>1, OneMore
    <3> QED BY <2>7, <3>1, <3>2
  <2>9. ASSUME NEW a \in 1..i, NEW b \in 1..i, Makes(boxes, a, b), Whole(boxes, b)
        PROVE  \E m \in 1..Len(found) : found[m] = Piece(at, a, b)
    <3>1. CASE b = i
      <4>1. n + 1 \in 1..Len(found)
        BY <2>5
      <4> QED BY <2>5, <2>7, <2>9, <3>1, <4>1
    <3>2. CASE b # i
      <4>1. a \in 1..(i - 1) /\ b \in 1..(i - 1)
        <5>1. a < b
          BY <2>9, OneMore
        <5> QED BY <3>2, <5>1
      <4>2. PICK m \in 1..n : s.fragments[m] = Piece(at, a, b)
        BY <1>4, <2>9, <4>1 DEF Found
      <4>3. m \in 1..Len(found)
        BY <2>5, <4>2
      <4> QED BY <2>5, <4>2, <4>3
    <3> QED BY <3>1, <3>2
  <2>10. ASSUME NEW m \in 1..Len(found)
         PROVE  \E a, b \in 1..i : Makes(boxes, a, b) /\ Whole(boxes, b) /\ found[m] = Piece(at, a, b)
    <3>1. CASE m = n + 1
      BY <2>5, <2>6, <2>8, <3>1
    <3>2. CASE m \in 1..n
      <4>1. PICK a, b \in 1..(i - 1) :
              Makes(boxes, a, b) /\ Whole(boxes, b) /\ s.fragments[m] = Piece(at, a, b)
        BY <1>4, <3>2 DEF Found
      <4>2. a \in 1..i /\ b \in 1..i
        OBVIOUS
      <4> QED BY <2>5, <3>2, <4>1, <4>2
    <3> QED BY <2>5, <3>1, <3>2
  <2>11. ASSUME NEW l \in 1..Len(found), NEW m \in 1..Len(found), l < m
         PROVE  found[l][1] + found[l][2] <= found[m][1]
    <3>1. l \in 1..n
      BY <2>5, <2>11
    <3>2. CASE m = n + 1
      <4>1. found[m][1] = s.moof /\ found[l] = s.fragments[l]
        BY <2>4, <2>5, <3>1, <3>2
      <4> QED BY <1>4, <1>9, <3>1, <4>1 DEF EndBy
    <3>3. CASE m \in 1..n
      BY <1>4, <2>5, <2>11, <3>1, <3>3 DEF Found
    <3> QED BY <2>5, <3>2, <3>3
  <2>12. Found(boxes, at, found, i)
    BY <2>9, <2>10, <2>11 DEF Found
  <2>13. EndBy(found, at[i])
    <3>1. found[n + 1][1] + found[n + 1][2] <= at[i]
      BY <1>1, <1>2, <2>4, <2>5
    <3>2. \A m \in 1..n : found[m][1] + found[m][2] <= at[i]
      BY <1>6, <2>5 DEF EndBy
    <3> QED BY <2>5, <3>1, <3>2 DEF EndBy
  <2>14. t.at <= at[i] /\ ~(t.moof >= 0)
    BY <1>1, <2>2
  <2> QED BY <2>2, <2>6, <2>12, <2>13, <2>14 DEF ScanTells
<1>10. CASE ~s.broken /\ ~box.cut /\ box.type # "moof" /\ ~(box.type = "mdat" /\ s.moof >= 0)
  <2>1. t = [s EXCEPT !.at = end, !.init = end] \/ t = [s EXCEPT !.at = end]
    BY <1>10 DEF Index!ScanBox
  <2>2. ~t.broken /\ t.at = at[i] /\ t.moof = s.moof /\ t.fragments = s.fragments
    BY <1>1, <1>2, <1>4, <1>10, <2>1
  <2>3. Whole(boxes, i) /\ ~Waits(boxes, i, i)
    BY <1>4, <1>10, OneMore
  <2>4. box.type = "mdat" => s.moof = -1 /\ \A j \in 1..(i - 1) : ~Waits(boxes, j, i - 1)
    <3> SUFFICES ASSUME box.type = "mdat"
                 PROVE  s.moof = -1 /\ \A j \in 1..(i - 1) : ~Waits(boxes, j, i - 1)
      OBVIOUS
    <3>1. ~(s.moof >= 0)
      BY <1>10
    <3>2. \A j \in 1..(i - 1) : j \in 1..i
      OBVIOUS
    <3>3. \A j \in 1..(i - 1) : s.moof # at[j - 1]
      BY <1>5, <3>1, <3>2
    <3> QED BY <1>4, <1>10, <3>3
  <2>5. \A j \in 1..(i - 1) : Waits(boxes, j, i) <=> Waits(boxes, j, i - 1)
    BY <1>10, <2>4, OneMore DEF Media
  <2>6. \A a \in 1..i : ~Makes(boxes, a, i)
    BY <2>4, OneMore
  <2>7. \A j \in 1..i : Waits(boxes, j, i) => t.moof = at[j - 1]
    <3>1. \A j \in 1..i : Waits(boxes, j, i) => j \in 1..(i - 1)
      BY <2>3
    <3> QED BY <1>4, <1>10, <2>2, <2>5, <3>1
  <2>8. t.moof = -1 \/ \E j \in 1..i : Waits(boxes, j, i) /\ t.moof = at[j - 1]
    <3>1. 1..(i - 1) \subseteq 1..i
      OBVIOUS
    <3> QED BY <1>4, <1>10, <2>2, <2>5, <3>1
  <2>9. t.at <= at[i] /\ (t.moof >= 0 => EndBy(t.fragments, t.moof))
    BY <1>1, <1>4, <1>10, <2>2
  <2>10. Found(boxes, at, s.fragments, i)
    BY <1>4, <2>6, FragmentsStay
  <2> QED BY <1>6, <2>2, <2>3, <2>7, <2>8, <2>9, <2>10 DEF ScanTells
<1> QED BY <1>7, <1>8, <1>9, <1>10

LEMMA ScanEnds ==
  ASSUME NEW boxes \in Seq(Index!Box), NEW at, BoxEnds(boxes, at)
  PROVE  /\ Index!Scan(boxes) \in Scans
         /\ ScanTells(boxes, at, Index!Scan(boxes), Len(boxes))
<1>1. PICK scan : Walks(boxes, scan) /\ Index!Scan(boxes) = scan[Len(boxes)]
  BY ScanWalks
<1> DEFINE T == {i \in Nat : i <= Len(boxes) => ScanTells(boxes, at, scan[i], i)}
<1>2. Len(boxes) \in Nat /\ scan \in [0..Len(boxes) -> Scans]
  BY <1>1 DEF Walks
<1>3. 0 \in T
  <2>1. scan[0] = Index!Start /\ at[0] = 0 /\ 1..0 = {}
    BY <1>1 DEF Walks, BoxEnds
  <2>2. ScanTells(boxes, at, Index!Start, 0)
    BY <2>1 DEF ScanTells, Found, EndBy, Index!Start, Whole
  <2> QED BY <2>1, <2>2
<1>4. ASSUME NEW i \in Nat, i \in T PROVE i + 1 \in T
  <2> SUFFICES ASSUME i + 1 <= Len(boxes) PROVE ScanTells(boxes, at, scan[i + 1], i + 1)
    OBVIOUS
  <2>1. i + 1 \in 1..Len(boxes) /\ (i + 1) - 1 = i /\ i \in 0..Len(boxes)
    BY <1>2
  <2>2. scan[i] \in Scans /\ ScanTells(boxes, at, scan[i], (i + 1) - 1)
    BY <1>2, <1>4, <2>1
  <2>3. scan[i + 1] = Index!ScanBox(scan[i], boxes[i + 1])
    BY <1>1, <2>1 DEF Walks
  <2> QED BY <2>1, <2>2, <2>3, ScanStep
<1>5. Len(boxes) \in T
  <2> HIDE DEF T
  <2> QED BY <1>2, <1>3, <1>4, EveryNumber
<1> QED BY <1>1, <1>2, <1>5

\* The groups of k are one after another, each has a fragment, and none is left out.
LEMMA GroupsSplit ==
  ASSUME NEW n \in Nat \ {0}, NEW k \in Nat \ {0}
  PROVE  LET q        == (n - 1) \div k
             last(i)  == Index!Min({k * i + k, n})
         IN /\ q \in Nat
            /\ \A i \in 0..q : k * i + 1 \in 1..n /\ last(i) \in (k * i + 1)..n
            /\ \A i, j \in 0..q : i < j => last(i) < k * j + 1
            /\ \A m \in 1..n : \E i \in 0..q : k * i + 1 <= m /\ m <= last(i)
<1> DEFINE q == (n - 1) \div k
           last(i) == Index!Min({k * i + k, n})
<1>1. n - 1 \in Nat /\ q \in Nat /\ k * q <= n - 1 /\ n - 1 < k * q + k
  <2>1. n - 1 \in Nat
    OBVIOUS
  <2> QED BY <2>1, Division
<1>2. ASSUME NEW i \in Nat PROVE k * i \in Nat /\ last(i) = IF k * i + k <= n THEN k * i + k ELSE n
  <2>1. k * i \in Nat /\ k * i + k \in Nat
    OBVIOUS
  <2> QED BY <2>1, LesserOfTwo
<1> HIDE DEF last
<1>3. ASSUME NEW i \in 0..q PROVE k * i <= k * q
  <2>1. CASE i = q
    BY <1>1, <1>2, <2>1
  <2>2. CASE i < q
    BY <1>1, <1>2, <2>2, Multiples
  <2> QED BY <1>1, <2>1, <2>2
<1> HIDE DEF q
<1>4. ASSUME NEW i \in 0..q PROVE k * i + 1 \in 1..n /\ last(i) \in (k * i + 1)..n
  BY <1>1, <1>2, <1>3
<1>5. ASSUME NEW i \in 0..q, NEW j \in 0..q, i < j PROVE last(i) < k * j + 1
  <2>1. i \in Nat /\ j \in Nat /\ k * i + k <= k * j
    BY <1>1, <1>5, Multiples
  <2> QED BY <1>2, <2>1
<1>6. ASSUME NEW m \in 1..n PROVE \E i \in 0..q : k * i + 1 <= m /\ m <= last(i)
  <2> DEFINE i == (m - 1) \div k
  <2>1. m - 1 \in Nat /\ i \in Nat /\ k * i <= m - 1 /\ m - 1 < k * i + k
    <3>1. m - 1 \in Nat
      OBVIOUS
    <3> QED BY <3>1, Division
  <2> HIDE DEF i
  <2>2. i <= q
    <3>1. q < i => k * q + k <= k * i
      BY <1>1, <2>1, Multiples
    <3> QED BY <1>1, <1>2, <2>1, <3>1
  <2>3. i \in 0..q /\ k * i + 1 <= m /\ m <= last(i)
    BY <1>1, <1>2, <2>1, <2>2
  <2> QED BY <2>3
<1>7. /\ \A i \in 0..q : k * i + 1 \in 1..n /\ last(i) \in (k * i + 1)..n
      /\ \A i, j \in 0..q : i < j => last(i) < k * j + 1
      /\ \A m \in 1..n : \E i \in 0..q : k * i + 1 <= m /\ m <= last(i)
  BY <1>4, <1>5, <1>6
<1> QED BY <1>1, <1>7 DEF q, last

LEMMA SegmentsHaveFragments ==
  ASSUME NEW n \in Nat \ {0}, NEW total \in Nat
  PROVE  Index!PerSegment(n, total) \in Nat \ {0}
<1>1. CASE total = 0
  BY <1>1 DEF Index!PerSegment, Index!SEGMENT_DURATION, Index!Second
<1>2. CASE total # 0
  <2>1. 20 * n \in Nat /\ total \in Nat \ {0}
    BY <1>2
  <2>2. (20 * n) \div total \in Nat
    BY <2>1, Division
  <2> DEFINE r == Index!Rounded(20 * n, total)
  <2>3. r \in Nat
    <3> DEFINE w == (20 * n) \div total
    <3>1. r = w \/ r = w + 1
      BY DEF Index!Rounded
    <3> HIDE DEF w, r
    <3>2. w \in Nat
      BY <2>2 DEF w
    <3> QED BY <3>1, <3>2
  <2>4. Index!PerSegment(n, total) = Index!Max({1, r})
    BY <1>2 DEF Index!PerSegment, Index!SEGMENT_DURATION
  <2> HIDE DEF r
  <2>5. Index!Max({1, r}) = IF r <= 1 THEN 1 ELSE r
    BY <2>3 DEF Index!Max
  <2> QED BY <2>3, <2>4, <2>5
<1> QED BY <1>1, <1>2

SliceOf(fragments, a, b) ==
  [offset |-> fragments[a][1], length |-> fragments[b][1] + fragments[b][2] - fragments[a][1]]

\* Groups 0 to q of n fragments, from their first to their last.
Grouped(n, q, first, last) ==
  /\ q \in Nat /\ \A i \in 0..q : first[i] \in 1..n /\ last[i] \in 1..n /\ first[i] <= last[i]
  /\ \A i, j \in 0..q : i < j => last[i] < first[j]
  /\ \A m \in 1..n : \E i \in 0..q : first[i] <= m /\ m <= last[i]

\* What the slices of a list of fragments are.
LEMMA SlicesAre ==
  ASSUME NEW fragments, NEW k \in Nat \ {0}, Len(fragments) \in Nat \ {0}
  PROVE  \E q, first, last :
           /\ Grouped(Len(fragments), q, first, last)
           /\ Index!Slices(fragments, k) = {SliceOf(fragments, first[i], last[i]) : i \in 0..q}
<1> DEFINE n == Len(fragments)
           q == (n - 1) \div k
           first == [i \in 0..q |-> k * i + 1]
           last  == [i \in 0..q |-> Index!Min({k * i + k, n})]
<1>1. /\ q \in Nat
      /\ \A i \in 0..q : k * i + 1 \in 1..n /\ Index!Min({k * i + k, n}) \in (k * i + 1)..n
      /\ \A i, j \in 0..q : i < j => Index!Min({k * i + k, n}) < k * j + 1
      /\ \A m \in 1..n : \E i \in 0..q : k * i + 1 <= m /\ m <= Index!Min({k * i + k, n})
  <2> HIDE DEF n
  <2>1. n \in Nat \ {0}
    BY DEF n
  <2> QED BY <2>1, GroupsSplit
<1>2. Index!Groups(n, k) = {<<k * i + 1, Index!Min({k * i + k, n})>> : i \in 0..q}
  BY DEF Index!Groups
<1>3. Index!Slices(fragments, k) = {SliceOf(fragments, g[1], g[2]) : g \in Index!Groups(n, k)}
  BY DEF Index!Slices, SliceOf
<1> HIDE DEF q, n
<1>4. /\ \A i \in 0..q : first[i] = k * i + 1 /\ last[i] = Index!Min({k * i + k, n})
      /\ \A i \in 0..q : first[i] \in 1..n /\ last[i] \in 1..n /\ first[i] <= last[i]
      /\ \A i, j \in 0..q : i < j => last[i] < first[j]
      /\ \A m \in 1..n : \E i \in 0..q : first[i] <= m /\ m <= last[i]
  <2>1. \A i \in 0..q : first[i] = k * i + 1 /\ last[i] = Index!Min({k * i + k, n})
    OBVIOUS
  <2> HIDE DEF first, last
  <2>2. n \in Nat
    BY DEF n
  <2>3. \A i \in 0..q : first[i] \in 1..n /\ last[i] \in first[i]..n
    BY <1>1, <2>1
  <2>4. \A i \in 0..q : first[i] \in 1..n /\ last[i] \in 1..n /\ first[i] <= last[i]
    BY <2>2, <2>3
  <2>5. \A i, j \in 0..q : i < j => last[i] < first[j]
    BY <1>1, <2>1
  <2>6. \A m \in 1..n : \E i \in 0..q : first[i] <= m /\ m <= last[i]
    BY <1>1, <2>1
  <2> QED BY <2>1, <2>4, <2>5, <2>6
<1> HIDE DEF first, last
<1>5. Grouped(n, q, first, last)
  BY <1>1, <1>4 DEF Grouped
<1>6. Index!Groups(n, k) = {<<first[i], last[i]>> : i \in 0..q}
  BY <1>2, <1>4
<1>7. Index!Slices(fragments, k) = {SliceOf(fragments, first[i], last[i]) : i \in 0..q}
  <2>1. \A g \in Index!Groups(n, k) :
          \E i \in 0..q : SliceOf(fragments, g[1], g[2]) = SliceOf(fragments, first[i], last[i])
    BY <1>6
  <2>2. \A i \in 0..q : \E g \in Index!Groups(n, k) :
          SliceOf(fragments, first[i], last[i]) = SliceOf(fragments, g[1], g[2])
    <3> TAKE i \in 0..q
    <3> DEFINE g == <<first[i], last[i]>>
    <3>1. g \in Index!Groups(n, k) /\ g[1] = first[i] /\ g[2] = last[i]
      BY <1>6
    <3> QED BY <3>1
  <2> QED BY <1>3, <2>1, <2>2
<1> QED BY <1>5, <1>7 DEF n

\* Fragments one after another, each with a byte at least, are tiled by their slices.
LEMMA SlicesCover ==
  ASSUME NEW fragments, Len(fragments) \in Nat \ {0}, NEW k \in Nat \ {0},
         \A m \in 1..Len(fragments) : fragments[m][1] \in Nat /\ fragments[m][2] \in Nat \ {0},
         \A l, m \in 1..Len(fragments) : l < m => fragments[l][1] + fragments[l][2] <= fragments[m][1]
  PROVE  LET slices == Index!Slices(fragments, k)
             End(m) == fragments[m][1] + fragments[m][2]
         IN /\ \A m \in 1..Len(fragments) : \E s \in slices :
                 s.offset <= fragments[m][1] /\ End(m) <= s.offset + s.length
            /\ \A s, t \in slices :
                 s # t => s.offset + s.length <= t.offset \/ t.offset + t.length <= s.offset
            /\ \A s \in slices : /\ s.offset \in Nat /\ s.length \in Nat \ {0}
                                 /\ \E m \in 1..Len(fragments) : s.offset = fragments[m][1]
                                 /\ \E m \in 1..Len(fragments) : s.offset + s.length = End(m)
<1> DEFINE n == Len(fragments)
           slices == Index!Slices(fragments, k)
           Begin(m) == fragments[m][1]
           End(m) == fragments[m][1] + fragments[m][2]
<1> DEFINE Slices(q, first, last) == {SliceOf(fragments, first[i], last[i]) : i \in 0..q}
<1>1. PICK q, first, last : Grouped(n, q, first, last) /\ slices = Slices(q, first, last)
  BY SlicesAre
<1>2. /\ q \in Nat
      /\ \A i, j \in 0..q : i < j => last[i] < first[j]
      /\ \A m \in 1..n : \E i \in 0..q : first[i] <= m /\ m <= last[i]
  BY <1>1 DEF Grouped
<1>3. \A m \in 1..n : Begin(m) \in Nat /\ End(m) \in Nat /\ Begin(m) < End(m)
  OBVIOUS
<1>4. \A l, m \in 1..n : l < m => End(l) <= Begin(m)
  OBVIOUS
<1>5. n \in Nat
  OBVIOUS
<1> DEFINE Slice(i) == SliceOf(fragments, first[i], last[i])
<1>6. slices = {Slice(i) : i \in 0..q}
  BY <1>1
<1>8. \A i \in 0..q : first[i] \in 1..n /\ last[i] \in 1..n /\ first[i] <= last[i]
  BY <1>1 DEF Grouped
<1>7. \A i \in 0..q : /\ Slice(i).offset = Begin(first[i])
                      /\ Slice(i).length = End(last[i]) - Begin(first[i])
  <2> TAKE i \in 0..q
  <2> DEFINE a == first[i]
             b == last[i]
  <2>1. Slice(i) = SliceOf(fragments, a, b)
    OBVIOUS
  <2> HIDE DEF Slice, a, b
  <2>2. /\ Slice(i).offset = fragments[a][1]
        /\ Slice(i).length = fragments[b][1] + fragments[b][2] - fragments[a][1]
    BY <2>1 DEF SliceOf
  <2>3. a \in 1..n /\ b \in 1..n
    BY <1>8 DEF a, b
  <2>4. fragments[a][1] \in Nat /\ fragments[b][1] \in Nat /\ fragments[b][2] \in Nat
    BY <2>3
  <2>5. \A x, y, z \in Nat : x + y - z = (x + y) - z
    OBVIOUS
  <2>6. Slice(i).length = (fragments[b][1] + fragments[b][2]) - fragments[a][1]
    BY <2>2, <2>4, <2>5
  <2> QED BY <2>2, <2>6 DEF a, b
<1> HIDE DEF Slice, Slices, slices, Begin, End, n
<1>9. \A l, m \in 1..n : l <= m => Begin(l) <= Begin(m) /\ End(l) <= End(m) /\ Begin(l) < End(m)
  <2> TAKE l, m \in 1..n
  <2> HAVE l <= m
  <2>1. CASE l = m
    BY <1>3, <2>1
  <2>2. CASE l < m
    <3>1. \A a, b, c, d \in Nat : a < b /\ b <= c /\ c < d => a <= c /\ b <= d /\ a < d
      OBVIOUS
    <3> QED BY <1>3, <1>4, <2>2, <3>1
  <2> QED BY <1>5, <2>1, <2>2
<1>10. \A i \in 0..q : /\ Slice(i).offset + Slice(i).length = End(last[i])
                       /\ Slice(i).offset \in Nat /\ Slice(i).length \in Nat \ {0}
  <2> TAKE i \in 0..q
  <2>1. Begin(first[i]) \in Nat /\ End(last[i]) \in Nat /\ Begin(first[i]) < End(last[i])
    BY <1>3, <1>8, <1>9
  <2>2. \A a, b \in Nat : a < b => b - a \in Nat \ {0} /\ a + (b - a) = b
    OBVIOUS
  <2>3. Slice(i).offset = Begin(first[i]) /\ Slice(i).length = End(last[i]) - Begin(first[i])
    BY <1>7
  <2>4. End(last[i]) - Begin(first[i]) \in Nat \ {0}
    BY <2>1, <2>2
  <2>5. Begin(first[i]) + (End(last[i]) - Begin(first[i])) = End(last[i])
    BY <2>1, <2>2
  <2> QED BY <2>1, <2>3, <2>4, <2>5
<1>11. ASSUME NEW m \in 1..n
       PROVE  \E s \in slices : s.offset <= Begin(m) /\ End(m) <= s.offset + s.length
  <2>1. PICK i \in 0..q : first[i] <= m /\ m <= last[i]
    BY <1>2
  <2>2. Begin(first[i]) <= Begin(m) /\ End(m) <= End(last[i])
    BY <1>8, <1>9, <2>1
  <2> QED BY <1>6, <1>7, <1>10, <2>2
<1>12. ASSUME NEW s \in slices, NEW t \in slices, s # t
       PROVE  s.offset + s.length <= t.offset \/ t.offset + t.length <= s.offset
  <2>1. PICK i \in 0..q, j \in 0..q : s = Slice(i) /\ t = Slice(j)
    BY <1>6
  <2>2. \A a, b \in 0..q : a < b => End(last[a]) <= Begin(first[b])
    BY <1>2, <1>4, <1>8
  <2>3. i < j \/ j < i
    BY <1>12, <2>1
  <2> QED BY <1>7, <1>10, <2>1, <2>2, <2>3
<1>13. ASSUME NEW s \in slices
       PROVE  /\ s.offset \in Nat /\ s.length \in Nat \ {0}
              /\ \E m \in 1..n : s.offset = Begin(m)
              /\ \E m \in 1..n : s.offset + s.length = End(m)
  <2>1. PICK i \in 0..q : s = Slice(i)
    BY <1>6
  <2> QED BY <1>7, <1>8, <1>10, <2>1
<1>14. /\ \A m \in 1..n : \E s \in slices : s.offset <= Begin(m) /\ End(m) <= s.offset + s.length
       /\ \A s, t \in slices : s # t => s.offset + s.length <= t.offset \/ t.offset + t.length <= s.offset
       /\ \A s \in slices : /\ s.offset \in Nat /\ s.length \in Nat \ {0}
                            /\ \E m \in 1..n : s.offset = Begin(m)
                            /\ \E m \in 1..n : s.offset + s.length = End(m)
  BY <1>11, <1>12, <1>13
<1> QED BY <1>14 DEF slices, Begin, End, n

\* The bytes of the whole fragments, by where the boxes end.
LEMMA BytesOfFragments ==
  ASSUME NEW boxes \in Seq(Index!Box), NEW at, BoxEnds(boxes, at), NEW b
  PROVE  b \in Index!FragmentBytes(boxes) <=>
           \E a, c \in 1..Len(boxes) :
             Makes(boxes, a, c) /\ Whole(boxes, c) /\ b \in at[a - 1]..(at[c] - 1)
<1> DEFINE N == Len(boxes)
           begins(i) == Index!Size(SubSeq(boxes, 1, i - 1))
           whole == {i \in DOMAIN boxes : \A k \in 1..i : ~boxes[k].cut}
           Pair(p) == /\ p[1] < p[2] /\ boxes[p[1]].type = "moof" /\ boxes[p[2]].type = "mdat"
                      /\ \A k \in (p[1] + 1)..(p[2] - 1) : boxes[k].type \notin {"moof", "mdat"}
           pairs == {p \in whole \X whole : Pair(p)}
           Bytes(p) == begins(p[1])..(begins(p[2]) + boxes[p[2]].length - 1)
           Its(a, c) == at[a - 1]..(at[c] - 1)
<1>1. Index!FragmentBytes(boxes) = UNION {Bytes(p) : p \in pairs}
  BY DEF Index!FragmentBytes
<1>2. N \in Nat /\ DOMAIN boxes = 1..N
  OBVIOUS
<1>3. \A i \in 1..N : i \in whole <=> Whole(boxes, i)
  BY <1>2 DEF Whole
<1>4. \A a, c : Pair(<<a, c>>) <=> Makes(boxes, a, c)
  BY DEF Makes, Media
<1>5. \A a, c \in 1..N : Bytes(<<a, c>>) = Its(a, c)
  <2> TAKE a, c \in 1..N
  <2>1. a - 1 \in 0..N /\ c - 1 \in 0..N
    BY <1>2
  <2>2. begins(a) = at[a - 1] /\ begins(c) = at[c - 1]
    BY <2>1, SizeOfBoxes
  <2>3. at[c] = at[c - 1] + boxes[c].length
    BY DEF BoxEnds
  <2> DEFINE p == <<a, c>>
  <2>4. p[1] = a /\ p[2] = c
    OBVIOUS
  <2> HIDE DEF begins, p
  <2>5. Bytes(p) = begins(a)..(begins(c) + boxes[c].length - 1)
    BY <2>4
  <2>6. begins(c) + boxes[c].length - 1 = at[c] - 1
    <3>1. at[c - 1] \in Nat /\ boxes[c].length \in Nat
      BY <2>1, BoxesAre DEF BoxEnds
    <3> QED BY <2>2, <2>3, <3>1
  <2>7. Bytes(p) = Its(a, c)
    BY <2>2, <2>5, <2>6
  <2> QED BY <2>7 DEF p
<1>6. \A a, c \in 1..N : Makes(boxes, a, c) /\ Whole(boxes, c) => Whole(boxes, a)
  <2> TAKE a, c \in 1..N
  <2> HAVE Makes(boxes, a, c) /\ Whole(boxes, c)
  <2>1. a < c
    BY DEF Makes
  <2> QED BY <1>2, <2>1 DEF Whole
<1>7. whole \subseteq 1..N
  BY <1>2
<1> HIDE DEF N, whole, Pair, Bytes, Its, begins
<1>8. \A p \in pairs : \E a, c \in 1..N :
        Makes(boxes, a, c) /\ Whole(boxes, c) /\ Bytes(p) = Its(a, c)
  <2> TAKE p \in pairs
  <2>1. p \in whole \X whole /\ Pair(p)
    OBVIOUS
  <2>2. p = <<p[1], p[2]>> /\ p[1] \in 1..N /\ p[2] \in 1..N /\ p[2] \in whole
    <3>1. PICK x \in whole, y \in whole : p = <<x, y>>
      BY <2>1
    <3> QED BY <1>7, <3>1
  <2>3. Makes(boxes, p[1], p[2])
    BY <1>4, <2>1, <2>2
  <2>4. Bytes(p) = Its(p[1], p[2])
    BY <1>5, <2>2
  <2> QED BY <1>3, <2>2, <2>3, <2>4
<1>9. \A a, c \in 1..N : Makes(boxes, a, c) /\ Whole(boxes, c) =>
        \E p \in pairs : Bytes(p) = Its(a, c)
  <2> TAKE a, c \in 1..N
  <2> HAVE Makes(boxes, a, c) /\ Whole(boxes, c)
  <2>1. a \in whole /\ c \in whole
    BY <1>3, <1>6
  <2>2. <<a, c>> \in pairs
    BY <1>4, <2>1
  <2> QED BY <1>5, <2>2
<1> HIDE DEF pairs
<1>10. b \in Index!FragmentBytes(boxes) <=>
         \E a, c \in 1..N : Makes(boxes, a, c) /\ Whole(boxes, c) /\ b \in Its(a, c)
  BY <1>1, <1>8, <1>9
<1> QED BY <1>10 DEF N, Its

\* What the walk of a file finds: fragments one after another, each with a byte at
\* least and within the file, and between them the bytes of the whole fragments.
LEMMA FragmentsAre ==
  ASSUME NEW boxes \in Seq(Index!Box)
  PROVE  LET fragments == Index!Scan(boxes).fragments
             size == Index!Size(boxes)
             End(m) == fragments[m][1] + fragments[m][2]
         IN /\ Len(fragments) \in Nat /\ size \in Nat
            /\ \A m \in 1..Len(fragments) :
                 fragments[m][1] \in Nat /\ fragments[m][2] \in Nat \ {0} /\ End(m) <= size
            /\ \A l, m \in 1..Len(fragments) : l < m => End(l) <= fragments[m][1]
            /\ \A b : b \in Index!FragmentBytes(boxes) <=>
                 \E m \in 1..Len(fragments) : b \in fragments[m][1]..(End(m) - 1)
<1> DEFINE N == Len(boxes)
           s == Index!Scan(boxes)
           fragments == s.fragments
           size == Index!Size(boxes)
           End(m) == fragments[m][1] + fragments[m][2]
           Part(m) == fragments[m][1]..(End(m) - 1)
<1>1. PICK at : BoxEnds(boxes, at)
  BY BoxesEnd
<1>2. s \in Scans /\ ScanTells(boxes, at, s, N)
  BY <1>1, ScanEnds
<1>3. N \in Nat /\ at \in [0..N -> Nat] /\ at[N] \in Nat
  BY <1>1, BoxesAre DEF BoxEnds
<1>4. size = at[N]
  <2>1. SubSeq(boxes, 1, N) = boxes
    OBVIOUS
  <2>2. N \in 0..N
    BY <1>3
  <2> QED BY <1>1, <2>1, <2>2, SizeOfBoxes
<1>5. /\ s.at \in Nat /\ s.at <= at[N] /\ Len(fragments) \in Nat
      /\ EndBy(fragments, s.at) /\ Found(boxes, at, fragments, N)
  <2>1. s.at \in Nat /\ fragments \in Seq(Int \X Int)
    BY <1>2 DEF Scans
  <2> QED BY <1>2, <2>1 DEF ScanTells
<1> HIDE DEF s, N, fragments, size
<1>6. ASSUME NEW a \in 1..N, NEW c \in 1..N, Makes(boxes, a, c)
      PROVE  /\ Piece(at, a, c)[1] = at[a - 1] /\ Piece(at, a, c)[2] = at[c] - at[a - 1]
             /\ at[a - 1] \in Nat /\ at[c] \in Nat /\ at[a - 1] < at[c]
  <2>1. a < c
    BY <1>6 DEF Makes
  <2>2. a - 1 \in 0..N /\ c \in 0..N /\ a - 1 < c
    BY <1>3, <2>1
  <2>3. at[a - 1] < at[c]
    BY <1>1, <2>2, EndsAscend DEF N
  <2>4. Piece(at, a, c)[1] = at[a - 1] /\ Piece(at, a, c)[2] = at[c] - at[a - 1]
    BY DEF Piece
  <2> QED BY <1>3, <2>2, <2>3, <2>4
<1>7. \A x, y \in Nat : x < y => y - x \in Nat \ {0} /\ x + (y - x) = y
  OBVIOUS
<1>8. ASSUME NEW m \in 1..Len(fragments)
      PROVE  /\ fragments[m][1] \in Nat /\ fragments[m][2] \in Nat \ {0} /\ End(m) <= size
             /\ \E a, c \in 1..N : Makes(boxes, a, c) /\ Whole(boxes, c) /\ Part(m) = at[a - 1]..(at[c] - 1)
  <2>1. PICK a \in 1..N, c \in 1..N : Makes(boxes, a, c) /\ Whole(boxes, c) /\ fragments[m] = Piece(at, a, c)
    BY <1>5 DEF Found
  <2>2. fragments[m][1] = at[a - 1] /\ fragments[m][2] = at[c] - at[a - 1]
    BY <1>6, <2>1
  <2>3. fragments[m][1] \in Nat /\ fragments[m][2] \in Nat \ {0} /\ End(m) = at[c] /\ at[c] \in Nat
    BY <1>6, <1>7, <2>1, <2>2
  <2>4. End(m) <= s.at
    BY <1>5 DEF EndBy
  <2>5. End(m) <= size
    <3>1. \A x, y, z \in Nat : x <= y /\ y <= z => x <= z
      OBVIOUS
    <3> QED BY <1>3, <1>4, <1>5, <2>3, <2>4, <3>1
  <2>6. Part(m) = at[a - 1]..(at[c] - 1)
    BY <2>2, <2>3
  <2> QED BY <2>1, <2>3, <2>5, <2>6
<1>9. ASSUME NEW a \in 1..N, NEW c \in 1..N, Makes(boxes, a, c), Whole(boxes, c)
      PROVE  \E m \in 1..Len(fragments) : Part(m) = at[a - 1]..(at[c] - 1)
  <2>1. PICK m \in 1..Len(fragments) : fragments[m] = Piece(at, a, c)
    BY <1>5, <1>9 DEF Found
  <2>2. fragments[m][1] = at[a - 1] /\ fragments[m][2] = at[c] - at[a - 1]
    BY <1>6, <1>9, <2>1
  <2>3. End(m) = at[c]
    BY <1>6, <1>7, <1>9, <2>2
  <2> QED BY <2>2, <2>3
<1>10. \A l, m \in 1..Len(fragments) : l < m => End(l) <= fragments[m][1]
  BY <1>5 DEF Found
<1> HIDE DEF Part
<1>11. \A b : b \in Index!FragmentBytes(boxes) <=> \E m \in 1..Len(fragments) : b \in Part(m)
  <2> TAKE b
  <2>1. b \in Index!FragmentBytes(boxes) <=>
          \E a, c \in 1..N : Makes(boxes, a, c) /\ Whole(boxes, c) /\ b \in at[a - 1]..(at[c] - 1)
    BY <1>1, BytesOfFragments DEF N
  <2> QED BY <1>8, <1>9, <2>1
<1>12. size \in Nat
  BY <1>3, <1>4
<1> QED BY <1>5, <1>8, <1>10, <1>11, <1>12 DEF Part, fragments, s, size

\* A playlist's slices tile the whole fragments of a file.
Tiled(boxes, slices) ==
  LET size == Index!Size(boxes)
  IN /\ Index!FragmentBytes(boxes) \subseteq UNION {Index!Bytes(s) : s \in slices}
     /\ \A s, t \in slices : s # t => Index!Bytes(s) \cap Index!Bytes(t) = {}
     /\ \A s \in slices :
          /\ s.offset \in Index!FragmentBytes(boxes)
          /\ Index!RangeServed(s, size) = <<s.offset, s.offset + s.length - 1>>

LEMMA PlaylistTiles ==
  ASSUME NEW boxes \in Seq(Index!Box), Index!Usable(boxes), NEW total \in Nat
  PROVE  LET fragments == Index!Scan(boxes).fragments
         IN Tiled(boxes, Index!Slices(fragments, Index!PerSegment(Len(fragments), total)))
<1> DEFINE fragments == Index!Scan(boxes).fragments
           n == Len(fragments)
           k == Index!PerSegment(n, total)
           slices == Index!Slices(fragments, k)
           size == Index!Size(boxes)
           Begin(m) == fragments[m][1]
           End(m) == fragments[m][1] + fragments[m][2]
           Behind(s) == s.offset + s.length
<1>1. /\ n \in Nat /\ size \in Nat
      /\ \A m \in 1..n : fragments[m][1] \in Nat /\ fragments[m][2] \in Nat \ {0} /\ End(m) <= size
      /\ \A l, m \in 1..n : l < m => End(l) <= fragments[m][1]
      /\ \A b : b \in Index!FragmentBytes(boxes) <=> \E m \in 1..n : b \in Begin(m)..(End(m) - 1)
  BY FragmentsAre
<1>2. n \in Nat \ {0}
  <2>1. fragments \in Seq(Int \X Int) /\ fragments # <<>>
    <3>1. PICK at : BoxEnds(boxes, at)
      BY BoxesEnd
    <3>2. Index!Scan(boxes) \in Scans
      BY <3>1, ScanEnds
    <3> QED BY <3>2 DEF Scans, Index!Usable
  <2> HIDE DEF fragments
  <2> QED BY <2>1
<1>3. k \in Nat \ {0}
  <2> HIDE DEF n
  <2> QED BY <1>2, SegmentsHaveFragments
<1> HIDE DEF fragments, k, size
<1>4. /\ \A m \in 1..n : \E s \in slices : s.offset <= Begin(m) /\ End(m) <= Behind(s)
      /\ \A s, t \in slices : s # t => Behind(s) <= t.offset \/ Behind(t) <= s.offset
      /\ \A s \in slices : /\ s.offset \in Nat /\ s.length \in Nat \ {0}
                           /\ \E m \in 1..n : s.offset = Begin(m)
                           /\ \E m \in 1..n : Behind(s) = End(m)
  BY <1>1, <1>2, <1>3, SlicesCover
<1>5. \A m \in 1..n : /\ Begin(m) \in Nat /\ End(m) \in Nat /\ Begin(m) < End(m) /\ End(m) <= size
                      /\ Begin(m) < size
  BY <1>1
<1>6. \A s \in slices : Behind(s) \in Nat /\ s.offset < Behind(s) /\ Index!Bytes(s) = s.offset..(Behind(s) - 1)
  <2> TAKE s \in slices
  <2>1. s.offset \in Nat /\ s.length \in Nat \ {0}
    BY <1>4
  <2> QED BY <2>1 DEF Index!Bytes
<1> HIDE DEF slices, n, Begin, End
<1>7. ASSUME NEW b \in Index!FragmentBytes(boxes) PROVE \E s \in slices : b \in Index!Bytes(s)
  <2>1. PICK m \in 1..n : b \in Begin(m)..(End(m) - 1)
    BY <1>1
  <2>2. PICK s \in slices : s.offset <= Begin(m) /\ End(m) <= Behind(s)
    BY <1>4
  <2>3. s.offset \in Nat /\ Behind(s) \in Nat /\ Begin(m) \in Nat /\ End(m) \in Nat
    BY <1>4, <1>5, <1>6
  <2>4. \A x, y, z, w \in Nat : x <= y /\ z <= w => y..(z - 1) \subseteq x..(w - 1)
    OBVIOUS
  <2> HIDE DEF Behind
  <2>5. b \in s.offset..(Behind(s) - 1)
    BY <2>1, <2>2, <2>3, <2>4
  <2> QED BY <1>6, <2>5
<1>8. ASSUME NEW s \in slices, NEW t \in slices, s # t PROVE Index!Bytes(s) \cap Index!Bytes(t) = {}
  <2>1. /\ s.offset \in Nat /\ t.offset \in Nat /\ Behind(s) \in Nat /\ Behind(t) \in Nat
        /\ Behind(s) <= t.offset \/ Behind(t) <= s.offset
    BY <1>4, <1>6, <1>8
  <2>2. \A x, y, z, w \in Nat : y <= z \/ w <= x => (x..(y - 1)) \cap (z..(w - 1)) = {}
    OBVIOUS
  <2> HIDE DEF Behind
  <2>3. (s.offset..(Behind(s) - 1)) \cap (t.offset..(Behind(t) - 1)) = {}
    BY <2>1, <2>2
  <2> QED BY <1>6, <2>3
<1>9. ASSUME NEW s \in slices
      PROVE  /\ s.offset \in Index!FragmentBytes(boxes)
             /\ Index!RangeServed(s, size) = <<s.offset, s.offset + s.length - 1>>
  <2>1. PICK m \in 1..n : s.offset = Begin(m)
    BY <1>4
  <2>2. s.offset \in Begin(m)..(End(m) - 1) /\ s.offset < size /\ s.offset \in Nat
    BY <1>5, <2>1
  <2>3. PICK l \in 1..n : Behind(s) = End(l)
    BY <1>4
  <2>4. Behind(s) <= size
    BY <1>5, <2>3
  <2> DEFINE last == s.offset + s.length - 1
  <2>5. last \in Nat /\ size - 1 \in Nat /\ last <= size - 1
    <3>1. s.length \in Nat \ {0}
      BY <1>4
    <3> QED BY <1>1, <2>2, <2>4, <3>1
  <2>6. Index!Min({last, size - 1}) = last
    <3> HIDE DEF last
    <3> QED BY <2>5, LesserOfTwo
  <2>7. ~(s.offset >= size)
    BY <1>1, <2>2
  <2>8. Index!RangeServed(s, size) = <<s.offset, last>>
    BY <2>6, <2>7 DEF Index!RangeServed
  <2> QED BY <1>1, <2>2, <2>8
<1>10. Tiled(boxes, slices)
  BY <1>7, <1>8, <1>9 DEF Tiled, size
<1> QED BY <1>10 DEF slices, k, n, fragments

\* What a session keeps of its file is tiled from when it is made.
IndexInv == library \in Libraries /\ Index!SlicesTile

LEMMA SlicesAreTiled == Index!SlicesTile <=> \A file \in index.file : Tiled(file.boxes, index.slices)
BY DEF Index!SlicesTile, Tiled

LEMMA AttachTiles ==
  ASSUME NEW file, file.boxes \in Seq(Index!Box), NEW total \in Nat, NEW i, i = Index!Attach(file, total)
  PROVE  \A f \in i.file : Tiled(f.boxes, i.slices)
<1> DEFINE scan == Index!Scan(file.boxes)
           slices == Index!Slices(scan.fragments, Index!PerSegment(Len(scan.fragments), total))
<1>1. CASE i = Index!NoIndex
  BY <1>1 DEF Index!NoIndex
<1>2. CASE Index!Usable(file.boxes) /\ i = [file |-> {file}, init |-> scan.init, slices |-> slices]
  <2>1. Tiled(file.boxes, slices)
    BY <1>2, PlaylistTiles
  <2> QED BY <1>2, <2>1
<1>3. \/ i = Index!NoIndex
      \/ Index!Usable(file.boxes) /\ i = [file |-> {file}, init |-> scan.init, slices |-> slices]
  BY DEF Index!Attach
<1> QED BY <1>1, <1>2, <1>3

LEMMA IndexIsTiled == Index!Init => IndexInv
<1> SUFFICES ASSUME Index!Init PROVE IndexInv
  OBVIOUS
<1>1. library \in Libraries /\ index.file = {}
  BY DEF Index!Init, Index!NoIndex
<1> QED BY <1>1, SlicesAreTiled DEF IndexInv

LEMMA IndexStaysTiled == IndexInv /\ [Index!Next]_indexVars => IndexInv'
<1> SUFFICES ASSUME IndexInv, [Index!Next]_indexVars PROVE IndexInv'
  OBVIOUS
<1> DEFINE Good(i) == \A file \in i.file : Tiled(file.boxes, i.slices)
<1>1. library \in Libraries /\ Good(index)
  BY SlicesAreTiled DEF IndexInv
<1>2. \A i : i = Index!NoIndex => Good(i)
  BY DEF Index!NoIndex
<1>3. SUFFICES library' \in Libraries /\ Good(index')
  <2>1. Index!SlicesTile' <=> Good(index')
    BY DEF Index!SlicesTile, Tiled
  <2> QED BY <2>1 DEF IndexInv
<1> HIDE DEF Good
<1>4. ASSUME NEW start, NEW end, Index!Create(start, end) PROVE library' = library /\ Good(index')
  <2>1. PICK total \in 0..(Index!Second * Horizon) :
          \/ UNCHANGED index
          \/ \E file \in Index!Resolve(start) : index' = Index!Attach(file, total)
    BY <1>4 DEF Index!Create
  <2>2. total \in Nat
    BY PlaybackAssumption DEF Index!IndexAssumption, Index!Second
  <2>3. ASSUME NEW file \in Index!Resolve(start), index' = Index!Attach(file, total) PROVE Good(index')
    <3>1. file \in library
      BY DEF Index!Resolve
    <3>2. file.boxes \in Seq(Index!Box)
      BY <1>1, <3>1, PlaybackAssumption DEF Index!IndexAssumption, Index!Files
    <3> QED BY <2>2, <2>3, <3>2, AttachTiles DEF Good
  <2>4. library' = library
    BY <1>4 DEF Index!Create
  <2> QED BY <1>1, <2>1, <2>3, <2>4
<1>5. CASE Index!SessionEnds
  BY <1>1, <1>2, <1>5 DEF Index!SessionEnds
<1>6. CASE UNCHANGED indexVars
  BY <1>1, <1>6 DEF indexVars
<1> QED BY <1>1, <1>4, <1>5, <1>6 DEF Index!Next

\* For files of any boxes and windows of any length, a session's playlist names what
\* can be served, and all of the recording it is made from.
THEOREM PlaylistsAreWhole == Index!Spec => []Index!PlaylistIsWhole
<1>1. [Index!Next]_(Index!vars) => [Index!Next]_indexVars
  BY DEF Index!vars, indexVars
<1>2. IndexInv /\ Index!ManifestIsServed => Index!PlaylistIsWhole
  BY DEF IndexInv, Index!PlaylistIsWhole
<1> QED BY <1>1, <1>2, IndexIsTiled, IndexStaysTiled, ManifestsAreServed, PTL DEF Index!Spec
------------------------------------------------------------------------------
(* The composition *)

\* A behaviour of the composition is a behaviour of each component: what is proved
\* of the components holds in it.
THEOREM ServicesAreTheComponents ==
  ServicesSpec => Spec /\ Streaming!Spec /\ Index!Spec /\ Sessions!Spec /\ Proxy!Spec /\ Nats!Spec
<1>1. ServicesInit => Init /\ Streaming!Init /\ Index!Init /\ Sessions!Init /\ Proxy!Init /\ Nats!Init
  BY DEF ServicesInit
<1>2. ASSUME [ServicesNext]_servicesVars
      PROVE  /\ [Next]_vars /\ [Streaming!Next]_streamingVars /\ [Index!Next]_indexVars
             /\ [Sessions!Next]_sessionVars /\ [Proxy!Next]_proxyVars /\ [Nats!Next]_natsVars
  BY <1>2 DEF ServicesNext, servicesVars
<1>3. /\ [Streaming!Next]_streamingVars => [Streaming!Next]_(Streaming!vars)
      /\ [Index!Next]_indexVars => [Index!Next]_(Index!vars)
      /\ [Sessions!Next]_sessionVars => [Sessions!Next]_(Sessions!vars)
      /\ [Proxy!Next]_proxyVars => [Proxy!Next]_(Proxy!vars)
      /\ [Nats!Next]_natsVars => [Nats!Next]_(Nats!vars)
  BY DEF streamingVars, Streaming!vars, Streaming!history, indexVars, Index!vars, sessionVars, Sessions!vars,
         proxyVars, Proxy!vars, Proxy!sockets, Proxy!pumps, Proxy!history, natsVars, Nats!vars
<1> QED BY <1>1, <1>2, <1>3, PTL
           DEF ServicesSpec, Spec, Streaming!Spec, Index!Spec, Sessions!Spec, Proxy!Spec, Nats!Spec

\* Every component's state keeps its type.
THEOREM ServicesTypeCorrect == ServicesSpec => []ServicesTypeOK
<1>1. TypeOK /\ Streaming!TypeOK /\ Index!TypeOK /\ Sessions!TypeOK /\ Proxy!TypeOK /\ Nats!TypeOK
        => ServicesTypeOK
  BY DEF ServicesTypeOK
<1> QED BY <1>1, ServicesAreTheComponents, InferenceTypeCorrect, StreamingTypeCorrect, ManifestsAreServed,
           PlaybackSessionsAgree, ProxySessionIsSettled, NatsConnectionsAreHeld, PTL

\* What is stopped stays stopped, what is started runs.
THEOREM ServicesStreamAsAsked == ServicesSpec => []StreamsAsAsked
BY ServicesAreTheComponents, StoppedStaysStopped, PTL DEF StreamsAsAsked

\* Only a restart leaves an ffmpeg at work that no entry holds.
THEOREM ServicesStraysAreOfRestarts == ServicesSpec => OnlyRestartsLeaveStrays
BY ServicesAreTheComponents, StraysComeOfRestarts, PTL DEF OnlyRestartsLeaveStrays

\* A playback session's playlist names what can be served, and all of its recording.
THEOREM ServicesPlaylistsAreWhole == ServicesSpec => []PlaylistIsWhole
BY ServicesAreTheComponents, PlaylistsAreWhole, PTL DEF PlaylistIsWhole

\* The slots of the quota are accounted for, and the breaker counts failures in a row.
THEOREM ServicesCountRight == ServicesSpec => []SlotsAccounted /\ []FailuresInARow
BY ServicesAreTheComponents, SlotsAreAccounted, FailuresAreInARow, PTL

\* Nothing is lost sight of: playback sessions, proxied sessions and connections.
THEOREM ResourcesStayTracked == ServicesSpec => []ResourcesAreTracked
<1>1. Sessions!ListMatchesTable /\ Sessions!LimitButForRaces /\ Proxy!SessionIsSettled /\ Nats!ConnectionsAreHeld
        => ResourcesAreTracked
  BY DEF ResourcesAreTracked
<1> QED BY <1>1, ServicesAreTheComponents, PlaybackSessionsAgree, ProxySessionIsSettled,
           NatsConnectionsAreHeld, PTL
==============================================================================
