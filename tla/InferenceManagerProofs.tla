------------------------ MODULE InferenceManagerProofs ------------------------
(***************************************************************************)
(* Type correctness of InferenceManager, and that running_tasks loses a    *)
(* loop only to a start that overtakes a returning stop, for every set of  *)
(* models and stop requests and any number of loops.                       *)
(***************************************************************************)
EXTENDS InferenceManager, TLAPS

\* The entry of a model being stopped is that of the awaited loop, or gone.
StopHoldsEntry ==
  \A s \in Stoppers :
    (stopping[s] # 0 /\ model[stopping[s]] \notin raced)
      => running[model[stopping[s]]] \in {0, stopping[s]}

\* From stop_all on, every loop with an entry is cancelled.
ShutdownCancels ==
  Shutdown => \A m \in Models : IsRunning(m) => cancelled[running[m]]

IInv == TypeOK /\ TrackedUnlessRaced /\ StopHoldsEntry /\ ShutdownCancels
------------------------------------------------------------------------------

LEMMA InitIInv == Init => IInv
BY TaskAssumption
   DEF Init, IInv, TypeOK, TrackedUnlessRaced, StopHoldsEntry, ShutdownCancels, Shutdown,
       IsRunning, Live, Tasks, Kinds

LEMMA StartStep ==
  ASSUME IInv, NEW m \in Models, NEW k \in Kinds, Start(m, k)
  PROVE  IInv'
<1> DEFINE t == started + 1
<1>1. t \in Tasks /\ t \notin {0} /\ started \in Nat
  BY TaskAssumption DEF IInv, TypeOK, Start, Create, Tasks
<1>2. TypeOK'
  BY <1>1, TaskAssumption DEF IInv, TypeOK, Start, Create, Live, Tasks
<1>3. \A u \in Tasks : Live(u) /\ model[u] = m => m \in raced
  BY DEF IInv, TrackedUnlessRaced, Start, IsRunning, TypeOK, Live, Tasks
<1>4. TrackedUnlessRaced'
  BY <1>1, <1>3 DEF IInv, TypeOK, TrackedUnlessRaced, Start, Create, Live, Tasks
<1>5. StopHoldsEntry'
  BY <1>1, TaskAssumption DEF IInv, TypeOK, StopHoldsEntry, Start, Create, Stopped, Tasks
<1>6. ShutdownCancels'
  BY DEF ShutdownCancels, Start, Create, Shutdown
<1> QED BY <1>2, <1>4, <1>5, <1>6 DEF IInv

LEMMA StopStep ==
  ASSUME IInv, NEW s \in Stoppers, NEW m \in Models, Stop(s, m)
  PROVE  IInv'
<1>1. running[m] \in Tasks /\ running[m] <= started
  BY DEF IInv, TypeOK, Stop, IsRunning, Tasks
<1>2. TypeOK'
  BY <1>1 DEF IInv, TypeOK, Stop, Live, Tasks
<1>3. TrackedUnlessRaced'
  BY DEF IInv, TrackedUnlessRaced, Stop, Live
<1>5. StopHoldsEntry'
  BY <1>1 DEF IInv, TypeOK, StopHoldsEntry, Stop
<1>6. ShutdownCancels'
  BY DEF ShutdownCancels, Stop, Shutdown
<1> QED BY <1>2, <1>3, <1>5, <1>6 DEF IInv

LEMMA StopReturnsStep ==
  ASSUME IInv, NEW s \in Stoppers, StopReturns(s)
  PROVE  IInv'
<1>1. stopping[s] \in Tasks /\ model[stopping[s]] \in Models /\ ~Live(stopping[s])
  BY TaskAssumption DEF IInv, TypeOK, StopReturns, Tasks, Live
<1>2. TypeOK'
  BY <1>1, TaskAssumption DEF IInv, TypeOK, StopReturns, Live, tasks
<1>3. TrackedUnlessRaced'
  BY <1>1 DEF IInv, TypeOK, TrackedUnlessRaced, StopHoldsEntry, StopReturns, Live, tasks
<1>4. StopHoldsEntry'
  BY <1>1 DEF IInv, TypeOK, StopHoldsEntry, StopReturns, Tasks, tasks
<1>5. ShutdownCancels'
  BY <1>1 DEF IInv, TypeOK, ShutdownCancels, StopReturns, Shutdown, IsRunning, Live, tasks
<1> QED BY <1>2, <1>3, <1>4, <1>5 DEF IInv

\* A loop that ends, with or without its finally.
LEMMA LoopEnds ==
  ASSUME IInv, NEW t \in Tasks, Live(t),
         state' = [state EXCEPT ![t] = "done"],
         running' = running \/ running' = [running EXCEPT ![model[t]] = 0],
         UNCHANGED <<known, started, model, kind, cancelled, stopping, closing, raced>>
  PROVE  IInv'
<1>1. t <= started /\ model[t] \in Models
  BY DEF IInv, TypeOK, Live
<1>a. /\ running' \in [Models -> 0..MaxTasks]
      /\ \A m \in Models : running'[m] \in {running[m], 0}
  BY <1>1, TaskAssumption DEF IInv, TypeOK
<1>b. /\ state' \in [Tasks -> {"none", "new", "run", "done"}]
      /\ \A u \in Tasks : state'[u] = "none" <=> state[u] = "none"
      /\ \A u \in Tasks : state'[u] \in {"new", "run"} => Live(u) /\ u # t
  BY DEF IInv, TypeOK, Live
<1>2. TypeOK'
  <2>1. ASSUME NEW s \in Stoppers, stopping'[s] # 0
        PROVE  stopping'[s] <= started' /\ (state'[stopping'[s]] \in {"new", "run"} => cancelled'[stopping'[s]])
    <3>1. stopping[s] \in Tasks /\ stopping[s] <= started
      BY <2>1, TaskAssumption DEF IInv, TypeOK, Tasks
    <3>2. Live(stopping[s]) => cancelled[stopping[s]]
      BY <2>1 DEF IInv, TypeOK
    <3> QED BY <1>b, <3>1, <3>2 DEF Live
  <2>2. \A m \in Models : running'[m] # 0 => running'[m] <= started' /\ model'[running'[m]] = m
    BY <1>a DEF IInv, TypeOK
  <2>3. \A u \in Tasks : state'[u] # "none" <=> u <= started'
    <3>1. \A u \in Tasks : state[u] # "none" <=> u <= started
      BY DEF IInv, TypeOK
    <3> QED BY <1>b, <3>1 DEF Live
  <2> QED BY <1>a, <1>b, <2>1, <2>2, <2>3 DEF IInv, TypeOK, Live
<1>3. TrackedUnlessRaced'
  BY <1>1 DEF IInv, TypeOK, TrackedUnlessRaced, Live
<1>4. StopHoldsEntry'
  BY <1>1 DEF IInv, TypeOK, StopHoldsEntry, Tasks
<1>5. ShutdownCancels'
  <2> SUFFICES ASSUME Shutdown, NEW m \in Models, running'[m] # 0,
                      state'[running'[m]] \in {"new", "run"}
               PROVE  cancelled[running'[m]]
    BY DEF ShutdownCancels, Shutdown, IsRunning, Live
  <2>1. running'[m] = running[m] /\ running[m] \in Tasks
    BY <1>a, TaskAssumption DEF IInv, TypeOK, Tasks
  <2> QED BY <1>b, <2>1 DEF IInv, ShutdownCancels, IsRunning, Live
<1> QED BY <1>2, <1>3, <1>4, <1>5 DEF IInv

LEMMA LoopStep ==
  ASSUME IInv, NEW t \in Tasks, Loop(t)
  PROVE  IInv'
<1>1. CASE Begin(t)
  BY <1>1 DEF Begin, IInv, TypeOK, TrackedUnlessRaced, StopHoldsEntry, ShutdownCancels, Shutdown,
              IsRunning, Live, Tasks
<1>2. CASE End(t) \/ CancelHits(t) \/ CancelHitsNew(t)
  BY <1>2, LoopEnds DEF End, CancelHits, CancelHitsNew, Finally, Live, IInv, TypeOK
<1> QED BY <1>1, <1>2 DEF Loop

LEMMA ShutdownStep ==
  ASSUME IInv, StopAll \/ Gathered
  PROVE  IInv'
<1>1. CASE StopAll
  <2>1. TypeOK'
    BY <1>1 DEF StopAll, IInv, TypeOK, Live
  <2>2. TrackedUnlessRaced' /\ StopHoldsEntry'
    BY <1>1 DEF StopAll, IInv, TrackedUnlessRaced, StopHoldsEntry, Live
  <2>3. ShutdownCancels'
    <3> SUFFICES ASSUME NEW m \in Models, running[m] # 0, Live(running[m])
                 PROVE  cancelled'[running[m]]
      BY <1>1 DEF ShutdownCancels, StopAll, IsRunning, Live
    <3>1. running[m] \in Tasks /\ running[m] \in Tracked
      BY TaskAssumption DEF IInv, TypeOK, Tasks, Tracked
    <3> QED BY <1>1, <3>1 DEF StopAll
  <2> QED BY <2>1, <2>2, <2>3 DEF IInv
<1>2. CASE Gathered
  <2>1. TypeOK'
    BY <1>2, TaskAssumption DEF Gathered, IInv, TypeOK, tasks, Live
  <2>2. TrackedUnlessRaced'
    BY <1>2 DEF Gathered, IInv, TypeOK, TrackedUnlessRaced, ShutdownCancels, Shutdown, IsRunning,
                tasks, Live, Tasks
  <2>3. StopHoldsEntry'
    BY <1>2 DEF Gathered, IInv, TypeOK, StopHoldsEntry, tasks, Tasks
  <2>4. ShutdownCancels'
    BY <1>2 DEF Gathered, ShutdownCancels, Shutdown, IsRunning
  <2> QED BY <2>1, <2>2, <2>3, <2>4 DEF IInv
<1> QED BY <1>1, <1>2

LEMMA Inductive == Spec => []IInv
<1>1. IInv /\ [Next]_vars => IInv'
  <2> SUFFICES ASSUME IInv, [Next]_vars PROVE IInv'
    OBVIOUS
  <2>1. ASSUME NEW m \in Models, Delete(m) PROVE IInv'
    BY <2>1 DEF Delete, tasks, IInv, TypeOK, TrackedUnlessRaced, StopHoldsEntry, ShutdownCancels,
                Shutdown, IsRunning, Live
  <2>2. CASE UNCHANGED vars
    BY <2>2 DEF vars, tasks, IInv, TypeOK, TrackedUnlessRaced, StopHoldsEntry, ShutdownCancels,
                Shutdown, IsRunning, Live
  <2> QED BY <2>1, <2>2, StartStep, StopStep, StopReturnsStep, LoopStep, ShutdownStep DEF Next
<1> QED BY <1>1, InitIInv, PTL DEF Spec
------------------------------------------------------------------------------

\* InferenceManager is type correct; the task a stop request awaits has been
\* cancelled for as long as it is live (stop_inference cancels, then awaits).
THEOREM InferenceTypeCorrect == Spec => []TypeOK
BY Inductive, PTL DEF IInv

\* Each live loop has its model's entry in running_tasks, unless the model was
\* started while a stop of it was about to return (stop_inference's deletion
\* after the await, the loops' finally).
THEOREM LoopsAreTracked == Spec => []TrackedUnlessRaced
BY Inductive, PTL DEF IInv
==============================================================================
