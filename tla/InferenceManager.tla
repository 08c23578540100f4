--------------------------- MODULE InferenceManager ---------------------------
(***************************************************************************)
(* The server's background inference: services/inference_manager.py, with  *)
(* the start, stop and delete handlers of routers/ai_model_management.py   *)
(* and ai_models.py.  Everything runs on one event loop, so an action is   *)
(* the code between two awaits.                                            *)
(*                                                                         *)
(* A loop is an asyncio task: "new" from create_task to its first step,    *)
(* "run" while it waits for a frame, an answer or its interval, "done" in  *)
(* the end.  running_tasks maps a model to the task stored last, 0 for no  *)
(* entry; a handler that stops a model awaits the task it cancelled and    *)
(* wakes some time after that task is done.                                *)
(***************************************************************************)
EXTENDS Naturals

CONSTANTS Models,    \* model ids
          Stoppers,  \* stop requests that can be in flight at once
          MaxTasks   \* bound: loops started in a behaviour

ASSUME TaskAssumption == MaxTasks \in Nat

VARIABLES
  known,     \* models with a row in the database
  running,   \* InferenceManager.running_tasks
  started,   \* number of tasks created
  model,     \* model[t], kind[t]: the loop that task t runs
  kind,
  state,     \* state[t]: "none", "new", "run", "done"
  cancelled, \* cancelled[t]: task.cancel() was called and has not hit yet
  stopping,  \* stopping[s]: the task that stop request s awaits, 0 for none
  closing,   \* stop_all: "up", "gathering", "down"; _shutdown from "gathering" on
  raced      \* history: models started while a stop of them was waking up

tasks == <<started, model, kind, state, cancelled>>
vars  == <<known, running, tasks, stopping, closing, raced>>

Tasks == 1..MaxTasks
Kinds == {"local", "recording", "cloud"}

Live(t)      == state[t] \in {"new", "run"}
IsRunning(m) == running[m] # 0 /\ Live(running[m])
Shutdown     == closing # "up"
------------------------------------------------------------------------------
TypeOK ==
  /\ known \subseteq Models
  /\ running \in [Models -> 0..MaxTasks]
  /\ started \in 0..MaxTasks
  /\ model \in [Tasks -> Models \cup {"none"}]
  /\ kind \in [Tasks -> Kinds \cup {"none"}]
  /\ state \in [Tasks -> {"none", "new", "run", "done"}]
  /\ cancelled \in [Tasks -> BOOLEAN]
  /\ stopping \in [Stoppers -> 0..MaxTasks]
  /\ closing \in {"up", "gathering", "down"}
  /\ raced \subseteq Models
  /\ \A t \in Tasks : state[t] # "none" <=> t <= started
  /\ \A t \in Tasks : t <= started => model[t] \in Models /\ kind[t] \in Kinds
  /\ \A m \in Models : running[m] # 0 => running[m] <= started /\ model[running[m]] = m
  /\ \A s \in Stoppers : stopping[s] # 0 =>
       stopping[s] <= started /\ (Live(stopping[s]) => cancelled[stopping[s]])

Init ==
  /\ known = Models
  /\ running = [m \in Models |-> 0]
  /\ started = 0
  /\ model = [t \in Tasks |-> "none"]
  /\ kind = [t \in Tasks |-> "none"]
  /\ state = [t \in Tasks |-> "none"]
  /\ cancelled = [t \in Tasks |-> FALSE]
  /\ stopping = [s \in Stoppers |-> 0]
  /\ closing = "up"
  /\ raced = {}
------------------------------------------------------------------------------
(* Handlers *)

Stopped(m) == {s \in Stoppers : stopping[s] # 0 /\ model[stopping[s]] = m}

\* create_task, and its entry in place of whatever entry m has
Create(m, k) ==
  /\ started < MaxTasks
  /\ started' = started + 1
  /\ model' = [model EXCEPT ![started'] = m]
  /\ kind' = [kind EXCEPT ![started'] = k]
  /\ state' = [state EXCEPT ![started'] = "new"]
  /\ running' = [running EXCEPT ![m] = started']
  /\ raced' = IF Stopped(m) = {} THEN raced ELSE raced \cup {m}
  /\ UNCHANGED <<known, cancelled, stopping, closing>>

\* Mutant: started again without a look at running_tasks
StartAgain(m, k) ==
  /\ ~Shutdown
  /\ m \in known \/ k = "recording"
  /\ Create(m, k)

\* start_inference, start_recording_inference, start_cloud_inference; the
\* recording handler takes the model id without looking for its row.
Start(m, k) ==
  /\ ~Shutdown
  /\ m \in known \/ k = "recording"
  /\ ~IsRunning(m)
  /\ Create(m, k)

\* Mutant: the handler waits for the loop without cancelling it
StopPolitely(s, m) ==
  /\ ~Shutdown
  /\ m \in known /\ IsRunning(m)
  /\ stopping[s] = 0
  /\ stopping' = [stopping EXCEPT ![s] = running[m]]
  /\ UNCHANGED <<known, running, tasks, closing, raced>>

\* stop_inference up to `await task'
Stop(s, m) ==
  /\ ~Shutdown
  /\ m \in known /\ IsRunning(m)
  /\ stopping[s] = 0
  /\ stopping' = [stopping EXCEPT ![s] = running[m]]
  /\ cancelled' = [cancelled EXCEPT ![running[m]] = TRUE]
  /\ UNCHANGED <<known, running, started, model, kind, state, closing, raced>>

\* The task is done and the handler wakes: it deletes the model's entry
\* without looking whose entry that is by now.
StopReturns(s) ==
  /\ stopping[s] # 0
  /\ state[stopping[s]] = "done"
  /\ running' = [running EXCEPT ![model[stopping[s]]] = 0]
  /\ stopping' = [stopping EXCEPT ![s] = 0]
  /\ UNCHANGED <<known, tasks, closing, raced>>

\* delete_ai_model; a running loop is left alone
Delete(m) ==
  /\ ~Shutdown
  /\ m \in known
  /\ known' = known \ {m}
  /\ UNCHANGED <<running, tasks, stopping, closing, raced>>
------------------------------------------------------------------------------
(* The loops *)

Begin(t) ==
  /\ state[t] = "new" /\ ~cancelled[t]
  /\ state' = [state EXCEPT ![t] = "run"]
  /\ UNCHANGED <<known, running, started, model, kind, cancelled, stopping, closing, raced>>

\* The finally of the recording and cloud loops deletes the model's entry,
\* whose ever it is; the local loop has none.
Finally(t) ==
  running' = IF kind[t] = "local" THEN running ELSE [running EXCEPT ![model[t]] = 0]

\* Mutant: the local loop does not look at _shutdown
EndUnflagged(t) ==
  /\ state[t] = "run" /\ ~cancelled[t]
  /\ kind[t] # "local"
  /\ state' = [state EXCEPT ![t] = "done"]
  /\ Finally(t)
  /\ UNCHANGED <<known, started, model, kind, cancelled, stopping, closing, raced>>

\* A recording is processed, a cloud model or its credential is gone, or the
\* loop sees _shutdown
End(t) ==
  /\ state[t] = "run" /\ ~cancelled[t]
  /\ kind[t] # "local" \/ Shutdown
  /\ state' = [state EXCEPT ![t] = "done"]
  /\ Finally(t)
  /\ UNCHANGED <<known, started, model, kind, cancelled, stopping, closing, raced>>

\* CancelledError at the await the loop stands at
CancelHits(t) ==
  /\ cancelled[t] /\ state[t] = "run"
  /\ state' = [state EXCEPT ![t] = "done"]
  /\ Finally(t)
  /\ UNCHANGED <<known, started, model, kind, cancelled, stopping, closing, raced>>

\* A task cancelled before its first step runs nothing, its finally included
CancelHitsNew(t) ==
  /\ cancelled[t] /\ state[t] = "new"
  /\ state' = [state EXCEPT ![t] = "done"]
  /\ UNCHANGED <<known, running, started, model, kind, cancelled, stopping, closing, raced>>
------------------------------------------------------------------------------
(* stop_all, which the lifespan handler calls once the requests are served *)

Tracked == {running[m] : m \in Models} \ {0}

StopAll ==
  /\ closing = "up"
  /\ \A s \in Stoppers : stopping[s] = 0
  /\ closing' = "gathering"
  /\ cancelled' = [t \in Tasks |-> cancelled[t] \/ (t \in Tracked /\ Live(t))]
  /\ UNCHANGED <<known, running, started, model, kind, state, stopping, raced>>

Gathered ==
  /\ closing = "gathering"
  /\ \A t \in Tasks : cancelled[t] => ~Live(t)
  /\ closing' = "down"
  /\ running' = [m \in Models |-> 0]
  /\ UNCHANGED <<known, tasks, stopping, raced>>
------------------------------------------------------------------------------
Loop(t) == Begin(t) \/ End(t) \/ CancelHits(t) \/ CancelHitsNew(t)

Next ==
  \/ \E m \in Models, k \in Kinds : Start(m, k)
  \/ \E m \in Models : Delete(m) \/ \E s \in Stoppers : Stop(s, m)
  \/ \E s \in Stoppers : StopReturns(s)
  \/ \E t \in Tasks : Loop(t)
  \/ StopAll \/ Gathered

Spec == Init /\ [][Next]_vars

\* The event loop runs every task that is ready, and every await of a loop has
\* a timeout or is a sleep.
Fairness ==
  /\ \A t \in Tasks : WF_vars(Begin(t) \/ CancelHits(t) \/ CancelHitsNew(t))
  /\ \A t \in Tasks : WF_vars(End(t) /\ Shutdown)
  /\ \A s \in Stoppers : WF_vars(StopReturns(s))
  /\ WF_vars(Gathered)

FairSpec == Spec /\ Fairness
------------------------------------------------------------------------------
(* Properties *)

\* Each live loop is the one running_tasks has for its model, so that a model
\* has at most one and a stop reaches it, except for models started between
\* the end of a loop and the return of the stop that ended it.  Ends, stops,
\* double stops and finally clauses in any other order lose no loop.
TrackedUnlessRaced ==
  \A t \in Tasks : Live(t) => running[model[t]] = t \/ model[t] \in raced

\* Stops complete: a stop request returns, since the loop it awaits ends whatever
\* it was doing; and after stop_all no loop is left, not even one that
\* running_tasks has lost.
StopsComplete ==
  /\ \A s \in Stoppers : stopping[s] # 0 ~> stopping[s] = 0
  /\ (closing = "gathering") ~> [](\A t \in Tasks : ~Live(t))
==============================================================================
