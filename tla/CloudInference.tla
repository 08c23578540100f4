---------------------------- MODULE CloudInference ----------------------------
(***************************************************************************)
(* Inference by a cloud provider: services/cloud_inference_service.py with *)
(* the quota and the circuit breaker of services/tenant_quota_service.py,  *)
(* for one user and one provider.                                          *)
(*                                                                         *)
(* A request suspends only in its call of KAI-C; what comes before the     *)
(* call is one step, and what comes after it another.  The daily and the   *)
(* monthly quota are one here: the code treats them alike.                 *)
(***************************************************************************)
EXTENDS Naturals, FiniteSets

CONSTANTS
  Requests,    \* how many are under way at a time is bounded by this set
  AsyncJobs,
  Limits,      \* the concurrent limits an administrator may set
  Quotas,      \* the quotas an administrator may set
  Threshold,   \* CIRCUIT_BREAKER_THRESHOLD
  RetryLimit,  \* HALF_OPEN_RETRY_LIMIT
  MaxCrashes   \* bound on crashes

ASSUME QuotaAssumption == Limits \subseteq Nat /\ Quotas \subseteq Nat \ {0} /\ MaxCrashes \in Nat
ASSUME BreakerAssumption == Threshold \in Nat \ {0} /\ RetryLimit \in Nat \ {0}
ASSUME RequestsAssumption == IsFiniteSet(Requests)

VARIABLES
  quota,    \* the TenantQuota row: quota, usage, limit and concurrent
  circuit,  \* its breaker: state, failures, successes, and timeout: whether that since the last failure is over
  request,  \* request[r]: idle, calling KAI-C, or refused for its quota
  job,      \* job[j]: the AIInferenceJob row's status
  task,     \* task[j]: the background task of j
  crashes,  \* crashes so far, for the bound
  leaked,   \* history: slots that will never be given back
  streak,   \* history: failures recorded since the last success
  today,    \* history: whether a request was admitted today
  lost      \* history: jobs whose task died

history == <<leaked, streak, today, lost>>
vars    == <<quota, circuit, request, job, task, crashes, history>>

Calling == {r \in Requests : request[r] = "calling"}
------------------------------------------------------------------------------
QuotaType   == [quota : Quotas, usage : Nat, limit : Limits, concurrent : Nat]
CircuitType == [state : {"closed", "open", "half_open"}, failures : Nat,
                successes : 0..(RetryLimit - 1), timeout : {"running", "over"}]

TypeOK ==
  /\ quota \in QuotaType /\ circuit \in CircuitType
  /\ request \in [Requests -> {"idle", "calling", "refused"}]
  /\ job \in [AsyncJobs -> {"none", "queued", "processing", "completed", "failed"}]
  /\ task \in [AsyncJobs -> {"none", "waiting", "calling"}]
  /\ crashes \in Nat /\ leaked \in Nat /\ streak \in Nat /\ today \in {"unused", "used"}
  /\ lost \subseteq AsyncJobs

\* get_or_create_quota, with any of the limits and quotas
Init ==
  /\ quota \in [quota : Quotas, usage : {0}, limit : Limits, concurrent : {0}]
  /\ circuit = [state |-> "closed", failures |-> 0, successes |-> 0, timeout |-> "running"]
  /\ request = [r \in Requests |-> "idle"]
  /\ job = [j \in AsyncJobs |-> "none"]
  /\ task = [j \in AsyncJobs |-> "none"]
  /\ crashes = 0
  /\ leaked = 0 /\ streak = 0 /\ today = "unused" /\ lost = {}
------------------------------------------------------------------------------
(* TenantQuotaService *)

Admits == circuit.state # "open" \/ circuit.timeout = "over"

\* The state an admitted request leaves the breaker in; it is committed with the
\* counters, so that a request refused for its quota leaves it open
HalfOpened ==
  IF circuit.state = "open" THEN [circuit EXCEPT !.state = "half_open", !.successes = 0]
                            ELSE circuit

OverQuota == quota.usage >= quota.quota
OverLimit == quota.concurrent >= quota.limit

\* Mutant: the slot is given back twice, by the handler and by its finally
GivenBackTwice(q) == [q EXCEPT !.concurrent = IF @ > 1 THEN @ - 2 ELSE 0]

GivenBack(q) == [q EXCEPT !.concurrent = IF @ > 0 THEN @ - 1 ELSE 0]

\* Mutant: a success leaves the count of a closed circuit as it is
SuccessKeepsCount ==
  IF circuit.state = "half_open" /\ circuit.successes + 1 < RetryLimit
  THEN [circuit EXCEPT !.successes = @ + 1]
  ELSE IF circuit.state = "half_open"
  THEN [circuit EXCEPT !.state = "closed", !.failures = 0, !.successes = 0]
  ELSE circuit

\* Mutant: the circuit closes one success late
SuccessesOffByOne ==
  CASE circuit.state = "half_open" /\ circuit.successes < RetryLimit ->
         [circuit EXCEPT !.successes = @ + 1]
    [] circuit.state = "half_open" /\ circuit.successes >= RetryLimit ->
         [circuit EXCEPT !.state = "closed", !.failures = 0, !.successes = 0]
    [] circuit.state = "closed" -> [circuit EXCEPT !.failures = 0]
    [] OTHER -> circuit

\* record_success: in an open circuit it changes nothing
RecordSuccess ==
  CASE circuit.state = "half_open" /\ circuit.successes + 1 < RetryLimit ->
         [circuit EXCEPT !.successes = @ + 1]
    [] circuit.state = "half_open" /\ circuit.successes + 1 >= RetryLimit ->
         [circuit EXCEPT !.state = "closed", !.failures = 0, !.successes = 0]
    [] circuit.state = "closed" -> [circuit EXCEPT !.failures = 0]
    [] OTHER -> circuit

\* record_failure: one that comes late puts off the end of the timeout
RecordFailure ==
  LET failures == circuit.failures + 1
      opens    == circuit.state = "half_open" \/ failures >= Threshold
  IN [state |-> IF opens THEN "open" ELSE circuit.state,
      failures |-> failures,
      successes |-> IF circuit.state = "half_open" THEN 0 ELSE circuit.successes,
      timeout |-> "running"]

\* update_quotas, from the administrator's route
UpdateQuotas(limit, n) ==
  /\ quota' = [quota EXCEPT !.limit = limit, !.quota = n]
  /\ UNCHANGED <<circuit, request, job, task, crashes, history>>

\* Five minutes have passed since the last failure
TimeoutExpires ==
  /\ circuit.state = "open" /\ circuit.timeout = "running"
  /\ circuit' = [circuit EXCEPT !.timeout = "over"]
  /\ UNCHANGED <<quota, request, job, task, crashes, history>>

\* daily_reset_at is set by a reset alone, and a reset needs it set: a new day
\* changes nothing
NewDay ==
  /\ today' = "unused"
  /\ UNCHANGED <<quota, circuit, request, job, task, crashes, leaked, streak, lost>>
------------------------------------------------------------------------------
(* run_inference *)

\* check_and_increment raises
Refuse(r) ==
  /\ request[r] = "idle"
  /\ Admits
  /\ OverQuota
  /\ request' = [request EXCEPT ![r] = "refused"]
  /\ UNCHANGED <<quota, circuit, job, task, crashes, history>>

RefusalSent(r) ==
  /\ request[r] = "refused"
  /\ request' = [request EXCEPT ![r] = "idle"]
  /\ UNCHANGED <<quota, circuit, job, task, crashes, history>>

\* The slot is committed; then the credential is found, and the call is sent, or
\* it is missing, or it cannot be read or the result row cannot be stored
Admit(r) ==
  /\ request[r] = "idle"
  /\ Admits /\ ~OverQuota /\ ~OverLimit
  /\ LET counted == [quota EXCEPT !.usage = @ + 1, !.concurrent = @ + 1]
     IN \/ /\ quota' = counted
           /\ request' = [request EXCEPT ![r] = "calling"]
           /\ UNCHANGED leaked
        \/ /\ quota' = GivenBack(counted)
           /\ UNCHANGED <<request, leaked>>
        \/ /\ quota' = counted
           /\ leaked' = leaked + 1
           /\ UNCHANGED request
  /\ circuit' = HalfOpened
  /\ today' = "used"
  /\ UNCHANGED <<job, task, crashes, streak, lost>>

Ends(r) == request' = [request EXCEPT ![r] = "idle"]

Succeeds(r) ==
  /\ request[r] = "calling"
  /\ Ends(r)
  /\ circuit' = RecordSuccess
  /\ quota' = GivenBack(quota)
  /\ streak' = 0
  /\ UNCHANGED <<job, task, crashes, leaked, today, lost>>

Fails(r) ==
  /\ request[r] = "calling"
  /\ Ends(r)
  /\ circuit' = RecordFailure
  /\ quota' = GivenBack(quota)
  /\ streak' = streak + 1
  /\ UNCHANGED <<job, task, crashes, leaked, today, lost>>

\* A cancelled request goes through its finally alone
Cancelled(r) ==
  /\ request[r] = "calling"
  /\ Ends(r)
  /\ quota' = GivenBack(quota)
  /\ UNCHANGED <<circuit, job, task, crashes, history>>

\* A commit fails: the session refuses what follows, the finally included
StoreFails(r) ==
  /\ request[r] = "calling"
  /\ Ends(r)
  /\ leaked' = leaked + 1
  /\ UNCHANGED <<quota, circuit, job, task, crashes, streak, today, lost>>
------------------------------------------------------------------------------
(* Jobs: neither the quota nor the breaker is asked *)

CreateJob(j) ==
  /\ job[j] = "none"
  /\ job' = [job EXCEPT ![j] = "queued"]
  /\ task' = [task EXCEPT ![j] = "waiting"]
  /\ UNCHANGED <<quota, circuit, request, crashes, history>>

\* process_job, to its call; a missing credential fails it
JobStarts(j) ==
  /\ task[j] = "waiting" /\ job[j] = "queued"
  /\ \/ job' = [job EXCEPT ![j] = "processing"] /\ task' = [task EXCEPT ![j] = "calling"]
     \/ job' = [job EXCEPT ![j] = "failed"] /\ task' = [task EXCEPT ![j] = "none"]
  /\ UNCHANGED <<quota, circuit, request, crashes, history>>

JobAnswered(j) ==
  /\ task[j] = "calling"
  /\ \E status \in {"completed", "failed"} : job' = [job EXCEPT ![j] = status]
  /\ task' = [task EXCEPT ![j] = "none"]
  /\ UNCHANGED <<quota, circuit, request, crashes, history>>

\* Cancelled by a shutdown, or a commit fails
JobDies(j) ==
  /\ task[j] # "none"
  /\ job' = [job EXCEPT ![j] = "processing"]
  /\ task' = [task EXCEPT ![j] = "none"]
  /\ lost' = lost \cup {j}
  /\ UNCHANGED <<quota, circuit, request, crashes, leaked, streak, today>>

\* Nothing is put right at the next start: slots and jobs stay as they were
Crash ==
  /\ crashes < MaxCrashes
  /\ crashes' = crashes + 1
  /\ leaked' = leaked + Cardinality(Calling)
  /\ lost' = lost \cup {j \in AsyncJobs : task[j] # "none"}
  /\ request' = [r \in Requests |-> "idle"]
  /\ task' = [j \in AsyncJobs |-> "none"]
  /\ UNCHANGED <<quota, circuit, job, streak, today>>

Next ==
  \/ \E limit \in Limits, n \in Quotas : UpdateQuotas(limit, n)
  \/ TimeoutExpires \/ NewDay \/ Crash
  \/ \E r \in Requests : Refuse(r) \/ RefusalSent(r) \/ Admit(r) \/ Succeeds(r) \/ Fails(r)
                           \/ Cancelled(r) \/ StoreFails(r)
  \/ \E j \in AsyncJobs : CreateJob(j) \/ JobStarts(j) \/ JobAnswered(j) \/ JobDies(j)

Spec == Init /\ [][Next]_vars

\* The loop runs its background tasks, and a call of KAI-C ends within its 60 seconds
Fairness == \A j \in AsyncJobs : WF_vars(JobStarts(j)) /\ WF_vars(JobAnswered(j))
FairSpec == Spec /\ Fairness
------------------------------------------------------------------------------
\* The concurrent counter is the requests that are calling KAI-C and the slots
\* lost for good, by a crash, by a commit that failed or by an exception between
\* the counter and the try: every other way out gives the slot back, once.
SlotsAccounted == quota.concurrent = Cardinality(Calling) + leaked

\* The failures counted while the circuit is closed are failures in a row, those
\* of requests admitted under an earlier state of the circuit included: the
\* circuit opens after Threshold of them, never by failures that successes part.
FailuresInARow == circuit.state = "closed" => circuit.failures = streak /\ streak < Threshold

\* A job is settled unless its task died.
JobsSettle == \A j \in AsyncJobs :
  job[j] = "queued" ~> job[j] \in {"completed", "failed"} \/ j \in lost

\* "Daily: 1000 requests": who is refused for the daily quota has used it today.
RefusedForToday ==
  [][\A r \in Requests : request[r] = "idle" /\ request'[r] = "refused" => today = "used"]_vars
==============================================================================
