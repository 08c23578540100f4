------------------------------ MODULE UploadQueue ------------------------------
(***************************************************************************)
(* The queue of cloud uploads, services/cloud_recording_service.py: one    *)
(* worker task, started on demand, that tries an upload up to MaxAttempts  *)
(* times and ends after a minute without work.  These are the actions of   *)
(* the worker alone; the module that extends this one knows the files and  *)
(* when the event loop is free to run it.                                  *)
(***************************************************************************)
EXTENDS Naturals, Sequences

CONSTANTS Segments,     \* recordings, 1..n in the order they were made
          MaxAttempts,  \* 3 in the code
          MaxQueued     \* bound: uploads queued since the server started

ASSUME QueueAssumption ==
  Segments \subseteq Nat \ {0} /\ MaxAttempts \in Nat \ {0} /\ MaxQueued \in Nat

VARIABLES
  queue,    \* _upload_queue
  worker,   \* "off"; "wait" or, once the timeout has fired, "late" in wait_for;
            \* "upload"; "sleep", the backoff before a retry
  task,     \* the upload the worker has taken off the queue
  stats,    \* _stats, and the uploads dropped while offline, which it omits
  offline   \* deployment_mode = offline

uploads == <<queue, worker, task, stats, offline>>

Task    == [seg : Segments, attempts : 0..MaxAttempts]
NoTask  == [seg |-> 0, attempts |-> 0]
NoStats == [queued |-> 0, completed |-> 0, failed |-> 0, dropped |-> 0]

UploadsTypeOK ==
  /\ queue \in Seq(Task) /\ Len(queue) <= MaxQueued
  /\ worker \in {"off", "wait", "late", "upload", "sleep"}
  /\ task \in Task \cup {NoTask}
  /\ stats \in [{"queued", "completed", "failed", "dropped"} -> 0..MaxQueued]
  /\ offline \in BOOLEAN
  /\ worker \in {"upload", "sleep"} <=> task # NoTask

UploadsInit ==
  /\ queue = <<>> /\ worker = "off" /\ task = NoTask /\ stats = NoStats /\ offline = FALSE

Count(what) == stats' = [stats EXCEPT ![what] = @ + 1]

\* queue_upload; a worker whose timeout has fired is not done yet
Enqueue(s) ==
  IF offline
  THEN UNCHANGED <<queue, worker, stats>>
  ELSE /\ stats.queued < MaxQueued
       /\ queue' = Append(queue, [seg |-> s, attempts |-> 0])
       /\ Count("queued")
       /\ worker' = IF worker = "off" THEN "wait" ELSE worker
------------------------------------------------------------------------------
(* _process_upload_queue *)

Drop ==
  /\ worker = "wait" /\ queue # <<>> /\ offline
  /\ queue' = Tail(queue)
  /\ Count("dropped")
  /\ UNCHANGED <<worker, task, offline>>

\* Mutant: the attempts start over when an upload is put back
TakeAfresh(Exists) ==
  /\ worker = "wait" /\ queue # <<>> /\ ~offline
  /\ queue' = Tail(queue)
  /\ task' = [seg |-> Head(queue).seg, attempts |-> 1]
  /\ worker' = IF Head(queue).seg \in Exists THEN "upload" ELSE "sleep"
  /\ UNCHANGED <<stats, offline>>

\* An attempt: taken off the queue, counted, and begun if the file is there;
\* if not, that is an error like any other.
Take(Exists) ==
  /\ worker = "wait" /\ queue # <<>> /\ ~offline
  /\ queue' = Tail(queue)
  /\ LET t == [Head(queue) EXCEPT !.attempts = @ + 1] IN
     \/ /\ t.seg \in Exists
        /\ worker' = "upload" /\ task' = t /\ UNCHANGED stats
     \/ /\ t.seg \notin Exists /\ t.attempts < MaxAttempts
        /\ worker' = "sleep" /\ task' = t /\ UNCHANGED stats
     \/ /\ t.seg \notin Exists /\ t.attempts = MaxAttempts
        /\ worker' = "wait" /\ task' = NoTask /\ Count("failed")
  /\ UNCHANGED offline

Uploaded ==
  /\ worker = "upload"
  /\ worker' = "wait" /\ task' = NoTask
  /\ Count("completed")
  /\ UNCHANGED <<queue, offline>>

\* An error answer of the last attempt, or an exception at any
UploadFails ==
  /\ worker = "upload"
  /\ worker' = "wait" /\ task' = NoTask
  /\ Count("failed")
  /\ UNCHANGED <<queue, offline>>

\* Mutant: off by one
UploadRefusedAgain ==
  /\ worker = "upload" /\ task.attempts <= MaxAttempts
  /\ worker' = "sleep"
  /\ UNCHANGED <<queue, task, stats, offline>>

UploadRefused ==
  /\ worker = "upload" /\ task.attempts < MaxAttempts
  /\ worker' = "sleep"
  /\ UNCHANGED <<queue, task, stats, offline>>

\* Mutant: the retry goes through queue_upload
RetryCounted ==
  /\ worker = "sleep" /\ stats.queued < MaxQueued
  /\ queue' = Append(queue, task)
  /\ worker' = "wait" /\ task' = NoTask
  /\ Count("queued")
  /\ UNCHANGED offline

Retry ==
  /\ worker = "sleep"
  /\ queue' = Append(queue, task)
  /\ worker' = "wait" /\ task' = NoTask
  /\ UNCHANGED <<stats, offline>>

Timeout ==
  /\ worker = "wait" /\ queue = <<>>
  /\ worker' = "late"
  /\ UNCHANGED <<queue, task, stats, offline>>

\* Mutant: the worker ends at a timeout without a look at the queue
GiveUpBlindly ==
  /\ worker = "late"
  /\ worker' = "off"
  /\ UNCHANGED <<queue, task, stats, offline>>

\* TimeoutError: the worker ends if there is still nothing to do
GiveUp ==
  /\ worker = "late"
  /\ worker' = IF queue = <<>> THEN "off" ELSE "wait"
  /\ UNCHANGED <<queue, task, stats, offline>>

SwitchMode == offline' = ~offline /\ UNCHANGED <<queue, worker, task, stats>>

Work(Exists) ==
  Drop \/ Take(Exists) \/ Uploaded \/ UploadFails \/ UploadRefused \/ Retry \/ GiveUp
------------------------------------------------------------------------------
\* Every upload that was queued is completed, failed or dropped, or is still in
\* the queue or the worker's hands: retries, refusals and drops lose none.
Ledger ==
  stats.queued = stats.completed + stats.failed + stats.dropped + Len(queue)
                 + (IF task = NoTask THEN 0 ELSE 1)

\* An upload in the queue has a worker that will come to it, also when it was
\* queued while the worker was timing out.
WorkerServes == queue # <<>> => worker # "off"
==============================================================================
