----------------------- MODULE RecordingPipelineProofs -----------------------
(***************************************************************************)
(* Type correctness of the recording pipeline, the accounting of uploads,  *)
(* the survival of recordings and the files of the rows, for any number of *)
(* segments, attempts and uploads.                                         *)
(***************************************************************************)
EXTENDS RecordingPipeline, TLAPS

\* An upload that may be tried again has attempts left.
Fresh ==
  /\ \A i \in 1..Len(queue) : queue[i].attempts < MaxAttempts
  /\ worker = "sleep" => task.attempts < MaxAttempts

Uploads == UploadsTypeOK /\ Ledger /\ WorkerServes /\ Fresh
------------------------------------------------------------------------------
(* The upload queue *)

LEMMA TaskFacts ==
  /\ NoTask \notin Task
  /\ \A t \in Task : t.attempts \in 0..MaxAttempts /\ t.seg \in Segments
  /\ \A t \in Task : t.attempts < MaxAttempts => [t EXCEPT !.attempts = @ + 1] \in Task
  /\ \A t \in Task : [t EXCEPT !.attempts = @ + 1].attempts = t.attempts + 1
  /\ \A s \in Segments : [seg |-> s, attempts |-> 0] \in Task
BY QueueAssumption DEF Task, NoTask

\* The counters of the ledger, each a natural number.
LEMMA Counters ==
  ASSUME Uploads
  PROVE  /\ stats.queued \in 0..MaxQueued /\ stats.completed \in 0..MaxQueued
         /\ stats.failed \in 0..MaxQueued /\ stats.dropped \in 0..MaxQueued
         /\ Len(queue) \in Nat
BY DEF Uploads, UploadsTypeOK

LEMMA Head1 ==
  ASSUME Uploads, queue # <<>>
  PROVE  /\ Head(queue) \in Task /\ Head(queue).attempts < MaxAttempts
         /\ Tail(queue) \in Seq(Task) /\ Len(Tail(queue)) = Len(queue) - 1 /\ Len(queue) > 0
         /\ \A i \in 1..Len(Tail(queue)) : Tail(queue)[i].attempts < MaxAttempts
<1>1. queue \in Seq(Task) /\ \A i \in 1..Len(queue) : queue[i].attempts < MaxAttempts
  BY DEF Uploads, UploadsTypeOK, Fresh
<1>2. Head(queue) = queue[1] /\ Head(queue) \in Task /\ Len(queue) \in Nat /\ Len(queue) > 0
  BY <1>1
<1>3. Tail(queue) \in Seq(Task) /\ Len(Tail(queue)) = Len(queue) - 1
  BY <1>1
<1>4. \A i \in 1..Len(queue) - 1 : Tail(queue)[i] = queue[i + 1]
  BY <1>1
<1>5. ASSUME NEW i \in 1..Len(queue) - 1 PROVE Tail(queue)[i].attempts < MaxAttempts
  <2>1. i + 1 \in 1..Len(queue)
    BY <1>2
  <2> QED BY <1>1, <1>4, <2>1
<1> QED BY <1>1, <1>2, <1>3, <1>5

\* A task at the end of the queue.
LEMMA PutBack ==
  ASSUME Uploads, NEW t \in Task, t.attempts < MaxAttempts
  PROVE  /\ Append(queue, t) \in Seq(Task) /\ Len(Append(queue, t)) = Len(queue) + 1
         /\ Append(queue, t) # <<>>
         /\ \A i \in 1..Len(Append(queue, t)) : Append(queue, t)[i].attempts < MaxAttempts
<1>1. queue \in Seq(Task) /\ \A i \in 1..Len(queue) : queue[i].attempts < MaxAttempts
  BY DEF Uploads, UploadsTypeOK, Fresh
<1> QED BY <1>1

LEMMA EnqueueStep ==
  ASSUME Uploads, NEW s \in Segments, Enqueue(s), UNCHANGED <<task, offline>>
  PROVE  Uploads'
<1>1. CASE offline
  BY <1>1 DEF Enqueue, Uploads, UploadsTypeOK, Ledger, WorkerServes, Fresh
<1>2. CASE ~offline
  <2> DEFINE t == [seg |-> s, attempts |-> 0]
  <2>1. t \in Task /\ t.attempts < MaxAttempts
    BY TaskFacts, QueueAssumption
  <2>2. queue' = Append(queue, t) /\ stats' = [stats EXCEPT !.queued = @ + 1]
        /\ worker' = (IF worker = "off" THEN "wait" ELSE worker) /\ stats.queued < MaxQueued
        /\ task' = task /\ offline' = offline
    BY <1>2 DEF Enqueue, Count
  <2> HIDE DEF t
  <2>3. /\ queue' \in Seq(Task) /\ Len(queue') = Len(queue) + 1
        /\ \A i \in 1..Len(queue') : queue'[i].attempts < MaxAttempts
    BY <2>1, <2>2, PutBack
  <2>4. /\ stats' \in [{"queued", "completed", "failed", "dropped"} -> 0..MaxQueued]
        /\ stats'.queued = stats.queued + 1 /\ stats'.completed = stats.completed
        /\ stats'.failed = stats.failed /\ stats'.dropped = stats.dropped
    <3> DEFINE D == {"queued", "completed", "failed", "dropped"}
    <3>1. stats \in [D -> 0..MaxQueued]
      BY DEF Uploads, UploadsTypeOK
    <3>2. stats.queued + 1 \in 0..MaxQueued
      BY <2>2, Counters, QueueAssumption
    <3>3. stats' = [stats EXCEPT !["queued"] = stats["queued"] + 1]
      BY <2>2
    <3> QED BY <3>1, <3>2, <3>3, SMTT(30)
  <2>5. Ledger'
    BY <2>2, <2>3, <2>4, Counters DEF Uploads, Ledger
  <2>6. Len(queue') <= MaxQueued
    BY <2>2, <2>3, Counters, QueueAssumption DEF Uploads, Ledger
  <2>7. WorkerServes' /\ Fresh' /\ worker' \in {"off", "wait", "late", "upload", "sleep"}
        /\ (worker' \in {"upload", "sleep"} <=> worker \in {"upload", "sleep"})
    BY <2>2, <2>3 DEF Uploads, UploadsTypeOK, WorkerServes, Fresh
  <2> QED BY <2>3, <2>4, <2>5, <2>6, <2>7 DEF Uploads, UploadsTypeOK
<1> QED BY <1>1, <1>2

\* An upload that ends is in the books once.
LEMMA CountStep ==
  ASSUME Uploads, NEW what \in {"completed", "failed", "dropped"}, Count(what),
         Len(queue) > 0 \/ task # NoTask
  PROVE  /\ stats' \in [{"queued", "completed", "failed", "dropped"} -> 0..MaxQueued]
         /\ stats'.queued = stats.queued
         /\ stats'.completed + stats'.failed + stats'.dropped
              = stats.completed + stats.failed + stats.dropped + 1
<1> DEFINE D == {"queued", "completed", "failed", "dropped"}
<1>1. stats' = [stats EXCEPT ![what] = stats[what] + 1] /\ stats \in [D -> 0..MaxQueued]
  BY DEF Count, Uploads, UploadsTypeOK
<1>2. stats.completed + stats.failed + stats.dropped < MaxQueued
  BY Counters, QueueAssumption DEF Uploads, Ledger
<1>3. CASE what = "completed"
  <2>1. stats.completed + 1 \in 0..MaxQueued
    BY <1>2, Counters, QueueAssumption
  <2> QED BY <1>1, <1>3, <2>1, Counters
<1>4. CASE what = "failed"
  <2>1. stats.failed + 1 \in 0..MaxQueued
    BY <1>2, Counters, QueueAssumption
  <2> QED BY <1>1, <1>4, <2>1, Counters
<1>5. CASE what = "dropped"
  <2>1. stats.dropped + 1 \in 0..MaxQueued
    BY <1>2, Counters, QueueAssumption
  <2> QED BY <1>1, <1>5, <2>1, Counters
<1> QED BY <1>3, <1>4, <1>5

LEMMA TakeStep ==
  ASSUME Uploads, NEW E, Drop \/ Take(E)
  PROVE  Uploads'
<1>1. queue # <<>> /\ worker = "wait" /\ task = NoTask /\ queue' = Tail(queue) /\ offline' = offline
  BY DEF Drop, Take, Uploads, UploadsTypeOK
<1>2. /\ queue' \in Seq(Task) /\ Len(queue') = Len(queue) - 1 /\ Len(queue) \in Nat /\ Len(queue) > 0
      /\ Len(queue') <= MaxQueued
      /\ \A i \in 1..Len(queue') : queue'[i].attempts < MaxAttempts
  BY <1>1, Head1, Counters, QueueAssumption DEF Uploads, UploadsTypeOK
<1>3. CASE \E what \in {"failed", "dropped"} : Count(what) /\ worker' = "wait" /\ task' = NoTask
  <2>1. PICK what \in {"failed", "dropped"} : Count(what)
    BY <1>3
  <2>2. /\ stats' \in [{"queued", "completed", "failed", "dropped"} -> 0..MaxQueued]
        /\ stats'.queued = stats.queued
        /\ stats'.completed + stats'.failed + stats'.dropped
              = stats.completed + stats.failed + stats.dropped + 1
    BY <1>2, <2>1, CountStep
  <2>3. Ledger'
    BY <1>1, <1>2, <1>3, <2>2, Counters, SMTT(30) DEF Uploads, Ledger
  <2> QED BY <1>1, <1>2, <1>3, <2>2, <2>3 DEF Uploads, UploadsTypeOK, WorkerServes, Fresh
<1>4. CASE /\ task' \in Task /\ worker' \in {"upload", "sleep"} /\ stats' = stats
           /\ worker' = "sleep" => task'.attempts < MaxAttempts
  <2>1. Ledger'
    BY <1>1, <1>2, <1>4, TaskFacts, Counters DEF Uploads, Ledger
  <2> QED BY <1>1, <1>2, <1>4, <2>1, TaskFacts DEF Uploads, UploadsTypeOK, WorkerServes, Fresh
<1>5. CASE Drop
  BY <1>1, <1>3, <1>5 DEF Drop
<1>6. CASE Take(E)
  <2> DEFINE t == [Head(queue) EXCEPT !.attempts = @ + 1]
  <2>1. t \in Task /\ t.attempts \in 0..MaxAttempts
    BY <1>1, Head1, TaskFacts
  <2> QED BY <1>3, <1>4, <1>6, <2>1 DEF Take
<1> QED BY <1>5, <1>6

LEMMA WorkStep ==
  ASSUME Uploads, NEW E, Work(E) \/ Timeout \/ SwitchMode
  PROVE  Uploads'
<1>1. CASE Drop \/ Take(E)
  BY <1>1, TakeStep
<1>2. CASE Uploaded \/ UploadFails
  <2>1. PICK what \in {"completed", "failed"} : Count(what)
    BY <1>2 DEF Uploaded, UploadFails
  <2>2. task # NoTask /\ task' = NoTask /\ worker' = "wait" /\ UNCHANGED <<queue, offline>>
    BY <1>2, TaskFacts DEF Uploaded, UploadFails, Uploads, UploadsTypeOK
  <2>3. /\ stats' \in [{"queued", "completed", "failed", "dropped"} -> 0..MaxQueued]
        /\ stats'.queued = stats.queued
        /\ stats'.completed + stats'.failed + stats'.dropped
              = stats.completed + stats.failed + stats.dropped + 1
    BY <2>1, <2>2, CountStep
  <2>4. Ledger'
    BY <2>2, <2>3, Counters DEF Uploads, Ledger
  <2> QED BY <2>2, <2>3, <2>4 DEF Uploads, UploadsTypeOK, WorkerServes, Fresh
<1>3. CASE Retry
  <2>1. task \in Task /\ task # NoTask /\ task.attempts < MaxAttempts
    BY <1>3, TaskFacts DEF Retry, Uploads, UploadsTypeOK, Fresh
  <2>2. /\ queue' \in Seq(Task) /\ Len(queue') = Len(queue) + 1
        /\ \A i \in 1..Len(queue') : queue'[i].attempts < MaxAttempts
    BY <1>3, <2>1, PutBack DEF Retry
  <2>3. worker' = "wait" /\ task' = NoTask /\ UNCHANGED <<stats, offline>>
    BY <1>3 DEF Retry
  <2>4. Ledger'
    BY <2>1, <2>2, <2>3, Counters DEF Uploads, Ledger
  <2>5. Len(queue') <= MaxQueued
    BY <2>1, <2>2, Counters, QueueAssumption DEF Uploads, Ledger
  <2> QED BY <2>2, <2>3, <2>4, <2>5 DEF Uploads, UploadsTypeOK, WorkerServes, Fresh
<1>4. CASE UploadRefused
  BY <1>4 DEF UploadRefused, Uploads, UploadsTypeOK, Ledger, WorkerServes, Fresh
<1>5. CASE GiveUp \/ Timeout \/ SwitchMode
  BY <1>5 DEF GiveUp, Timeout, SwitchMode, Uploads, UploadsTypeOK, Ledger, WorkerServes, Fresh
<1> QED BY <1>1, <1>2, <1>3, <1>4, <1>5 DEF Work

LEMMA UploadsStart ==
  ASSUME queue' = <<>>, worker' = "off", task' = NoTask, stats' = NoStats, offline' \in BOOLEAN
  PROVE  Uploads'
<1>1. queue' \in Seq(Task) /\ Len(queue') = 0 /\ Len(queue') <= MaxQueued
  BY QueueAssumption
<1>2. stats' \in [{"queued", "completed", "failed", "dropped"} -> 0..MaxQueued]
  BY QueueAssumption DEF NoStats
<1>3. stats'.queued = 0 /\ stats'.completed = 0 /\ stats'.failed = 0 /\ stats'.dropped = 0
  BY DEF NoStats
<1>4. UploadsTypeOK'
  BY <1>1, <1>2 DEF UploadsTypeOK
<1>5. Ledger' /\ WorkerServes' /\ Fresh'
  BY <1>1, <1>3 DEF Ledger, WorkerServes, Fresh
<1> QED BY <1>4, <1>5 DEF Uploads

LEMMA UploadsStep == Uploads /\ [Next]_vars => Uploads'
<1> SUFFICES ASSUME Uploads, [Next]_vars PROVE Uploads'
  OBVIOUS
<1>1. ASSUME UNCHANGED uploads PROVE Uploads'
  BY <1>1 DEF uploads, Uploads, UploadsTypeOK, Ledger, WorkerServes, Fresh
<1>2. CASE UNCHANGED vars
  BY <1>1, <1>2 DEF vars
<1>3. ASSUME NEW s \in Segments,
             Record(s) \/ HookLost(s) \/ Hook(s) \/ Faststart(s)
      PROVE  Uploads'
  BY <1>1, <1>3 DEF Record, HookLost, Hook, Faststart, StartRemux, Remuxed, RemuxFails, RemuxTimesOut,
                    Replace, Move, MoveFails
<1>4. ASSUME NEW s \in Segments, QueueUpload(s) \/ UploadDay(s) PROVE Uploads'
  BY <1>4, EnqueueStep DEF QueueUpload, UploadDay
<1>5. CASE Uploading \/ Environment
  BY <1>5, WorkStep DEF Uploading, Environment
<1>6. CASE Crash
  BY <1>6, UploadsStart DEF Crash, Uploads, UploadsTypeOK
<1>7. CASE StartSweep \/ Sweep \/ Restart
  BY <1>1, <1>7 DEF StartSweep, Sweep, SweepFile, Commit, CommitFails, Restart
<1> QED BY <1>2, <1>3, <1>4, <1>5, <1>6, <1>7 DEF Next

LEMMA UploadsInvariant == Spec => []Uploads
<1>1. Init => Uploads
  <2> SUFFICES ASSUME Init PROVE Uploads
    OBVIOUS
  <2>1. queue = <<>> /\ worker = "off" /\ task = NoTask /\ stats = NoStats /\ offline = FALSE
    BY DEF Init, UploadsInit
  <2>2. queue \in Seq(Task) /\ Len(queue) = 0 /\ Len(queue) <= MaxQueued
    BY <2>1, QueueAssumption
  <2>3. /\ stats \in [{"queued", "completed", "failed", "dropped"} -> 0..MaxQueued]
        /\ stats.queued = 0 /\ stats.completed = 0 /\ stats.failed = 0 /\ stats.dropped = 0
    BY <2>1, QueueAssumption DEF NoStats
  <2>4. UploadsTypeOK
    BY <2>1, <2>2, <2>3 DEF UploadsTypeOK
  <2>5. Ledger /\ WorkerServes /\ Fresh
    BY <2>1, <2>2, <2>3 DEF Ledger, WorkerServes, Fresh
  <2> QED BY <2>4, <2>5 DEF Uploads
<1> QED BY <1>1, UploadsStep, PTL DEF Spec

\* Retries, refusals, drops and exceptions lose no queued upload.
THEOREM UploadsAccounted == Spec => []Ledger
<1>1. Uploads => Ledger
  BY DEF Uploads
<1> QED BY <1>1, UploadsInvariant, PTL

\* No upload is left in the queue of a worker that has ended.
THEOREM UploadsAreServed == Spec => []WorkerServes
<1>1. Uploads => WorkerServes
  BY DEF Uploads
<1> QED BY <1>1, UploadsInvariant, PTL
------------------------------------------------------------------------------
(* The files *)

Steps == {"unborn", "hook", "queue", "fast", "idle"} \cup Threads

\* Where the copy of a segment is, by the step its job is at: a thread replaces
\* a recording only by a whole file, and a recording is missing only while its
\* job moves the copy there, or after it died doing so.
Copy(s) ==
  /\ job[s] \in {"replace", "move"} => temp[s] = "whole"
  /\ s \in gone \/ job[s] = "unborn" \/ file[s] = "whole"
     \/ (temp[s] = "whole" /\ job[s] \in {"move", "idle"})

Copies ==
  /\ file \in [Segments -> {"none", "part", "whole"}]
  /\ temp \in [Segments -> {"none", "part", "whole"}]
  /\ job \in [Segments -> Steps]
  /\ \A s \in Segments : Copy(s)

\* A step that writes the files and the job of one segment.
LEMMA OneSegment ==
  ASSUME Copies, NEW s \in Segments,
         NEW f \in {"none", "part", "whole"}, NEW t \in {"none", "part", "whole"}, NEW j \in Steps,
         file' = [file EXCEPT ![s] = f], temp' = [temp EXCEPT ![s] = t], job' = [job EXCEPT ![s] = j],
         gone \subseteq gone',
         j \in {"replace", "move"} => t = "whole",
         s \in gone' \/ j = "unborn" \/ f = "whole" \/ (t = "whole" /\ j \in {"move", "idle"})
  PROVE  Copies'
<1>1. /\ file' \in [Segments -> {"none", "part", "whole"}]
      /\ temp' \in [Segments -> {"none", "part", "whole"}]
      /\ job' \in [Segments -> Steps]
  BY DEF Copies
<1>2. file'[s] = f /\ temp'[s] = t /\ job'[s] = j
  BY DEF Copies
<1>3. ASSUME NEW r \in Segments PROVE Copy(r)'
  <2>1. CASE r = s
    BY <1>2, <2>1 DEF Copy
  <2>2. CASE r # s
    <3>1. file'[r] = file[r] /\ temp'[r] = temp[r] /\ job'[r] = job[r]
      BY <2>2 DEF Copies
    <3> QED BY <3>1 DEF Copies, Copy
  <2> QED BY <2>1, <2>2
<1> QED BY <1>1, <1>3 DEF Copies

\* What a copy is before a step, for the segment that takes it.
LEMMA Here ==
  ASSUME Copies, NEW s \in Segments
  PROVE  /\ file = [file EXCEPT ![s] = file[s]] /\ file[s] \in {"none", "part", "whole"}
         /\ temp = [temp EXCEPT ![s] = temp[s]] /\ temp[s] \in {"none", "part", "whole"}
         /\ job = [job EXCEPT ![s] = job[s]] /\ job[s] \in Steps
         /\ Copy(s)
BY DEF Copies

LEMMA JobStep ==
  ASSUME Copies, NEW s \in Segments,
         Record(s) \/ HookLost(s) \/ Hook(s) \/ QueueUpload(s) \/ Faststart(s)
  PROVE  Copies'
<1> USE Here, OneSegment DEF Steps, Threads
<1>1. CASE Record(s)
  BY <1>1 DEF Record, clean
<1>2. CASE HookLost(s)
  BY <1>2 DEF HookLost, clean, Copy
<1>3. CASE Hook(s)
  <2>1. PICK j \in {"queue", "idle"} : job' = [job EXCEPT ![s] = j]
    BY <1>3 DEF Hook
  <2>2. UNCHANGED <<file, temp, gone>> /\ (s \in gone \/ file[s] = "whole")
    BY <1>3 DEF Hook, clean, Copy
  <2>3. /\ file' = [file EXCEPT ![s] = file[s]] /\ file[s] \in {"none", "part", "whole"}
        /\ temp' = [temp EXCEPT ![s] = temp[s]] /\ temp[s] \in {"none", "part", "whole"}
    BY <2>2
  <2>4. j \in Steps /\ j \notin {"replace", "move"}
    OBVIOUS
  <2> QED BY <2>1, <2>2, <2>3, <2>4, OneSegment
<1>4. CASE QueueUpload(s)
  BY <1>4 DEF QueueUpload, clean, Copy
<1>5. CASE StartRemux(s)
  <2>1. CASE s \in Exists
    BY <1>5, <2>1 DEF StartRemux, Goto, clean, Copy
  <2>2. CASE s \notin Exists
    BY <1>5, <2>2 DEF StartRemux, Goto, clean, Copy
  <2> QED BY <2>1, <2>2
<1>6. CASE Remuxed(s)
  BY <1>6 DEF Remuxed, Goto, clean, Copy
<1>7. CASE RemuxFails(s)
  BY <1>7 DEF RemuxFails, Goto, clean, Copy
<1>8. CASE RemuxTimesOut(s)
  BY <1>8 DEF RemuxTimesOut, Goto, clean, Copy
<1>9. CASE Replace(s)
  <2>0. job[s] = "replace" /\ gone' = gone /\ temp[s] = "whole" /\ (s \in gone \/ file[s] = "whole")
    BY <1>9 DEF Replace, clean, Copy
  <2>1. CASE job' = [job EXCEPT ![s] = "move"] /\ file' = [file EXCEPT ![s] = "none"] /\ temp' = temp
    BY <2>0, <2>1
  <2>2. CASE job' = [job EXCEPT ![s] = "idle"] /\ temp' = [temp EXCEPT ![s] = "none"] /\ file' = file
    BY <2>0, <2>2
  <2> QED BY <1>9, <2>1, <2>2 DEF Replace, Goto
<1>10. CASE Move(s)
  BY <1>10 DEF Move, Goto, clean, Copy
<1>11. CASE MoveFails(s)
  BY <1>11 DEF MoveFails, Goto
<1> QED BY <1>1, <1>2, <1>3, <1>4, <1>5, <1>6, <1>7, <1>8, <1>9, <1>10, <1>11 DEF Faststart

LEMMA CopiesStep == Copies /\ [Next]_vars => Copies'
<1> SUFFICES ASSUME Copies, [Next]_vars PROVE Copies'
  OBVIOUS
<1>1. ASSUME UNCHANGED <<file, temp, job, gone>> PROVE Copies'
  BY <1>1 DEF Copies, Copy
<1>2. CASE UNCHANGED vars
  BY <1>1, <1>2 DEF vars, disk, clean
<1>3. ASSUME NEW s \in Segments,
             Record(s) \/ HookLost(s) \/ Hook(s) \/ QueueUpload(s) \/ Faststart(s)
      PROVE  Copies'
  BY <1>3, JobStep
<1>4. ASSUME NEW s \in Segments, UploadDay(s) PROVE Copies'
  BY <1>1, <1>4 DEF UploadDay, disk, clean
<1>5. CASE StartSweep \/ Commit \/ CommitFails \/ Uploading \/ Environment \/ Restart
  BY <1>1, <1>5 DEF StartSweep, Commit, CommitFails, Uploading, Environment, Restart, disk, clean
<1>6. ASSUME NEW s \in Segments, SweepFile(s) PROVE Copies'
  <2>1. CASE s \in Exists
    <3>1. file' = [file EXCEPT ![s] = "none"] /\ gone' = gone \cup {s} /\ UNCHANGED <<temp, job>>
      BY <1>6, <2>1 DEF SweepFile
    <3>2. /\ temp' = [temp EXCEPT ![s] = temp[s]] /\ temp[s] \in {"none", "part", "whole"}
          /\ job' = [job EXCEPT ![s] = job[s]] /\ job[s] \in Steps
          /\ job[s] \in {"replace", "move"} => temp[s] = "whole"
      BY <3>1, Here DEF Copy
    <3>3. s \in gone' /\ gone \subseteq gone'
      BY <3>1
    <3> QED BY <3>1, <3>2, <3>3, OneSegment
  <2>2. CASE s \notin Exists
    BY <1>1, <1>6, <2>2 DEF SweepFile
  <2> QED BY <2>1, <2>2
<1>7. CASE Crash
  <2>1. /\ UNCHANGED <<file, temp, gone>>
        /\ job' = [s \in Segments |-> IF job[s] \in {"unborn", "hook"} THEN job[s] ELSE "idle"]
    BY <1>7 DEF Crash
  <2>2. job' \in [Segments -> Steps]
    BY <2>1 DEF Copies, Steps
  <2>3. ASSUME NEW s \in Segments PROVE Copy(s)'
    <3>1. job'[s] = (IF job[s] \in {"unborn", "hook"} THEN job[s] ELSE "idle")
      BY <2>1
    <3> QED BY <2>1, <3>1 DEF Copies, Copy
  <2> QED BY <2>1, <2>2, <2>3 DEF Copies
<1> QED BY <1>2, <1>3, <1>4, <1>5, <1>6, <1>7 DEF Next, Sweep

\* No interleaving of remuxes, sweeps and crashes destroys the last whole copy
\* of a recording that has not expired, but a move that fails.
THEOREM RecordingsSurvive == Spec => []KeptSomewhere
<1>1. Init => Copies
  BY DEF Init, Copies, Copy, Steps
<1>2. Copies => KeptSomewhere
  BY DEF Copies, Copy, KeptSomewhere
<1> QED BY <1>1, <1>2, CopiesStep, PTL DEF Spec
------------------------------------------------------------------------------
(* The rows *)

\* While the server is down nothing of it is at work.
Down ==
  ~up => /\ worker = "off" /\ ~Sweeping
         /\ \A s \in Segments : job[s] \in {"unborn", "hook", "idle"}

Bookkeeping ==
  /\ row \subseteq Segments /\ sweep \subseteq Segments /\ swept \subseteq Segments
  /\ up \in BOOLEAN
  /\ gone \subseteq Segments /\ halfway \subseteq Segments

\* A row without a file is one the sweep will delete when it commits.
Backed == \A s \in row \ halfway : s \in Exists \/ job[s] = "move" \/ s \in swept

Recorded == Copies /\ Bookkeeping /\ Down /\ Backed

\* The steps that leave the rows and the sweep as they are.
LEMMA SegmentStep ==
  ASSUME Recorded, NEW s \in Segments, NEW j \in Steps,
         job' = [job EXCEPT ![s] = j], UNCHANGED <<row, sweep, swept, up>>,
         halfway' \in {halfway, halfway \cup {s}}, gone' \in {gone, gone \cup {s}},
         up \/ (UNCHANGED worker /\ j \in {"unborn", "hook", "idle"}),
         \A r \in Segments \ {s} : file'[r] = file[r],
         s \in row \ halfway' => file'[s] # "none" \/ j = "move" \/ s \in swept
  PROVE  Bookkeeping' /\ Down' /\ Backed'
<1>1. Bookkeeping'
  BY DEF Recorded, Bookkeeping
<1>2. job'[s] = j /\ \A r \in Segments \ {s} : job'[r] = job[r]
  BY DEF Recorded, Copies
<1>3. Down'
  BY <1>2 DEF Recorded, Down, Sweeping
<1>4. ASSUME NEW r \in row' \ halfway' PROVE (r \in Exists \/ job[r] = "move" \/ r \in swept)'
  <2>1. r \in Segments /\ r \in row \ halfway
    BY <1>4 DEF Recorded, Bookkeeping
  <2>2. CASE r = s
    BY <1>2, <2>1, <2>2 DEF Exists
  <2>3. CASE r # s
    <3>1. r \in Exists \/ job[r] = "move" \/ r \in swept
      BY <2>1 DEF Recorded, Backed
    <3> QED BY <1>2, <2>1, <2>3, <3>1 DEF Exists
  <2> QED BY <2>2, <2>3
<1> QED BY <1>1, <1>3, <1>4 DEF Backed

LEMMA ThreadStep ==
  ASSUME Recorded, NEW s \in Segments, Faststart(s)
  PROVE  Bookkeeping' /\ Down' /\ Backed'
<1>0. /\ up \in BOOLEAN /\ job \in [Segments -> Steps] /\ job[s] \in Steps /\ Copy(s)
      /\ file \in [Segments -> {"none", "part", "whole"}]
      /\ s \in row \ halfway => file[s] # "none" \/ job[s] = "move" \/ s \in swept
  BY DEF Recorded, Bookkeeping, Copies, Backed, Exists
<1>1. up
  BY DEF Faststart, StartRemux, Remuxed, RemuxFails, RemuxTimesOut, Replace, Move, MoveFails,
         Recorded, Down
<1>2. UNCHANGED <<row, sweep, swept, up>>
  BY DEF Faststart, StartRemux, Remuxed, RemuxFails, RemuxTimesOut, Replace, Move, MoveFails, clean
<1>3. CASE StartRemux(s)
  <2>1. PICK j \in {"remux", "idle"} : job' = [job EXCEPT ![s] = j]
    BY <1>3 DEF StartRemux, Goto
  <2>2. job[s] = "fast" /\ UNCHANGED <<file, gone, halfway>>
    BY <1>3 DEF StartRemux, clean
  <2>3. j \in Steps
    BY DEF Steps, Threads
  <2> QED BY <1>0, <1>1, <1>2, <2>1, <2>2, <2>3, SegmentStep
<1>4. CASE Remuxed(s)
  <2>1. job' = [job EXCEPT ![s] = "replace"] /\ job[s] = "remux" /\ UNCHANGED <<file, gone, halfway>>
    BY <1>4 DEF Remuxed, Goto, clean
  <2>2. "replace" \in Steps
    BY DEF Steps, Threads
  <2> QED BY <1>0, <1>1, <1>2, <2>1, <2>2, SegmentStep
<1>i. "idle" \in Steps /\ "move" \in Steps
  BY DEF Steps, Threads
<1>5. CASE RemuxFails(s) \/ RemuxTimesOut(s)
  <2>1. /\ job' = [job EXCEPT ![s] = "idle"] /\ job[s] = "remux" /\ UNCHANGED <<file, gone>>
        /\ halfway' \in {halfway, halfway \cup {s}}
    BY <1>5 DEF RemuxFails, RemuxTimesOut, Goto, clean
  <2> QED BY <1>0, <1>1, <1>2, <1>i, <2>1, SegmentStep
<1>6. CASE Replace(s)
  <2>0. job[s] = "replace" /\ UNCHANGED <<gone, halfway>>
    BY <1>6 DEF Replace, clean
  <2>1. CASE job' = [job EXCEPT ![s] = "move"] /\ file' = [file EXCEPT ![s] = "none"]
    <3>1. \A r \in Segments \ {s} : file'[r] = file[r]
      BY <1>0, <2>1
    <3> QED BY <1>0, <1>1, <1>2, <1>i, <2>0, <2>1, <3>1, SegmentStep
  <2>2. CASE job' = [job EXCEPT ![s] = "idle"] /\ file' = file
    BY <1>0, <1>1, <1>2, <1>i, <2>0, <2>2, SegmentStep
  <2> QED BY <1>6, <2>1, <2>2 DEF Replace, Goto
<1>7. CASE Move(s)
  <2>1. /\ job' = [job EXCEPT ![s] = "idle"] /\ file' = [file EXCEPT ![s] = temp[s]]
        /\ temp[s] = "whole" /\ UNCHANGED <<gone, halfway>>
    BY <1>0, <1>7 DEF Move, Goto, clean, Copy
  <2>2. file'[s] = "whole" /\ \A r \in Segments \ {s} : file'[r] = file[r]
    BY <1>0, <2>1
  <2> QED BY <1>0, <1>1, <1>2, <1>i, <2>1, <2>2, SegmentStep
<1>8. CASE MoveFails(s)
  <2>1. /\ job' = [job EXCEPT ![s] = "idle"] /\ UNCHANGED file
        /\ gone' = gone \cup {s} /\ halfway' = halfway \cup {s}
    BY <1>8 DEF MoveFails, Goto
  <2> QED BY <1>0, <1>1, <1>2, <1>i, <2>1, SegmentStep
<1> QED BY <1>3, <1>4, <1>5, <1>6, <1>7, <1>8 DEF Faststart

LEMMA HookStep ==
  ASSUME Recorded, NEW s \in Segments,
         Record(s) \/ HookLost(s) \/ Hook(s) \/ QueueUpload(s) \/ UploadDay(s)
  PROVE  Bookkeeping' /\ Down' /\ Backed'
<1>0. /\ up \in BOOLEAN /\ job \in [Segments -> Steps] /\ job[s] \in Steps
      /\ file \in [Segments -> {"none", "part", "whole"}]
      /\ s \in row \ halfway => file[s] # "none" \/ job[s] = "move" \/ s \in swept
      /\ {"hook", "idle", "fast", "queue"} \subseteq Steps
  BY DEF Recorded, Bookkeeping, Copies, Backed, Exists, Steps
<1>1. CASE Record(s)
  <2>1. /\ job' = [job EXCEPT ![s] = "hook"] /\ file' = [file EXCEPT ![s] = "whole"]
        /\ UNCHANGED <<row, sweep, swept, up, gone, halfway, worker>>
    BY <1>1 DEF Record, clean, uploads
  <2>2. file'[s] = "whole" /\ \A r \in Segments \ {s} : file'[r] = file[r]
    BY <1>0, <2>1
  <2> QED BY <1>0, <2>1, <2>2, SegmentStep
<1>2. CASE HookLost(s)
  <2>1. /\ job' = [job EXCEPT ![s] = "idle"] /\ job[s] = "hook"
        /\ UNCHANGED <<file, row, sweep, swept, up, gone, halfway, worker>>
    BY <1>2 DEF HookLost, clean, uploads
  <2> QED BY <1>0, <2>1, SegmentStep
<1>3. CASE Hook(s)
  <2>1. PICK j \in {"queue", "idle"} : job' = [job EXCEPT ![s] = j]
    BY <1>3 DEF Hook
  <2>2. /\ up /\ job[s] = "hook" /\ UNCHANGED <<file, sweep, swept, up, gone>>
        /\ \/ /\ row' = row \cup {s}
              /\ \/ s \in Exists /\ halfway' = halfway
                 \/ halfway' = halfway \cup {s}
           \/ UNCHANGED <<row, halfway>>
    BY <1>3 DEF Hook, LoopFree, clean
  <2>3. /\ job'[s] = j /\ \A r \in Segments \ {s} : job'[r] = job[r]
    BY <1>0, <2>1
  <2>4. Bookkeeping' /\ Down'
    BY <2>2 DEF Recorded, Bookkeeping, Down
  <2>5. ASSUME NEW r \in row' \ halfway' PROVE (r \in Exists \/ job[r] = "move" \/ r \in swept)'
    <3>1. CASE r = s
      BY <1>0, <2>2, <3>1 DEF Exists
    <3>2. CASE r # s
      <4>1. r \in row \ halfway /\ r \in Segments
        BY <2>2, <3>2 DEF Recorded, Bookkeeping
      <4>2. r \in Exists \/ job[r] = "move" \/ r \in swept
        BY <4>1 DEF Recorded, Backed
      <4> QED BY <2>2, <2>3, <3>2, <4>1, <4>2 DEF Exists
    <3> QED BY <3>1, <3>2
  <2> QED BY <2>4, <2>5 DEF Backed
<1>4. CASE QueueUpload(s)
  <2>1. /\ job' = [job EXCEPT ![s] = "fast"] /\ job[s] = "queue" /\ up
        /\ UNCHANGED <<file, row, sweep, swept, up, gone, halfway>>
    BY <1>4 DEF QueueUpload, LoopFree, clean
  <2> QED BY <1>0, <2>1, SegmentStep
<1>5. CASE UploadDay(s)
  BY <1>5 DEF UploadDay, LoopFree, disk, clean, Recorded, Bookkeeping, Down, Backed, Exists
<1> QED BY <1>1, <1>2, <1>3, <1>4, <1>5

LEMMA RecordedStep == Recorded /\ [Next]_vars => Recorded'
<1> SUFFICES ASSUME Recorded, [Next]_vars PROVE Bookkeeping' /\ Down' /\ Backed'
  BY CopiesStep DEF Recorded
<1>1. CASE UNCHANGED vars
  BY <1>1 DEF vars, disk, clean, uploads, Recorded, Bookkeeping, Down, Backed, Exists, Sweeping
<1>2. ASSUME NEW s \in Segments,
             Record(s) \/ HookLost(s) \/ Hook(s) \/ QueueUpload(s) \/ UploadDay(s) \/ Faststart(s)
      PROVE  Bookkeeping' /\ Down' /\ Backed'
  BY <1>2, HookStep, ThreadStep
<1>3. CASE StartSweep
  BY <1>3 DEF StartSweep, LoopFree, disk, Recorded, Bookkeeping, Down, Backed, Exists
<1>4. CASE Commit
  BY <1>4 DEF Commit, uploads, Recorded, Bookkeeping, Down, Backed, Exists, Sweeping
<1>5. CASE CommitFails
  BY <1>5 DEF CommitFails, uploads, disk, Recorded, Bookkeeping, Down, Backed, Exists, Sweeping
<1>6. ASSUME NEW s \in Segments, SweepFile(s) PROVE Bookkeeping' /\ Down' /\ Backed'
  <2>1. up /\ sweep' = sweep \ {s} /\ UNCHANGED <<row, job, up, halfway>>
    BY <1>6 DEF SweepFile, Recorded, Down, Sweeping, Bookkeeping
  <2>2. CASE s \in Exists
    <3>1. /\ file' = [file EXCEPT ![s] = "none"]
          /\ swept' = swept \cup {s} /\ gone' = gone \cup {s}
      BY <1>6, <2>2 DEF SweepFile
    <3>2. \A r \in Segments \ {s} : file'[r] = file[r]
      BY <3>1 DEF Recorded, Copies
    <3> QED BY <2>1, <3>1, <3>2 DEF Recorded, Bookkeeping, Down, Backed, Exists
  <2>3. CASE s \notin Exists
    <3>1. UNCHANGED <<file, swept, gone>>
      BY <1>6, <2>3 DEF SweepFile
    <3> QED BY <2>1, <3>1 DEF Recorded, Bookkeeping, Down, Backed, Exists
  <2> QED BY <2>2, <2>3
<1>7. CASE Uploading \/ Environment
  BY <1>7 DEF Uploading, Environment, LoopFree, disk, clean, Recorded, Bookkeeping, Down, Backed, Exists
<1>8. CASE Crash
  <2>1. /\ ~up' /\ worker' = "off" /\ sweep' = {} /\ swept' = {} /\ UNCHANGED <<file, row, gone>>
        /\ job' = [s \in Segments |-> IF job[s] \in {"unborn", "hook"} THEN job[s] ELSE "idle"]
        /\ halfway' = halfway \cup swept \cup {s \in Segments : job[s] \in Threads}
        /\ up' \in BOOLEAN
    BY <1>8 DEF Crash
  <2>2. Bookkeeping' /\ Down'
    BY <2>1 DEF Recorded, Bookkeeping, Down, Sweeping
  <2>3. ASSUME NEW r \in row' \ halfway' PROVE r \in Exists'
    <3>1. r \in row \ halfway /\ r \in Segments /\ r \notin swept /\ job[r] # "move"
      BY <2>1 DEF Recorded, Bookkeeping, Threads
    <3> QED BY <2>1, <3>1 DEF Recorded, Backed, Exists
  <2> QED BY <2>2, <2>3 DEF Backed
<1>9. CASE Restart
  BY <1>9 DEF Restart, disk, clean, Recorded, Bookkeeping, Down, Backed, Exists
<1> QED BY <1>1, <1>2, <1>3, <1>4, <1>5, <1>6, <1>7, <1>8, <1>9 DEF Next, Sweep

LEMMA RecordedInvariant == Spec => []Recorded
<1>1. Init => Recorded
  BY DEF Init, Recorded, Copies, Copy, Steps, Bookkeeping, Down, Backed
<1> QED BY <1>1, RecordedStep, PTL DEF Spec

\* Every state of the pipeline is of its type, and a server that is down has
\* neither a worker nor a sweep nor a thread.
THEOREM PipelineTypeCorrect == Spec => []TypeOK
<1>1. Uploads /\ Recorded => TypeOK
  BY DEF Uploads, Recorded, Copies, Steps, Bookkeeping, Down, TypeOK
<1> QED BY <1>1, UploadsInvariant, RecordedInvariant, PTL

\* Remuxes, sweeps, failed commits and crashes leave no row without its file,
\* but where a failure was logged and nothing else done.
THEOREM RowsStayBacked == Spec => []RowsAreBacked
<1>1. Recorded => RowsAreBacked
  BY DEF Recorded, Backed, RowsAreBacked, Sweeping
<1> QED BY <1>1, RecordedInvariant, PTL
==============================================================================
