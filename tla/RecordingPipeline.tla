-------------------------- MODULE RecordingPipeline --------------------------
(***************************************************************************)
(* What happens to a recorded segment: the segment-complete hook and the   *)
(* faststart remux of routers/mediamtx_hooks.py, the daily sweep of        *)
(* services/retention_service.py, and the uploads of UploadQueue.          *)
(*                                                                         *)
(* The hook, the sweep and the upload worker share one event loop; the     *)
(* sweep holds it from its first file to its commit.  Remuxes run in       *)
(* threads, which nothing holds.  The server may die at any step.          *)
(***************************************************************************)
EXTENDS UploadQueue

VARIABLES
  file,     \* file[s]: what is at the recording's path: "none", "part" or "whole"
  temp,     \* temp[s]: what is at its .faststart.tmp
  row,      \* segments with a row in recordings
  job,      \* job[s]: "unborn", "hook" (waits to be called), "queue" and "fast"
            \* (the request's background tasks), "remux", "replace", "move", "idle"
  sweep,    \* files the running sweep has still to delete; no sweep if {} and
  swept,    \* the rows it will delete when it commits are {}
  up,       \* the server is running
  gone,     \* history: segments a sweep has deleted or whose move has failed
  halfway   \* history: segments some failure left halfway

disk  == <<file, temp, row, job>>
clean == <<sweep, swept, gone>>
vars  == <<uploads, disk, clean, up, halfway>>

Exists   == {s \in Segments : file[s] # "none"}
Sweeping == sweep # {} \/ swept # {}
LoopFree == up /\ ~Sweeping
Threads  == {"remux", "replace", "move"}
------------------------------------------------------------------------------
TypeOK ==
  /\ UploadsTypeOK
  /\ file \in [Segments -> {"none", "part", "whole"}]
  /\ temp \in [Segments -> {"none", "part", "whole"}]
  /\ row \subseteq Segments
  /\ job \in [Segments -> {"unborn", "hook", "queue", "fast", "idle"} \cup Threads]
  /\ sweep \subseteq Segments /\ swept \subseteq Segments
  /\ up \in BOOLEAN
  /\ gone \subseteq Segments /\ halfway \subseteq Segments
  /\ ~up => worker = "off" /\ ~Sweeping /\ \A s \in Segments : job[s] \in {"unborn", "hook", "idle"}

Init ==
  /\ UploadsInit
  /\ file = [s \in Segments |-> "none"]
  /\ temp = [s \in Segments |-> "none"]
  /\ row = {}
  /\ job = [s \in Segments |-> "unborn"]
  /\ sweep = {} /\ swept = {}
  /\ up = TRUE
  /\ gone = {} /\ halfway = {}
------------------------------------------------------------------------------
(* MediaMTX and the hook *)

Record(s) ==
  /\ job[s] = "unborn" /\ \A r \in Segments : r < s => job[r] # "unborn"
  /\ file' = [file EXCEPT ![s] = "whole"]
  /\ job' = [job EXCEPT ![s] = "hook"]
  /\ UNCHANGED <<uploads, temp, row, clean, up, halfway>>

\* The hook's request does not get through; MediaMTX makes it once
HookLost(s) ==
  /\ job[s] = "hook"
  /\ job' = [job EXCEPT ![s] = "idle"]
  /\ UNCHANGED <<uploads, file, temp, row, clean, up, halfway>>

\* hook_segment_complete: the row is added, though an error on the way to it is
\* only logged, and, if there is a file, the two background tasks.
Hook(s) ==
  /\ LoopFree /\ job[s] = "hook"
  /\ job' = [job EXCEPT ![s] = IF s \in Exists THEN "queue" ELSE "idle"]
  /\ \/ row' = row \cup {s} /\ halfway' = IF s \in Exists THEN halfway ELSE halfway \cup {s}
     \/ UNCHANGED <<row, halfway>>
  /\ UNCHANGED <<uploads, file, temp, clean, up>>

QueueUpload(s) ==
  /\ LoopFree /\ job[s] = "queue"
  /\ Enqueue(s)
  /\ job' = [job EXCEPT ![s] = "fast"]
  /\ UNCHANGED <<task, offline, file, temp, row, clean, up, halfway>>

\* The upload of a day's recordings that an operator asks for
UploadDay(s) ==
  /\ LoopFree /\ s \in row /\ s \in Exists
  /\ Enqueue(s)
  /\ UNCHANGED <<task, offline, disk, clean, up, halfway>>
------------------------------------------------------------------------------
(* apply_faststart_to_segment, in a thread *)

Goto(s, step) == job' = [job EXCEPT ![s] = step]

StartRemux(s) ==
  /\ up /\ job[s] = "fast"
  /\ IF s \in Exists
     THEN Goto(s, "remux") /\ temp' = [temp EXCEPT ![s] = "part"]
     ELSE Goto(s, "idle") /\ UNCHANGED temp
  /\ UNCHANGED <<uploads, file, row, clean, up, halfway>>

\* Mutant: the exit code and the size of the output are not looked at
RemuxUnchecked(s) ==
  /\ job[s] = "remux"
  /\ temp' \in {[temp EXCEPT ![s] = "whole"], temp}
  /\ Goto(s, "replace")
  /\ UNCHANGED <<uploads, file, row, clean, up, halfway>>

Remuxed(s) ==
  /\ job[s] = "remux"
  /\ temp' = [temp EXCEPT ![s] = "whole"]
  /\ Goto(s, "replace")
  /\ UNCHANGED <<uploads, file, row, clean, up, halfway>>

RemuxFails(s) ==
  /\ job[s] = "remux"
  /\ temp' = [temp EXCEPT ![s] = "none"]
  /\ Goto(s, "idle")
  /\ UNCHANGED <<uploads, file, row, clean, up, halfway>>

\* TimeoutExpired: only logged, what ffmpeg has written stays
RemuxTimesOut(s) ==
  /\ job[s] = "remux"
  /\ Goto(s, "idle")
  /\ halfway' = halfway \cup {s}
  /\ UNCHANGED <<uploads, file, temp, row, clean, up>>

\* os.remove(segment_path); if that raises, as it does when the recording has
\* gone, the remuxed file is removed instead
Replace(s) ==
  /\ job[s] = "replace"
  /\ \/ /\ s \in Exists
        /\ Goto(s, "move") /\ file' = [file EXCEPT ![s] = "none"] /\ UNCHANGED temp
     \/ Goto(s, "idle") /\ temp' = [temp EXCEPT ![s] = "none"] /\ UNCHANGED file
  /\ UNCHANGED <<uploads, row, clean, up, halfway>>

Move(s) ==
  /\ job[s] = "move"
  /\ file' = [file EXCEPT ![s] = temp[s]]
  /\ temp' = [temp EXCEPT ![s] = "none"]
  /\ Goto(s, "idle")
  /\ UNCHANGED <<uploads, row, clean, up, halfway>>

\* shutil.move raises: the same handler removes the only copy that is left
MoveFails(s) ==
  /\ job[s] = "move"
  /\ temp' = [temp EXCEPT ![s] = "none"]
  /\ Goto(s, "idle")
  /\ gone' = gone \cup {s}
  /\ halfway' = halfway \cup {s}
  /\ UNCHANGED <<uploads, file, row, sweep, swept, up>>
------------------------------------------------------------------------------
(* RetentionService: files by their modification time, which a remux renews *)

StartSweep ==
  /\ LoopFree
  /\ sweep' \in (SUBSET Exists) \ {{}}
  /\ UNCHANGED <<uploads, disk, swept, gone, up, halfway>>

\* A file that is not there any more is passed over, its row kept
SweepFile(s) ==
  /\ s \in sweep
  /\ sweep' = sweep \ {s}
  /\ IF s \in Exists
     THEN /\ file' = [file EXCEPT ![s] = "none"]
          /\ swept' = swept \cup {s} /\ gone' = gone \cup {s}
     ELSE UNCHANGED <<file, swept, gone>>
  /\ UNCHANGED <<uploads, temp, row, job, up, halfway>>

\* Mutant: the deletion of the rows is never committed
CommitForgotten ==
  /\ sweep = {} /\ swept # {}
  /\ swept' = {}
  /\ UNCHANGED <<uploads, disk, sweep, gone, up, halfway>>

Commit ==
  /\ sweep = {} /\ swept # {}
  /\ row' = row \ swept
  /\ swept' = {}
  /\ UNCHANGED <<uploads, file, temp, job, sweep, gone, up, halfway>>

\* The commit raises: the error is caught and the rows are rolled back
CommitFails ==
  /\ sweep = {} /\ swept # {}
  /\ swept' = {}
  /\ halfway' = halfway \cup swept
  /\ UNCHANGED <<uploads, disk, sweep, gone, up>>
------------------------------------------------------------------------------
(* The server dies, with its queue, its threads and its open transaction *)

Crash ==
  /\ up
  /\ up' = FALSE
  /\ queue' = <<>> /\ worker' = "off" /\ task' = NoTask /\ stats' = NoStats
  /\ job' = [s \in Segments |-> IF job[s] \in {"unborn", "hook"} THEN job[s] ELSE "idle"]
  /\ sweep' = {} /\ swept' = {}
  /\ halfway' = halfway \cup swept \cup {s \in Segments : job[s] \in Threads}
  /\ UNCHANGED <<offline, file, temp, row, gone>>

Restart ==
  /\ ~up
  /\ up' = TRUE
  /\ UNCHANGED <<uploads, disk, clean, halfway>>
------------------------------------------------------------------------------
Uploading == LoopFree /\ Work(Exists) /\ UNCHANGED <<disk, clean, up, halfway>>

Environment ==
  /\ LoopFree
  /\ Timeout \/ SwitchMode
  /\ UNCHANGED <<disk, clean, up, halfway>>

Faststart(s) ==
  \/ StartRemux(s) \/ Remuxed(s) \/ RemuxFails(s) \/ RemuxTimesOut(s)
  \/ Replace(s) \/ Move(s) \/ MoveFails(s)

Sweep == Commit \/ CommitFails \/ \E s \in Segments : SweepFile(s)

Next ==
  \/ \E s \in Segments :
       \/ Record(s) \/ HookLost(s) \/ Hook(s) \/ QueueUpload(s) \/ UploadDay(s)
       \/ Faststart(s)
  \/ StartSweep \/ Sweep \/ Uploading \/ Environment \/ Crash \/ Restart

Spec == Init /\ [][Next]_vars

\* A sweep is straight-line code.  Every upload has a timeout and the backoff is
\* a sleep, so that the worker goes on while the loop is its own often enough.
Fairness == WF_vars(Sweep) /\ SF_vars(Uploading)

FairSpec == Spec /\ Fairness
------------------------------------------------------------------------------
(* Properties *)

\* A whole copy of a recording that has not expired is on disk at every moment,
\* whatever the thread, the sweep and a crash do to each other, unless the move
\* itself has failed.
KeptSomewhere ==
  \A s \in Segments \ gone : job[s] # "unborn" => file[s] = "whole" \/ temp[s] = "whole"

\* Between sweeps, a row has its file or the file is about to be moved there,
\* unless a failure stopped something halfway or the file was gone before the hook.
RowsAreBacked ==
  ~Sweeping => \A s \in row \ halfway : s \in Exists \/ job[s] = "move"

\* Every queued upload is tried to the end, retries included.
QueuedIsSettled ==
  \A s \in Segments :
    (\E i \in 1..Len(queue) : queue[i].seg = s)
      ~> ~(\E i \in 1..Len(queue) : queue[i].seg = s)
==============================================================================
