---------------------------- MODULE CloudStreaming ----------------------------
(***************************************************************************)
(* Republishing of cameras to outside servers, one ffmpeg per target:      *)
(* services/cloud_streaming_service.py and routers/cloud_streaming.py.     *)
(*                                                                         *)
(* The requests never suspend, so each of them is one step; the monitor    *)
(* suspends in two sleeps only.  Between its passes the monitor holds the  *)
(* StreamProcess objects of its snapshot, which may no longer be those of  *)
(* the dictionary.                                                         *)
(***************************************************************************)
EXTENDS Naturals

CONSTANTS
  Targets,
  MaxReconnect,  \* max_reconnect_attempts
  MaxBoots       \* bound on the restarts of the server

VARIABLES
  row,     \* row[t]: the saved target's enabled flag, "none" if it is not saved
  stream,  \* stream[t]: the entry of _streams, Unset if there is none
  seen,    \* seen[t]: the object of the monitor's snapshot: that of the entry, another or none
  mon,     \* the monitor's task: where it is, and whom it is to start again
  boots,   \* restarts so far, for the bound
  stray,   \* targets with an ffmpeg at work that no entry holds
  asked,   \* history: the targets started and not stopped since
  raced    \* history: those stopped while the monitor was to start them again all the same

history == <<asked, raced>>
vars    == <<row, stream, seen, mon, boots, stray, history>>

Unset == [status |-> "none", process |-> "none", attempts |-> 0]
Entry == [status |-> "entry", process |-> "none", attempts |-> 0]
New   == [status |-> "running", process |-> "live", attempts |-> 0]
StreamProcess ==
  [status : {"running", "reconnecting", "error", "stopped"},
   process : {"live", "exited", "none"}, attempts : Nat]

NoMonitor == [at |-> "none", of |-> {}]
Has(t)    == stream[t] # Unset
Streams(t) == stream[t].process = "live"
Object(t) == IF seen[t] = Entry THEN stream[t] ELSE seen[t]
\* The monitor holds an object that a start has replaced
Replaced(t) == seen[t] \notin {Unset, Entry} /\ seen[t].status # "stopped"
\* A request is handled only while the monitor sleeps, or is not there
Free == mon.at # "pass"
------------------------------------------------------------------------------
TypeOK ==
  /\ row \in [Targets -> {"none", "off", "on"}]
  /\ stream \in [Targets -> StreamProcess \cup {Unset}]
  /\ seen \in [Targets -> StreamProcess \cup {Unset, Entry}]
  /\ mon \in [at : {"none", "pass", "delay", "sleep", "done"}, of : SUBSET Targets]
  /\ (mon.at = "delay") <=> (mon.of # {})
  /\ \A t \in Targets : seen[t] = Entry => Has(t)
  /\ boots \in Nat
  /\ stray \subseteq Targets /\ asked \subseteq Targets /\ raced \subseteq Targets

Init ==
  /\ row = [t \in Targets |-> "none"]
  /\ stream = [t \in Targets |-> Unset]
  /\ seen = [t \in Targets |-> Unset]
  /\ mon = NoMonitor
  /\ boots = 0
  /\ stray = {} /\ asked = {} /\ raced = {}
------------------------------------------------------------------------------
(* start_stream and stop_stream *)

\* The monitor's snapshot keeps the object that t's entry was
Detach(t, was) == IF seen[t] = Entry THEN [seen EXCEPT ![t] = was] ELSE seen

\* Mutant: an entry that says running is replaced too
AlwaysLaunches(t) == TRUE

\* The entry's word is taken for it: its process is not polled
Launches(t) == stream[t].status # "running"

\* ffmpeg is launched, in a new object; or the launch fails, and nothing changes
Start(t) ==
  \/ /\ Launches(t)
     /\ stream' = [stream EXCEPT ![t] = New]
     /\ seen' = Detach(t, stream[t])
     /\ stray' = IF Streams(t) THEN stray \cup {t} ELSE stray
  \/ UNCHANGED <<stream, seen, stray>>

\* A monitor is made with a launch if there is none, or if it has ended
Watch == IF mon.at \in {"none", "done"} THEN [mon EXCEPT !.at = "sleep"] ELSE mon

\* Mutant: the entry goes, and its object stays as it was
StoppedLeavesObject(t) == [stream[t] EXCEPT !.process = "exited"]

Stopped(t) == [stream[t] EXCEPT !.status = "stopped", !.process = "none"]

Stop(t) ==
  /\ asked' = asked \ {t}
  /\ raced' = IF t \in mon.of \/ Replaced(t) THEN raced \cup {t} ELSE raced
  /\ IF Has(t)
     THEN /\ stream' = [stream EXCEPT ![t] = Unset]
          /\ seen' = Detach(t, Stopped(t))
     ELSE UNCHANGED <<stream, seen>>
  /\ UNCHANGED <<mon, stray>>
------------------------------------------------------------------------------
(* The requests *)

\* A task is made by a launch only, and takes its first snapshot when it first
\* runs: to a request this is a sleep
StartRequest(t) ==
  /\ Start(t)
  /\ mon' = IF stream' # stream THEN Watch ELSE mon
  /\ asked' = asked \cup {t}
  /\ raced' = raced \ {t}

\* POST /targets: save, then start or stop
CreateOrUpdate(t, enabled) ==
  /\ Free
  /\ row' = [row EXCEPT ![t] = IF enabled THEN "on" ELSE "off"]
  /\ IF enabled THEN StartRequest(t) ELSE Stop(t)
  /\ UNCHANGED boots

\* POST /targets/{id}/start: enabled is saved whether the start worked or not
StartTarget(t) ==
  /\ Free
  /\ row[t] # "none"
  /\ StartRequest(t)
  /\ row' = [row EXCEPT ![t] = "on"]
  /\ UNCHANGED boots

\* POST /targets/{id}/stop
StopTarget(t) ==
  /\ Free
  /\ Stop(t)
  /\ row' = [row EXCEPT ![t] = IF @ = "none" THEN @ ELSE "off"]
  /\ UNCHANGED boots

\* DELETE /targets/{id}
DeleteTarget(t) ==
  /\ Free
  /\ Stop(t)
  /\ row' = [row EXCEPT ![t] = "none"]
  /\ UNCHANGED boots

FfmpegExits(t) ==
  /\ Streams(t)
  /\ stream' = [stream EXCEPT ![t].process = "exited"]
  /\ UNCHANGED <<row, seen, mon, boots, stray, history>>
------------------------------------------------------------------------------
(* _monitor_streams *)

\* The loop ends when there is no entry, or takes the entries as they are
MonitorWakes ==
  /\ mon.at = "sleep"
  /\ IF \E t \in Targets : Has(t)
     THEN /\ mon' = [mon EXCEPT !.at = "pass"]
          /\ seen' = [t \in Targets |-> IF Has(t) THEN Entry ELSE Unset]
     ELSE mon' = [mon EXCEPT !.at = "done"] /\ UNCHANGED seen
  /\ UNCHANGED <<row, stream, boots, stray, history>>

Update(t, object) ==
  IF seen[t] = Entry THEN stream' = [stream EXCEPT ![t] = object] /\ UNCHANGED seen
                     ELSE seen' = [seen EXCEPT ![t] = object] /\ UNCHANGED stream

Skip(t) == seen' = [seen EXCEPT ![t] = Unset]

\* An object whose process has exited is to be started again after a delay,
\* until its attempts are used up
MonitorLooks(t) ==
  /\ mon.at = "pass" /\ seen[t] # Unset
  /\ LET object == Object(t)
     IN IF object.status = "stopped" \/ object.process # "exited"
        THEN Skip(t) /\ UNCHANGED <<stream, mon>>
        ELSE IF object.attempts < MaxReconnect
        THEN /\ Update(t, [object EXCEPT !.status = "reconnecting", !.attempts = @ + 1])
             /\ mon' = [at |-> "delay", of |-> {t}]
        ELSE /\ stream' = IF seen[t] = Entry THEN [stream EXCEPT ![t].status = "error"] ELSE stream
             /\ Skip(t)
             /\ UNCHANGED mon
  /\ UNCHANGED <<row, boots, stray, history>>

\* After the delay the target is started, whatever has happened to it
MonitorRestarts ==
  /\ mon.at = "delay"
  /\ \E t \in mon.of :
       /\ \/ /\ Launches(t)
             /\ stream' = [stream EXCEPT ![t] = New]
             /\ stray' = IF Streams(t) THEN stray \cup {t} ELSE stray
          \/ UNCHANGED <<stream, stray>>
       /\ Skip(t)
  /\ mon' = [at |-> "pass", of |-> {}]
  /\ UNCHANGED <<row, boots, history>>

MonitorRests ==
  /\ mon.at = "pass"
  /\ \A t \in Targets : seen[t] = Unset
  /\ mon' = [mon EXCEPT !.at = "sleep"]
  /\ UNCHANGED <<row, stream, seen, boots, stray, history>>

\* Nothing stops the streams with the server, and nothing starts the enabled ones
ServerRestarts ==
  /\ boots < MaxBoots
  /\ boots' = boots + 1
  /\ stray' = stray \cup {t \in Targets : Streams(t)}
  /\ stream' = [t \in Targets |-> Unset]
  /\ seen' = [t \in Targets |-> Unset]
  /\ mon' = NoMonitor
  /\ asked' = {} /\ raced' = {}
  /\ UNCHANGED row

Monitor == MonitorWakes \/ (\E t \in Targets : MonitorLooks(t)) \/ MonitorRestarts \/ MonitorRests

Request ==
  \E t \in Targets :
    \/ \E enabled \in BOOLEAN : CreateOrUpdate(t, enabled)
    \/ StartTarget(t) \/ StopTarget(t) \/ DeleteTarget(t)

Next == Request \/ (\E t \in Targets : FfmpegExits(t)) \/ Monitor \/ ServerRestarts

Spec     == Init /\ [][Next]_vars
\* The task's sleeps end, and the loop runs it
Fairness == WF_vars(Monitor)
FairSpec == Spec /\ Fairness
------------------------------------------------------------------------------
\* What is stopped stays stopped: a target streams only if it has been started
\* and not stopped since.  A snapshot taken before the stop, and held through
\* another target's delay, must not bring it back.  Two stops come to nothing: one
\* in the monitor's delay for that very target, after which start_stream is called
\* all the same, and one after a start that replaced the object of the snapshot,
\* which the stop does not mark.
StreamsAsAsked == \A t \in Targets : Streams(t) => t \in asked \cup raced

\* No ffmpeg at work is ever lost sight of, whoever starts a target and whenever:
\* only a restart of the server leaves one without an entry.
OnlyRestartsLeaveStrays == [][stray' \subseteq stray \/ boots' # boots]_vars

\* An ffmpeg that has exited under an entry does not stay unnoticed: the entry is
\* started again, stopped, marked as failed, or gone with the server.  There is
\* a monitor for every entry, and none of its delays is endless.
ExitIsNoticed ==
  \A t \in Targets :
    (stream[t].status = "running" /\ stream[t].process = "exited")
      ~> ~(stream[t].status = "running" /\ stream[t].process = "exited")
==============================================================================
