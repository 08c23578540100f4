------------------------------ MODULE MCAgentApps ------------------------------
(* Instances for TLC of the camera agent's rules, of a detector app and of    *)
(* the channel its alerts take; they share no state, and a behaviour is one   *)
(* of the three, as world says.                                               *)
EXTENDS Integers, Sequences

CONSTANTS
  Asked, NumCameras, MaxAlarms, MaxMonitors, MaxSchedules, Rearm, Pulse, Every, MaxCreated, MaxBoots,
  Cameras, Labels, Threshold, Grace, MaxTime,
  Sends, MaxLoops, MaxClients

VARIABLES
  world,
  rules, created, saved, pass, report, boots,
  states, episode,
  loop, loops, stopped, cached, owner, lock, send, closing, drained, dropped, late

Row(name, kind) == [name |-> name, kind |-> kind]

\* Two alarms of one name, that the state file takes for one, and another
TwoAlarms ==
  [alarms   |-> {Row("fire", "siren"), Row("fire", "pulse"), Row("person", "chime")},
   monitors |-> {Row("car", "notify"), Row("car", "hosted")},
   reports  |-> {Row("day", "report")}]

Agent   == INSTANCE AgentRules
Dwell   == INSTANCE DwellDetector
Channel == INSTANCE AlertChannel

ASSUME AppsAssumption == Agent!AgentAssumption /\ Dwell!DwellAssumption /\ Channel!ChannelAssumption

agentVars   == <<rules, created, saved, pass, report, boots>>
dwellVars   == <<states, episode>>
channelVars == <<loop, loops, stopped, cached, owner, lock, send, closing, drained, dropped, late>>

AppsInit ==
  world \in {"agent", "dwell", "channel"} /\ Agent!Init /\ Dwell!Init /\ Channel!Init

AppsNext ==
  /\ UNCHANGED world
  /\ \/ world = "agent" /\ Agent!Next /\ UNCHANGED <<dwellVars, channelVars>>
     \/ world = "dwell" /\ Dwell!Next /\ UNCHANGED <<agentVars, channelVars>>
     \/ world = "channel" /\ Channel!Next /\ UNCHANGED <<agentVars, dwellVars>>

AppsSpec ==
  AppsInit /\ [][AppsNext]_<<world, agentVars, dwellVars, channelVars>> /\ Agent!Fairness
------------------------------------------------------------------------------
\* The type invariants of the three.
AppsTypeOK == Agent!TypeOK /\ Dwell!TypeOK /\ Channel!TypeOK

\* Their properties, as the modules state them.
SavedIsArmed      == Agent!SavedIsArmed
RulesDoTheirWork  == Agent!RulesDoTheirWork

\* An alert is due and it has a way out: whoever stays long enough is reported, once;
\* the channel's client is one of the loop that runs, and no connection is lost sight
\* of, but for connects that outlived the close of their loop.
AlertsGoOut == Dwell!DwellsAreReported /\ Channel!ClientIsOfTheLoop /\ Channel!ClientsAreHeld
==============================================================================
