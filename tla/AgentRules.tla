------------------------------ MODULE AgentRules ------------------------------
(***************************************************************************)
(* The standing rules of the camera agent (examples/camera-agent): alarms,  *)
(* watches and scheduled reports.  Three managers keep them alike: a rule   *)
(* has an asyncio task that polls its cameras (reports share one scheduler), *)
(* the oldest goes when there are too many, and a state file holds the      *)
(* active ones, from which the next process arms them again.                *)
(*                                                                         *)
(* Instants are kept as ages, the time since, up to Far: beyond it nothing  *)
(* changes any more.                                                       *)
(***************************************************************************)
EXTENDS Integers, Sequences, SequencesExt, Lists

CONSTANTS
  Asked,       \* Asked[m]: the rules that are asked of a manager
  NumCameras,  \* cameras of a rule
  MaxAlarms, MaxMonitors, MaxSchedules,
  Rearm,       \* rearm_cooldown of an alarm, notify_cooldown of a watch
  Pulse,       \* pulse_seconds
  Every,       \* every_minutes
  MaxCreated,  \* bound on the rules created by one process
  MaxBoots     \* bound on restarts

VARIABLES
  rules,    \* rules[m]: the rules of a manager, in its _order
  created,  \* created[m]: the last id given out
  saved,    \* the state file: for each manager name and kind of the rules
  pass,     \* the scheduler's pass: the ids it has still to look at
  report,   \* the id of the report the scheduler awaits, 0 if it awaits none
  boots

agentVars == <<rules, created, saved, pass, report, boots>>

\* A siren rings until it is silenced, a pulse stands down by itself, a chime
\* (or a silent alarm) rings once.  A hosted watch only keeps counts.
Kinds    == [alarms |-> {"siren", "pulse", "chime"}, monitors |-> {"notify", "hosted"}, reports |-> {"report"}]
Managers == DOMAIN Kinds
MaxRules == [alarms |-> MaxAlarms, monitors |-> MaxMonitors, reports |-> MaxSchedules]
Latching == {"siren", "pulse"}

Far  == Max({Rearm, Pulse, Every})
Ages == 0..Far

\* name: what the state file tells rules apart by (target, cameras, window, line)
SpecOf(r) == [name |-> r.name, kind |-> r.kind]

AgentAssumption ==
  /\ {NumCameras, MaxAlarms, MaxMonitors, MaxSchedules, Rearm, Pulse, Every} \subseteq Nat \ {0}
  /\ {MaxCreated, MaxBoots} \subseteq Nat
  /\ DOMAIN Asked = Managers
  /\ \A m \in Managers : \A spec \in Asked[m] : SpecOf(spec) = spec /\ spec.kind \in Kinds[m]

\* rang: last_triggered, last_run, or _last_notified of each camera; ack: last_ack
Rule(m) ==
  [id : 1..MaxCreated, name : {spec.name : spec \in Asked[m]}, kind : Kinds[m], active : BOOLEAN, triggered : BOOLEAN,
   task : {"asleep", "polling", "crashed", "none"}, left : 0..NumCameras,
   ack : Ages, rang : [1..NumCameras -> Ages]]

TypeOK ==
  /\ DOMAIN rules = Managers /\ DOMAIN saved = Managers
  /\ \A m \in Managers :
       /\ rules[m] \in Seq(Rule(m)) /\ Len(rules[m]) <= MaxRules[m]
       /\ saved[m] \in Seq(Asked[m]) /\ Len(saved[m]) <= MaxRules[m]
       /\ \A r \in Range(rules[m]) : /\ SpecOf(r) \in Asked[m]
                                     /\ r.left > 0 <=> r.task = "polling"
                                     /\ r.triggered => r.active /\ r.kind \in Latching
                                     /\ r.task \in {"asleep", "polling"} => r.active
  /\ created \in [Managers -> 0..MaxCreated]
  /\ pass \in Seq(1..MaxCreated) /\ report \in 0..MaxCreated
  /\ boots \in 0..MaxBoots
------------------------------------------------------------------------------
New(m, id, spec) ==
  [id |-> id, name |-> spec.name, kind |-> spec.kind, active |-> TRUE, triggered |-> FALSE,
   task |-> IF m = "reports" THEN "none" ELSE "asleep", left |-> 0,
   ack |-> Far, rang |-> [c \in 1..NumCameras |-> Far]]

\* The new rule goes last, and the oldest one, whatever its state, makes room
Added(m, spec) ==
  LET all == Append(rules[m], New(m, created[m] + 1, spec))
  IN  IF Len(all) > MaxRules[m] THEN Tail(all) ELSE all

Export(list) ==
  LET armed == Kept(list, {i \in DOMAIN list : list[i].active}) IN [i \in DOMAIN armed |-> SpecOf(armed[i])]

Persist(all) == saved' = [m \in Managers |-> Export(all[m])]

Init ==
  /\ rules = [m \in Managers |-> <<>>] /\ created = [m \in Managers |-> 0]
  /\ saved = [m \in Managers |-> <<>>]
  /\ pass = <<>> /\ report = 0 /\ boots = 0

Create(m, spec) ==
  /\ created["alarms"] + created["monitors"] + created["reports"] < MaxCreated
  /\ rules' = [rules EXCEPT ![m] = Added(m, spec)]
  /\ created' = [created EXCEPT ![m] = @ + 1]
  /\ Persist(rules')
  /\ UNCHANGED <<pass, report, boots>>

\* Mutant: a disarmed alarm still says that it rings
StoppedStillRings(r) == [r EXCEPT !.active = FALSE, !.task = "none", !.left = 0]

\* Cancelling the task ends a poll where it awaits; a report is not interrupted
Stopped(r) == [r EXCEPT !.active = FALSE, !.triggered = FALSE, !.task = "none", !.left = 0]

\* A rule that is there, over chat or an endpoint: what is active is saved
Stop(m, i) ==
  /\ i \in DOMAIN rules[m]
  /\ rules' = [rules EXCEPT ![m][i] = Stopped(@)]
  /\ Persist(rules')
  /\ UNCHANGED <<created, pass, report, boots>>

\* DELETE /reports/{id} saves nothing
DeleteReport(i) ==
  /\ i \in DOMAIN rules["reports"]
  /\ rules' = [rules EXCEPT !["reports"][i] = Stopped(@)]
  /\ UNCHANGED <<created, saved, pass, report, boots>>

\* Whatever else saves the state: a rule that is not there, a skill, a default
SaveOnly == Persist(rules) /\ UNCHANGED <<rules, created, pass, report, boots>>

Acknowledge(ids) ==
  /\ \E r \in Range(rules["alarms"]) : r.id \in ids /\ r.triggered
  /\ rules' = [rules EXCEPT !["alarms"] =
                 [i \in DOMAIN @ |-> IF @[i].id \in ids /\ @[i].triggered
                                     THEN [@[i] EXCEPT !.triggered = FALSE, !.ack = 0] ELSE @[i]]]
  /\ UNCHANGED <<created, saved, pass, report, boots>>
------------------------------------------------------------------------------
\* _maybe_stand_down, at the end of a cycle: an urgent alarm has rung enough
StoodDown(r) ==
  IF r.kind = "pulse" /\ r.triggered /\ r.rang[1] >= Pulse
  THEN [r EXCEPT !.triggered = FALSE, !.ack = 0] ELSE r

\* Mutant: what is still in view counts as another ring
RungOnAndOn(r, c) == IF r.ack >= Rearm THEN [r EXCEPT !.triggered = r.kind \in Latching, !.rang[1] = 0] ELSE r

\* A target in view of camera c.  A latched alarm is quiet until it is answered
\* and for Rearm after it; a chime anchors on its last ring too; a watch keeps
\* the cooldown of each camera.
Rung(r, c) ==
  CASE r.kind \in Latching /\ ~r.triggered /\ r.ack >= Rearm -> [r EXCEPT !.triggered = TRUE, !.rang[1] = 0]
    [] r.kind = "chime" /\ r.ack >= Rearm /\ r.rang[1] >= Rearm -> [r EXCEPT !.rang[1] = 0]
    [] r.kind = "notify" /\ r.rang[c] >= Rearm -> [r EXCEPT !.rang[c] = 0]
    [] OTHER -> r

CycleEnds(r) == StoodDown([r EXCEPT !.task = "asleep", !.left = 0])

Polled(r) == IF r.left = 1 THEN CycleEnds(r) ELSE [r EXCEPT !.left = @ - 1]

Becomes(m, i, r) == rules' = [rules EXCEPT ![m][i] = r] /\ UNCHANGED <<created, saved, pass, report, boots>>

Asleep(m, i) == i \in DOMAIN rules[m] /\ rules[m][i].task = "asleep"

\* The loop wakes: it polls its cameras one after the other, or, outside the
\* alarm's window and while the user is being served, only stands down
BeginCycle(m, i) == Asleep(m, i) /\ Becomes(m, i, [rules[m][i] EXCEPT !.task = "polling", !.left = NumCameras])
SkipCycle(m, i)  == Asleep(m, i) /\ Becomes(m, i, StoodDown(rules[m][i]))

Polling(m, i) == i \in DOMAIN rules[m] /\ rules[m][i].task = "polling"

\* The answer for one camera has the target, or it has not, or there is none
Sees(m, i) ==
  /\ Polling(m, i)
  /\ LET r == rules[m][i] IN Becomes(m, i, Polled(Rung(r, NumCameras - r.left + 1)))
SeesNone(m, i) == Polling(m, i) /\ Becomes(m, i, Polled(rules[m][i]))

\* An answer of another shape raises outside the poll's try and ends the loop:
\* the rule stays active, and an alarm stays as it was
Crash(m, i) == Polling(m, i) /\ Becomes(m, i, [rules[m][i] EXCEPT !.task = "crashed", !.left = 0])
------------------------------------------------------------------------------
Reports == rules["reports"]
Due(r)  == r.active /\ r.rang[1] >= Every

\* The scheduler looks at the schedules it found when it woke, one after the
\* other, and awaits the turn of the one that is due
SchedulerWakes ==
  /\ pass = <<>> /\ report = 0 /\ Reports # <<>>
  /\ pass' = [i \in DOMAIN Reports |-> Reports[i].id]
  /\ UNCHANGED <<rules, created, saved, report, boots>>

SchedulerLooks ==
  /\ pass # <<>> /\ report = 0
  /\ pass' = Tail(pass)
  /\ LET due == {i \in DOMAIN Reports : Reports[i].id = Head(pass) /\ Due(Reports[i])}
     IN  /\ report' = IF due = {} THEN 0 ELSE Head(pass)
         /\ rules' = [rules EXCEPT !["reports"] =
                        [i \in DOMAIN @ |-> IF i \in due THEN [@[i] EXCEPT !.rang[1] = 0] ELSE @[i]]]
  /\ UNCHANGED <<created, saved, boots>>

\* The turn ends, with an answer or an error, and the report is delivered
ReportDelivered == report # 0 /\ report' = 0 /\ UNCHANGED <<rules, created, saved, pass, boots>>

\* POST /reports/{id}/run, beside the scheduler, also of a cancelled report
RunNow(i) == i \in DOMAIN Reports /\ Becomes("reports", i, [Reports[i] EXCEPT !.rang[1] = 0])
------------------------------------------------------------------------------
Older(age) == IF age < Far THEN age + 1 ELSE age

Tick ==
  /\ rules' = [m \in Managers |-> [i \in DOMAIN rules[m] |->
                 [rules[m][i] EXCEPT !.ack = Older(@), !.rang = [c \in 1..NumCameras |-> Older(@[c])]]]]
  /\ UNCHANGED <<created, saved, pass, report, boots>>

\* Two rows of the state file that would watch for the same
Same(m, s, t) == s.name = t.name /\ (m # "alarms" => s.kind = t.kind)

Collapsed(m) ==
  Kept(saved[m], {i \in DOMAIN saved[m] : \A j \in 1..(i - 1) : ~Same(m, saved[m][i], saved[m][j])})

Restored(m) == LET kept == Collapsed(m) IN [i \in DOMAIN kept |-> New(m, i, kept[i])]

\* Mutant: what was collapsed comes back with the next restart
NeverWritesBack == FALSE

\* The file is written again if not as many rules were armed as it has
WritesBack == \E m \in Managers : Len(Restored(m)) # Len(saved[m])

\* The process ends, and the next one arms what the state file has
Restart ==
  /\ boots < MaxBoots /\ boots' = boots + 1
  /\ rules' = [m \in Managers |-> Restored(m)]
  /\ created' = [m \in Managers |-> Len(Restored(m))]
  /\ IF WritesBack THEN Persist(rules') ELSE UNCHANGED saved
  /\ pass' = <<>> /\ report' = 0

Next ==
  \/ \E m \in Managers : \E spec \in Asked[m] : Create(m, spec)
  \/ \E m \in Managers : \E i \in 1..MaxRules[m] : Stop(m, i)
  \/ \E i \in 1..MaxSchedules : DeleteReport(i) \/ RunNow(i)
  \/ \E id \in 1..MaxCreated : Acknowledge({id})
  \/ Acknowledge(1..MaxCreated) \/ SaveOnly
  \/ \E m \in Managers : \E i \in 1..MaxRules[m] :
       BeginCycle(m, i) \/ SkipCycle(m, i) \/ Sees(m, i) \/ SeesNone(m, i) \/ Crash(m, i)
  \/ SchedulerWakes \/ SchedulerLooks \/ ReportDelivered
  \/ Tick \/ Restart

Spec == Init /\ [][Next]_agentVars

\* Time passes; polls and turns return, the user is not served for ever and a
\* window opens again; what an alarm looks for is there again and again
Fairness ==
  /\ WF_agentVars(Tick) /\ WF_agentVars(SchedulerWakes \/ SchedulerLooks \/ ReportDelivered)
  /\ \A i \in 1..MaxAlarms :
       /\ WF_agentVars(BeginCycle("alarms", i) \/ Sees("alarms", i) \/ SeesNone("alarms", i))
       /\ SF_agentVars(Sees("alarms", i))
------------------------------------------------------------------------------
\* The state file has the active rules of each manager, in their order, after
\* any request, eviction and restart; only reports that were deleted over their
\* endpoint may still be in it.
SavedIsArmed ==
  \A m \in Managers : \E deleted \in SUBSET DOMAIN rules[m] :
    /\ m # "reports" => deleted = {}
    /\ saved[m] = Export([i \in DOMAIN rules[m] |-> [rules[m][i] EXCEPT !.active = @ \/ i \in deleted]])

With(m, id, P(_)) == \E r \in Range(rules[m]) : r.id = id /\ P(r)

\* A rule whose loop has not crashed does its work: an urgent alarm that nobody
\* answers stands down, a quiet siren or pulse whose target is there rings (again,
\* once it has been answered), and a report that is due is run by the scheduler,
\* whatever rules come, go and are evicted meanwhile.
RulesDoTheirWork ==
  \A id \in 1..MaxCreated :
    LET Loud(r)  == r.kind = "pulse" /\ r.triggered /\ r.task # "crashed"
        Quiet(r) == r.kind \in Latching /\ r.active /\ ~r.triggered /\ r.task # "crashed"
    IN  /\ With("alarms", id, Loud)  ~> ~With("alarms", id, Loud)
        /\ With("alarms", id, Quiet) ~> ~With("alarms", id, Quiet)
        /\ With("reports", id, Due)  ~> ~With("reports", id, Due)
==============================================================================
