----------------------------- MODULE DwellDetector -----------------------------
(***************************************************************************)
(* A detector app on the SDK (sdk/opennvr-app-sdk) that alerts when a label *)
(* dwells in a camera's zone: examples/loitering-detection.                 *)
(*                                                                         *)
(* The app handles one inference event at a time.  Events come over NATS,  *)
(* several publishers and no order between them: an event has the time of  *)
(* its inference and the watched labels inside the zone.                   *)
(***************************************************************************)
EXTENDS Integers, Sequences

CONSTANTS
  Cameras, Labels,
  Threshold,  \* threshold_seconds
  Grace,      \* grace_period_seconds
  MaxTime     \* bound on the times of events

DwellAssumption == {Threshold, Grace} \subseteq Nat \ {0} /\ MaxTime \in Nat

VARIABLES
  states,  \* states[k]: the record of a camera and label, None if there is none
  episode  \* history: the presences of a camera and label since it was away for Grace

dwellVars == <<states, episode>>

Keys        == Cameras \X Labels
None        == [first |-> -1, last |-> -1, alerted |-> FALSE]
StateRecord == [first : 0..MaxTime, last : 0..MaxTime, alerted : BOOLEAN]

\* An episode: the times of its presences, the one that came in first, and the
\* times of the events that fired an alert, in the order they came in
NoEpisode == [times |-> {}, first |-> 0, alerts |-> <<>>]
Episodes  == [times : SUBSET (0..MaxTime), first : 0..MaxTime, alerts : Seq(0..MaxTime)]

TypeOK ==
  /\ states \in [Keys -> StateRecord \cup {None}]
  /\ episode \in [Keys -> Episodes]

Init == states = [k \in Keys |-> None] /\ episode = [k \in Keys |-> NoEpisode]
------------------------------------------------------------------------------
\* Mutant: what has been away for long goes, although this event has it again
CollectedThoughPresent(r, present, at) == r # None /\ r.last < at - Grace

\* A record whose label is not in this event goes once the grace period is over
Collected(r, present, at) == r # None /\ ~present /\ r.last < at - Grace

\* keyed_state: the first touch creates the record, later ones refresh it
Touch(r, at) == IF r = None THEN [first |-> at, last |-> at, alerted |-> FALSE] ELSE [r EXCEPT !.last = at]

\* An event older than the record is skipped
Late(r, at) == r # None /\ at < r.last

Dwells(r) == r.last - r.first >= Threshold

\* What an event makes of a record of its camera: first the collection, then
\* the labels that are present
Collect(r, present, at) == IF Collected(r, present, at) THEN None ELSE r

After(r, present, at) ==
  LET kept == Collect(r, present, at)
      touched == Touch(kept, at)
  IN  IF ~present \/ Late(kept, at) THEN kept ELSE [touched EXCEPT !.alerted = @ \/ Dwells(touched)]

Alerts(r, at) ==
  LET kept == Collect(r, TRUE, at) IN ~Late(kept, at) /\ ~kept.alerted /\ Dwells(Touch(kept, at))

\* An event without the label that is more than Grace later than all of an episode
\* ends it, whatever has become of the record; a presence, late or not, is one more
EpisodeAfter(k, present, at) ==
  LET e == episode[k]
  IN  IF ~present
      THEN IF \A t \in e.times : t + Grace < at THEN NoEpisode ELSE e
      ELSE [times  |-> e.times \cup {at},
            first  |-> IF e.times = {} THEN at ELSE e.first,
            alerts |-> IF Alerts(states[k], at) THEN Append(e.alerts, at) ELSE e.alerts]

\* Every watched label of the camera; other cameras' records are left alone
HandleEvent(c, at, seen) ==
  /\ states' = [k \in Keys |-> IF k[1] = c THEN After(states[k], k[2] \in seen, at) ELSE states[k]]
  /\ episode' = [k \in Keys |-> IF k[1] = c THEN EpisodeAfter(k, k[2] \in seen, at) ELSE episode[k]]

\* Nothing of the state survives the process
Restart == states' = [k \in Keys |-> None] /\ episode' = [k \in Keys |-> NoEpisode]

Next ==
  \/ \E c \in Cameras, at \in 0..MaxTime, seen \in SUBSET Labels : HandleEvent(c, at, seen)
  \/ Restart

Spec == Init /\ [][Next]_dwellVars
------------------------------------------------------------------------------
\* A dwell is reported once, if it is one, whatever the order its events come in:
\* an episode has at most one alert; an alert has a presence of that episode behind
\* it that is Threshold older; and no presence that is Threshold later than the
\* episode's first one goes by without.
DwellsAreReported ==
  \A k \in Keys :
    LET e == episode[k]
    IN  /\ Len(e.alerts) <= 1
        /\ \A a \in DOMAIN e.alerts : \E t \in e.times : e.alerts[a] - t >= Threshold
        /\ (\E t \in e.times : t - e.first >= Threshold) => e.alerts # <<>>
==============================================================================
