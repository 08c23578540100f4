---------------------------- MODULE AgentAppsProofs ----------------------------
(***************************************************************************)
(* The camera agent's rules, the detector app and the alert channel of     *)
(* MCAgentApps, each for any values of its constants: their types, what    *)
(* their invariants say, and with these the invariants of the run.         *)
(***************************************************************************)
EXTENDS MCAgentApps, Lists, FiniteSetTheorems, SequenceTheorems, TLAPS

------------------------------------------------------------------------------
(* Lists *)

\* The places that are kept are counted in their order: each count up to that of
\* the places is that of one place.
LEMMA KeptPlaces ==
  ASSUME NEW m \in Nat, NEW K \in SUBSET (1..m)
  PROVE  /\ Cardinality(K) \in 0..m
         /\ \A n \in 1..Cardinality(K) : Place(K, n) \in K
         /\ \A i \in K : \E n \in 1..Cardinality(K) : Place(K, n) = i
         /\ \A n, l \in 1..Cardinality(K) : Place(K, n) = Place(K, l) => n = l
<1> DEFINE Count(i) == Cardinality(K \cap (1..i))
           f == [i \in K |-> Count(i)]
<1>1. IsFiniteSet(1..m) /\ Cardinality(1..m) = m
  BY FS_Interval
<1>2. IsFiniteSet(K) /\ Cardinality(K) \in 0..m
  <2>1. IsFiniteSet(K) /\ Cardinality(K) <= m
    BY <1>1, FS_Subset
  <2> QED BY <2>1, FS_CardinalityType
<1>3. \A i \in K : IsFiniteSet(K \cap (1..i)) /\ Count(i) \in 0..Cardinality(K) /\ i \in K \cap (1..i)
  BY <1>2, FS_Subset, FS_CardinalityType
<1>4. \A i \in K : Count(i) \in 1..Cardinality(K)
  BY <1>3, FS_EmptySet
<1>5. \A i, j \in K : i < j => Count(i) < Count(j)
  <2> SUFFICES ASSUME NEW i \in K, NEW j \in K, i < j PROVE Count(i) < Count(j)
    OBVIOUS
  <2>1. K \cap (1..i) \subseteq K \cap (1..j) /\ j \notin 1..i
    OBVIOUS
  <2>2. Count(i) <= Count(j) /\ Count(i) # Count(j)
    BY <1>3, <2>1, FS_Subset
  <2> QED BY <1>3, <2>2
<1>6. \A i, j \in K : Count(i) = Count(j) => i = j
  BY <1>3, <1>5
<1>7. \A n \in 1..Cardinality(K) : \E i \in K : Count(i) = n
  <2> HIDE DEF Count
  <2>1. f \in Injection(K, 1..Cardinality(K))
    BY <1>4, <1>6 DEF Injection, IsInjective
  <2>2. Cardinality(1..Cardinality(K)) = Cardinality(K) /\ IsFiniteSet(1..Cardinality(K))
    BY <1>2, FS_Interval
  <2>3. f \in Surjection(K, 1..Cardinality(K))
    BY <2>1, <2>2, FS_Injection
  <2> QED BY <2>3 DEF Surjection
<1>8. \A n \in 1..Cardinality(K) : Place(K, n) \in K /\ Count(Place(K, n)) = n
  BY <1>7 DEF Place
<1>9. \A i \in K : Place(K, Count(i)) = i
  BY <1>4, <1>6, <1>8
<1> HIDE DEF Count
<1> QED BY <1>2, <1>4, <1>8, <1>9

LEMMA KeptItems ==
  ASSUME NEW S, NEW list \in Seq(S), NEW K \in SUBSET (1..Len(list))
  PROVE  /\ Kept(list, K) \in Seq(S) /\ Len(Kept(list, K)) = Cardinality(K)
         /\ Cardinality(K) \in 0..Len(list)
         /\ \A n \in 1..Cardinality(K) : Place(K, n) \in K /\ Kept(list, K)[n] = list[Place(K, n)]
<1>1. /\ Cardinality(K) \in 0..Len(list) /\ Len(list) \in Nat
      /\ \A n \in 1..Cardinality(K) : Place(K, n) \in K
  BY KeptPlaces
<1>2. \A n \in 1..Cardinality(K) : Kept(list, K)[n] = list[Place(K, n)] /\ list[Place(K, n)] \in S
  <2>1. \A n \in 1..Cardinality(K) : Place(K, n) \in 1..Len(list)
    BY <1>1
  <2> QED BY <2>1 DEF Kept
<1>3. Kept(list, K) \in [1..Cardinality(K) -> S] /\ Cardinality(K) \in Nat
  BY <1>1, <1>2 DEF Kept
<1> QED BY <1>1, <1>2, <1>3

\* What keeps as many items as there are keeps the list.
LEMMA KeptWhole ==
  ASSUME NEW S, NEW list \in Seq(S), NEW K \in SUBSET (1..Len(list)),
         Cardinality(K) = Len(list)
  PROVE  Kept(list, K) = list /\ K = 1..Len(list)
<1> DEFINE n == Len(list)
<1>1. n \in Nat /\ IsFiniteSet(1..n) /\ Cardinality(1..n) = n
  <2>1. n \in Nat /\ n \in Int /\ 1 \in Int
    OBVIOUS
  <2>2. IsFiniteSet(1..n) /\ Cardinality(1..n) = IF 1 > n THEN 0 ELSE n - 1 + 1
    BY <2>1, FS_Interval
  <2> HIDE DEF n
  <2> QED BY <2>1, <2>2
<1>2. K = 1..n
  BY <1>1, FS_Subset
<1>3. \A i \in 1..n : K \cap (1..i) = 1..i /\ Cardinality(1..i) = i
  <2> SUFFICES ASSUME NEW i \in 1..n PROVE K \cap (1..i) = 1..i /\ Cardinality(1..i) = i
    OBVIOUS
  <2>1. K \cap (1..i) = 1..i
    BY <1>1, <1>2
  <2>2. 1 \in Int /\ i \in Int /\ ~(1 > i) /\ i - 1 + 1 = i
    BY <1>1
  <2>3. Cardinality(1..i) = i
    BY <2>2, FS_Interval
  <2> QED BY <2>1, <2>3
<1>4. \A i \in 1..n : Place(K, i) = i
  BY <1>2, <1>3 DEF Place
<1>5. Kept(list, K) = [i \in 1..n |-> list[i]]
  BY <1>1, <1>2, <1>4 DEF Kept
<1>6. list = [i \in 1..n |-> list[i]]
  BY <1>1
<1> QED BY <1>2, <1>5, <1>6

------------------------------------------------------------------------------
(* The detector app *)

\* What an app's record of a camera and label tells of the episode: its first and
\* its latest presence, and whether there was an alert.
Tells(r, e) ==
  \/ r = Dwell!None /\ e = Dwell!NoEpisode
  \/ /\ r \in Dwell!StateRecord
     /\ r.first = e.first /\ e.first \in e.times
     /\ r.last \in e.times /\ \A t \in e.times : t <= r.last
     /\ r.alerted <=> e.alerts # <<>>

ReportedOnce(e) ==
  /\ Len(e.alerts) <= 1
  /\ \A a \in DOMAIN e.alerts : \E t \in e.times : e.alerts[a] - t >= Threshold
  /\ (\E t \in e.times : t - e.first >= Threshold) => e.alerts # <<>>

DwellInv ==
  /\ Dwell!TypeOK
  /\ \A k \in Dwell!Keys : Tells(states[k], episode[k]) /\ ReportedOnce(episode[k])

LEMMA DwellTimes == Threshold \in Nat /\ Threshold > 0 /\ Grace \in Nat /\ MaxTime \in Nat
  BY AppsAssumption DEF Dwell!DwellAssumption

LEMMA NoneIsNoRecord == Dwell!None \notin Dwell!StateRecord
  BY DwellTimes DEF Dwell!None, Dwell!StateRecord

LEMMA NoEpisodeIsOne == Dwell!NoEpisode \in Dwell!Episodes /\ ReportedOnce(Dwell!NoEpisode)
  BY DwellTimes DEF Dwell!NoEpisode, Dwell!Episodes, ReportedOnce

\* An event keeps what a record tells of its episode, whatever its time.
LEMMA EventIsTold ==
  ASSUME DwellInv, NEW k \in Dwell!Keys, NEW at \in 0..MaxTime, NEW present \in BOOLEAN
  PROVE  LET r == Dwell!After(states[k], present, at)
             e == Dwell!EpisodeAfter(k, present, at)
         IN  /\ r \in Dwell!StateRecord \cup {Dwell!None} /\ e \in Dwell!Episodes
             /\ Tells(r, e) /\ ReportedOnce(e)
<1> DEFINE r == states[k]
           e == episode[k]
           r2 == Dwell!After(r, present, at)
           e2 == Dwell!EpisodeAfter(k, present, at)
<1>1. /\ r \in Dwell!StateRecord \cup {Dwell!None} /\ e \in Dwell!Episodes
      /\ Tells(r, e) /\ ReportedOnce(e)
  BY DEF DwellInv, Dwell!TypeOK
<1>2. CASE ~present
  <2>1. r2 = IF Dwell!Collected(r, present, at) THEN Dwell!None ELSE r
    BY <1>2 DEF Dwell!After, Dwell!Collect
  <2>2. Dwell!Collected(r, present, at) <=> r # Dwell!None /\ r.last < at - Grace
    BY <1>2 DEF Dwell!Collected
  <2>3. e2 = IF \A t \in e.times : t + Grace < at THEN Dwell!NoEpisode ELSE e
    BY <1>2 DEF Dwell!EpisodeAfter
  <2>4. CASE r = Dwell!None
    <3>1. e = Dwell!NoEpisode
      BY <1>1, <2>4, NoneIsNoRecord DEF Tells
    <3> QED BY <1>1, <2>1, <2>3, <2>4, <3>1
  <2>5. CASE r # Dwell!None
    <3>1. /\ r \in Dwell!StateRecord /\ r.last \in e.times /\ \A t \in e.times : t <= r.last
          /\ e.times \subseteq Nat /\ r.last \in Nat
      BY <1>1, <2>5, DwellTimes DEF Tells, Dwell!Episodes, Dwell!StateRecord
    <3>2. (\A t \in e.times : t + Grace < at) <=> Dwell!Collected(r, present, at)
      BY <2>2, <2>5, <3>1, DwellTimes
    <3>3. Tells(Dwell!None, Dwell!NoEpisode)
      BY DEF Tells
    <3> QED BY <1>1, <2>1, <2>3, <3>2, <3>3, NoEpisodeIsOne
  <2> QED BY <2>4, <2>5
<1>3. CASE present
  <2> DEFINE touched == Dwell!Touch(r, at)
  <2>1. Dwell!Collect(r, present, at) = r /\ Dwell!Collect(r, TRUE, at) = r
    BY <1>3 DEF Dwell!Collect, Dwell!Collected
  <2>2. r2 = IF Dwell!Late(r, at) THEN r ELSE [touched EXCEPT !.alerted = @ \/ Dwell!Dwells(touched)]
    BY <1>3, <2>1 DEF Dwell!After
  <2>3. Dwell!Alerts(r, at) <=> ~Dwell!Late(r, at) /\ ~r.alerted /\ Dwell!Dwells(touched)
    BY <2>1 DEF Dwell!Alerts
  <2>4. e2 = [times  |-> e.times \cup {at},
              first  |-> IF e.times = {} THEN at ELSE e.first,
              alerts |-> IF Dwell!Alerts(r, at) THEN Append(e.alerts, at) ELSE e.alerts]
    BY <1>3 DEF Dwell!EpisodeAfter
  <2>5. CASE r = Dwell!None
    <3>1. touched = [first |-> at, last |-> at, alerted |-> FALSE] /\ ~Dwell!Late(r, at)
      BY <2>5 DEF Dwell!Touch, Dwell!Late
    <3>2. ~Dwell!Dwells(touched)
      BY <3>1, DwellTimes DEF Dwell!Dwells
    <3>3. e.times = {} /\ e.alerts = <<>>
      BY <1>1, <2>5, NoneIsNoRecord DEF Tells, Dwell!NoEpisode
    <3>4. e2 = [times |-> {at}, first |-> at, alerts |-> <<>>]
      BY <2>3, <2>4, <3>2, <3>3
    <3>5. r2 = touched
      <4> DEFINE no == FALSE
      <4>1. (touched.alerted \/ Dwell!Dwells(touched)) = no /\ touched.alerted = no
        BY <3>1, <3>2
      <4> HIDE DEF no
      <4>2. r2 = [touched EXCEPT !.alerted = no]
        BY <2>2, <3>1, <4>1
      <4> QED BY <3>1, <4>1, <4>2
    <3>6. r2 \in Dwell!StateRecord /\ e2 \in Dwell!Episodes
      BY <3>1, <3>4, <3>5, DwellTimes DEF Dwell!StateRecord, Dwell!Episodes
    <3>7. Tells(r2, e2)
      BY <3>1, <3>4, <3>5, <3>6 DEF Tells
    <3>8. ReportedOnce(e2)
      BY <3>4, DwellTimes DEF ReportedOnce
    <3> QED BY <3>6, <3>7, <3>8
  <2>6. CASE r # Dwell!None
    <3>1. /\ r \in Dwell!StateRecord /\ r.first = e.first /\ e.first \in e.times
          /\ r.last \in e.times /\ \A t \in e.times : t <= r.last
          /\ r.alerted <=> e.alerts # <<>>
      BY <1>1, <2>6 DEF Tells
    <3>2. /\ r.first \in Nat /\ r.last \in Nat /\ r.alerted \in BOOLEAN
          /\ e.times \in SUBSET (0..MaxTime) /\ e.alerts \in Seq(0..MaxTime)
      BY <1>1, <3>1, DwellTimes DEF Dwell!StateRecord, Dwell!Episodes
    <3>3. Dwell!Late(r, at) <=> at < r.last
      BY <2>6 DEF Dwell!Late
    <3>4. CASE at < r.last
      <4>1. r2 = r /\ e2 = [times |-> e.times \cup {at}, first |-> e.first, alerts |-> e.alerts]
        BY <2>2, <2>3, <2>4, <3>1, <3>3, <3>4
      <4>2. e2 \in Dwell!Episodes
        BY <3>1, <3>2, <4>1 DEF Dwell!Episodes
      <4>3. Tells(r2, e2)
        BY <3>1, <3>2, <3>4, <4>1 DEF Tells
      <4>4. ReportedOnce(e2)
        BY <1>1, <3>1, <3>2, <3>4, <4>1, DwellTimes DEF ReportedOnce
      <4> QED BY <1>1, <4>1, <4>2, <4>3, <4>4
    <3>5. CASE ~(at < r.last)
      <4> DEFINE told == r.alerted \/ at - e.first >= Threshold
      <4>1. touched = [first |-> r.first, last |-> at, alerted |-> r.alerted]
        BY <2>6, <3>1 DEF Dwell!Touch, Dwell!StateRecord
      <4>2. Dwell!Dwells(touched) <=> at - e.first >= Threshold
        BY <3>1, <4>1 DEF Dwell!Dwells
      <4>3. told \in BOOLEAN /\ (touched.alerted \/ Dwell!Dwells(touched)) = told
        BY <4>1, <4>2
      <4>4. told <=> r.alerted \/ at - e.first >= Threshold
        OBVIOUS
      <4> HIDE DEF told
      <4>5. r2 = [first |-> r.first, last |-> at, alerted |-> told]
        BY <2>2, <3>3, <3>5, <4>1, <4>3
      <4>6. /\ r2 \in Dwell!StateRecord /\ r2.first = r.first /\ r2.last = at
            /\ r2.alerted <=> r.alerted \/ at - e.first >= Threshold
        BY <3>1, <3>2, <4>3, <4>4, <4>5 DEF Dwell!StateRecord
      <4>7. /\ e2 \in Dwell!Episodes /\ e2.times = e.times \cup {at} /\ e2.first = e.first
            /\ e2.alerts = IF e.alerts = <<>> /\ at - e.first >= Threshold THEN <<at>> ELSE e.alerts
            /\ e2.alerts # <<>> <=> r2.alerted
        <5>1. CASE e.alerts = <<>> /\ at - e.first >= Threshold
          <6>1. Dwell!Alerts(r, at) /\ Append(e.alerts, at) = <<at>>
            BY <2>3, <3>1, <3>3, <3>5, <4>2, <5>1
          <6>2. e2 = [times |-> e.times \cup {at}, first |-> e.first, alerts |-> <<at>>]
            BY <2>4, <3>1, <6>1
          <6> QED BY <3>1, <3>2, <4>6, <5>1, <6>2 DEF Dwell!Episodes
        <5>2. CASE ~(e.alerts = <<>> /\ at - e.first >= Threshold)
          <6>1. ~Dwell!Alerts(r, at)
            BY <2>3, <3>1, <4>2, <5>2
          <6>2. e2 = [times |-> e.times \cup {at}, first |-> e.first, alerts |-> e.alerts]
            BY <2>4, <3>1, <6>1
          <6>3. e.alerts # <<>> <=> r2.alerted
            BY <3>1, <4>6, <5>2
          <6> QED BY <3>1, <3>2, <5>2, <6>2, <6>3 DEF Dwell!Episodes
        <5> QED BY <5>1, <5>2
      <4>8. Tells(r2, e2)
        BY <3>1, <3>2, <3>5, <4>6, <4>7 DEF Tells
      <4>9. Len(e2.alerts) <= 1
        BY <1>1, <4>7 DEF ReportedOnce
      <4>10. \A a \in DOMAIN e2.alerts : \E t \in e2.times : e2.alerts[a] - t >= Threshold
        <5>1. CASE e.alerts = <<>> /\ at - e.first >= Threshold
          <6>1. e2.alerts = <<at>> /\ DOMAIN <<at>> = {1}
            BY <4>7, <5>1
          <6> QED BY <3>1, <4>7, <5>1, <6>1
        <5>2. CASE ~(e.alerts = <<>> /\ at - e.first >= Threshold)
          BY <1>1, <4>7, <5>2 DEF ReportedOnce
        <5> QED BY <5>1, <5>2
      <4>11. (\E t \in e2.times : t - e2.first >= Threshold) => e2.alerts # <<>>
        BY <1>1, <3>1, <4>6, <4>7 DEF ReportedOnce
      <4> QED BY <4>6, <4>7, <4>8, <4>9, <4>10, <4>11 DEF ReportedOnce
    <3> QED BY <3>4, <3>5
  <2> QED BY <2>5, <2>6
<1> QED BY <1>2, <1>3

LEMMA DwellStart == Dwell!Init => DwellInv
<1>1. Tells(Dwell!None, Dwell!NoEpisode)
  BY DEF Tells
<1> QED BY <1>1, NoEpisodeIsOne DEF Dwell!Init, DwellInv, Dwell!TypeOK

LEMMA DwellStep == DwellInv /\ [Dwell!Next]_(Dwell!dwellVars) => DwellInv'
<1> SUFFICES ASSUME DwellInv, [Dwell!Next]_(Dwell!dwellVars) PROVE DwellInv'
  OBVIOUS
<1>1. ASSUME NEW c \in Cameras, NEW at \in 0..MaxTime, NEW seen \in SUBSET Labels, Dwell!HandleEvent(c, at, seen)
      PROVE  DwellInv'
  <2>1. \A k \in Dwell!Keys :
          /\ states'[k] \in Dwell!StateRecord \cup {Dwell!None} /\ episode'[k] \in Dwell!Episodes
          /\ Tells(states'[k], episode'[k]) /\ ReportedOnce(episode'[k])
    <3> SUFFICES ASSUME NEW k \in Dwell!Keys
                 PROVE  /\ states'[k] \in Dwell!StateRecord \cup {Dwell!None} /\ episode'[k] \in Dwell!Episodes
                        /\ Tells(states'[k], episode'[k]) /\ ReportedOnce(episode'[k])
      OBVIOUS
    <3>1. CASE k[1] = c
      <4>1. /\ states'[k] = Dwell!After(states[k], k[2] \in seen, at)
            /\ episode'[k] = Dwell!EpisodeAfter(k, k[2] \in seen, at)
        BY <1>1, <3>1 DEF Dwell!HandleEvent
      <4>2. (k[2] \in seen) \in BOOLEAN
        OBVIOUS
      <4> QED BY <4>1, <4>2, EventIsTold
    <3>2. CASE k[1] # c
      <4>1. states'[k] = states[k] /\ episode'[k] = episode[k]
        BY <1>1, <3>2 DEF Dwell!HandleEvent
      <4> QED BY <4>1 DEF DwellInv, Dwell!TypeOK
    <3> QED BY <3>1, <3>2
  <2>2. states' = [k \in Dwell!Keys |-> states'[k]] /\ episode' = [k \in Dwell!Keys |-> episode'[k]]
    BY <1>1 DEF Dwell!HandleEvent
  <2> QED BY <2>1, <2>2 DEF DwellInv, Dwell!TypeOK
<1>2. CASE Dwell!Restart
  <2>1. Tells(Dwell!None, Dwell!NoEpisode)
    BY DEF Tells
  <2> QED BY <1>2, <2>1, NoEpisodeIsOne DEF Dwell!Restart, DwellInv, Dwell!TypeOK
<1>3. CASE UNCHANGED Dwell!dwellVars
  BY <1>3 DEF Dwell!dwellVars, DwellInv, Dwell!TypeOK
<1> QED BY <1>1, <1>2, <1>3 DEF Dwell!Next

LEMMA DwellInvImplies == DwellInv => Dwell!TypeOK /\ Dwell!DwellsAreReported
  BY DEF DwellInv, ReportedOnce, Dwell!DwellsAreReported

\* examples/loitering-detection: whoever stays Threshold is reported, once in an
\* episode and never sooner, for any order of the events and any thresholds.
THEOREM DwellsAreReportedOnce == Dwell!Spec => [](Dwell!TypeOK /\ Dwell!DwellsAreReported)
  BY DwellStart, DwellStep, DwellInvImplies, PTL DEF Dwell!Spec

------------------------------------------------------------------------------
(* The alert channel *)

\* Where an alert is on its way: its coroutine runs on a loop that was made, it waits
\* for, or holds, the lock of a loop that is not older, and one that connects on the
\* channel's loop has that loop's lock to itself: the channel has no client, or one
\* whose connect outlived a close.
Routed(s) ==
  /\ send[s].at \notin {"idle", "ensured"} => send[s].loop # 0
  /\ send[s].at \in {"wait", "connect"} => send[s].lock # 0 /\ send[s].loop <= send[s].lock
  /\ send[s].at = "connect" => lock[send[s].lock].holder = s
  /\ send[s].at = "connect" /\ send[s].loop = loop => cached = 0 \/ cached \in late

LoopIsNewest == loop \in {0, loops}

ClosingIsKnown ==
  /\ closing.at # "no" => closing.loop # 0
  /\ closing.at = "drain" <=> closing.on # 0

ChannelInv ==
  /\ Channel!TypeOK
  /\ LoopIsNewest /\ ClosingIsKnown
  /\ \A s \in Sends : Routed(s)
  /\ Channel!ClientIsOfTheLoop /\ Channel!ClientsAreHeld

LEMMA ChannelBounds == MaxLoops \in Nat /\ MaxLoops > 0 /\ MaxClients \in Nat /\ "none" \notin Sends
  BY AppsAssumption DEF Channel!ChannelAssumption

Sending == [at : {"idle", "ensured", "scheduled", "wait", "connect", "send", "publish"},
            loop : 0..loops, lock : 0..loops, on : 0..Len(owner)]
LockState == [holder : Sends \cup {"none"}, bound : 0..loops, left : BOOLEAN]

LEMMA ChannelStart == Channel!Init => ChannelInv
<1> SUFFICES ASSUME Channel!Init PROVE ChannelInv
  OBVIOUS
<1>1. /\ loop = 0 /\ loops = 0 /\ stopped = {} /\ cached = 0 /\ owner = <<>>
      /\ closing = [at |-> "no", loop |-> 0, on |-> 0]
      /\ drained = {} /\ dropped = {} /\ late = {}
      /\ lock = [l \in 1..MaxLoops |-> [holder |-> "none", bound |-> 0, left |-> FALSE]]
      /\ send = [s \in Sends |-> [at |-> "idle", loop |-> 0, lock |-> 0, on |-> 0]]
  BY DEF Channel!Init, Channel!Free, Channel!Idle
<1>2. Channel!TypeOK
  BY <1>1, ChannelBounds DEF Channel!TypeOK, Channel!Loops, Channel!Clients
<1>3. Channel!ClientIsOfTheLoop /\ Channel!ClientsAreHeld
  BY <1>1 DEF Channel!ClientIsOfTheLoop, Channel!ClientsAreHeld, Channel!Clients
<1> QED BY <1>1, <1>2, <1>3 DEF ChannelInv, LoopIsNewest, ClosingIsKnown, Routed

\* A send that ends, or goes on to what needs neither lock nor connection, leaves
\* the others as they are routed.
LEMMA SendGoesOn ==
  ASSUME ChannelInv, NEW s \in Sends, NEW r \in Sending,
         send' = [send EXCEPT ![s] = r],
         r.at \notin {"idle", "ensured"} => r.loop # 0,
         r.at \notin {"wait", "connect"},
         UNCHANGED <<loop, loops, stopped, cached, owner, lock, closing, drained, dropped, late>>
  PROVE  ChannelInv'
<1>1. /\ send \in [Sends -> Sending]
      /\ \A q \in Sends : Routed(q)
  BY DEF ChannelInv, Channel!TypeOK, Sending
<1>2. send' \in [Sends -> Sending] /\ send'[s] = r /\ \A q \in Sends \ {s} : send'[q] = send[q]
  BY <1>1
<1>3. \A q \in Sends : Routed(q)'
  BY <1>1, <1>2 DEF Routed
<1>4. Channel!TypeOK'
  BY <1>2 DEF ChannelInv, Channel!TypeOK, Sending, Channel!Loops, Channel!Clients
<1> QED BY <1>3, <1>4 DEF ChannelInv, LoopIsNewest, ClosingIsKnown, Channel!ClientIsOfTheLoop,
             Channel!ClientsAreHeld, Channel!Clients

LEMMA IdleIsSending == ChannelInv => Channel!Idle \in Sending
  BY DEF ChannelInv, Channel!TypeOK, Sending, Channel!Idle, Channel!Loops

\* A loop is made: it is newer than any other, and no send is on it.
LEMMA LoopIsMade ==
  ASSUME ChannelInv, Channel!NewLoop
  PROVE  /\ loops' = loops + 1 /\ loop' = loops + 1 /\ loops' \in 0..MaxLoops /\ loops \in Nat
         /\ Sending \subseteq [at : {"idle", "ensured", "scheduled", "wait", "connect", "send", "publish"},
                               loop : 0..loops', lock : 0..loops', on : 0..Len(owner)]
         /\ LockState \subseteq [holder : Sends \cup {"none"}, bound : 0..loops', left : BOOLEAN]
         /\ owner \in Seq(1..loops')
         /\ \A s \in Sends : send[s].loop # loop'
         /\ cached # 0 => cached \in late
<1>1. loop = 0 /\ loops < MaxLoops /\ loops' = loops + 1 /\ loop' = loops + 1
  BY DEF Channel!NewLoop
<1>2. loops \in Nat /\ loops' \in 0..MaxLoops /\ send \in [Sends -> Sending] /\ owner \in Seq(1..loops)
      /\ cached \in 0..Len(owner)
  BY <1>1, ChannelBounds DEF ChannelInv, Channel!TypeOK, Channel!Loops, Sending
<1>3. \A s \in Sends : send[s].loop \in 0..loops
  BY <1>2 DEF Sending
<1>4. cached # 0 => cached \in late
  <2>1. cached # 0 => owner[cached] \in 1..loops
    BY <1>2
  <2> QED BY <1>1, <2>1 DEF ChannelInv, Channel!ClientIsOfTheLoop
<1>5. owner \in Seq(1..loops')
  <2>1. \A c \in 1..Len(owner) : owner[c] \in 1..loops'
    BY <1>1, <1>2
  <2> QED BY <1>2, <2>1
<1> QED BY <1>1, <1>2, <1>3, <1>4, <1>5 DEF Sending, LockState

LEMMA LoopGoesOn ==
  ASSUME ChannelInv, Channel!NewLoop, stopped' \subseteq 1..loops',
         NEW s \in Sends, NEW r \in Sending, r.at \in {"idle", "ensured"},
         send' = [send EXCEPT ![s] = r],
         UNCHANGED <<cached, owner, lock, closing, drained, dropped, late>>
  PROVE  ChannelInv'
<1>1. /\ loops' = loops + 1 /\ loop' = loops + 1 /\ loops' \in 0..MaxLoops /\ loops \in Nat
      /\ \A q \in Sends : send[q].loop # loop'
      /\ cached # 0 => cached \in late
  BY LoopIsMade
<1>2. send \in [Sends -> Sending]
  BY DEF ChannelInv, Channel!TypeOK, Sending
<1>3. send' \in [Sends -> Sending] /\ send'[s] = r /\ \A q \in Sends \ {s} : send'[q] = send[q]
  BY <1>2
<1>4. Channel!TypeOK'
  <2>1. send' \in [Sends -> [at : {"idle", "ensured", "scheduled", "wait", "connect", "send", "publish"},
                             loop : 0..loops', lock : 0..loops', on : 0..Len(owner)]]
    BY <1>3, LoopIsMade
  <2>2. lock \in [1..MaxLoops -> LockState]
    BY DEF ChannelInv, Channel!TypeOK, LockState
  <2>3. lock \in [1..MaxLoops -> [holder : Sends \cup {"none"}, bound : 0..loops', left : BOOLEAN]]
    BY <2>2, LoopIsMade
  <2>4. owner \in Seq(1..loops')
    BY LoopIsMade
  <2>5. closing \in [at : {"no", "drain", "stop"}, loop : 0..loops', on : 0..Len(owner)]
    BY <1>1 DEF ChannelInv, Channel!TypeOK
  <2> QED BY <1>1, <2>1, <2>3, <2>4, <2>5 DEF ChannelInv, Channel!TypeOK, Channel!Loops, Channel!Clients
<1>5. \A q \in Sends : Routed(q)'
  BY <1>1, <1>3 DEF ChannelInv, Routed
<1>6. Channel!ClientIsOfTheLoop'
  BY <1>1 DEF Channel!ClientIsOfTheLoop
<1> QED BY <1>1, <1>4, <1>5, <1>6
     DEF ChannelInv, LoopIsNewest, ClosingIsKnown, Channel!ClientsAreHeld, Channel!Clients

LEMMA EnsureStep == ASSUME ChannelInv, NEW s \in Sends, Channel!Ensure(s) PROVE ChannelInv'
<1> DEFINE r == [send[s] EXCEPT !.at = "ensured"]
<1>1. /\ send[s] = Channel!Idle /\ send' = [send EXCEPT ![s] = r]
      /\ UNCHANGED <<stopped, cached, owner, lock, closing, drained, dropped, late>>
      /\ Channel!NewLoop \/ UNCHANGED <<loop, loops>>
  BY DEF Channel!Ensure, Channel!Goes
<1>2. r \in Sending /\ r.at = "ensured"
  BY <1>1 DEF ChannelInv, Channel!TypeOK, Sending
<1> HIDE DEF r
<1>3. CASE UNCHANGED <<loop, loops>>
  BY <1>1, <1>2, <1>3, SendGoesOn
<1>4. CASE Channel!NewLoop
  <2>1. stopped' \subseteq 1..loops'
    BY <1>1, <1>4, LoopIsMade DEF ChannelInv, Channel!TypeOK, Channel!Loops
  <2> QED BY <1>1, <1>2, <1>4, <2>1, LoopGoesOn
<1> QED BY <1>1, <1>3, <1>4

LEMMA EnsureFailsStep == ASSUME ChannelInv, NEW s \in Sends, Channel!EnsureFails(s) PROVE ChannelInv'
<1>1. /\ send[s] = Channel!Idle
      /\ UNCHANGED <<send, cached, owner, lock, closing, drained, dropped, late>>
  BY DEF Channel!EnsureFails
<1>2. send' = [send EXCEPT ![s] = send[s]] /\ send[s] \in Sending /\ send[s].at = "idle"
  BY <1>1 DEF ChannelInv, Channel!TypeOK, Sending, Channel!Idle
<1>3. CASE UNCHANGED <<loop, loops, stopped>>
  BY <1>1, <1>2, <1>3, SendGoesOn
<1>4. CASE Channel!NewLoop /\ stopped' = stopped \cup {loops'}
  <2>1. stopped' \subseteq 1..loops'
    <3>1. loops' = loops + 1 /\ loops \in Nat
      BY <1>4, LoopIsMade
    <3>2. stopped \subseteq 1..loops
      BY DEF ChannelInv, Channel!TypeOK, Channel!Loops
    <3> QED BY <1>4, <3>1, <3>2
  <2> QED BY <1>1, <1>2, <1>4, <2>1, LoopGoesOn
<1> QED BY <1>3, <1>4 DEF Channel!EnsureFails

LEMMA ScheduleStep == ASSUME ChannelInv, NEW s \in Sends, Channel!Schedule(s) PROVE ChannelInv'
<1>1. UNCHANGED <<loop, loops, stopped, cached, owner, lock, closing, drained, dropped, late>>
  BY DEF Channel!Schedule
<1>2. CASE loop \in {0} \cup stopped
  BY <1>1, <1>2, IdleIsSending, SendGoesOn DEF Channel!Schedule, Channel!Ends, Channel!Idle
<1>3. CASE loop \notin {0} \cup stopped
  <2> DEFINE r == [Channel!Idle EXCEPT !.at = "scheduled", !.loop = loop]
  <2>1. send' = [send EXCEPT ![s] = r]
    BY <1>3 DEF Channel!Schedule
  <2>2. r \in Sending /\ r.at = "scheduled" /\ r.loop = loop
    BY IdleIsSending DEF ChannelInv, Channel!TypeOK, Sending
  <2> HIDE DEF r
  <2> QED BY <1>1, <1>3, <2>1, <2>2, SendGoesOn
<1> QED BY <1>2, <1>3

\* A send that waits for a lock, or gets it, on a channel that has no client.
LEMMA SendLocks ==
  ASSUME ChannelInv, NEW s \in Sends, NEW r \in Sending, NEW q \in LockState,
         r.at \in {"wait", "connect"}, r.loop # 0, r.lock # 0, r.loop <= r.lock,
         r.at = "connect" => q.holder = s /\ cached = 0 /\ lock[r.lock].holder = "none",
         r.at = "wait" => q.holder = lock[r.lock].holder /\ send[s].at # "connect",
         send' = [send EXCEPT ![s] = r], lock' = [lock EXCEPT ![r.lock] = q],
         UNCHANGED <<loop, loops, stopped, cached, owner, closing, drained, dropped, late>>
  PROVE  ChannelInv'
<1>1. /\ send \in [Sends -> Sending] /\ lock \in [1..MaxLoops -> LockState]
      /\ loops \in 0..MaxLoops /\ loops \in Nat
      /\ \A p \in Sends : Routed(p)
  <2>1. loops \in 0..MaxLoops /\ \A p \in Sends : Routed(p)
    BY DEF ChannelInv, Channel!TypeOK
  <2>2. send \in [Sends -> Sending]
    BY DEF ChannelInv, Channel!TypeOK, Sending
  <2>3. lock \in [1..MaxLoops -> LockState]
    BY DEF ChannelInv, Channel!TypeOK, LockState
  <2> QED BY <2>1, <2>2, <2>3, ChannelBounds
<1>2. \A p \in Sends : send[p].lock \in 0..loops
  BY <1>1 DEF Sending
<1>3. r.lock \in 1..MaxLoops
  <2>1. r.lock \in 0..loops
    BY DEF Sending
  <2> QED BY <1>1, <2>1, ChannelBounds
<1>4. /\ send' \in [Sends -> Sending] /\ send'[s] = r /\ \A p \in Sends \ {s} : send'[p] = send[p]
      /\ lock' \in [1..MaxLoops -> LockState] /\ lock'[r.lock] = q
      /\ \A l \in 1..MaxLoops \ {r.lock} : lock'[l] = lock[l]
  BY <1>1, <1>3
<1>5. Channel!TypeOK'
  BY <1>4 DEF ChannelInv, Channel!TypeOK, Sending, LockState, Channel!Loops, Channel!Clients
<1>6. Routed(s)'
  BY <1>4 DEF Routed
<1>7. ASSUME NEW p \in Sends \ {s} PROVE Routed(p)'
  <2>1. send[p].at = "connect" => send[p].lock \in 1..MaxLoops /\ lock[send[p].lock].holder = p
    BY <1>2, <1>1, ChannelBounds DEF Routed
  <2>2. send[p].at = "connect" => lock'[send[p].lock].holder = p
    BY <1>1, <1>4, <2>1, ChannelBounds
  <2> QED BY <1>1, <1>4, <2>2 DEF Routed
<1> QED BY <1>5, <1>6, <1>7 DEF ChannelInv, LoopIsNewest, ClosingIsKnown, Channel!ClientIsOfTheLoop,
             Channel!ClientsAreHeld, Channel!Clients

LEMMA BeginStep == ASSUME ChannelInv, NEW s \in Sends, Channel!Begin(s) PROVE ChannelInv'
<1>1. /\ send[s].at = "scheduled" /\ send[s].loop # 0
      /\ UNCHANGED <<loop, loops, stopped, cached, owner, closing, drained, dropped, late>>
  BY DEF Channel!Begin, ChannelInv, Routed
<1>2. send \in [Sends -> Sending] /\ send[s] \in Sending
  BY DEF ChannelInv, Channel!TypeOK, Sending
<1>3. CASE send' = [send EXCEPT ![s] = Channel!Idle] /\ UNCHANGED lock
  BY <1>1, <1>3, IdleIsSending, SendGoesOn DEF Channel!Idle
<1>4. CASE Channel!Goes(s, "send") /\ UNCHANGED lock
  <2> DEFINE r == [send[s] EXCEPT !.at = "send"]
  <2>1. send' = [send EXCEPT ![s] = r] /\ r \in Sending /\ r.at = "send" /\ r.loop # 0
    BY <1>1, <1>2, <1>4 DEF Channel!Goes, Sending
  <2> HIDE DEF r
  <2> QED BY <1>1, <1>4, <2>1, SendGoesOn
<1>5. CASE loop # 0 /\ cached = 0 /\ Channel!Acquires(s, loop)
  <2> DEFINE locked  == [send[s] EXCEPT !.at = "connect", !.lock = loop]
             waiting == [send[s] EXCEPT !.at = "wait", !.lock = loop]
             held    == [lock[loop] EXCEPT !.holder = s]
             bound   == [lock[loop] EXCEPT !.bound = send[s].loop]
  <2>1. loop \in 1..MaxLoops /\ send[s].loop <= loop /\ loop \in 0..loops /\ send[s].loop \in 0..loops
    BY <1>2, <1>5, ChannelBounds DEF ChannelInv, Channel!TypeOK, LoopIsNewest, Sending
  <2>2. lock[loop] \in LockState
    BY <2>1 DEF ChannelInv, Channel!TypeOK, LockState
  <2>3. /\ locked \in Sending /\ locked.at = "connect" /\ locked.loop = send[s].loop /\ locked.lock = loop
        /\ waiting \in Sending /\ waiting.at = "wait" /\ waiting.loop = send[s].loop /\ waiting.lock = loop
    BY <1>2, <2>1 DEF Sending
  <2>4. /\ held \in LockState /\ held.holder = s
        /\ bound \in LockState /\ bound.holder = lock[loop].holder
    BY <2>1, <2>2 DEF LockState
  <2>5. CASE /\ lock[loop].holder = "none"
             /\ lock' = [lock EXCEPT ![loop].holder = s]
             /\ send' = [send EXCEPT ![s].at = "connect", ![s].lock = loop]
    <3>1. send' = [send EXCEPT ![s] = locked] /\ lock' = [lock EXCEPT ![loop] = held]
      BY <1>2, <2>5
    <3> HIDE DEF locked, held, waiting, bound
    <3>2. /\ locked.loop # 0 /\ locked.lock # 0 /\ locked.loop <= locked.lock
          /\ lock[locked.lock].holder = "none" /\ lock' = [lock EXCEPT ![locked.lock] = held]
      BY <1>1, <1>5, <2>1, <2>3, <2>5, <3>1
    <3>3. /\ locked.at = "connect" => held.holder = s /\ cached = 0 /\ lock[locked.lock].holder = "none"
          /\ locked.at = "wait" => held.holder = lock[locked.lock].holder /\ send[s].at # "connect"
      BY <1>5, <2>3, <2>4, <3>2
    <3> QED BY <1>1, <2>3, <2>4, <3>1, <3>2, <3>3, SendLocks
  <2>6. CASE /\ lock' = [lock EXCEPT ![loop].bound = send[s].loop]
             /\ send' = [send EXCEPT ![s].at = "wait", ![s].lock = loop]
    <3>1. send' = [send EXCEPT ![s] = waiting] /\ lock' = [lock EXCEPT ![loop] = bound]
      BY <1>2, <2>6
    <3> HIDE DEF locked, held, waiting, bound
    <3>2. /\ waiting.loop # 0 /\ waiting.lock # 0 /\ waiting.loop <= waiting.lock
          /\ bound.holder = lock[waiting.lock].holder /\ lock' = [lock EXCEPT ![waiting.lock] = bound]
      BY <1>1, <1>5, <2>1, <2>3, <2>4, <3>1
    <3> QED BY <1>1, <2>3, <2>4, <3>1, <3>2, SendLocks
  <2>7. CASE Channel!Ends(s) /\ UNCHANGED lock
    BY <1>3, <2>7 DEF Channel!Ends
  <2> QED BY <1>5, <2>5, <2>6, <2>7 DEF Channel!Acquires
<1> QED BY <1>3, <1>4, <1>5 DEF Channel!Begin, Channel!Ends

LEMMA LockedStep == ASSUME ChannelInv, NEW s \in Sends, Channel!Locked(s) PROVE ChannelInv'
<1>1. /\ send[s].at = "wait" /\ lock[send[s].lock].holder = "none"
      /\ send[s].loop # 0 /\ send[s].lock # 0 /\ send[s].loop <= send[s].lock
      /\ UNCHANGED <<loop, loops, stopped, cached, owner, closing, drained, dropped, late>>
  BY DEF Channel!Locked, ChannelInv, Routed
<1>2. send \in [Sends -> Sending] /\ send[s] \in Sending
  BY DEF ChannelInv, Channel!TypeOK, Sending
<1>3. CASE cached # 0
  <2> DEFINE r == [send[s] EXCEPT !.at = "send"]
  <2>1. send' = [send EXCEPT ![s] = r] /\ r \in Sending /\ r.at = "send" /\ r.loop # 0 /\ UNCHANGED lock
    BY <1>1, <1>2, <1>3 DEF Channel!Locked, Channel!Goes, Sending
  <2> HIDE DEF r
  <2> QED BY <1>1, <2>1, SendGoesOn
<1>4. CASE cached = 0
  <2> DEFINE r == [send[s] EXCEPT !.at = "connect"]
             q == [lock[send[s].lock] EXCEPT !.holder = s]
  <2>1. /\ r \in Sending /\ r.at = "connect" /\ r.loop = send[s].loop /\ r.lock = send[s].lock
        /\ send' = [send EXCEPT ![s] = r] /\ lock' = [lock EXCEPT ![r.lock] = q]
    BY <1>1, <1>2, <1>4 DEF Channel!Locked, Channel!Goes, Sending
  <2>2. send[s].lock \in 1..MaxLoops
    <3>1. send[s].lock \in 0..loops
      BY <1>2 DEF Sending
    <3> QED BY <1>1, <3>1, ChannelBounds DEF ChannelInv, Channel!TypeOK
  <2>3. q \in LockState /\ q.holder = s
    <3>1. lock \in [1..MaxLoops -> LockState]
      BY DEF ChannelInv, Channel!TypeOK, LockState
    <3>2. lock[send[s].lock] \in LockState
      BY <2>2, <3>1
    <3> QED BY <3>2 DEF LockState
  <2> HIDE DEF r, q
  <2> QED BY <1>1, <1>4, <2>1, <2>3, SendLocks
<1> QED BY <1>3, <1>4

\* Who connects has a lock to itself, and leaving it takes no other's.
LEMMA LockIsLeft ==
  ASSUME ChannelInv, NEW s \in Sends, send[s].at = "connect",
         lock' = [lock EXCEPT ![send[s].lock].holder = "none"]
  PROVE  /\ lock' \in [1..MaxLoops -> LockState]
         /\ \A p \in Sends \ {s} : send[p].at = "connect" =>
              /\ lock'[send[p].lock].holder = p
              /\ send[p].loop = loop => send[s].loop # loop
<1>1. /\ lock \in [1..MaxLoops -> LockState] /\ loops \in 0..MaxLoops
      /\ \A p \in Sends : Routed(p)
  BY DEF ChannelInv, Channel!TypeOK, LockState
<1>2. \A p \in Sends : send[p].lock \in 0..loops /\ send[p].loop \in 0..loops
  BY DEF ChannelInv, Channel!TypeOK
<1>3. \A p \in Sends : send[p].at = "connect" =>
        /\ send[p].lock \in 1..MaxLoops /\ lock[send[p].lock].holder = p
        /\ send[p].loop # 0 /\ send[p].loop <= send[p].lock
  BY <1>1, <1>2, ChannelBounds DEF Routed
<1>4. lock' \in [1..MaxLoops -> LockState]
  BY <1>1, <1>3 DEF LockState
<1>5. ASSUME NEW p \in Sends \ {s}, send[p].at = "connect"
      PROVE  /\ lock'[send[p].lock].holder = p
             /\ send[p].loop = loop => send[s].loop # loop
  <2>1. send[p].lock # send[s].lock
    BY <1>3, <1>5
  <2>2. lock'[send[p].lock].holder = p
    BY <1>1, <1>3, <1>5, <2>1
  <2>3. ASSUME send[p].loop = loop, send[s].loop = loop PROVE FALSE
    <3>1. loop = loops
      BY <1>3, <2>3 DEF ChannelInv, LoopIsNewest
    <3>2. send[p].lock = loops /\ send[s].lock = loops
      BY <1>1, <1>2, <1>3, <1>5, <2>3, <3>1, ChannelBounds
    <3> QED BY <2>1, <3>2
  <2> QED BY <2>2, <2>3
<1> QED BY <1>4, <1>5

LEMMA ClientIsLetGo ==
  ASSUME ChannelInv, NEW s \in Sends, Channel!Ends(s), Channel!LetsGo,
         lock' \in [1..MaxLoops -> LockState],
         \A p \in Sends \ {s} : send[p].at = "connect" => lock'[send[p].lock].holder = p,
         UNCHANGED <<loop, loops, stopped, owner, closing, drained, late>>
  PROVE  ChannelInv'
<1>1. /\ send \in [Sends -> Sending] /\ \A p \in Sends : Routed(p)
      /\ cached \in 0..Len(owner) /\ Len(owner) \in Nat
  BY DEF ChannelInv, Channel!TypeOK, Sending
<1>2. /\ send' \in [Sends -> Sending] /\ send'[s].at = "idle" /\ \A p \in Sends \ {s} : send'[p] = send[p]
      /\ cached' = 0 /\ dropped' = dropped \cup ({cached} \ {0})
  BY <1>1, IdleIsSending DEF Channel!Ends, Channel!LetsGo, Channel!Idle
<1>3. Channel!TypeOK'
  <2>1. dropped' \subseteq 1..Len(owner)
    BY <1>1, <1>2 DEF ChannelInv, Channel!TypeOK, Channel!Clients
  <2>2. /\ loops' \in 0..MaxLoops /\ loop' \in 0..loops' /\ stopped' \subseteq Channel!Loops
        /\ owner' \in Seq(Channel!Loops) /\ Len(owner') <= MaxClients /\ cached' \in 0..Len(owner')
        /\ closing' \in [at : {"no", "drain", "stop"}, loop : 0..loops', on : 0..Len(owner')]
        /\ (drained' \cup late') \subseteq 1..Len(owner')
    BY <1>1, <1>2 DEF ChannelInv, Channel!TypeOK, Channel!Clients
  <2>3. send' \in [Sends -> Sending'] /\ lock' \in [1..MaxLoops -> LockState']
    BY <1>2 DEF Sending, LockState
  <2> QED BY <1>2, <2>1, <2>2, <2>3 DEF Channel!TypeOK, Channel!Clients, Sending, LockState, Channel!Loops
<1>4. \A p \in Sends : Routed(p)'
  BY <1>1, <1>2 DEF Routed
<1>5. Channel!ClientIsOfTheLoop' /\ Channel!ClientsAreHeld'
  BY <1>2 DEF ChannelInv, Channel!ClientIsOfTheLoop, Channel!ClientsAreHeld, Channel!Clients
<1> QED BY <1>3, <1>4, <1>5 DEF ChannelInv, LoopIsNewest, ClosingIsKnown

\* The channel gets a client, whatever it had before.
LEMMA ClientIsMade ==
  ASSUME ChannelInv, NEW s \in Sends, send[s].at = "connect",
         Len(owner) < MaxClients,
         lock' = [lock EXCEPT ![send[s].lock].holder = "none"],
         owner' = Append(owner, send[s].loop), cached' = Len(owner'),
         late' = IF send[s].loop = loop THEN late ELSE late \cup {cached'},
         dropped' = dropped \cup (IF {cached, cached'} \cap late' = {} THEN {} ELSE {cached} \ {0}),
         send' = [send EXCEPT ![s].at = "send"],
         UNCHANGED <<loop, loops, stopped, closing, drained>>
  PROVE  ChannelInv'
<1> DEFINE n == Len(owner) + 1
<1>1. /\ loops \in 0..MaxLoops /\ cached \in 0..Len(owner) /\ owner \in Seq(1..loops)
      /\ Len(owner) \in Nat /\ n \in Nat /\ n <= MaxClients
      /\ drained \subseteq 1..Len(owner) /\ dropped \subseteq 1..Len(owner) /\ late \subseteq 1..Len(owner)
  <2>1. loops \in 0..MaxLoops /\ cached \in 0..Len(owner) /\ owner \in Seq(1..loops)
    BY DEF ChannelInv, Channel!TypeOK, Channel!Loops
  <2>2. drained \subseteq 1..Len(owner) /\ dropped \subseteq 1..Len(owner) /\ late \subseteq 1..Len(owner)
    BY DEF ChannelInv, Channel!TypeOK, Channel!Clients
  <2>3. Len(owner) \in Nat /\ n \in Nat /\ n <= MaxClients
    BY <2>1, ChannelBounds
  <2> QED BY <2>1, <2>2, <2>3
<1>2. send \in [Sends -> Sending] /\ send[s].loop \in 1..loops /\ \A p \in Sends : Routed(p)
  <2>1. send \in [Sends -> Sending] /\ \A p \in Sends : Routed(p)
    BY DEF ChannelInv, Channel!TypeOK, Sending
  <2>2. send[s].loop \in 0..loops /\ send[s].loop # 0
    BY <2>1 DEF Routed, Sending
  <2> QED BY <1>1, <2>1, <2>2
<1>3. /\ owner' \in Seq(1..loops) /\ Len(owner') = n /\ cached' = n
      /\ owner'[n] = send[s].loop
  BY <1>1, <1>2
<1>4. late' \subseteq 1..n /\ late \subseteq late' /\ dropped' \subseteq 1..n /\ dropped \subseteq dropped'
  BY <1>1, <1>3
<1>5. /\ lock' \in [1..MaxLoops -> LockState]
      /\ \A p \in Sends \ {s} : send[p].at = "connect" =>
           /\ lock'[send[p].lock].holder = p
           /\ send[p].loop = loop => send[s].loop # loop
  BY LockIsLeft
<1>6. /\ send' \in [Sends -> [at : {"idle", "ensured", "scheduled", "wait", "connect", "send", "publish"},
                             loop : 0..loops, lock : 0..loops, on : 0..Len(owner')]]
      /\ send'[s].at = "send" /\ send'[s].loop = send[s].loop
      /\ \A p \in Sends \ {s} : send'[p] = send[p]
  BY <1>1, <1>2, <1>3 DEF Sending
<1>7. closing \in [at : {"no", "drain", "stop"}, loop : 0..loops, on : 0..Len(owner')]
  BY <1>1, <1>3 DEF ChannelInv, Channel!TypeOK
<1>8. Channel!TypeOK'
  <2>1. 1..Len(owner) \subseteq 1..n
    BY <1>1
  <2>2. loop \in 0..loops /\ stopped \subseteq Channel!Loops
    BY DEF ChannelInv, Channel!TypeOK
  <2>3. owner' \in Seq(1..loops) /\ Len(owner') <= MaxClients /\ cached' \in 0..Len(owner')
    BY <1>1, <1>3
  <2>4. drained \cup dropped' \cup late' \subseteq 1..Len(owner')
    BY <1>1, <1>3, <1>4, <2>1
  <2> QED BY <1>1, <1>5, <1>6, <1>7, <2>2, <2>3, <2>4
       DEF Channel!TypeOK, LockState, Channel!Loops, Channel!Clients
<1>9. ASSUME NEW p \in Sends PROVE Routed(p)'
  <2>1. CASE p = s
    BY <1>2, <1>6, <2>1 DEF Routed
  <2>2. CASE p # s
    <3>1. send[p].at = "connect" /\ send[p].loop = loop => cached' \in late'
      BY <1>5, <2>2
    <3> QED BY <1>2, <1>5, <1>6, <2>2, <3>1 DEF Routed
  <2> QED BY <2>1, <2>2
<1>10. Channel!ClientIsOfTheLoop'
  BY <1>3 DEF Channel!ClientIsOfTheLoop
<1>11. Channel!ClientsAreHeld'
  <2>1. 1..Len(owner) = ({cached, closing.on} \ {0}) \cup drained \cup dropped
    BY DEF ChannelInv, Channel!ClientsAreHeld, Channel!Clients
  <2>2. cached # 0 => cached \in dropped'
    <3>1. CASE send[s].loop # loop
      <4>1. cached' \in late'
        BY <3>1
      <4>2. dropped' = dropped \cup ({cached} \ {0})
        BY <4>1
      <4> QED BY <4>2
    <3>2. CASE send[s].loop = loop
      <4>1. late' = late /\ (cached = 0 \/ cached \in late)
        BY <1>2, <3>2 DEF Routed
      <4>2. cached # 0 => dropped' = dropped \cup ({cached} \ {0})
        BY <4>1
      <4> QED BY <4>2
    <3> QED BY <3>1, <3>2
  <2>3. \A x \in dropped' : x \in dropped \/ (x = cached /\ x # 0)
    OBVIOUS
  <2>4. 1..Len(owner') = 1..Len(owner) \cup {n} /\ n # 0
    BY <1>1, <1>3
  <2> QED BY <1>3, <2>1, <2>2, <2>3, <2>4 DEF Channel!ClientsAreHeld, Channel!Clients
<1> QED BY <1>8, <1>9, <1>10, <1>11 DEF ChannelInv, LoopIsNewest, ClosingIsKnown

LEMMA ConnectedStep == ASSUME ChannelInv, NEW s \in Sends, Channel!Connected(s) PROVE ChannelInv'
<1>1. /\ send[s].at = "connect" /\ lock' = [lock EXCEPT ![send[s].lock].holder = "none"]
      /\ UNCHANGED <<loop, loops, stopped, closing, drained>>
  BY DEF Channel!Connected
<1>2. CASE Channel!LetsGo /\ Channel!Ends(s) /\ UNCHANGED <<owner, late>>
  BY <1>1, <1>2, LockIsLeft, ClientIsLetGo
<1>3. CASE /\ Len(owner) < MaxClients
           /\ owner' = Append(owner, send[s].loop)
           /\ cached' = Len(owner')
           /\ late' = IF send[s].loop = loop THEN late ELSE late \cup {cached'}
           /\ dropped' = dropped \cup (IF {cached, cached'} \cap late' = {} THEN {} ELSE {cached} \ {0})
           /\ Channel!Goes(s, "send")
  BY <1>1, <1>3, ClientIsMade DEF Channel!Goes
<1> QED BY <1>2, <1>3 DEF Channel!Connected

LEMMA SendStep == ASSUME ChannelInv, NEW s \in Sends, Channel!Send(s) PROVE ChannelInv'
<1>1. /\ send[s].at = "send" /\ send[s].loop # 0
      /\ UNCHANGED <<loop, loops, stopped, cached, owner, lock, closing, drained, dropped, late>>
  BY DEF Channel!Send, ChannelInv, Routed
<1>2. CASE cached = 0
  BY <1>1, <1>2, IdleIsSending, SendGoesOn DEF Channel!Send, Channel!Ends, Channel!Idle
<1>3. CASE cached # 0
  <2> DEFINE r == [send[s] EXCEPT !.at = "publish", !.on = cached]
  <2>1. send \in [Sends -> Sending] /\ cached \in 0..Len(owner)
    BY DEF ChannelInv, Channel!TypeOK, Sending
  <2>2. send' = [send EXCEPT ![s] = r]
    BY <1>3, <2>1 DEF Channel!Send
  <2>3. r \in Sending /\ r.at = "publish" /\ r.loop # 0
    BY <1>1, <2>1 DEF Sending
  <2> HIDE DEF r
  <2> QED BY <1>1, <2>2, <2>3, SendGoesOn
<1> QED BY <1>2, <1>3

LEMMA PublishedStep == ASSUME ChannelInv, NEW s \in Sends, Channel!Published(s) PROVE ChannelInv'
<1>1. /\ send[s].at = "publish" /\ Channel!Ends(s)
      /\ UNCHANGED <<loop, loops, stopped, owner, lock, closing, drained, late>>
  BY DEF Channel!Published
<1>2. CASE UNCHANGED <<cached, dropped>>
  BY <1>1, <1>2, IdleIsSending, SendGoesOn DEF Channel!Ends, Channel!Idle
<1>3. CASE Channel!LetsGo
  <2>1. lock' \in [1..MaxLoops -> LockState]
    BY <1>1 DEF ChannelInv, Channel!TypeOK, LockState
  <2>2. \A p \in Sends \ {s} : send[p].at = "connect" => lock'[send[p].lock].holder = p
    BY <1>1 DEF ChannelInv, Routed
  <2> QED BY <1>1, <1>3, <2>1, <2>2, ClientIsLetGo
<1> QED BY <1>2, <1>3 DEF Channel!Published

LEMMA CloseStep == ASSUME ChannelInv, Channel!Close PROVE ChannelInv'
<1>1. /\ closing.at = "no" /\ loop # 0 /\ loop' = 0 /\ cached' = 0
      /\ closing' = [at |-> IF cached = 0 THEN "stop" ELSE "drain", loop |-> loop, on |-> cached]
      /\ UNCHANGED <<loops, stopped, owner, lock, send, drained, dropped, late>>
  BY DEF Channel!Close
<1>2. closing.on = 0 /\ cached \in 0..Len(owner) /\ loop \in 0..loops /\ loops \in 0..MaxLoops
  BY <1>1 DEF ChannelInv, Channel!TypeOK, ClosingIsKnown
<1>3. /\ closing' \in [at : {"no", "drain", "stop"}, loop : 0..loops, on : 0..Len(owner)]
      /\ closing'.at \in {"stop", "drain"} /\ closing'.loop = loop /\ closing'.on = cached
      /\ closing'.at = "drain" <=> cached # 0
  <2>1. CASE cached = 0
    BY <1>1, <1>2, <2>1
  <2>2. CASE cached # 0
    BY <1>1, <1>2, <2>2
  <2> QED BY <2>1, <2>2
<1>4. Channel!TypeOK'
  BY <1>1, <1>2, <1>3 DEF ChannelInv, Channel!TypeOK, Channel!Loops, Channel!Clients
<1>5. \A p \in Sends : Routed(p)'
  BY <1>1 DEF ChannelInv, Routed
<1>6. Channel!ClientIsOfTheLoop' /\ Channel!ClientsAreHeld'
  BY <1>1, <1>2, <1>3 DEF ChannelInv, Channel!ClientIsOfTheLoop, Channel!ClientsAreHeld, Channel!Clients
<1> QED BY <1>1, <1>3, <1>4, <1>5, <1>6 DEF LoopIsNewest, ClosingIsKnown, ChannelInv

LEMMA DrainedStep == ASSUME ChannelInv, Channel!Drained PROVE ChannelInv'
<1>1. /\ closing.at = "drain" /\ closing' = [closing EXCEPT !.at = "stop", !.on = 0]
      /\ \/ drained' = drained \cup {closing.on} /\ UNCHANGED dropped
         \/ dropped' = dropped \cup {closing.on} /\ UNCHANGED drained
      /\ UNCHANGED <<loop, loops, stopped, cached, owner, lock, send, late>>
  BY DEF Channel!Drained
<1>2. /\ closing \in [at : {"no", "drain", "stop"}, loop : 0..loops, on : 0..Len(owner)]
      /\ Len(owner) \in Nat /\ closing.on \in 1..Len(owner) /\ closing.loop # 0
  BY <1>1 DEF ChannelInv, Channel!TypeOK, ClosingIsKnown
<1>3. /\ closing' \in [at : {"no", "drain", "stop"}, loop : 0..loops, on : 0..Len(owner)]
      /\ closing'.at = "stop" /\ closing'.loop = closing.loop /\ closing'.on = 0
  <2>1. 0 \in 0..Len(owner) /\ "stop" \in {"no", "drain", "stop"}
    BY <1>2
  <2> QED BY <1>1, <1>2, <2>1
<1>4. Channel!TypeOK'
  BY <1>1, <1>2, <1>3 DEF ChannelInv, Channel!TypeOK, Channel!Loops, Channel!Clients
<1>5. \A p \in Sends : Routed(p)'
  BY <1>1 DEF ChannelInv, Routed
<1>6. Channel!ClientIsOfTheLoop' /\ Channel!ClientsAreHeld'
  BY <1>1, <1>2, <1>3 DEF ChannelInv, Channel!ClientIsOfTheLoop, Channel!ClientsAreHeld, Channel!Clients
<1> QED BY <1>1, <1>2, <1>3, <1>4, <1>5, <1>6 DEF LoopIsNewest, ClosingIsKnown, ChannelInv

LEMMA StopStep == ASSUME ChannelInv, Channel!Stop PROVE ChannelInv'
<1>1. /\ closing.at = "stop" /\ closing' = [at |-> "no", loop |-> 0, on |-> 0]
      /\ stopped' = stopped \cup {closing.loop}
      /\ send' = [s \in Sends |-> IF s \in Channel!Abandoned THEN Channel!Idle ELSE send[s]]
      /\ UNCHANGED <<loop, loops, cached, owner, drained, dropped, late>>
  BY DEF Channel!Stop
<1>2. /\ closing.on = 0 /\ closing.loop \in 1..loops /\ Len(owner) \in Nat
      /\ send \in [Sends -> Sending] /\ lock \in [1..MaxLoops -> LockState]
  BY <1>1, ChannelBounds DEF ChannelInv, Channel!TypeOK, ClosingIsKnown, Sending, LockState
<1>3. /\ send' \in [Sends -> Sending]
      /\ \A p \in Sends : send'[p] = send[p] \/ send'[p] = Channel!Idle
  BY <1>1, <1>2, IdleIsSending
<1>4. /\ lock' \in [1..MaxLoops -> LockState]
      /\ \A l \in 1..MaxLoops : lock'[l].holder = lock[l].holder
  <2> DEFINE LeftNow(l) == lock[l].left \/ Channel!Waiters(l) \cap Channel!Abandoned # {}
  <2>1. lock' = [l \in 1..MaxLoops |-> [lock[l] EXCEPT !.left = LeftNow(l)]]
    BY DEF Channel!Stop
  <2>2. \A l \in 1..MaxLoops : LeftNow(l) \in BOOLEAN
    OBVIOUS
  <2> HIDE DEF LeftNow
  <2> QED BY <1>2, <2>1, <2>2 DEF LockState
<1>5. Channel!TypeOK'
  <2>1. stopped' \subseteq Channel!Loops
    BY <1>1, <1>2 DEF ChannelInv, Channel!TypeOK, Channel!Loops
  <2>2. closing' \in [at : {"no", "drain", "stop"}, loop : 0..loops, on : 0..Len(owner)]
    <3>1. loops \in Nat /\ 0 \in 0..loops /\ 0 \in 0..Len(owner)
      BY <1>2 DEF ChannelInv, Channel!TypeOK
    <3> QED BY <1>1, <3>1
  <2> QED BY <1>1, <1>3, <1>4, <2>1, <2>2
       DEF ChannelInv, Channel!TypeOK, Sending, LockState, Channel!Loops, Channel!Clients
<1>6. ASSUME NEW p \in Sends PROVE Routed(p)'
  <2>1. Routed(p) /\ (send[p].at = "connect" => send[p].lock \in 1..MaxLoops)
    <3>1. Routed(p) /\ loops \in 0..MaxLoops /\ send[p].lock \in 0..loops
      BY DEF ChannelInv, Channel!TypeOK
    <3> QED BY <3>1, ChannelBounds DEF Routed
  <2>2. CASE send'[p] = Channel!Idle
    BY <2>2 DEF Routed, Channel!Idle
  <2>3. CASE send'[p] = send[p]
    BY <1>1, <1>4, <2>1, <2>3 DEF Routed
  <2> QED BY <1>3, <2>2, <2>3
<1>7. Channel!ClientIsOfTheLoop' /\ Channel!ClientsAreHeld'
  BY <1>1, <1>2 DEF ChannelInv, Channel!ClientIsOfTheLoop, Channel!ClientsAreHeld, Channel!Clients
<1> QED BY <1>1, <1>5, <1>6, <1>7 DEF LoopIsNewest, ClosingIsKnown, ChannelInv

LEMMA ChannelStep == ChannelInv /\ [Channel!Next]_(Channel!vars) => ChannelInv'
<1> SUFFICES ASSUME ChannelInv, [Channel!Next]_(Channel!vars) PROVE ChannelInv'
  OBVIOUS
<1>1. CASE Channel!Next
  BY <1>1, EnsureStep, EnsureFailsStep, ScheduleStep, BeginStep, LockedStep, ConnectedStep, SendStep,
     PublishedStep, CloseStep, DrainedStep, StopStep DEF Channel!Next
<1>2. CASE UNCHANGED Channel!vars
  BY <1>2 DEF Channel!vars, ChannelInv, Channel!TypeOK, LoopIsNewest, ClosingIsKnown, Routed,
     Channel!ClientIsOfTheLoop, Channel!ClientsAreHeld, Channel!Clients, Channel!Loops
<1> QED BY <1>1, <1>2

\* opennvr_app_sdk/alerts.py: whatever sends, failures and closes come together, the
\* channel's client is of its loop and no client is lost sight of, but for connects
\* that outlived the close of their loop; for any number of senders and loops.
THEOREM ClientsAreKept ==
  Channel!Spec => [](Channel!TypeOK /\ Channel!ClientIsOfTheLoop /\ Channel!ClientsAreHeld)
<1>1. ChannelInv => Channel!TypeOK /\ Channel!ClientIsOfTheLoop /\ Channel!ClientsAreHeld
  BY DEF ChannelInv
<1> QED BY <1>1, ChannelStart, ChannelStep, PTL DEF Channel!Spec

------------------------------------------------------------------------------
(* The standing rules *)

LEMMA SameOperators ==
  /\ \A S : Agent!Cardinality(S) = Cardinality(S)
  /\ \A K, n : Agent!Place(K, n) = Place(K, n)
  /\ \A list, K : Agent!Kept(list, K) = Kept(list, K)
<1>1. \A S : Agent!Cardinality(S) = Cardinality(S)
  BY DEF Agent!Cardinality, Cardinality
<1>2. \A K, n : Agent!Place(K, n) = Place(K, n)
  BY <1>1 DEF Agent!Place, Place
<1> QED BY <1>1, <1>2 DEF Agent!Kept, Kept

LEMMA AgentBounds ==
  /\ NumCameras \in Nat /\ NumCameras > 0 /\ Rearm \in Nat /\ Pulse \in Nat /\ Every \in Nat
  /\ MaxAlarms \in Nat /\ MaxMonitors \in Nat /\ MaxSchedules \in Nat
  /\ MaxAlarms > 0 /\ MaxMonitors > 0 /\ MaxSchedules > 0
  /\ MaxCreated \in Nat /\ MaxBoots \in Nat
  BY AppsAssumption DEF Agent!AgentAssumption

LEMMA ManagersAre == Agent!Managers = {"alarms", "monitors", "reports"}
  BY DEF Agent!Managers, Agent!Kinds

LEMMA MaxRulesType == \A m \in Agent!Managers : Agent!MaxRules[m] \in Nat /\ Agent!MaxRules[m] > 0
  BY AgentBounds, ManagersAre DEF Agent!MaxRules

LEMMA AskedIsKnown ==
  \A m \in Agent!Managers : \A spec \in Asked[m] :
    /\ [name |-> spec.name, kind |-> spec.kind] = spec
    /\ spec.kind \in Agent!Kinds[m]
  BY AppsAssumption DEF Agent!AgentAssumption, Agent!SpecOf

LEMMA FarIsNat == Agent!Far \in Nat /\ 0 \in Agent!Ages /\ Agent!Far \in Agent!Ages
<1> DEFINE S == {Rearm, Pulse, Every}
<1>1. \E x \in S : \A y \in S : x >= y
  BY AgentBounds
<1>2. Agent!Far \in S
  BY <1>1 DEF Agent!Far, Agent!Max
<1> QED BY <1>2, AgentBounds DEF Agent!Ages

\* A rule as a manager keeps it: asked of that manager, polling as long as cameras
\* are left, ringing only while it is armed.
RuleOK(m, r) ==
  /\ r \in Agent!Rule(m)
  /\ Agent!SpecOf(r) \in Asked[m]
  /\ r.left > 0 <=> r.task = "polling"
  /\ r.triggered => r.active /\ r.kind \in Agent!Latching
  /\ r.task \in {"asleep", "polling"} => r.active

\* A rule that goes on: it is asked for, and armed or not, as before
GoesOn(m, r, next) ==
  RuleOK(m, next) /\ Agent!SpecOf(next) = Agent!SpecOf(r) /\ (next.active <=> r.active)

LEMMA StoppedIsOK ==
  ASSUME NEW m \in Agent!Managers, NEW r, RuleOK(m, r)
  PROVE  /\ RuleOK(m, Agent!Stopped(r)) /\ ~Agent!Stopped(r).active
         /\ Agent!SpecOf(Agent!Stopped(r)) = Agent!SpecOf(r)
<1> DEFINE q == Agent!Stopped(r)
<1>1. r \in Agent!Rule(m) /\ Agent!SpecOf(r) \in Asked[m] /\ 0 \in 0..NumCameras
  BY AgentBounds DEF RuleOK
<1>2. /\ q \in Agent!Rule(m) /\ q.name = r.name /\ q.kind = r.kind
      /\ q.active = FALSE /\ q.triggered = FALSE /\ q.task = "none" /\ q.left = 0
  BY <1>1 DEF Agent!Rule, Agent!Stopped
<1> HIDE DEF q
<1>3. Agent!SpecOf(q) = Agent!SpecOf(r)
  BY <1>2 DEF Agent!SpecOf
<1>4. (q.left > 0 <=> q.task = "polling") /\ q.task \notin {"asleep", "polling"} /\ ~q.triggered /\ ~q.active
  BY <1>2
<1> QED BY <1>1, <1>2, <1>3, <1>4 DEF RuleOK, q

LEMMA StoodDownIsOK ==
  ASSUME NEW m \in Agent!Managers, NEW r, RuleOK(m, r)
  PROVE  GoesOn(m, r, Agent!StoodDown(r))
<1>1. CASE r.kind = "pulse" /\ r.triggered /\ r.rang[1] >= Pulse
  <2>1. Agent!StoodDown(r) = [r EXCEPT !.triggered = FALSE, !.ack = 0]
    BY <1>1 DEF Agent!StoodDown
  <2> QED BY <2>1, FarIsNat DEF GoesOn, RuleOK, Agent!Rule, Agent!SpecOf
<1>2. CASE ~(r.kind = "pulse" /\ r.triggered /\ r.rang[1] >= Pulse)
  BY <1>2 DEF Agent!StoodDown, GoesOn
<1> QED BY <1>1, <1>2

LEMMA RungIsOK ==
  ASSUME NEW m \in Agent!Managers, NEW r, RuleOK(m, r), r.active, NEW c \in 1..NumCameras
  PROVE  GoesOn(m, r, Agent!Rung(r, c)) /\ Agent!Rung(r, c).task = r.task /\ Agent!Rung(r, c).left = r.left
<1> DEFINE q == Agent!Rung(r, c)
<1>1. r \in Agent!Rule(m) /\ 1 \in 1..NumCameras
  BY AgentBounds DEF RuleOK
<1>2. /\ q \in Agent!Rule(m) /\ q.name = r.name /\ q.kind = r.kind /\ q.active = r.active
      /\ q.task = r.task /\ q.left = r.left
      /\ q.triggered => r.triggered \/ r.kind \in Agent!Latching
  <2>1. CASE q = [r EXCEPT !.triggered = TRUE, !.rang[1] = 0] /\ r.kind \in Agent!Latching
    <3>1. [r.rang EXCEPT ![1] = 0] \in [1..NumCameras -> Agent!Ages]
      BY <1>1, FarIsNat DEF Agent!Rule
    <3>2. q = [r EXCEPT !.triggered = TRUE, !.rang = [r.rang EXCEPT ![1] = 0]]
      BY <2>1
    <3> HIDE DEF q
    <3> QED BY <1>1, <2>1, <3>1, <3>2 DEF Agent!Rule
  <2>2. ASSUME NEW k \in 1..NumCameras, q = [r EXCEPT !.rang[k] = 0]
        PROVE  /\ q \in Agent!Rule(m) /\ q.name = r.name /\ q.kind = r.kind /\ q.active = r.active
               /\ q.task = r.task /\ q.left = r.left /\ q.triggered = r.triggered
    <3>1. [r.rang EXCEPT ![k] = 0] \in [1..NumCameras -> Agent!Ages]
      BY <1>1, FarIsNat DEF Agent!Rule
    <3>2. q = [r EXCEPT !.rang = [r.rang EXCEPT ![k] = 0]]
      BY <2>2
    <3> HIDE DEF q
    <3> QED BY <1>1, <3>1, <3>2 DEF Agent!Rule
  <2>3. CASE q = r
    BY <1>1, <2>3
  <2>4. \/ q = [r EXCEPT !.triggered = TRUE, !.rang[1] = 0] /\ r.kind \in Agent!Latching
        \/ q = [r EXCEPT !.rang[1] = 0] \/ q = [r EXCEPT !.rang[c] = 0] \/ q = r
    BY DEF Agent!Rung
  <2> HIDE DEF q
  <2> QED BY <1>1, <2>1, <2>2, <2>3, <2>4
<1> HIDE DEF q
<1>3. Agent!SpecOf(q) = Agent!SpecOf(r)
  BY <1>2 DEF Agent!SpecOf
<1>4. RuleOK(m, q)
  BY <1>2, <1>3 DEF RuleOK
<1> QED BY <1>2, <1>3, <1>4 DEF GoesOn, q

LEMMA PolledIsOK ==
  ASSUME NEW m \in Agent!Managers, NEW r, RuleOK(m, r), r.task = "polling"
  PROVE  GoesOn(m, r, Agent!Polled(r))
<1>1. r.left \in 0..NumCameras /\ r.left > 0 /\ r.active
  BY DEF RuleOK, Agent!Rule
<1>2. CASE r.left = 1
  <2> DEFINE q == [r EXCEPT !.task = "asleep", !.left = 0]
  <2>1. GoesOn(m, r, q)
    <3>1. r \in Agent!Rule(m) /\ 0 \in 0..NumCameras
      BY AgentBounds DEF RuleOK
    <3>2. /\ q \in Agent!Rule(m) /\ q.name = r.name /\ q.kind = r.kind /\ q.active = r.active
          /\ q.triggered = r.triggered /\ q.task = "asleep" /\ q.left = 0
      BY <3>1 DEF Agent!Rule
    <3> HIDE DEF q
    <3>3. Agent!SpecOf(q) = Agent!SpecOf(r)
      BY <3>2 DEF Agent!SpecOf
    <3> QED BY <1>1, <3>2, <3>3 DEF GoesOn, RuleOK
  <2>2. Agent!Polled(r) = Agent!StoodDown(q)
    BY <1>2 DEF Agent!Polled, Agent!CycleEnds
  <2> HIDE DEF q
  <2>3. GoesOn(m, q, Agent!StoodDown(q))
    BY <2>1, StoodDownIsOK DEF GoesOn
  <2> QED BY <2>1, <2>2, <2>3 DEF GoesOn
<1>3. CASE r.left # 1
  <2>1. Agent!Polled(r) = [r EXCEPT !.left = r.left - 1] /\ r.left - 1 \in 0..NumCameras /\ r.left - 1 > 0
    BY <1>1, <1>3, AgentBounds DEF Agent!Polled
  <2> QED BY <2>1 DEF GoesOn, RuleOK, Agent!Rule, Agent!SpecOf
<1> QED BY <1>2, <1>3

LEMMA NewIsOK ==
  ASSUME NEW m \in Agent!Managers, NEW id \in 1..MaxCreated, NEW spec \in Asked[m]
  PROVE  /\ RuleOK(m, Agent!New(m, id, spec)) /\ Agent!New(m, id, spec).active
         /\ Agent!SpecOf(Agent!New(m, id, spec)) = spec
<1> DEFINE r == Agent!New(m, id, spec)
           task == IF m = "reports" THEN "none" ELSE "asleep"
           rang == [c \in 1..NumCameras |-> Agent!Far]
<1>1. r = [id |-> id, name |-> spec.name, kind |-> spec.kind, active |-> TRUE, triggered |-> FALSE,
           task |-> task, left |-> 0, ack |-> Agent!Far, rang |-> rang]
  BY DEF Agent!New
<1>2. task \in {"asleep", "none"} /\ rang \in [1..NumCameras -> Agent!Ages] /\ 0 \in 0..NumCameras
  BY FarIsNat, AgentBounds
<1>3. spec.kind \in Agent!Kinds[m] /\ Agent!SpecOf(r) = spec
  BY <1>1, AskedIsKnown DEF Agent!SpecOf
<1>4. r \in Agent!Rule(m)
  BY <1>1, <1>2, <1>3, FarIsNat DEF Agent!Rule
<1> HIDE DEF task, rang
<1> QED BY <1>1, <1>2, <1>3, <1>4 DEF RuleOK

\* The state file depends on what is armed and asked for, and on nothing else.
LEMMA ExportSame ==
  ASSUME NEW n \in Nat, NEW a, NEW b, DOMAIN a = 1..n, DOMAIN b = 1..n,
         \A i \in 1..n : (a[i].active <=> b[i].active) /\ Agent!SpecOf(a[i]) = Agent!SpecOf(b[i])
  PROVE  Agent!Export(a) = Agent!Export(b)
<1> DEFINE K == {i \in DOMAIN a : a[i].active}
<1>1. {i \in DOMAIN b : b[i].active} = K
  OBVIOUS
<1>2. K \in SUBSET (1..n)
  OBVIOUS
<1> HIDE DEF K
<1>3. \A x \in 1..Cardinality(K) : Place(K, x) \in K
  BY <1>2, KeptPlaces
<1>4. /\ DOMAIN Kept(a, K) = 1..Cardinality(K) /\ \A x \in 1..Cardinality(K) : Kept(a, K)[x] = a[Place(K, x)]
      /\ DOMAIN Kept(b, K) = 1..Cardinality(K) /\ \A x \in 1..Cardinality(K) : Kept(b, K)[x] = b[Place(K, x)]
  BY DEF Kept
<1>5. \A x \in 1..Cardinality(K) : Agent!SpecOf(Kept(a, K)[x]) = Agent!SpecOf(Kept(b, K)[x])
  BY <1>2, <1>3, <1>4
<1>6. /\ Agent!Export(a) = [x \in DOMAIN Kept(a, K) |-> Agent!SpecOf(Kept(a, K)[x])]
      /\ Agent!Export(b) = [x \in DOMAIN Kept(b, K) |-> Agent!SpecOf(Kept(b, K)[x])]
  BY <1>1, SameOperators DEF Agent!Export, K
<1> QED BY <1>4, <1>5, <1>6

LEMMA ExportType ==
  ASSUME NEW R, NEW T, NEW list \in Seq(R), \A i \in 1..Len(list) : Agent!SpecOf(list[i]) \in T
  PROVE  Agent!Export(list) \in Seq(T) /\ Len(Agent!Export(list)) <= Len(list)
<1> DEFINE K == {i \in DOMAIN list : list[i].active}
<1>1. K \in SUBSET (1..Len(list)) /\ Len(list) \in Nat
  OBVIOUS
<1> HIDE DEF K
<1>2. /\ Kept(list, K) \in Seq(R) /\ Len(Kept(list, K)) = Cardinality(K) /\ Cardinality(K) \in 0..Len(list)
      /\ \A x \in 1..Cardinality(K) : Place(K, x) \in K /\ Kept(list, K)[x] = list[Place(K, x)]
  BY <1>1, KeptItems
<1>3. Agent!Export(list) = [x \in 1..Cardinality(K) |-> Agent!SpecOf(Kept(list, K)[x])]
  BY <1>2, SameOperators DEF Agent!Export, K
<1>4. \A x \in 1..Cardinality(K) : Agent!SpecOf(Kept(list, K)[x]) \in T
  BY <1>1, <1>2
<1>5. Agent!Export(list) \in [1..Cardinality(K) -> T] /\ Cardinality(K) \in Nat
  BY <1>1, <1>2, <1>3, <1>4
<1> QED BY <1>1, <1>2, <1>5

\* If all are armed, the file has each of them.
LEMMA ExportWhole ==
  ASSUME NEW R, NEW list \in Seq(R), \A i \in 1..Len(list) : list[i].active
  PROVE  Agent!Export(list) = [i \in 1..Len(list) |-> Agent!SpecOf(list[i])]
<1> DEFINE K == {i \in DOMAIN list : list[i].active}
<1>1. K = 1..Len(list) /\ Len(list) \in Nat
  OBVIOUS
<1>2. Cardinality(1..Len(list)) = Len(list)
  <2>1. Cardinality(1..Len(list)) = IF 1 > Len(list) THEN 0 ELSE Len(list) - 1 + 1
    BY <1>1, FS_Interval
  <2> QED BY <1>1, <2>1
<1> HIDE DEF K
<1>3. Kept(list, K) = list
  BY <1>1, <1>2, KeptWhole
<1>4. Agent!Export(list) = [x \in DOMAIN Kept(list, K) |-> Agent!SpecOf(Kept(list, K)[x])]
  BY SameOperators DEF Agent!Export, K
<1> QED BY <1>1, <1>3, <1>4

RulesOK(m, list) == list \in Seq(Agent!Rule(m)) /\ \A i \in 1..Len(list) : RuleOK(m, list[i])

\* The list with what was deleted armed again, whose active rules the file has
Undeleted(list, deleted) == [i \in DOMAIN list |-> [list[i] EXCEPT !.active = @ \/ i \in deleted]]

SavedAs(m, list, file) ==
  \E deleted \in SUBSET DOMAIN list :
    (m # "reports" => deleted = {}) /\ file = Agent!Export(Undeleted(list, deleted))

LEMMA UndeletedIs ==
  ASSUME NEW m \in Agent!Managers, NEW list, RulesOK(m, list), NEW deleted \in SUBSET DOMAIN list
  PROVE  /\ DOMAIN Undeleted(list, deleted) = 1..Len(list) /\ DOMAIN list = 1..Len(list) /\ Len(list) \in Nat
         /\ \A i \in 1..Len(list) :
              /\ Undeleted(list, deleted)[i].active <=> list[i].active \/ i \in deleted
              /\ Agent!SpecOf(Undeleted(list, deleted)[i]) = Agent!SpecOf(list[i])
<1>1. list \in Seq(Agent!Rule(m)) /\ DOMAIN list = 1..Len(list) /\ Len(list) \in Nat
  BY DEF RulesOK
<1>2. DOMAIN Undeleted(list, deleted) = 1..Len(list)
  BY <1>1 DEF Undeleted
<1>3. ASSUME NEW i \in 1..Len(list)
      PROVE  /\ Undeleted(list, deleted)[i].active <=> list[i].active \/ i \in deleted
             /\ Agent!SpecOf(Undeleted(list, deleted)[i]) = Agent!SpecOf(list[i])
  <2> DEFINE r == list[i]
             b == list[i].active \/ i \in deleted
             q == [r EXCEPT !.active = b]
  <2>1. Undeleted(list, deleted)[i] = q
    BY <1>1 DEF Undeleted
  <2>2. r \in Agent!Rule(m) /\ b \in BOOLEAN
    BY <1>1
  <2>3. b <=> list[i].active \/ i \in deleted
    OBVIOUS
  <2> HIDE DEF b
  <2>4. q.active = b /\ q.name = r.name /\ q.kind = r.kind
    BY <2>2 DEF Agent!Rule
  <2> QED BY <2>1, <2>3, <2>4 DEF Agent!SpecOf
<1> QED BY <1>1, <1>2, <1>3

\* A list and the file it was just written to.
LEMMA SavedNow ==
  ASSUME NEW m \in Agent!Managers, NEW list, RulesOK(m, list)
  PROVE  /\ SavedAs(m, list, Agent!Export(list))
         /\ Agent!Export(list) \in Seq(Asked[m]) /\ Len(Agent!Export(list)) <= Len(list)
<1>1. list \in Seq(Agent!Rule(m)) /\ \A i \in 1..Len(list) : Agent!SpecOf(list[i]) \in Asked[m]
  BY DEF RulesOK, RuleOK
<1>2. Agent!Export(list) = Agent!Export(Undeleted(list, {}))
  <2>1. {} \in SUBSET DOMAIN list
    OBVIOUS
  <2>2. /\ DOMAIN Undeleted(list, {}) = 1..Len(list) /\ DOMAIN list = 1..Len(list) /\ Len(list) \in Nat
        /\ \A i \in 1..Len(list) :
             /\ Undeleted(list, {})[i].active <=> list[i].active
             /\ Agent!SpecOf(Undeleted(list, {})[i]) = Agent!SpecOf(list[i])
    BY <2>1, UndeletedIs
  <2> QED BY <2>2, ExportSame
<1>3. SavedAs(m, list, Agent!Export(list))
  BY <1>2 DEF SavedAs
<1> QED BY <1>1, <1>3, ExportType

\* Rules go on, and reports are deleted, without the file: it still has what it had.
LEMMA SavedStill ==
  ASSUME NEW m \in Agent!Managers, NEW list, RulesOK(m, list), NEW next, RulesOK(m, next),
         Len(next) = Len(list), NEW gone \in SUBSET (1..Len(list)), m # "reports" => gone = {},
         \A i \in 1..Len(list) : /\ Agent!SpecOf(next[i]) = Agent!SpecOf(list[i])
                                 /\ i \notin gone => (next[i].active <=> list[i].active)
                                 /\ i \in gone => list[i].active /\ ~next[i].active,
         NEW file, SavedAs(m, list, file)
  PROVE  SavedAs(m, next, file)
<1>1. PICK deleted \in SUBSET DOMAIN list :
        (m # "reports" => deleted = {}) /\ file = Agent!Export(Undeleted(list, deleted))
  BY DEF SavedAs
<1> DEFINE more == deleted \cup gone
<1>2. DOMAIN list = 1..Len(list) /\ DOMAIN next = 1..Len(list) /\ Len(list) \in Nat
  BY DEF RulesOK
<1>3. more \in SUBSET DOMAIN next /\ (m # "reports" => more = {})
  BY <1>1, <1>2
<1>4. /\ DOMAIN Undeleted(list, deleted) = 1..Len(list)
      /\ \A i \in 1..Len(list) :
           /\ Undeleted(list, deleted)[i].active <=> list[i].active \/ i \in deleted
           /\ Agent!SpecOf(Undeleted(list, deleted)[i]) = Agent!SpecOf(list[i])
  BY <1>1, UndeletedIs
<1>5. /\ DOMAIN Undeleted(next, more) = 1..Len(list)
      /\ \A i \in 1..Len(list) :
           /\ Undeleted(next, more)[i].active <=> next[i].active \/ i \in more
           /\ Agent!SpecOf(Undeleted(next, more)[i]) = Agent!SpecOf(next[i])
  BY <1>3, UndeletedIs
<1>6. \A i \in 1..Len(list) :
        /\ Undeleted(list, deleted)[i].active <=> Undeleted(next, more)[i].active
        /\ Agent!SpecOf(Undeleted(list, deleted)[i]) = Agent!SpecOf(Undeleted(next, more)[i])
  BY <1>4, <1>5
<1> HIDE DEF more
<1>7. Agent!Export(Undeleted(list, deleted)) = Agent!Export(Undeleted(next, more))
  BY <1>2, <1>4, <1>5, <1>6, ExportSame
<1> QED BY <1>1, <1>3, <1>7 DEF SavedAs

\* What holds of the three managers: their types, no more rules than ids were given
\* out, and a file that has what is armed.
AgentInv ==
  /\ DOMAIN rules = Agent!Managers /\ DOMAIN saved = Agent!Managers
  /\ \A m \in Agent!Managers :
       /\ RulesOK(m, rules[m]) /\ Len(rules[m]) <= Agent!MaxRules[m] /\ Len(rules[m]) <= created[m]
       /\ saved[m] \in Seq(Asked[m]) /\ Len(saved[m]) <= Agent!MaxRules[m] /\ Len(saved[m]) <= created[m]
       /\ SavedAs(m, rules[m], saved[m])
  /\ created \in [Agent!Managers -> 0..MaxCreated]
  /\ pass \in Seq(1..MaxCreated) /\ report \in 0..MaxCreated
  /\ boots \in 0..MaxBoots

LEMMA AgentInvImplies == AgentInv => Agent!TypeOK /\ Agent!SavedIsArmed
<1> SUFFICES ASSUME AgentInv PROVE Agent!TypeOK /\ Agent!SavedIsArmed
  OBVIOUS
<1>1. ASSUME NEW m \in Agent!Managers
      PROVE  /\ rules[m] \in Seq(Agent!Rule(m)) /\ Len(rules[m]) <= Agent!MaxRules[m]
             /\ \A r \in Agent!Range(rules[m]) : RuleOK(m, r)
  <2>1. rules[m] \in Seq(Agent!Rule(m)) /\ \A i \in 1..Len(rules[m]) : RuleOK(m, rules[m][i])
    BY DEF AgentInv, RulesOK
  <2>2. \A r \in Agent!Range(rules[m]) : \E i \in 1..Len(rules[m]) : r = rules[m][i]
    BY <2>1 DEF Agent!Range
  <2> QED BY <2>1, <2>2 DEF AgentInv
<1>2. Agent!TypeOK
  BY <1>1 DEF AgentInv, Agent!TypeOK, RuleOK
<1>3. Agent!SavedIsArmed
  BY DEF AgentInv, Agent!SavedIsArmed, SavedAs, Undeleted
<1> QED BY <1>2, <1>3

LEMMA ListIsOK ==
  ASSUME NEW m \in Agent!Managers, NEW n \in Nat, NEW list, list = [i \in 1..n |-> list[i]],
         \A i \in 1..n : RuleOK(m, list[i])
  PROVE  RulesOK(m, list) /\ Len(list) = n
<1>1. list \in [1..n -> Agent!Rule(m)]
  BY DEF RuleOK
<1>2. list \in Seq(Agent!Rule(m)) /\ Len(list) = n
  BY <1>1
<1> QED BY <1>2 DEF RulesOK

LEMMA ManagedRules ==
  ASSUME AgentInv, NEW m \in Agent!Managers
  PROVE  /\ rules[m] = [i \in 1..Len(rules[m]) |-> rules[m][i]] /\ Len(rules[m]) \in Nat
         /\ DOMAIN rules[m] = 1..Len(rules[m])
         /\ \A i \in 1..Len(rules[m]) : RuleOK(m, rules[m][i]) /\ GoesOn(m, rules[m][i], rules[m][i])
  BY DEF AgentInv, RulesOK, GoesOn

\* Rules go on, each in its place, and nothing is saved.
LEMMA RulesGoOn ==
  ASSUME AgentInv, DOMAIN rules' = DOMAIN rules,
         \A m \in Agent!Managers :
           /\ rules'[m] = [i \in 1..Len(rules[m]) |-> rules'[m][i]]
           /\ \A i \in 1..Len(rules[m]) : GoesOn(m, rules[m][i], rules'[m][i]),
         UNCHANGED <<created, saved, boots>>,
         pass' \in Seq(1..MaxCreated), report' \in 0..MaxCreated
  PROVE  AgentInv'
<1>1. ASSUME NEW m \in Agent!Managers
      PROVE  RulesOK(m, rules'[m]) /\ Len(rules'[m]) = Len(rules[m]) /\ SavedAs(m, rules'[m], saved[m])
  <2>1. Len(rules[m]) \in Nat /\ RulesOK(m, rules[m]) /\ SavedAs(m, rules[m], saved[m])
    BY ManagedRules DEF AgentInv
  <2>2. RulesOK(m, rules'[m]) /\ Len(rules'[m]) = Len(rules[m])
    <3>1. \A i \in 1..Len(rules[m]) : RuleOK(m, rules'[m][i])
      BY DEF GoesOn
    <3> QED BY <2>1, <3>1, ListIsOK
  <2>3. \A i \in 1..Len(rules[m]) : /\ Agent!SpecOf(rules'[m][i]) = Agent!SpecOf(rules[m][i])
                                    /\ rules'[m][i].active <=> rules[m][i].active
    BY DEF GoesOn
  <2>4. SavedAs(m, rules'[m], saved[m])
    <3>1. {} \in SUBSET (1..Len(rules[m]))
      OBVIOUS
    <3> QED BY <2>1, <2>2, <2>3, <3>1, SavedStill
  <2> QED BY <2>2, <2>4
<1> QED BY <1>1 DEF AgentInv

LEMMA BecomesStep ==
  ASSUME AgentInv, NEW m \in Agent!Managers, NEW i \in 1..Len(rules[m]), NEW r,
         GoesOn(m, rules[m][i], r), Agent!Becomes(m, i, r)
  PROVE  AgentInv'
<1>1. /\ rules' = [rules EXCEPT ![m] = [rules[m] EXCEPT ![i] = r]]
      /\ UNCHANGED <<created, saved, pass, report, boots>>
  BY DEF Agent!Becomes
<1>2. DOMAIN rules' = DOMAIN rules /\ DOMAIN rules = Agent!Managers
  BY <1>1 DEF AgentInv
<1>3. ASSUME NEW k \in Agent!Managers
      PROVE  /\ rules'[k] = [j \in 1..Len(rules[k]) |-> rules'[k][j]]
             /\ \A j \in 1..Len(rules[k]) : GoesOn(k, rules[k][j], rules'[k][j])
  <2>1. /\ rules[k] = [j \in 1..Len(rules[k]) |-> rules[k][j]]
        /\ DOMAIN rules[k] = 1..Len(rules[k])
        /\ \A j \in 1..Len(rules[k]) : GoesOn(k, rules[k][j], rules[k][j])
    BY ManagedRules
  <2>2. CASE k # m
    BY <1>1, <1>2, <2>1, <2>2
  <2>3. CASE k = m
    <3>1. rules'[k] = [rules[k] EXCEPT ![i] = r]
      BY <1>1, <1>2, <2>3
    <3>2. \A j \in 1..Len(rules[k]) : rules'[k][j] = IF j = i THEN r ELSE rules[k][j]
      BY <2>1, <3>1
    <3>3. rules'[k] = [j \in 1..Len(rules[k]) |-> rules'[k][j]]
      BY <2>1, <3>1
    <3> QED BY <2>1, <2>3, <3>2, <3>3
  <2> QED BY <2>2, <2>3
<1> QED BY <1>1, <1>2, <1>3, RulesGoOn DEF AgentInv

\* Every manager's file is written: whatever the rules are by now, it has them.
LEMMA PersistKeeps ==
  ASSUME AgentInv, DOMAIN rules' = Agent!Managers,
         created' \in [Agent!Managers -> 0..MaxCreated],
         \A m \in Agent!Managers :
           RulesOK(m, rules'[m]) /\ Len(rules'[m]) <= Agent!MaxRules[m] /\ Len(rules'[m]) <= created'[m],
         DOMAIN saved' = Agent!Managers,
         \A m \in Agent!Managers : saved'[m] = Agent!Export(rules'[m]),
         pass' \in Seq(1..MaxCreated), report' \in 0..MaxCreated, boots' \in 0..MaxBoots
  PROVE  AgentInv'
<1>1. ASSUME NEW m \in Agent!Managers
      PROVE  /\ SavedAs(m, rules'[m], saved'[m]) /\ saved'[m] \in Seq(Asked[m])
             /\ Len(saved'[m]) <= Agent!MaxRules[m] /\ Len(saved'[m]) <= created'[m]
  <2>1. /\ SavedAs(m, rules'[m], saved'[m]) /\ saved'[m] \in Seq(Asked[m])
        /\ Len(saved'[m]) <= Len(rules'[m])
    BY SavedNow
  <2>2. Len(saved'[m]) \in Nat /\ Len(rules'[m]) \in Nat
    BY <2>1 DEF RulesOK
  <2> QED BY <2>1, <2>2, MaxRulesType
<1> QED BY <1>1 DEF AgentInv

LEMMA PersistIs ==
  Agent!Persist(rules') =>
    DOMAIN saved' = Agent!Managers /\ \A m \in Agent!Managers : saved'[m] = Agent!Export(rules'[m])
  BY DEF Agent!Persist

LEMMA AgentStart == Agent!Init => AgentInv
<1> SUFFICES ASSUME Agent!Init PROVE AgentInv
  OBVIOUS
<1>1. ASSUME NEW m \in Agent!Managers
      PROVE  RulesOK(m, rules[m]) /\ SavedAs(m, rules[m], saved[m]) /\ rules[m] = <<>> /\ saved[m] = <<>>
  <2>1. rules[m] = <<>> /\ saved[m] = <<>>
    BY DEF Agent!Init
  <2>2. RulesOK(m, <<>>)
    BY DEF RulesOK
  <2>3. SavedAs(m, <<>>, Agent!Export(<<>>)) /\ Agent!Export(<<>>) \in Seq(Asked[m]) /\ Len(Agent!Export(<<>>)) <= 0
    BY <2>2, SavedNow
  <2>4. Agent!Export(<<>>) = <<>>
    BY <2>3
  <2> QED BY <2>1, <2>2, <2>3, <2>4
<1> QED BY <1>1, MaxRulesType, AgentBounds DEF Agent!Init, AgentInv

LEMMA AddedIsOK ==
  ASSUME AgentInv, NEW m \in Agent!Managers, NEW spec \in Asked[m], created[m] < MaxCreated
  PROVE  LET list == Agent!Added(m, spec)
         IN  RulesOK(m, list) /\ Len(list) <= Agent!MaxRules[m] /\ Len(list) <= created[m] + 1
<1> DEFINE r == Agent!New(m, created[m] + 1, spec)
           all == Append(rules[m], r)
<1>1. RuleOK(m, r)
  <2>1. created[m] + 1 \in 1..MaxCreated
    BY AgentBounds DEF AgentInv
  <2> QED BY <2>1, NewIsOK
<1>2. /\ rules[m] \in Seq(Agent!Rule(m)) /\ r \in Agent!Rule(m) /\ Agent!MaxRules[m] \in Nat /\ Agent!MaxRules[m] > 0
      /\ Len(rules[m]) \in Nat /\ Len(rules[m]) <= Agent!MaxRules[m]
      /\ Len(rules[m]) <= created[m] /\ created[m] \in Nat
      /\ \A i \in 1..Len(rules[m]) : RuleOK(m, rules[m][i])
  BY <1>1, MaxRulesType DEF AgentInv, RulesOK, RuleOK
<1> HIDE DEF r
<1>3. /\ all \in Seq(Agent!Rule(m)) /\ Len(all) = Len(rules[m]) + 1
      /\ \A i \in 1..Len(all) : RuleOK(m, all[i])
  BY <1>1, <1>2
<1>4. Agent!Added(m, spec) = IF Len(all) > Agent!MaxRules[m] THEN Tail(all) ELSE all
  BY DEF Agent!Added, r
<1> HIDE DEF all
<1>5. CASE Len(all) > Agent!MaxRules[m]
  <2>1. /\ Tail(all) \in Seq(Agent!Rule(m)) /\ Len(Tail(all)) = Len(all) - 1
        /\ \A i \in 1..Len(Tail(all)) : Tail(all)[i] = all[i + 1]
    BY <1>2, <1>3, HeadTailProperties, EmptySeq
  <2>2. \A i \in 1..Len(Tail(all)) : i + 1 \in 1..Len(all)
    BY <1>2, <1>3, <2>1
  <2>3. RulesOK(m, Tail(all))
    BY <1>3, <2>1, <2>2 DEF RulesOK
  <2> QED BY <1>2, <1>3, <1>4, <1>5, <2>1, <2>3
<1>6. CASE ~(Len(all) > Agent!MaxRules[m])
  BY <1>2, <1>3, <1>4, <1>6 DEF RulesOK
<1> QED BY <1>5, <1>6

LEMMA CreateStep ==
  ASSUME AgentInv, NEW m \in Agent!Managers, NEW spec \in Asked[m], Agent!Create(m, spec)
  PROVE  AgentInv'
<1>1. /\ created["alarms"] + created["monitors"] + created["reports"] < MaxCreated
      /\ rules' = [rules EXCEPT ![m] = Agent!Added(m, spec)]
      /\ created' = [created EXCEPT ![m] = @ + 1]
      /\ Agent!Persist(rules') /\ UNCHANGED <<pass, report, boots>>
  BY DEF Agent!Create
<1>2. created[m] < MaxCreated
  BY <1>1, ManagersAre, AgentBounds DEF AgentInv
<1>3. /\ RulesOK(m, Agent!Added(m, spec))
      /\ Len(Agent!Added(m, spec)) <= Agent!MaxRules[m] /\ Len(Agent!Added(m, spec)) <= created[m] + 1
  BY <1>2, AddedIsOK
<1>4. created' \in [Agent!Managers -> 0..MaxCreated] /\ created'[m] = created[m] + 1
      /\ \A k \in Agent!Managers \ {m} : created'[k] = created[k]
  <2>1. created \in [Agent!Managers -> 0..MaxCreated] /\ created[m] + 1 \in 0..MaxCreated
    BY <1>2, AgentBounds DEF AgentInv
  <2>2. created' = [created EXCEPT ![m] = created[m] + 1]
    BY <1>1
  <2> QED BY <2>1, <2>2
<1>5. /\ DOMAIN rules' = Agent!Managers /\ rules'[m] = Agent!Added(m, spec)
      /\ \A k \in Agent!Managers \ {m} : rules'[k] = rules[k]
  BY <1>1 DEF AgentInv
<1>6. \A k \in Agent!Managers :
        RulesOK(k, rules'[k]) /\ Len(rules'[k]) <= Agent!MaxRules[k] /\ Len(rules'[k]) <= created'[k]
  BY <1>3, <1>4, <1>5 DEF AgentInv
<1> QED BY <1>1, <1>4, <1>5, <1>6, PersistIs, PersistKeeps DEF AgentInv

\* One rule of a manager, armed or not, is replaced by one that is not
LEMMA StoppedRules ==
  ASSUME AgentInv, NEW m \in Agent!Managers, NEW i \in 1..Len(rules[m]),
         rules' = [rules EXCEPT ![m] = [rules[m] EXCEPT ![i] = Agent!Stopped(rules[m][i])]]
  PROVE  /\ DOMAIN rules' = Agent!Managers
         /\ \A k \in Agent!Managers \ {m} : rules'[k] = rules[k]
         /\ RulesOK(m, rules'[m]) /\ Len(rules'[m]) = Len(rules[m])
         /\ \A j \in 1..Len(rules[m]) :
              /\ Agent!SpecOf(rules'[m][j]) = Agent!SpecOf(rules[m][j])
              /\ j # i => rules'[m][j] = rules[m][j]
         /\ ~rules'[m][i].active
<1>1. /\ rules[m] = [j \in 1..Len(rules[m]) |-> rules[m][j]] /\ Len(rules[m]) \in Nat
      /\ DOMAIN rules[m] = 1..Len(rules[m])
      /\ \A j \in 1..Len(rules[m]) : RuleOK(m, rules[m][j])
  BY ManagedRules
<1>2. /\ DOMAIN rules' = Agent!Managers /\ \A k \in Agent!Managers \ {m} : rules'[k] = rules[k]
      /\ rules'[m] = [rules[m] EXCEPT ![i] = Agent!Stopped(rules[m][i])]
  BY DEF AgentInv
<1>3. /\ rules'[m] = [j \in 1..Len(rules[m]) |-> rules'[m][j]]
      /\ rules'[m][i] = Agent!Stopped(rules[m][i])
      /\ \A j \in 1..Len(rules[m]) : j # i => rules'[m][j] = rules[m][j]
  BY <1>1, <1>2
<1>4. /\ RuleOK(m, Agent!Stopped(rules[m][i])) /\ ~Agent!Stopped(rules[m][i]).active
      /\ Agent!SpecOf(Agent!Stopped(rules[m][i])) = Agent!SpecOf(rules[m][i])
  BY <1>1, StoppedIsOK
<1>5. \A j \in 1..Len(rules[m]) : RuleOK(m, rules'[m][j]) /\ Agent!SpecOf(rules'[m][j]) = Agent!SpecOf(rules[m][j])
  BY <1>1, <1>3, <1>4
<1>6. RulesOK(m, rules'[m]) /\ Len(rules'[m]) = Len(rules[m])
  BY <1>1, <1>3, <1>5, ListIsOK
<1> QED BY <1>2, <1>3, <1>4, <1>5, <1>6

LEMMA StopRuleStep ==
  ASSUME AgentInv, NEW m \in Agent!Managers, NEW i \in 1..Agent!MaxRules[m], Agent!Stop(m, i)
  PROVE  AgentInv'
<1>1. /\ i \in 1..Len(rules[m])
      /\ rules' = [rules EXCEPT ![m] = [rules[m] EXCEPT ![i] = Agent!Stopped(rules[m][i])]]
      /\ Agent!Persist(rules') /\ UNCHANGED <<created, pass, report, boots>>
  BY ManagedRules DEF Agent!Stop
<1>2. /\ DOMAIN rules' = Agent!Managers
      /\ \A k \in Agent!Managers \ {m} : rules'[k] = rules[k]
      /\ RulesOK(m, rules'[m]) /\ Len(rules'[m]) = Len(rules[m])
  BY <1>1, StoppedRules
<1>3. \A k \in Agent!Managers :
        RulesOK(k, rules'[k]) /\ Len(rules'[k]) <= Agent!MaxRules[k] /\ Len(rules'[k]) <= created'[k]
  BY <1>1, <1>2 DEF AgentInv
<1> QED BY <1>1, <1>2, <1>3, PersistIs, PersistKeeps DEF AgentInv

LEMMA SaveOnlyStep == ASSUME AgentInv, Agent!SaveOnly PROVE AgentInv'
<1>1. /\ DOMAIN saved' = Agent!Managers /\ UNCHANGED <<rules, created, pass, report, boots>>
      /\ \A m \in Agent!Managers : saved'[m] = Agent!Export(rules'[m])
  BY DEF Agent!SaveOnly, Agent!Persist
<1> QED BY <1>1, PersistKeeps DEF AgentInv

LEMMA DeleteReportStep == ASSUME AgentInv, NEW i \in 1..MaxSchedules, Agent!DeleteReport(i) PROVE AgentInv'
<1> DEFINE m == "reports"
           gone == IF rules[m][i].active THEN {i} ELSE {}
<1>0. m \in Agent!Managers
  BY ManagersAre
<1> HIDE DEF m
<1>1. /\ i \in 1..Len(rules[m])
      /\ rules' = [rules EXCEPT ![m] = [rules[m] EXCEPT ![i] = Agent!Stopped(rules[m][i])]]
      /\ UNCHANGED <<created, saved, pass, report, boots>>
  BY <1>0, ManagedRules DEF Agent!DeleteReport, m
<1>2. /\ DOMAIN rules' = Agent!Managers
      /\ \A k \in Agent!Managers \ {m} : rules'[k] = rules[k]
      /\ RulesOK(m, rules'[m]) /\ Len(rules'[m]) = Len(rules[m])
      /\ \A j \in 1..Len(rules[m]) :
           /\ Agent!SpecOf(rules'[m][j]) = Agent!SpecOf(rules[m][j])
           /\ j # i => rules'[m][j] = rules[m][j]
      /\ ~rules'[m][i].active
  BY <1>0, <1>1, StoppedRules
<1>3. gone \in SUBSET (1..Len(rules[m])) /\ (m # "reports" => gone = {})
  BY <1>1 DEF m
<1>4. \A j \in 1..Len(rules[m]) : /\ Agent!SpecOf(rules'[m][j]) = Agent!SpecOf(rules[m][j])
                                  /\ j \notin gone => (rules'[m][j].active <=> rules[m][j].active)
                                  /\ j \in gone => rules[m][j].active /\ ~rules'[m][j].active
  BY <1>1, <1>2
<1> HIDE DEF gone
<1>5. SavedAs(m, rules'[m], saved[m])
  <2>1. RulesOK(m, rules[m]) /\ SavedAs(m, rules[m], saved[m])
    BY <1>0 DEF AgentInv
  <2> QED BY <1>0, <1>2, <1>3, <1>4, <2>1, SavedStill
<1> QED BY <1>0, <1>1, <1>2, <1>5 DEF AgentInv

LEMMA AcknowledgeStep == ASSUME AgentInv, NEW ids \in SUBSET (1..MaxCreated), Agent!Acknowledge(ids) PROVE AgentInv'
<1> DEFINE Answered(r) == IF r.id \in ids /\ r.triggered THEN [r EXCEPT !.triggered = FALSE, !.ack = 0] ELSE r
<1>1. /\ rules' = [rules EXCEPT !["alarms"] = [i \in DOMAIN rules["alarms"] |-> Answered(rules["alarms"][i])]]
      /\ UNCHANGED <<created, saved, pass, report, boots>>
  BY DEF Agent!Acknowledge
<1>2. DOMAIN rules' = DOMAIN rules /\ DOMAIN rules = Agent!Managers /\ "alarms" \in Agent!Managers
  BY <1>1, ManagersAre DEF AgentInv
<1>3. ASSUME NEW m \in Agent!Managers, NEW r, RuleOK(m, r) PROVE GoesOn(m, r, Answered(r))
  <2> DEFINE q == [r EXCEPT !.triggered = FALSE, !.ack = 0]
  <2>1. r \in Agent!Rule(m)
    BY <1>3 DEF RuleOK
  <2>2. /\ q \in Agent!Rule(m) /\ q.name = r.name /\ q.kind = r.kind /\ q.active = r.active
        /\ ~q.triggered /\ q.task = r.task /\ q.left = r.left
    BY <2>1, FarIsNat DEF Agent!Rule
  <2> HIDE DEF q
  <2>3. Agent!SpecOf(q) = Agent!SpecOf(r)
    BY <2>2 DEF Agent!SpecOf
  <2>4. GoesOn(m, r, q)
    BY <1>3, <2>2, <2>3 DEF GoesOn, RuleOK
  <2>5. GoesOn(m, r, r)
    BY <1>3 DEF GoesOn
  <2> QED BY <2>4, <2>5 DEF q
<1> HIDE DEF Answered
<1>4. ASSUME NEW m \in Agent!Managers
      PROVE  /\ rules'[m] = [i \in 1..Len(rules[m]) |-> rules'[m][i]]
             /\ \A i \in 1..Len(rules[m]) : GoesOn(m, rules[m][i], rules'[m][i])
  <2>1. /\ rules[m] = [j \in 1..Len(rules[m]) |-> rules[m][j]]
        /\ DOMAIN rules[m] = 1..Len(rules[m])
        /\ \A j \in 1..Len(rules[m]) : RuleOK(m, rules[m][j]) /\ GoesOn(m, rules[m][j], rules[m][j])
    BY ManagedRules
  <2>2. CASE m # "alarms"
    BY <1>1, <1>2, <2>1, <2>2
  <2>3. CASE m = "alarms"
    <3>1. rules'[m] = [i \in 1..Len(rules[m]) |-> Answered(rules[m][i])]
      BY <1>1, <1>2, <2>1, <2>3
    <3> QED BY <1>3, <2>1, <3>1
  <2> QED BY <2>2, <2>3
<1> QED BY <1>1, <1>2, <1>4, RulesGoOn DEF AgentInv

LEMMA TaskStep ==
  ASSUME AgentInv, NEW m \in Agent!Managers, NEW i \in 1..Agent!MaxRules[m],
         \/ Agent!BeginCycle(m, i) \/ Agent!SkipCycle(m, i) \/ Agent!Sees(m, i)
         \/ Agent!SeesNone(m, i) \/ Agent!Crash(m, i)
  PROVE  AgentInv'
<1> DEFINE r == rules[m][i]
<1>1. i \in 1..Len(rules[m])
  BY ManagedRules DEF Agent!BeginCycle, Agent!SkipCycle, Agent!Sees, Agent!SeesNone, Agent!Crash,
     Agent!Asleep, Agent!Polling
<1>2. RuleOK(m, r) /\ r \in Agent!Rule(m)
  BY <1>1, ManagedRules DEF RuleOK
<1>3. 0 \in 0..NumCameras /\ NumCameras \in 0..NumCameras
  BY AgentBounds
<1>4. CASE Agent!BeginCycle(m, i)
  <2> DEFINE q == [r EXCEPT !.task = "polling", !.left = NumCameras]
  <2>1. r.task = "asleep" /\ r.active /\ Agent!Becomes(m, i, q)
    BY <1>2, <1>4 DEF Agent!BeginCycle, Agent!Asleep, RuleOK
  <2>2. /\ q \in Agent!Rule(m) /\ q.name = r.name /\ q.kind = r.kind /\ q.active = r.active
        /\ q.triggered = r.triggered /\ q.task = "polling" /\ q.left = NumCameras
    BY <1>2, <1>3 DEF Agent!Rule
  <2> HIDE DEF q
  <2>3. Agent!SpecOf(q) = Agent!SpecOf(r)
    BY <2>2 DEF Agent!SpecOf
  <2>4. GoesOn(m, r, q)
    BY <1>2, <2>1, <2>2, <2>3, AgentBounds DEF GoesOn, RuleOK
  <2> QED BY <1>1, <2>1, <2>4, BecomesStep
<1>5. CASE Agent!SkipCycle(m, i)
  BY <1>1, <1>2, <1>5, StoodDownIsOK, BecomesStep DEF Agent!SkipCycle
<1>6. CASE Agent!Sees(m, i)
  <2> DEFINE c == NumCameras - r.left + 1
             q == Agent!Rung(r, c)
  <2>1. r.task = "polling" /\ r.active /\ Agent!Becomes(m, i, Agent!Polled(q))
    BY <1>2, <1>6 DEF Agent!Sees, Agent!Polling, RuleOK
  <2>2. c \in 1..NumCameras
    <3>1. r.left \in 0..NumCameras /\ r.left > 0
      BY <1>2, <2>1 DEF RuleOK, Agent!Rule
    <3> QED BY <3>1, AgentBounds
  <2> HIDE DEF c
  <2>3. GoesOn(m, r, q) /\ q.task = "polling"
    BY <1>2, <2>1, <2>2, RungIsOK
  <2> HIDE DEF q
  <2>4. GoesOn(m, q, Agent!Polled(q))
    BY <2>3, PolledIsOK DEF GoesOn
  <2>5. GoesOn(m, r, Agent!Polled(q))
    BY <2>3, <2>4 DEF GoesOn
  <2> QED BY <1>1, <2>1, <2>5, BecomesStep
<1>7. CASE Agent!SeesNone(m, i)
  <2>1. r.task = "polling" /\ Agent!Becomes(m, i, Agent!Polled(r))
    BY <1>7 DEF Agent!SeesNone, Agent!Polling
  <2> QED BY <1>1, <1>2, <2>1, PolledIsOK, BecomesStep
<1>8. CASE Agent!Crash(m, i)
  <2> DEFINE q == [r EXCEPT !.task = "crashed", !.left = 0]
  <2>1. Agent!Becomes(m, i, q)
    BY <1>8 DEF Agent!Crash
  <2>2. /\ q \in Agent!Rule(m) /\ q.name = r.name /\ q.kind = r.kind /\ q.active = r.active
        /\ q.triggered = r.triggered /\ q.task = "crashed" /\ q.left = 0
    BY <1>2, <1>3 DEF Agent!Rule
  <2> HIDE DEF q
  <2>3. Agent!SpecOf(q) = Agent!SpecOf(r)
    BY <2>2 DEF Agent!SpecOf
  <2>4. GoesOn(m, r, q)
    BY <1>2, <2>2, <2>3 DEF GoesOn, RuleOK
  <2> QED BY <1>1, <2>1, <2>4, BecomesStep
<1> QED BY <1>4, <1>5, <1>6, <1>7, <1>8

\* The scheduler, and POST /reports/{id}/run: schedules change only in when they ran.
LEMMA RanIsOK ==
  ASSUME NEW m \in Agent!Managers, NEW r, RuleOK(m, r)
  PROVE  GoesOn(m, r, [r EXCEPT !.rang[1] = 0])
<1> DEFINE q == [r EXCEPT !.rang = [r.rang EXCEPT ![1] = 0]]
<1>1. r \in Agent!Rule(m) /\ 1 \in 1..NumCameras
  BY AgentBounds DEF RuleOK
<1>2. [r.rang EXCEPT ![1] = 0] \in [1..NumCameras -> Agent!Ages]
  BY <1>1, FarIsNat DEF Agent!Rule
<1>3. /\ q \in Agent!Rule(m) /\ q.name = r.name /\ q.kind = r.kind /\ q.active = r.active
      /\ q.triggered = r.triggered /\ q.task = r.task /\ q.left = r.left
  BY <1>1, <1>2 DEF Agent!Rule
<1>4. [r EXCEPT !.rang[1] = 0] = q
  OBVIOUS
<1> HIDE DEF q
<1>5. Agent!SpecOf(q) = Agent!SpecOf(r)
  BY <1>3 DEF Agent!SpecOf
<1> QED BY <1>3, <1>4, <1>5 DEF GoesOn, RuleOK

LEMMA RunNowStep == ASSUME AgentInv, NEW i \in 1..MaxSchedules, Agent!RunNow(i) PROVE AgentInv'
<1>1. "reports" \in Agent!Managers
  BY ManagersAre
<1>2. i \in 1..Len(rules["reports"]) /\ Agent!Becomes("reports", i, [rules["reports"][i] EXCEPT !.rang[1] = 0])
  BY <1>1, ManagedRules DEF Agent!RunNow, Agent!Reports
<1>3. GoesOn("reports", rules["reports"][i], [rules["reports"][i] EXCEPT !.rang[1] = 0])
  BY <1>1, <1>2, ManagedRules, RanIsOK
<1> QED BY <1>1, <1>2, <1>3, BecomesStep

LEMMA RulesUnchanged ==
  ASSUME AgentInv, UNCHANGED <<rules, created, saved, boots>>,
         pass' \in Seq(1..MaxCreated), report' \in 0..MaxCreated
  PROVE  AgentInv'
  BY DEF AgentInv

LEMMA SchedulerStep ==
  ASSUME AgentInv, Agent!SchedulerWakes \/ Agent!SchedulerLooks \/ Agent!ReportDelivered
  PROVE  AgentInv'
<1> DEFINE m == "reports"
<1>0. m \in Agent!Managers
  BY ManagersAre
<1> HIDE DEF m
<1>1. /\ rules[m] = [j \in 1..Len(rules[m]) |-> rules[m][j]] /\ Len(rules[m]) \in Nat
      /\ DOMAIN rules[m] = 1..Len(rules[m])
      /\ \A j \in 1..Len(rules[m]) : RuleOK(m, rules[m][j])
      /\ pass \in Seq(1..MaxCreated) /\ report \in 0..MaxCreated
  BY <1>0, ManagedRules DEF AgentInv
<1>2. CASE Agent!SchedulerWakes
  <2>1. /\ pass' = [i \in DOMAIN rules[m] |-> rules[m][i].id]
        /\ UNCHANGED <<rules, created, saved, report, boots>>
    BY <1>2 DEF Agent!SchedulerWakes, Agent!Reports, m
  <2>2. \A i \in 1..Len(rules[m]) : rules[m][i].id \in 1..MaxCreated
    BY <1>1 DEF RuleOK, Agent!Rule
  <2>3. pass' \in Seq(1..MaxCreated)
    BY <1>1, <2>1, <2>2
  <2> QED BY <1>1, <2>1, <2>3, RulesUnchanged
<1>3. CASE Agent!ReportDelivered
  <2>1. report' = 0 /\ UNCHANGED <<rules, created, saved, pass, boots>>
    BY <1>3 DEF Agent!ReportDelivered
  <2> QED BY <1>1, <2>1, RulesUnchanged, AgentBounds
<1>4. CASE Agent!SchedulerLooks
  <2> DEFINE due == {i \in DOMAIN rules[m] : rules[m][i].id = Head(pass) /\ Agent!Due(rules[m][i])}
  <2>1. /\ pass # <<>> /\ pass' = Tail(pass)
        /\ report' = IF due = {} THEN 0 ELSE Head(pass)
        /\ rules' = [rules EXCEPT ![m] = [i \in DOMAIN rules[m] |->
                       IF i \in due THEN [rules[m][i] EXCEPT !.rang[1] = 0] ELSE rules[m][i]]]
        /\ UNCHANGED <<created, saved, boots>>
    BY <1>4 DEF Agent!SchedulerLooks, Agent!Reports, m
  <2> HIDE DEF due
  <2>2. pass' \in Seq(1..MaxCreated) /\ Head(pass) \in 1..MaxCreated
    BY <1>1, <2>1, HeadTailProperties
  <2>3. report' \in 0..MaxCreated
    BY <2>1, <2>2, AgentBounds
  <2>4. DOMAIN rules' = DOMAIN rules /\ DOMAIN rules = Agent!Managers
    BY <2>1 DEF AgentInv
  <2>5. ASSUME NEW k \in Agent!Managers
        PROVE  /\ rules'[k] = [i \in 1..Len(rules[k]) |-> rules'[k][i]]
               /\ \A i \in 1..Len(rules[k]) : GoesOn(k, rules[k][i], rules'[k][i])
    <3>1. CASE k # m
      BY <2>1, <2>4, <3>1, ManagedRules
    <3>2. CASE k = m
      <4>1. rules'[k] = [i \in 1..Len(rules[k]) |->
                           IF i \in due THEN [rules[m][i] EXCEPT !.rang[1] = 0] ELSE rules[m][i]]
        BY <1>0, <1>1, <2>1, <2>4, <3>2
      <4>2. \A i \in 1..Len(rules[m]) : /\ GoesOn(m, rules[m][i], [rules[m][i] EXCEPT !.rang[1] = 0])
                                        /\ GoesOn(m, rules[m][i], rules[m][i])
        BY <1>0, <1>1, RanIsOK, ManagedRules
      <4> QED BY <3>2, <4>1, <4>2
    <3> QED BY <3>1, <3>2
  <2> QED BY <2>1, <2>2, <2>3, <2>4, <2>5, RulesGoOn
<1> QED BY <1>2, <1>3, <1>4

LEMMA TickStep == ASSUME AgentInv, Agent!Tick PROVE AgentInv'
<1> DEFINE Aged(r) == [r EXCEPT !.ack = Agent!Older(@), !.rang = [c \in 1..NumCameras |-> Agent!Older(@[c])]]
<1>1. /\ rules' = [m \in Agent!Managers |-> [i \in DOMAIN rules[m] |-> Aged(rules[m][i])]]
      /\ UNCHANGED <<created, saved, pass, report, boots>>
  BY DEF Agent!Tick
<1>2. ASSUME NEW m \in Agent!Managers, NEW r, RuleOK(m, r) PROVE GoesOn(m, r, Aged(r))
  <2> DEFINE ack  == Agent!Older(r.ack)
             rang == [c \in 1..NumCameras |-> Agent!Older(r.rang[c])]
             q    == [r EXCEPT !.ack = ack, !.rang = rang]
  <2>1. Aged(r) = q
    OBVIOUS
  <2>2. \A age \in Agent!Ages : Agent!Older(age) \in Agent!Ages
    BY FarIsNat DEF Agent!Older, Agent!Ages
  <2>3. r \in Agent!Rule(m) /\ r.ack \in Agent!Ages /\ r.rang \in [1..NumCameras -> Agent!Ages]
    BY <1>2 DEF RuleOK, Agent!Rule
  <2>4. ack \in Agent!Ages /\ rang \in [1..NumCameras -> Agent!Ages]
    BY <2>2, <2>3
  <2> HIDE DEF ack, rang
  <2>5. /\ q \in Agent!Rule(m) /\ q.name = r.name /\ q.kind = r.kind /\ q.active = r.active
        /\ q.triggered = r.triggered /\ q.task = r.task /\ q.left = r.left
    BY <2>3, <2>4 DEF Agent!Rule
  <2> HIDE DEF q
  <2>6. Agent!SpecOf(q) = Agent!SpecOf(r)
    BY <2>5 DEF Agent!SpecOf
  <2>7. GoesOn(m, r, q)
    BY <1>2, <2>5, <2>6 DEF GoesOn, RuleOK
  <2> QED BY <2>1, <2>7
<1> HIDE DEF Aged
<1>3. ASSUME NEW m \in Agent!Managers
      PROVE  /\ rules'[m] = [i \in 1..Len(rules[m]) |-> rules'[m][i]]
             /\ \A i \in 1..Len(rules[m]) : GoesOn(m, rules[m][i], rules'[m][i])
  <2>1. DOMAIN rules[m] = 1..Len(rules[m]) /\ \A i \in 1..Len(rules[m]) : RuleOK(m, rules[m][i])
    BY ManagedRules
  <2>2. rules'[m] = [i \in 1..Len(rules[m]) |-> Aged(rules[m][i])]
    BY <1>1, <2>1
  <2> QED BY <1>2, <2>1, <2>2
<1>4. DOMAIN rules' = DOMAIN rules
  BY <1>1 DEF AgentInv
<1> QED BY <1>1, <1>3, <1>4, RulesGoOn DEF AgentInv

\* What a manager restores is of its types, no more than the file has; if it is as
\* many as the file has, the file is as it would be written again.
LEMMA RestoredIsOK ==
  ASSUME AgentInv, NEW m \in Agent!Managers
  PROVE  LET list == Agent!Restored(m)
         IN  /\ RulesOK(m, list) /\ Len(list) \in Nat
             /\ Len(list) <= Len(saved[m]) /\ Len(list) <= MaxCreated
             /\ Len(list) = Len(saved[m]) => saved[m] = Agent!Export(list)
<1> DEFINE file == saved[m]
           K == {i \in DOMAIN file : \A j \in 1..(i - 1) : ~Agent!Same(m, file[i], file[j])}
           kept == Kept(file, K)
           list == Agent!Restored(m)
<1>1. file \in Seq(Asked[m]) /\ Len(file) \in Nat /\ Len(file) <= MaxCreated /\ K \in SUBSET (1..Len(file))
  <2>1. file \in Seq(Asked[m]) /\ Len(file) \in Nat /\ Len(file) <= created[m] /\ created[m] \in 0..MaxCreated
    BY DEF AgentInv
  <2> QED BY <2>1, AgentBounds
<1>2. list = [i \in DOMAIN kept |-> Agent!New(m, i, kept[i])]
  BY SameOperators DEF Agent!Restored, Agent!Collapsed
<1> HIDE DEF list, K, file
<1>3. /\ kept \in Seq(Asked[m]) /\ Len(kept) = Cardinality(K)
      /\ Cardinality(K) \in 0..Len(file)
  BY <1>1, KeptItems
<1>4. DOMAIN kept = 1..Len(kept) /\ Len(kept) \in Nat /\ Len(kept) <= Len(file) /\ Len(kept) <= MaxCreated
      /\ \A i \in 1..Len(kept) : kept[i] \in Asked[m] /\ i \in 1..MaxCreated
  BY <1>1, <1>3, AgentBounds
<1>5. Cardinality(K) = Len(file) => kept = file
  BY <1>1, KeptWhole
<1> HIDE DEF kept
<1>6. \A i \in 1..Len(kept) : RuleOK(m, list[i]) /\ Agent!SpecOf(list[i]) = kept[i] /\ list[i].active
  BY <1>2, <1>4, NewIsOK
<1>7. list = [i \in 1..Len(kept) |-> list[i]]
  BY <1>2, <1>4
<1>8. RulesOK(m, list) /\ Len(list) = Len(kept)
  BY <1>4, <1>6, <1>7, ListIsOK
<1>9. Agent!Export(list) = kept
  <2>1. list \in Seq(Agent!Rule(m)) /\ \A i \in 1..Len(list) : list[i].active
    BY <1>6, <1>8 DEF RulesOK
  <2>2. Agent!Export(list) = [i \in 1..Len(list) |-> Agent!SpecOf(list[i])]
    BY <2>1, ExportWhole
  <2>3. kept = [i \in 1..Len(kept) |-> kept[i]]
    BY <1>3
  <2> QED BY <1>6, <1>8, <2>2, <2>3
<1> QED BY <1>3, <1>4, <1>5, <1>8, <1>9 DEF list, file

LEMMA RestartStep == ASSUME AgentInv, Agent!Restart PROVE AgentInv'
<1>1. /\ boots' = boots + 1 /\ boots < MaxBoots /\ pass' = <<>> /\ report' = 0
      /\ rules' = [m \in Agent!Managers |-> Agent!Restored(m)]
      /\ created' = [m \in Agent!Managers |-> Len(Agent!Restored(m))]
  BY DEF Agent!Restart
<1>2. ASSUME NEW m \in Agent!Managers
      PROVE  /\ RulesOK(m, rules'[m]) /\ Len(rules'[m]) <= Agent!MaxRules[m]
             /\ created'[m] = Len(rules'[m]) /\ created'[m] \in 0..MaxCreated
             /\ Len(rules'[m]) = Len(saved[m]) => saved[m] = Agent!Export(rules'[m])
  <2>1. rules'[m] = Agent!Restored(m) /\ created'[m] = Len(rules'[m])
    BY <1>1
  <2>2. /\ RulesOK(m, rules'[m]) /\ Len(rules'[m]) \in Nat
        /\ Len(rules'[m]) <= Len(saved[m]) /\ Len(rules'[m]) <= MaxCreated
        /\ Len(rules'[m]) = Len(saved[m]) => saved[m] = Agent!Export(rules'[m])
    BY <2>1, RestoredIsOK
  <2>3. Len(saved[m]) <= Agent!MaxRules[m] /\ Len(saved[m]) \in Nat /\ Agent!MaxRules[m] \in Nat
    BY MaxRulesType DEF AgentInv
  <2>4. Len(rules'[m]) <= Agent!MaxRules[m]
    BY <2>2, <2>3
  <2>5. Len(rules'[m]) \in 0..MaxCreated
    BY <2>2, AgentBounds
  <2> QED BY <2>1, <2>2, <2>4, <2>5
<1>3. DOMAIN saved' = Agent!Managers /\ \A m \in Agent!Managers : saved'[m] = Agent!Export(rules'[m])
  <2>1. CASE Agent!WritesBack
    BY <2>1, PersistIs DEF Agent!Restart
  <2>2. CASE ~Agent!WritesBack
    <3>1. saved' = saved /\ \A m \in Agent!Managers : Len(rules'[m]) = Len(saved[m])
      BY <1>1, <2>2 DEF Agent!Restart, Agent!WritesBack
    <3> QED BY <1>2, <3>1 DEF AgentInv
  <2> QED BY <2>1, <2>2
<1>4. /\ created' \in [Agent!Managers -> 0..MaxCreated] /\ DOMAIN rules' = Agent!Managers
      /\ \A m \in Agent!Managers : Len(rules'[m]) <= created'[m]
  <2>1. \A m \in Agent!Managers : Len(rules'[m]) \in Nat
    BY <1>2 DEF RulesOK
  <2> QED BY <1>1, <1>2, <2>1
<1>5. pass' \in Seq(1..MaxCreated) /\ report' \in 0..MaxCreated /\ boots' \in 0..MaxBoots
  BY <1>1, AgentBounds DEF AgentInv
<1> QED BY <1>2, <1>3, <1>4, <1>5, PersistKeeps

LEMMA AgentStep == AgentInv /\ [Agent!Next]_(Agent!agentVars) => AgentInv'
<1> SUFFICES ASSUME AgentInv, [Agent!Next]_(Agent!agentVars) PROVE AgentInv'
  OBVIOUS
<1>1. CASE Agent!Next
  <2>1. ASSUME NEW id \in 1..MaxCreated, Agent!Acknowledge({id}) PROVE AgentInv'
    BY <2>1, AcknowledgeStep
  <2>2. CASE Agent!Acknowledge(1..MaxCreated)
    BY <2>2, AcknowledgeStep
  <2> QED BY <1>1, <2>1, <2>2, CreateStep, StopRuleStep, DeleteReportStep, RunNowStep, SaveOnlyStep,
       TaskStep, SchedulerStep, TickStep, RestartStep DEF Agent!Next
<1>2. CASE UNCHANGED Agent!agentVars
  BY <1>2, RulesUnchanged DEF Agent!agentVars, AgentInv
<1> QED BY <1>1, <1>2

\* examples/camera-agent: after any request, eviction, crash of a loop and restart,
\* the state file has what is armed; for any rules that are asked for, and any number.
THEOREM RulesAreSaved == Agent!Spec => [](Agent!TypeOK /\ Agent!SavedIsArmed)
  BY AgentStart, AgentStep, AgentInvImplies, PTL DEF Agent!Spec

------------------------------------------------------------------------------
(* The composition *)

\* A behaviour of the composition is a behaviour of each of the three: what is proved
\* of them holds in it.
THEOREM AppsAreTheThree == AppsSpec => Agent!Spec /\ Dwell!Spec /\ Channel!Spec
<1>1. AppsInit => Agent!Init /\ Dwell!Init /\ Channel!Init
  BY DEF AppsInit
<1>2. [AppsNext]_<<world, agentVars, dwellVars, channelVars>>
        => [Agent!Next]_agentVars /\ [Dwell!Next]_dwellVars /\ [Channel!Next]_channelVars
  BY DEF AppsNext
<1>3. /\ [Agent!Next]_agentVars => [Agent!Next]_(Agent!agentVars)
      /\ [Dwell!Next]_dwellVars => [Dwell!Next]_(Dwell!dwellVars)
      /\ [Channel!Next]_channelVars => [Channel!Next]_(Channel!vars)
  BY DEF agentVars, Agent!agentVars, dwellVars, Dwell!dwellVars, channelVars, Channel!vars
<1> QED BY <1>1, <1>2, <1>3, PTL DEF AppsSpec, Agent!Spec, Dwell!Spec, Channel!Spec

\* The state of each of the three keeps its type.
THEOREM AppsTypeCorrect == AppsSpec => []AppsTypeOK
<1>1. Agent!TypeOK /\ Dwell!TypeOK /\ Channel!TypeOK => AppsTypeOK
  BY DEF AppsTypeOK
<1> QED BY <1>1, AppsAreTheThree, RulesAreSaved, DwellsAreReportedOnce, ClientsAreKept, PTL

\* The agent's state file has the rules that are armed, in their order.
THEOREM SavedIsWhatIsArmed == AppsSpec => []SavedIsArmed
  BY AppsAreTheThree, RulesAreSaved, PTL DEF SavedIsArmed

\* An alert that is due is reported once, and its channel keeps its clients.
THEOREM AlertsDoGoOut == AppsSpec => []AlertsGoOut
<1>1. Dwell!DwellsAreReported /\ Channel!ClientIsOfTheLoop /\ Channel!ClientsAreHeld => AlertsGoOut
  BY DEF AlertsGoOut
<1> QED BY <1>1, AppsAreTheThree, DwellsAreReportedOnce, ClientsAreKept, PTL
===============================================================================
