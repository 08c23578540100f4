-------------------------- MODULE AppInstallProofs --------------------------
(***************************************************************************)
(* Type correctness of AppInstall, that an applied row is true of docker   *)
(* unless its request raced the reconciler's write-back, and that the      *)
(* install promise is kept, for every set of apps and workers, every pair  *)
(* of indexes and every bound.                                             *)
(***************************************************************************)
EXTENDS AppInstall, SequenceTheorems, TLAPS

(* The inductive invariant, part by part. *)

\* A handler that loaded a row still has one to update: rows are never deleted.
LoadedRowStays ==
  \A w \in Workers : hpc[w] = "loaded" /\ seen[w].desired # "none"
                       => desired[happ[w]] # "none"

\* A row waiting to be acted on was not applied when the sweep listed it, and
\* nobody but this reconciler makes a row applied.
TodoNotApplied == \A row \in todo : status[row.id] # "applied"

\* The snapshot lists each app once.
TodoDistinct == \A r1, r2 \in todo : r1.id = r2.id => r1 = r2

\* The row in hand: its outcome is what docker's state says, and neither the
\* table nor the rest of the sweep has got ahead of it.
ActingIsTrue ==
  rpc = "write" =>
    /\ acting \in Row
    /\ acting.status \in Outcomes
    /\ status[acting.id] # "applied"
    /\ acting.status = "applied" => up[acting.id] = (acting.desired = "installed")
    /\ \A row \in todo : row.id # acting.id

\* A row that is to be acted on asks for a wish that is open, and so does the
\* snapshot of it that a sweep holds, however old it is.
ActsOnOpen ==
  /\ \A a \in Apps : status[a] \in {"pending", "failed"} => desired[a] \in open[a]
  /\ \A row \in todo : row.desired \in open[row.id]

IInv ==
  /\ TypeOK
  /\ LoadedRowStays
  /\ TodoNotApplied
  /\ TodoDistinct
  /\ ActingIsTrue
  /\ AppliedUnlessRaced
  /\ ActsOnOpen

-----------------------------------------------------------------------------

\* The retry delay is a number of polls, whatever the failure count.
LEMMA DelayType == ASSUME NEW n \in Nat \ {0} PROVE Delay(n) \in Nat
BY BoundAssumption DEF Delay

\* The saturated failure count is a positive number.
LEMMA CountType == ASSUME NEW n \in Nat PROVE CountFailure(n) \in Nat \ {0}
BY BoundAssumption DEF CountFailure

\* The initial state satisfies the inductive invariant.
LEMMA InitIInv == ASSUME Init PROVE IInv
<1>1. TypeOK
  BY BoundAssumption DEF Init, TypeOK, Forgotten, Wishes, Statuses, Row, NoActing
<1>2. LoadedRowStays /\ TodoNotApplied /\ TodoDistinct /\ ActingIsTrue
  BY DEF Init, LoadedRowStays, TodoNotApplied, TodoDistinct, ActingIsTrue
<1>3. AppliedUnlessRaced
  BY DEF Init, AppliedUnlessRaced
<1>4. ActsOnOpen
  BY DEF Init, ActsOnOpen
<1> QED BY <1>1, <1>2, <1>3, <1>4 DEF IInv

\* Accounting for an outcome keeps the types of what it changes.
LEMMA AccountTypes ==
  ASSUME TypeOK, Account
  PROVE  /\ rpc' \in {"account", "sleep"}
         /\ outcomes' \in Seq([id : Apps, status : Outcomes])
         /\ failures' \in [Apps -> Nat]
         /\ wait' \in [Apps -> Nat]
         /\ UNCHANGED <<db, card, up, booting, webv, todo, acting, raced, open, requests>>
<1> DEFINE o == Head(outcomes)
           n == CountFailure(failures[o.id])
           O == [id : Apps, status : Outcomes]
<1>1. o \in O /\ Tail(outcomes) \in Seq(O) /\ <<>> \in Seq(O)
  <2>1. outcomes \in Seq(O) /\ outcomes # <<>>
    BY DEF Account, TypeOK
  <2> HIDE DEF O
  <2> QED BY <2>1, HeadTailProperties
<1>2. failures \in [Apps -> Nat] /\ wait \in [Apps -> Nat] /\ o.id \in Apps
  BY <1>1 DEF TypeOK
<1>3. n \in Nat /\ Delay(n) \in Nat
  BY <1>2, CountType, DelayType
<1>4. /\ outcomes' \in {<<>>, Tail(outcomes)}
      /\ rpc' \in {"account", "sleep"}
      /\ failures' \in {[failures EXCEPT ![o.id] = m] : m \in {n, 0}}
      /\ wait' \in {wait} \cup {[wait EXCEPT ![o.id] = m] : m \in {Delay(n), 0}}
  BY DEF Account
<1>5. \A m \in Nat : /\ [failures EXCEPT ![o.id] = m] \in [Apps -> Nat]
                     /\ [wait EXCEPT ![o.id] = m] \in [Apps -> Nat]
  BY <1>2
<1> HIDE DEF o, n, O
<1>6. failures' \in [Apps -> Nat] /\ wait' \in [Apps -> Nat]
  BY <1>2, <1>3, <1>4, <1>5
<1>7. outcomes' \in Seq(O)
  BY <1>1, <1>4
<1>8. UNCHANGED <<db, card, up, booting, webv, todo, acting, raced, open, requests>>
  BY DEF Account
<1> QED BY <1>4, <1>6, <1>7, <1>8 DEF O

\* Every step keeps the types.
LEMMA TypeStep == ASSUME TypeOK, LoadedRowStays, ActingIsTrue, [Next]_vars PROVE TypeOK'
<1> USE DEF TypeOK, db, webv, recv, backoff
<1> USE IndexAssumption, BoundAssumption
<1>1. ASSUME NEW w \in Workers, NEW a \in Apps, NEW want \in Wishes, Request(w, a, want)
      PROVE  TypeOK'
  BY <1>1 DEF Request, Loaded
<1>2. ASSUME NEW w \in Workers, Insert(w) PROVE TypeOK'
  BY <1>2 DEF Insert, AfterCommit, Wishes, Statuses
<1>3. ASSUME NEW w \in Workers, InsertConflict(w) PROVE TypeOK'
  BY <1>3 DEF InsertConflict, Loaded
<1>4. ASSUME NEW w \in Workers, Update(w) PROVE TypeOK'
  <2>1. desired[happ[w]] # "none"
    BY <1>4 DEF LoadedRowStays, Update
  <2> QED BY <1>4, <2>1 DEF Update, AfterCommit, Flushed, Wishes, Statuses
<1>5. ASSUME NEW w \in Workers, Unregister(w) PROVE TypeOK'
  BY <1>5 DEF Unregister
<1>6. ASSUME NEW w \in Workers, NEW a \in Apps, Register(w, a) PROVE TypeOK'
  BY <1>6 DEF Register
<1>7. CASE StartSweep
  <2>1. todo' \subseteq Row
    BY <1>7 DEF StartSweep, Row, Wishes, Statuses
  <2> QED BY <1>7, <2>1 DEF StartSweep
<1>8. ASSUME NEW row \in todo, ActOnRow(row) PROVE TypeOK'
  <2>1. row \in Row
    OBVIOUS
  <2>2. ASSUME NEW r \in Outcomes, Acted(row, r)
        PROVE  todo' \subseteq Row /\ acting' \in Row
    BY <2>1, <2>2 DEF Acted, Row, Outcomes, Statuses
  <2>3. CASE Refuse(row)
    BY <1>8, <2>1, <2>2, <2>3 DEF Refuse, Acted, Outcomes
  <2>4. CASE ComposeUp(row)
    BY <1>8, <2>1, <2>2, <2>4 DEF ComposeUp, Acted, Outcomes, Row
  <2>5. CASE ComposeDown(row)
    BY <1>8, <2>1, <2>2, <2>5 DEF ComposeDown, Acted, Outcomes, Row
  <2>6. CASE ComposeFails(row)
    BY <1>8, <2>1, <2>2, <2>6 DEF ComposeFails, Acted, Outcomes, Row
  <2> QED BY <1>8, <2>3, <2>4, <2>5, <2>6 DEF ActOnRow
<1>9. CASE WriteStatus
  <2>1. acting.id \in Apps /\ acting.status \in Outcomes /\ acting.desired \in Wishes
    BY <1>9 DEF WriteStatus, ActingIsTrue, Row
  <2>2. outcomes' \in Seq([id : Apps, status : Outcomes])
    BY <1>9, <2>1 DEF WriteStatus
  <2> QED BY <1>9, <2>1, <2>2 DEF WriteStatus, Wishes, Statuses, Outcomes
<1>10. CASE SweepRaises \/ EndSweep \/ Accounted
  <2>1. CASE SweepRaises
    BY <2>1 DEF SweepRaises
  <2>2. CASE EndSweep \/ Accounted
    BY <2>2 DEF EndSweep, Accounted
  <2> QED BY <1>10, <2>1, <2>2
<1>11. CASE Account
  BY <1>11, AccountTypes
<1>12. CASE Sleep
  BY <1>12 DEF Sleep
<1>13. CASE ServerRestart
  BY <1>13 DEF ServerRestart
<1>14. CASE InstallerRestart
  BY <1>14 DEF InstallerRestart, Forgotten
<1>15. ASSUME NEW a \in Apps, AppRestart(a) PROVE TypeOK'
  BY <1>15 DEF AppRestart
<1>16. CASE UNCHANGED vars
  BY <1>16 DEF vars
<1> QED
  BY <1>1, <1>2, <1>3, <1>4, <1>5, <1>6, <1>7, <1>8, <1>9, <1>10, <1>11, <1>12,
     <1>13, <1>14, <1>15, <1>16 DEF Next, Web, Reconciler, Environment

\* A step on a row of the sweep, in the shape the invariant needs.
LEMMA ActStep ==
  ASSUME TypeOK, NEW row \in todo, ActOnRow(row)
  PROVE  /\ rpc = "sweep" /\ rpc' = "write"
         /\ todo' = todo \ {row}
         /\ acting'.id = row.id /\ acting'.desired = row.desired
         /\ acting' \in Row /\ acting'.status \in Outcomes
         /\ UNCHANGED <<desired, status, hpc, happ, seen, raced, open>>
         /\ \A a \in Apps : a # row.id => up'[a] = up[a]
         /\ acting'.status = "applied" => up'[row.id] = (row.desired = "installed")
<1> row \in Row
  BY DEF TypeOK
<1>1. ASSUME NEW r \in Outcomes, Acted(row, r)
      PROVE  /\ acting' \in Row /\ acting'.id = row.id
             /\ acting'.desired = row.desired /\ acting'.status = r
  BY <1>1 DEF Acted, Row, Outcomes, Statuses
<1>2. CASE Refuse(row)
  BY <1>1, <1>2 DEF Refuse, Acted, Outcomes, db, webv
<1>3. CASE ComposeUp(row)
  BY <1>1, <1>3 DEF ComposeUp, Acted, Outcomes, db, webv, TypeOK, Row
<1>4. CASE ComposeDown(row)
  BY <1>1, <1>4 DEF ComposeDown, Acted, Outcomes, db, webv, TypeOK, Row
<1>5. CASE ComposeFails(row)
  BY <1>1, <1>5 DEF ComposeFails, Acted, Outcomes, db, webv, TypeOK, Row
<1> QED BY <1>2, <1>3, <1>4, <1>5 DEF ActOnRow

\* Rows are never deleted, so what a handler loaded is still there.
LEMMA LoadedStep == ASSUME IInv, [Next]_vars PROVE LoadedRowStays'
<1> USE DEF IInv, LoadedRowStays, TypeOK, db, webv, recv, backoff
<1>1. ASSUME NEW w \in Workers, NEW a \in Apps, NEW want \in Wishes, Request(w, a, want)
      PROVE  LoadedRowStays'
  BY <1>1 DEF Request, Loaded
<1>2. ASSUME NEW w \in Workers, Insert(w) PROVE LoadedRowStays'
  BY <1>2 DEF Insert, AfterCommit, Wishes
<1>3. ASSUME NEW w \in Workers, InsertConflict(w) PROVE LoadedRowStays'
  BY <1>3 DEF InsertConflict, Loaded
<1>4. ASSUME NEW w \in Workers, Update(w) PROVE LoadedRowStays'
  BY <1>4 DEF Update, AfterCommit, Flushed, Wishes
<1>5. ASSUME NEW w \in Workers, Unregister(w) \/ \E a \in Apps : Register(w, a)
      PROVE  LoadedRowStays'
  BY <1>5 DEF Unregister, Register
<1>6. ASSUME NEW row \in todo, ActOnRow(row) PROVE LoadedRowStays'
  BY <1>6, ActStep
<1>7. CASE \/ StartSweep \/ WriteStatus \/ SweepRaises \/ EndSweep \/ Account \/ Accounted
           \/ Sleep \/ ServerRestart \/ InstallerRestart \/ \E a \in Apps : AppRestart(a)
  BY <1>7 DEF StartSweep, WriteStatus, SweepRaises, EndSweep, Account, Accounted,
              Sleep, ServerRestart, InstallerRestart, AppRestart
<1>8. CASE UNCHANGED vars
  BY <1>8 DEF vars
<1> QED
  BY <1>1, <1>2, <1>3, <1>4, <1>5, <1>6, <1>7, <1>8 DEF Next, Web, Reconciler, Environment

\* What the sweep still has to do, and what it has in hand, stay true.
SweepInv == TodoNotApplied /\ TodoDistinct /\ ActingIsTrue

\* A handler's commit never makes a row applied that was not, and a row stays
\* applied under it only if it is then marked as raced.
LEMMA CommitStep ==
  ASSUME TypeOK, NEW w \in Workers, Insert(w) \/ Update(w)
  PROVE  /\ UNCHANGED <<up, rpc, todo, acting>>
         /\ \A a \in Apps : status'[a] = "applied" => status[a] = "applied"
         /\ \A a \in Apps : status'[a] = "applied" /\ a \notin raced'
              => a \notin raced /\ desired'[a] = desired[a]
BY DEF TypeOK, Insert, Update, Flushed, db, webv, recv

\* Every other step of the web application leaves the table and docker alone.
LEMMA QuietStep ==
  ASSUME \/ \E w \in Workers, a \in Apps, want \in Wishes : Request(w, a, want)
         \/ \E w \in Workers : InsertConflict(w) \/ Unregister(w)
         \/ \E w \in Workers, a \in Apps : Register(w, a)
         \/ ServerRestart
         \/ \E a \in Apps : AppRestart(a)
  PROVE  UNCHANGED <<desired, status, up, rpc, todo, acting, raced, open>>
BY DEF Request, InsertConflict, Unregister, Register, ServerRestart, AppRestart,
       db, webv, recv

\* A commit opens the wish that it leaves in the row.
LEMMA CommitOpens ==
  ASSUME TypeOK, LoadedRowStays, NEW w \in Workers, Insert(w) \/ Update(w)
  PROVE  \E a \in Apps, want \in Wishes :
           /\ desired' = [desired EXCEPT ![a] = want]
           /\ open' = [open EXCEPT ![a] = @ \cup {want}]
           /\ \A b \in Apps : b # a => status'[b] = status[b]
<1>1. happ[w] \in Apps /\ hwant[w] \in Wishes /\ desired[happ[w]] \in Wishes \cup {"none"}
      /\ status \in [Apps -> Statuses \cup {"none"}]
  BY DEF TypeOK
<1>2. CASE Insert(w)
  BY <1>1, <1>2 DEF Insert
<1>3. CASE Update(w)
  <2> DEFINE new == Flushed(desired[happ[w]], seen[w].desired, hwant[w])
  <2>1. new \in Wishes
    BY <1>1, <1>3 DEF Update, LoadedRowStays, Flushed
  <2>2. /\ desired' = [desired EXCEPT ![happ[w]] = new]
        /\ open' = [open EXCEPT ![happ[w]] = @ \cup {new}]
        /\ \A b \in Apps : b # happ[w] => status'[b] = status[b]
    BY <1>1, <1>3 DEF Update
  <2> QED BY <1>1, <2>1, <2>2
<1> QED BY <1>2, <1>3

LEMMA SweepStep == ASSUME IInv, [Next]_vars PROVE SweepInv'
<1> USE DEF SweepInv, TodoNotApplied, TodoDistinct, ActingIsTrue
<1> TypeOK /\ SweepInv
  BY DEF IInv
<1> \A row \in todo : row.id \in Apps
  BY DEF TypeOK, Row
<1>1. ASSUME NEW w \in Workers, Insert(w) \/ Update(w) PROVE SweepInv'
  BY <1>1, CommitStep DEF Row
<1>2. ASSUME UNCHANGED <<desired, status, up, rpc, todo, acting, raced>> PROVE SweepInv'
  BY <1>2
<1>3. CASE StartSweep
  BY <1>3 DEF StartSweep, db
<1>4. ASSUME NEW row \in todo, ActOnRow(row) PROVE SweepInv'
  BY <1>4, ActStep
<1>5. CASE WriteStatus
  <2>1. \A row \in todo : row.id # acting.id
    BY <1>5 DEF WriteStatus
  <2> QED BY <1>5, <2>1 DEF WriteStatus, TypeOK
<1>6. CASE SweepRaises \/ EndSweep \/ Account \/ Accounted \/ Sleep \/ InstallerRestart
  BY <1>6 DEF SweepRaises, EndSweep, Account, Accounted, Sleep, InstallerRestart, db
<1>7. CASE UNCHANGED vars
  BY <1>2, <1>7 DEF vars, db, recv
<1>8. CASE Web \/ ServerRestart \/ \E a \in Apps : AppRestart(a)
  BY <1>1, <1>2, <1>8, QuietStep DEF Web
<1> QED
  BY <1>3, <1>4, <1>5, <1>6, <1>7, <1>8 DEF Next, Reconciler, Environment

LEMMA AppliedStep == ASSUME IInv, [Next]_vars PROVE AppliedUnlessRaced'
<1> USE DEF AppliedUnlessRaced
<1> TypeOK /\ TodoNotApplied /\ ActingIsTrue /\ AppliedUnlessRaced
  BY DEF IInv
<1>1. ASSUME NEW w \in Workers, Insert(w) \/ Update(w) PROVE AppliedUnlessRaced'
  BY <1>1, CommitStep
<1>2. ASSUME UNCHANGED <<desired, status, up, rpc, todo, acting, raced>>
      PROVE  AppliedUnlessRaced'
  BY <1>2
<1>3. ASSUME NEW row \in todo, ActOnRow(row) PROVE AppliedUnlessRaced'
  BY <1>3, ActStep DEF TodoNotApplied
<1>4. CASE WriteStatus
  BY <1>4 DEF WriteStatus, ActingIsTrue, TypeOK, Row
<1>5. CASE StartSweep \/ SweepRaises \/ EndSweep \/ Account \/ Accounted \/ Sleep
           \/ InstallerRestart
  BY <1>5 DEF StartSweep, SweepRaises, EndSweep, Account, Accounted, Sleep,
              InstallerRestart, db
<1>6. CASE UNCHANGED vars
  BY <1>2, <1>6 DEF vars, db, recv
<1>7. CASE Web \/ ServerRestart \/ \E a \in Apps : AppRestart(a)
  BY <1>1, <1>2, <1>7, QuietStep DEF Web
<1> QED
  BY <1>3, <1>4, <1>5, <1>6, <1>7 DEF Next, Reconciler, Environment

\* What is acted on is open: a commit opens the wish it leaves in the row, and only
\* the write of an "applied" closes what is open.
LEMMA OpenStep == ASSUME IInv, [Next]_vars PROVE ActsOnOpen'
<1> USE DEF ActsOnOpen
<1> TypeOK /\ LoadedRowStays /\ ActingIsTrue /\ ActsOnOpen /\ \A row \in todo : row.id \in Apps
  BY DEF IInv, TypeOK, Row
<1>1. ASSUME NEW w \in Workers, Insert(w) \/ Update(w) PROVE ActsOnOpen'
  <2>1. PICK a \in Apps, want \in Wishes :
          /\ desired' = [desired EXCEPT ![a] = want]
          /\ open' = [open EXCEPT ![a] = @ \cup {want}]
          /\ \A b \in Apps : b # a => status'[b] = status[b]
    BY <1>1, CommitOpens
  <2>2. todo' = todo
    BY <1>1, CommitStep
  <2>3. desired \in [Apps -> Wishes \cup {"none"}] /\ open \in [Apps -> SUBSET Wishes]
    BY DEF TypeOK
  <2> QED BY <2>1, <2>2, <2>3
<1>2. ASSUME UNCHANGED <<desired, status, up, rpc, todo, acting, raced, open>> PROVE ActsOnOpen'
  BY <1>2
<1>3. CASE StartSweep
  BY <1>3 DEF StartSweep, db
<1>4. ASSUME NEW row \in todo, ActOnRow(row) PROVE ActsOnOpen'
  BY <1>4, ActStep
<1>5. CASE WriteStatus
  <2>1. \A row \in todo : row.id # acting.id
    BY <1>5 DEF WriteStatus, ActingIsTrue
  <2> DEFINE a == acting.id
  <2>2. /\ a \in Apps /\ acting.desired \in Wishes /\ acting.status \in Outcomes
        /\ UNCHANGED <<desired, todo>>
        /\ \A b \in Apps : b # a => status'[b] = status[b] /\ open'[b] = open[b]
    BY <1>5 DEF WriteStatus, ActingIsTrue, TypeOK, Row
  <2>3. CASE desired[a] = acting.desired
    <3>1. status[a] \in {"pending", "failed"}
      BY <1>5, <2>2, <2>3 DEF WriteStatus, ActingIsTrue, TypeOK, Wishes, Statuses
    <3>2. /\ status'[a] = acting.status
          /\ acting.status # "applied" => open'[a] = open[a]
      BY <1>5, <2>2, <2>3 DEF WriteStatus, TypeOK
    <3> QED BY <2>1, <2>2, <3>1, <3>2
  <2>4. CASE desired[a] # acting.desired
    BY <1>5, <2>2, <2>4 DEF WriteStatus
  <2> QED BY <2>3, <2>4
<1>6. CASE SweepRaises \/ EndSweep \/ Account \/ Accounted \/ Sleep \/ InstallerRestart
  BY <1>6 DEF SweepRaises, EndSweep, Account, Accounted, Sleep, InstallerRestart, db
<1>7. CASE UNCHANGED vars
  BY <1>2, <1>7 DEF vars, db, recv
<1>8. CASE Web \/ ServerRestart \/ \E a \in Apps : AppRestart(a)
  BY <1>1, <1>2, <1>8, QuietStep DEF Web
<1> QED
  BY <1>3, <1>4, <1>5, <1>6, <1>7, <1>8 DEF Next, Reconciler, Environment

\* The inductive invariant holds in every reachable state.
LEMMA Inductive == Spec => []IInv
<1>1. Init => IInv
  BY InitIInv
<1>2. IInv /\ [Next]_vars => IInv'
  BY TypeStep, LoadedStep, SweepStep, AppliedStep, OpenStep DEF IInv, SweepInv
<1> QED BY <1>1, <1>2, PTL DEF Spec

-----------------------------------------------------------------------------

\* AppInstall is type correct.
THEOREM TypeCorrect == Spec => []TypeOK
BY Inductive, PTL DEF IInv

\* An applied row tells the truth about docker unless the request that wrote it
\* overlapped the write-back (_write_intent against SqlIntentStore.set_status).
THEOREM AppliedIsTrue == Spec => []AppliedUnlessRaced
BY Inductive, PTL DEF IInv

\* A step on a row of the sweep moves the container to what the row asks, or not.
LEMMA DockerStep ==
  ASSUME NEW row \in todo, ActOnRow(row)
  PROVE  up' = up \/ up' = [up EXCEPT ![row.id] = (row.desired = "installed")]
<1>1. CASE Refuse(row)
  BY <1>1 DEF Refuse
<1>2. CASE ComposeUp(row)
  BY <1>2 DEF ComposeUp
<1>3. CASE ComposeDown(row)
  BY <1>3 DEF ComposeDown
<1>4. CASE ComposeFails(row)
  BY <1>4 DEF ComposeFails
<1> QED BY <1>1, <1>2, <1>3, <1>4 DEF ActOnRow

\* Every step of the web application, the reconciler and their restarts is one of
\* the promise, or changes nothing it speaks of.
LEMMA StepsKeepPromise == ASSUME IInv, [Next]_vars PROVE [Promise!Next]_(Promise!promise)
<1> TypeOK /\ LoadedRowStays /\ ActsOnOpen /\ ActingIsTrue /\ \A row \in todo : row.id \in Apps
  BY DEF IInv, TypeOK, Row
<1>1. ASSUME NEW w \in Workers, Insert(w) \/ Update(w) PROVE Promise!Next
  <2>1. PICK a \in Apps, want \in Wishes :
          /\ desired' = [desired EXCEPT ![a] = want]
          /\ open' = [open EXCEPT ![a] = @ \cup {want}]
    BY <1>1, CommitOpens
  <2>2. up' = up
    BY <1>1, CommitStep
  <2>3. Promise!Wish(a, want)
    BY <2>1, <2>2 DEF Promise!Wish
  <2> QED BY <2>3 DEF Promise!Next, Promise!Wishes, Wishes
<1>2. ASSUME UNCHANGED <<desired, status, up, rpc, todo, acting, raced, open>>
      PROVE  UNCHANGED Promise!promise
  BY <1>2 DEF Promise!promise
<1>3. ASSUME NEW row \in todo, ActOnRow(row) PROVE Promise!Next \/ UNCHANGED Promise!promise
  <2>1. UNCHANGED <<desired, open>> /\ row.desired \in open[row.id] /\ row.id \in Apps
    BY <1>3, ActStep DEF ActsOnOpen
  <2>2. CASE up' = up
    BY <2>1, <2>2 DEF Promise!promise
  <2>3. CASE up' = [up EXCEPT ![row.id] = (row.desired = "installed")]
    <3>1. Promise!Drive(row.id)
      BY <2>1, <2>3 DEF Promise!Drive
    <3> QED BY <2>1, <3>1 DEF Promise!Next
  <2> QED BY <1>3, <2>2, <2>3, DockerStep
<1>4. CASE WriteStatus
  <2> DEFINE a == acting.id
  <2>1. /\ UNCHANGED <<desired, up>> /\ a \in Apps
        /\ acting.status = "applied" => up[a] = (acting.desired = "installed")
    BY <1>4 DEF WriteStatus, ActingIsTrue, Row
  <2>2. CASE open' = open
    BY <2>1, <2>2 DEF Promise!promise
  <2>3. CASE open' # open
    <3>1. /\ desired[a] = acting.desired /\ acting.status = "applied"
          /\ open' = [open EXCEPT ![a] = {}]
      BY <1>4, <2>3 DEF WriteStatus
    <3>2. open[a] # {}
      BY <2>3, <3>1 DEF TypeOK
    <3>3. Promise!Fulfil(a)
      BY <2>1, <3>1, <3>2 DEF Promise!Fulfil
    <3> QED BY <2>1, <3>3 DEF Promise!Next
  <2> QED BY <2>2, <2>3
<1>5. CASE StartSweep \/ SweepRaises \/ EndSweep \/ Account \/ Accounted \/ Sleep \/ InstallerRestart
  BY <1>5 DEF StartSweep, SweepRaises, EndSweep, Account, Accounted, Sleep, InstallerRestart, db,
              Promise!promise
<1>6. CASE UNCHANGED vars
  BY <1>6 DEF vars, db, Promise!promise
<1>7. CASE Web \/ ServerRestart \/ \E a \in Apps : AppRestart(a)
  BY <1>1, <1>2, <1>7, QuietStep DEF Web
<1> QED BY <1>3, <1>4, <1>5, <1>6, <1>7 DEF Next, Reconciler, Environment

\* The table and the two processes implement the promise: however requests, sweeps,
\* docker's failures and restarts interleave, a container is only changed towards an
\* open wish, and reported applied only if it is as the last wish asks.
THEOREM InstallImplementsPromise == Spec => PromiseKept
<1>1. Init => Promise!Init
  BY DEF Init, Promise!Init
<1> QED BY <1>1, Inductive, StepsKeepPromise, PTL DEF Spec, PromiseKept, Promise!Spec

\* An app with no wish open is as its row asks, whatever happens to the processes
\* (Drive needs an open wish): it follows from the promise alone.
THEOREM FulfilledStaysTrue == Spec => []Promise!FulfilledIsTrue
<1> DEFINE PInv == open \in [Apps -> SUBSET Wishes] /\ up \in [Apps -> BOOLEAN]
                     /\ desired \in [Apps -> Wishes \cup {"none"}] /\ Promise!FulfilledIsTrue
<1>1. Promise!Init => PInv
  BY DEF Promise!Init, Promise!FulfilledIsTrue
<1>2. ASSUME PInv, [Promise!Next]_(Promise!promise) PROVE PInv'
  <2>1. ASSUME NEW a \in Apps, NEW w \in Wishes, Promise!Wish(a, w) PROVE PInv'
    BY <1>2, <2>1 DEF Promise!Wish, Promise!FulfilledIsTrue
  <2>2. ASSUME NEW a \in Apps, Promise!Drive(a) PROVE PInv'
    BY <1>2, <2>2 DEF Promise!Drive, Promise!FulfilledIsTrue
  <2>3. ASSUME NEW a \in Apps, Promise!Fulfil(a) PROVE PInv'
    BY <1>2, <2>3 DEF Promise!Fulfil, Promise!FulfilledIsTrue
  <2>4. CASE UNCHANGED Promise!promise
    BY <1>2, <2>4 DEF Promise!promise, Promise!FulfilledIsTrue
  <2> QED BY <1>2, <2>1, <2>2, <2>3, <2>4 DEF Promise!Next, Promise!Wishes, Wishes
<1> QED BY <1>1, <1>2, InstallImplementsPromise, PTL DEF PromiseKept, Promise!Spec
=============================================================================
