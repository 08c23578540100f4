----------------------------- MODULE AppInstall -----------------------------
(***************************************************************************)
(* One-click app install: the web application writes DESIRED state into    *)
(* the table app_install_intents, and a separate reconciler process        *)
(* (scripts/app-installer) drives docker compose towards it and writes the *)
(* outcome back.                                                           *)
(*                                                                         *)
(* The two processes share the table and nothing else.  A request handler  *)
(* SELECTs its row, assigns the columns on the ORM object and COMMITs; the *)
(* UPDATE it emits carries only the columns whose value differs from the   *)
(* one loaded, so the SELECT and the COMMIT are two steps here and the     *)
(* reconciler may write between them.  The reconciler lists the rows once  *)
(* per sweep, acts on that snapshot, and guards each status write on the   *)
(* desired value it acted on.                                              *)
(***************************************************************************)
EXTENDS Naturals, Sequences

CONSTANTS Apps,            \* kebab-case app ids
          ServerIndex,     \* ids in the web app's copy of apps_index.yml
          InstallerIndex,  \* ids in the copy baked into the installer image
          Workers,         \* server workers, each running one handler at a time
          MaxRequests,     \* bound: install/uninstall requests in a behaviour
          BackoffCap,      \* BACKOFF_CAP_SECONDS in poll intervals
          MaxExponent      \* largest n for which 10.0 * 2^n is computable (1023)

ASSUME IndexAssumption == ServerIndex \subseteq Apps /\ InstallerIndex \subseteq Apps
ASSUME BoundAssumption == /\ MaxRequests \in Nat
                          /\ BackoffCap \in Nat \ {0}
                          /\ MaxExponent \in Nat

VARIABLES
  desired,    \* app_install_intents.desired, "none" where there is no row
  status,     \* app_install_intents.status, "none" where there is no row
  card,       \* card[a]: installed_apps has a row for a
  up,         \* up[a]: the app's container exists and runs
  booting,    \* booting[a]: the container has not yet made its register call
  hpc,        \* hpc[w]: "idle", "loaded" (row SELECTed), "unregister"
  happ,       \* happ[w]: the app of the request in hand
  hwant,      \* hwant[w]: the desired value of the request in hand
  seen,       \* seen[w]: the row as the handler loaded it
  rpc,        \* reconciler: "idle", "sweep", "write", "account", "sleep"
  todo,       \* rows of the sweep's snapshot still to be acted on
  acting,     \* the row acted on, with the status to write back
  outcomes,   \* what reconcile_once will return: <<[id, status], ...>>
  failures,   \* failures[a]: consecutive failures counted (in memory)
  wait,       \* wait[a]: polls until next_try[a] (in memory)
  raced,      \* history: apps whose last request left an "applied" of before it
  open,       \* history: open[a]: the wishes committed since one was last fulfilled
  requests    \* history: number of requests so far, for the bound

db     == <<desired, status>>
webv   == <<hpc, happ, hwant, seen>>
recv   == <<rpc, todo, acting, outcomes>>
backoff == <<failures, wait>>
vars == <<db, card, up, booting, webv, recv, backoff, raced, open, requests>>

Wishes   == {"installed", "absent"}
Statuses == {"pending", "applied", "failed"}
Outcomes == {"applied", "failed"}
Row      == [id : Apps, desired : Wishes, status : Statuses]
NoActing == [id |-> "none", desired |-> "absent", status |-> "failed"]

\* The row an AppInstallIntent query returns for app a.
Loaded(a) == [desired |-> desired[a], status |-> status[a]]
\* The reconciler's backoff memory after a start.
Forgotten == [a \in Apps |-> 0]

Init ==
  /\ desired = [a \in Apps |-> "none"]
  /\ status = [a \in Apps |-> "none"]
  /\ card = [a \in Apps |-> FALSE]
  /\ up = [a \in Apps |-> FALSE]
  /\ booting = [a \in Apps |-> FALSE]
  /\ hpc = [w \in Workers |-> "idle"]
  /\ happ \in [Workers -> Apps]
  /\ hwant = [w \in Workers |-> "absent"]
  /\ seen = [w \in Workers |-> [desired |-> "none", status |-> "none"]]
  /\ rpc = "idle"
  /\ todo = {}
  /\ acting = NoActing
  /\ outcomes = <<>>
  /\ failures = Forgotten
  /\ wait = Forgotten
  /\ raced = {}
  /\ open = [a \in Apps |-> {}]
  /\ requests = 0

-----------------------------------------------------------------------------
(* The web application *)

\* install_app / uninstall_app past their gates, up to the SELECT of
\* _write_intent.  An id outside the server's index is a 404: no step.
Request(w, a, want) ==
  /\ hpc[w] = "idle"
  /\ requests < MaxRequests
  /\ a \in ServerIndex
  /\ requests' = requests + 1
  /\ hpc' = [hpc EXCEPT ![w] = "loaded"]
  /\ happ' = [happ EXCEPT ![w] = a]
  /\ hwant' = [hwant EXCEPT ![w] = want]
  /\ seen' = [seen EXCEPT ![w] = Loaded(a)]
  /\ UNCHANGED <<db, card, up, booting, recv, backoff, raced, open>>

\* After the commit an uninstall still drops the app's registration row.
AfterCommit(w) == hpc' = [hpc EXCEPT ![w] =
                     IF hwant[w] = "absent" THEN "unregister" ELSE "idle"]

\* Mutant: the INSERT leaves status to a default the table does not have.
InsertWithoutStatus(w) ==
  LET a == happ[w] IN
  /\ hpc[w] = "loaded"
  /\ seen[w].desired = "none"
  /\ desired[a] = "none"
  /\ desired' = [desired EXCEPT ![a] = hwant[w]]
  /\ open' = [open EXCEPT ![a] = @ \cup {hwant[w]}]
  /\ AfterCommit(w)
  /\ UNCHANGED <<status, card, up, booting, happ, hwant, seen, recv, backoff, raced, requests>>

\* _write_intent, no row was loaded: INSERT a pending row.
Insert(w) ==
  LET a == happ[w] IN
  /\ hpc[w] = "loaded"
  /\ seen[w].desired = "none"
  /\ desired[a] = "none"
  /\ desired' = [desired EXCEPT ![a] = hwant[w]]
  /\ status' = [status EXCEPT ![a] = "pending"]
  /\ open' = [open EXCEPT ![a] = @ \cup {hwant[w]}]
  /\ AfterCommit(w)
  /\ UNCHANGED <<card, up, booting, happ, hwant, seen, recv, backoff, raced, requests>>

\* The INSERT meets a row another handler inserted: IntegrityError, rollback,
\* SELECT again, and apply the request to the winner's row.
InsertConflict(w) ==
  LET a == happ[w] IN
  /\ hpc[w] = "loaded"
  /\ seen[w].desired = "none"
  /\ desired[a] # "none"
  /\ seen' = [seen EXCEPT ![w] = Loaded(a)]
  /\ UNCHANGED <<db, card, up, booting, hpc, happ, hwant, recv, backoff, raced, open, requests>>

\* The value a column has after the flush: assigned only when the new value
\* differs from the one that was loaded.
Flushed(current, loaded, new) == IF new = loaded THEN current ELSE new

\* Mutant: a repeated request flips desired but does not reset status.
UpdateWithoutReset(w) ==
  LET a == happ[w] IN
  /\ hpc[w] = "loaded"
  /\ seen[w].desired # "none"
  /\ desired' = [desired EXCEPT ![a] = Flushed(desired[a], seen[w].desired, hwant[w])]
  /\ open' = [open EXCEPT ![a] = @ \cup {desired'[a]}]
  /\ AfterCommit(w)
  /\ UNCHANGED <<status, card, up, booting, happ, hwant, seen, recv, backoff, raced, requests>>

\* _apply on a loaded row: the COMMIT emits UPDATE for the changed columns.
Update(w) ==
  LET a == happ[w]
      newDesired == Flushed(desired[a], seen[w].desired, hwant[w])
      newStatus  == Flushed(status[a], seen[w].status, "pending")
  IN
  /\ hpc[w] = "loaded"
  /\ seen[w].desired # "none"
  /\ desired' = [desired EXCEPT ![a] = newDesired]
  /\ status' = [status EXCEPT ![a] = newStatus]
  /\ raced' = IF newStatus = "applied" THEN raced \cup {a} ELSE raced \ {a}
  /\ open' = [open EXCEPT ![a] = @ \cup {newDesired}]
  /\ AfterCommit(w)
  /\ UNCHANGED <<card, up, booting, happ, hwant, seen, recv, backoff, requests>>

\* uninstall_app deletes the registration row, if there is one.
Unregister(w) ==
  /\ hpc[w] = "unregister"
  /\ card' = [card EXCEPT ![happ[w]] = FALSE]
  /\ hpc' = [hpc EXCEPT ![w] = "idle"]
  /\ UNCHANGED <<db, up, booting, happ, hwant, seen, recv, backoff, raced, open, requests>>

\* register_app: upsert by manifest id, whatever the intent row says.
Register(w, a) ==
  /\ hpc[w] = "idle"
  /\ booting[a]
  /\ card' = [card EXCEPT ![a] = TRUE]
  /\ booting' = [booting EXCEPT ![a] = FALSE]
  /\ UNCHANGED <<db, up, webv, recv, backoff, raced, open, requests>>

\* The server process dies: handlers in flight are gone, commits stay.
ServerRestart ==
  /\ \E w \in Workers : hpc[w] # "idle"
  /\ hpc' = [w \in Workers |-> "idle"]
  /\ UNCHANGED <<db, card, up, booting, happ, hwant, seen, recv, backoff, raced, open, requests>>

\* The container restarts (restart: unless-stopped) and will register again.
AppRestart(a) ==
  /\ up[a]
  /\ booting' = [booting EXCEPT ![a] = TRUE]
  /\ UNCHANGED <<db, card, up, webv, recv, backoff, raced, open, requests>>

-----------------------------------------------------------------------------
(* The reconciler *)

\* reconcile_once lists every row; rows already applied and rows inside their
\* backoff window are skipped, both judged on the values of this moment.
StartSweep ==
  /\ rpc = "idle"
  /\ rpc' = "sweep"
  /\ todo' = { [id |-> a, desired |-> desired[a], status |-> status[a]] :
                 a \in { b \in Apps : /\ status[b] \in {"pending", "failed"}
                                      /\ wait[b] = 0 } }
  /\ outcomes' = <<>>
  /\ UNCHANGED <<db, card, up, booting, webv, acting, backoff, raced, open, requests>>

\* The result of the row in hand is known and will be written back next.
Acted(row, result) ==
  /\ rpc' = "write"
  /\ todo' = todo \ {row}
  /\ acting' = [row EXCEPT !.status = result]
  /\ UNCHANGED <<db, card, webv, outcomes, backoff, raced, open, requests>>

\* reconcile_intent refuses to install an id outside the installer's index.
Refuse(row) ==
  /\ rpc = "sweep" /\ row \in todo
  /\ row.desired = "installed"
  /\ row.id \notin InstallerIndex
  /\ Acted(row, "failed")
  /\ UNCHANGED <<up, booting>>

\* docker compose up -d exits 0: the container runs, and boots if it did not.
ComposeUp(row) ==
  /\ rpc = "sweep" /\ row \in todo
  /\ row.desired = "installed"
  /\ row.id \in InstallerIndex
  /\ up' = [up EXCEPT ![row.id] = TRUE]
  /\ booting' = [booting EXCEPT ![row.id] = @ \/ ~up[row.id]]
  /\ Acted(row, "applied")

\* docker compose rm -s -f exits 0: the container is stopped and removed.
ComposeDown(row) ==
  /\ rpc = "sweep" /\ row \in todo
  /\ row.desired = "absent"
  /\ up' = [up EXCEPT ![row.id] = FALSE]
  /\ booting' = [booting EXCEPT ![row.id] = FALSE]
  /\ Acted(row, "applied")

\* docker exits non-zero, with or without having had its effect.
ComposeFails(row) ==
  /\ rpc = "sweep" /\ row \in todo
  /\ row.desired = "installed" => row.id \in InstallerIndex
  /\ \/ UNCHANGED <<up, booting>>
     \/ /\ up' = [up EXCEPT ![row.id] = (row.desired = "installed")]
        /\ booting' = [booting EXCEPT ![row.id] =
                         row.desired = "installed" /\ (@ \/ ~up[row.id])]
  /\ Acted(row, "failed")

\* Mutant: the write-back is guarded on the id alone.
WriteStatusUnguarded ==
  LET a == acting.id IN
  /\ rpc = "write"
  /\ rpc' = "sweep"
  /\ status' = [status EXCEPT ![a] = acting.status]
  /\ raced' = raced \ {a}
  /\ open' = IF acting.status = "applied" THEN [open EXCEPT ![a] = {}] ELSE open
  /\ outcomes' = Append(outcomes, [id |-> a, status |-> acting.status])
  /\ UNCHANGED <<desired, card, up, booting, webv, todo, acting, backoff, requests>>

\* set_status: UPDATE ... WHERE id = ... AND desired = <the value acted on>.
WriteStatus ==
  LET a == acting.id IN
  /\ rpc = "write"
  /\ rpc' = "sweep"
  /\ status' = IF desired[a] = acting.desired
               THEN [status EXCEPT ![a] = acting.status] ELSE status
  /\ raced' = IF desired[a] = acting.desired THEN raced \ {a} ELSE raced
  /\ open' = IF desired[a] = acting.desired /\ acting.status = "applied"
             THEN [open EXCEPT ![a] = {}] ELSE open
  /\ outcomes' = Append(outcomes, [id |-> a, status |-> acting.status])
  /\ UNCHANGED <<desired, card, up, booting, webv, todo, acting, backoff, requests>>

\* The list, the runner or the status write raises: main() logs it and sleeps;
\* the rows not reached and the outcomes gathered so far are dropped.
SweepRaises ==
  /\ rpc \in {"sweep", "write"}
  /\ rpc' = "sleep"
  /\ todo' = {}
  /\ outcomes' = <<>>
  /\ UNCHANGED <<db, card, up, booting, webv, acting, backoff, raced, open, requests>>

EndSweep ==
  /\ rpc = "sweep"
  /\ todo = {}
  /\ rpc' = "account"
  /\ UNCHANGED <<db, card, up, booting, webv, todo, acting, outcomes, backoff, raced, open, requests>>

\* main()'s retry delay after the n-th consecutive failure, in polls.
Delay(n) == IF 2 ^ (n - 1) \in 1 .. BackoffCap THEN 2 ^ (n - 1) ELSE BackoffCap

\* The in-memory failure count is unbounded; two values past the largest
\* exponent behave alike.
CountFailure(n) == IF n > MaxExponent THEN MaxExponent + 2 ELSE n + 1

\* main() accounts for one outcome.  Computing the delay raises OverflowError
\* when the exponent no longer fits a float: the loop over the outcomes ends.
Account ==
  LET o == Head(outcomes)
      n == CountFailure(failures[o.id])
  IN
  /\ rpc = "account"
  /\ outcomes # <<>>
  /\ IF o.status = "failed"
     THEN /\ failures' = [failures EXCEPT ![o.id] = n]
          /\ IF n - 1 <= MaxExponent
             THEN /\ wait' = [wait EXCEPT ![o.id] = Delay(n)]
                  /\ outcomes' = Tail(outcomes)
                  /\ UNCHANGED rpc
             ELSE /\ outcomes' = <<>>
                  /\ rpc' = "sleep"
                  /\ UNCHANGED wait
     ELSE /\ failures' = [failures EXCEPT ![o.id] = 0]
          /\ wait' = [wait EXCEPT ![o.id] = 0]
          /\ outcomes' = Tail(outcomes)
          /\ UNCHANGED rpc
  /\ UNCHANGED <<db, card, up, booting, webv, todo, acting, raced, open, requests>>

Accounted ==
  /\ rpc = "account"
  /\ outcomes = <<>>
  /\ rpc' = "sleep"
  /\ UNCHANGED <<db, card, up, booting, webv, todo, acting, outcomes, backoff, raced, open, requests>>

\* Mutant: a backoff window, once opened, never runs out.
SleepForever ==
  /\ rpc = "sleep"
  /\ rpc' = "idle"
  /\ UNCHANGED <<db, card, up, booting, webv, todo, acting, outcomes, backoff, raced, open, requests>>

\* time.sleep(poll_seconds): every backoff window is one poll shorter.
Sleep ==
  /\ rpc = "sleep"
  /\ rpc' = "idle"
  /\ wait' = [a \in Apps |-> IF wait[a] = 0 THEN 0 ELSE wait[a] - 1]
  /\ UNCHANGED <<db, card, up, booting, webv, todo, acting, outcomes, failures, raced, open, requests>>

\* The installer process restarts at any point: its memory is gone.
InstallerRestart ==
  /\ \/ rpc # "idle"
     \/ failures # Forgotten
  /\ rpc' = "idle"
  /\ todo' = {}
  /\ outcomes' = <<>>
  /\ failures' = Forgotten
  /\ wait' = Forgotten
  /\ UNCHANGED <<db, card, up, booting, webv, acting, raced, open, requests>>

-----------------------------------------------------------------------------

Web ==
  \E w \in Workers :
    \/ \E a \in Apps, want \in Wishes : Request(w, a, want)
    \/ Insert(w)
    \/ InsertConflict(w)
    \/ Update(w)
    \/ Unregister(w)
    \/ \E a \in Apps : Register(w, a)

ActOnRow(row) == Refuse(row) \/ ComposeUp(row) \/ ComposeDown(row) \/ ComposeFails(row)

Reconciler ==
  \/ StartSweep
  \/ \E row \in todo : ActOnRow(row)
  \/ WriteStatus
  \/ SweepRaises
  \/ EndSweep
  \/ Account
  \/ Accounted
  \/ Sleep

Environment == ServerRestart \/ InstallerRestart \/ \E a \in Apps : AppRestart(a)

Next == Web \/ Reconciler \/ Environment

Spec == Init /\ [][Next]_vars

(***************************************************************************)
(* Fairness.  The reconciler is a loop under while True, so it always      *)
(* takes its next step.  That docker works and that a status write         *)
(* succeeds are hopes about the environment: they are granted only         *)
(* infinitely often, and only to an app that keeps being tried (SF).       *)
(***************************************************************************)
Succeeds(a) == \E row \in todo : row.id = a /\ (ComposeUp(row) \/ ComposeDown(row))
WritesBack(a) == acting.id = a /\ acting.status = "applied" /\ WriteStatus

Fairness ==
  /\ WF_vars(Reconciler)
  /\ \A a \in Apps : SF_vars(Succeeds(a)) /\ SF_vars(WritesBack(a))

FairSpec == Spec /\ Fairness
-----------------------------------------------------------------------------
(* Properties *)

\* Every variable holds a value of its type; in particular a row and its
\* status appear together.
TypeOK ==
  /\ desired \in [Apps -> Wishes \cup {"none"}]
  /\ status \in [Apps -> Statuses \cup {"none"}]
  /\ \A a \in Apps : desired[a] = "none" <=> status[a] = "none"
  /\ card \in [Apps -> BOOLEAN]
  /\ up \in [Apps -> BOOLEAN]
  /\ booting \in [Apps -> BOOLEAN]
  /\ hpc \in [Workers -> {"idle", "loaded", "unregister"}]
  /\ happ \in [Workers -> Apps]
  /\ hwant \in [Workers -> Wishes]
  /\ seen \in [Workers -> [desired : Wishes \cup {"none"}, status : Statuses \cup {"none"}]]
  /\ rpc \in {"idle", "sweep", "write", "account", "sleep"}
  /\ todo \subseteq Row
  /\ acting \in Row \cup {NoActing}
  /\ outcomes \in Seq([id : Apps, status : Outcomes])
  /\ failures \in [Apps -> Nat]
  /\ wait \in [Apps -> Nat]
  /\ raced \subseteq Apps
  /\ open \in [Apps -> SUBSET Wishes]
  /\ requests \in 0 .. MaxRequests

\* A row that reads "applied" tells the truth about docker -- the container
\* runs exactly if the row says installed -- unless the request that wrote the
\* row overlapped the reconciler's write of that same "applied".  The race is
\* the only way to lose a request: staleness of the sweep's snapshot, flips
\* back and forth, failed or half-done docker runs, dropped outcomes and
\* restarts of either process are all harmless.
AppliedUnlessRaced ==
  \A a \in Apps : status[a] = "applied" /\ a \notin raced
                    => up[a] = (desired[a] = "installed")

\* The table and the two processes implement the promise.  A container is only
\* changed towards a wish made since one was last fulfilled -- never on account
\* of an older snapshot, a retry, or a repeated or restarted sweep -- so that an
\* app whose row is fulfilled is left alone; and set_status reports a completion
\* only if docker's state is as the row, which may have been flipped during the
\* run, then asks.
Promise == INSTANCE InstallPromise WITH wish <- desired, running <- up
PromiseKept == Promise!Spec

\* A request the installer can act on is eventually applied, through docker
\* failures, backoff, dropped sweeps and restarts of both processes.
EventuallyApplied ==
  \A a \in InstallerIndex : status[a] \in {"pending", "failed"} ~> status[a] = "applied"
=============================================================================
