--------------------------- MODULE InstallPromise ---------------------------
(***************************************************************************)
(* What one-click install promises, with no table, sweep or process in     *)
(* sight: operators wish for an app to be there or not, and the app's      *)
(* container is changed towards a wish that is still open, and by nothing  *)
(* else, until it is as the last wish asks.                                *)
(* (`DESIRED state ... this process drives compose toward it',             *)
(* scripts/app-installer/reconciler.py.)                                   *)
(***************************************************************************)

CONSTANTS Apps

VARIABLES
  wish,     \* wish[a]: the last wish, or "none"
  running,  \* running[a]: the app's container runs
  open      \* open[a]: the wishes made since the last that was fulfilled

promise == <<wish, running, open>>

Wishes == {"installed", "absent"}

Init ==
  /\ wish = [a \in Apps |-> "none"]
  /\ running = [a \in Apps |-> FALSE]
  /\ open = [a \in Apps |-> {}]

Wish(a, w) ==
  /\ wish' = [wish EXCEPT ![a] = w]
  /\ open' = [open EXCEPT ![a] = @ \cup {w}]
  /\ UNCHANGED running

\* An earlier wish may still be worked on when a later one has been made
Drive(a) ==
  /\ \E w \in open[a] : running' = [running EXCEPT ![a] = (w = "installed")]
  /\ UNCHANGED <<wish, open>>

Fulfil(a) ==
  /\ open[a] # {}
  /\ running[a] = (wish[a] = "installed")
  /\ open' = [open EXCEPT ![a] = {}]
  /\ UNCHANGED <<wish, running>>

Next == \E a \in Apps : (\E w \in Wishes : Wish(a, w)) \/ Drive(a) \/ Fulfil(a)

Spec == Init /\ [][Next]_promise

\* What the promise amounts to: with no wish open, the container is as the last
\* wish asks.
FulfilledIsTrue ==
  \A a \in Apps : wish[a] # "none" /\ open[a] = {} => running[a] = (wish[a] = "installed")
=============================================================================
