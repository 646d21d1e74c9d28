------------------------------- MODULE MCTape -------------------------------
(***************************************************************************)
(* The tape and its users in one system: the recorder writes it, the       *)
(* maintenance thins it, the replay rebuilds books from it and the cycles  *)
(* judge shadow orders on it.  An order is judged within two hours of its  *)
(* window and maintenance touches no row before two days, so a behaviour   *)
(* is either about prints and orders, with the clock in minutes, or about  *)
(* books and maintenance, with the clock in days.                          *)
(***************************************************************************)
EXTENDS ShadowOrders, TapeCare

vars == <<recorderVars, shadowVars>>

Init == RecorderInit /\ ShadowInit

\* The retention job is scheduled outside the session: it meets a tape that
\* is not being written.
Maintenance ==
  /\ content = "delta"
  /\ rec.state \in {"off", "done"}
  /\ CareNext
  /\ UNCHANGED shadowVars

\* A bound: the clock that counts minutes starts when the orders are placed.
ClockStarted == content = "trade" => \A o \in Orders : orders[o].status # "none"

RecorderStep == RecorderNext /\ (now' # now => ClockStarted) /\ UNCHANGED shadowVars

Next ==
  \/ RecorderStep
  \/ Maintenance
  \/ ShadowNext

Spec == Init /\ [][Next]_vars

\* The clock runs, and the session's cycles judge every quarter of an hour.
\* A pass that fails is tried again by the next cycle.
Fairness == WF_vars(Tick /\ ClockStarted /\ UNCHANGED shadowVars) /\ WF_vars(Resolve)

FairSpec == Spec /\ Fairness

TapeTypeOK == RecorderTypeOK /\ ShadowTypeOK
=============================================================================
