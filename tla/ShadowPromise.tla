--------------------------- MODULE ShadowPromise ---------------------------
(***************************************************************************)
(* What a shadow maker order promises its reader, whatever happens to the  *)
(* recorder: it is judged at most once, never before its last rest window  *)
(* has closed, and never credits a contract the market did not print       *)
(* through it.                                                             *)
(***************************************************************************)
EXTENDS Integers

CONSTANTS
  Orders,
  Quantity   \* contracts each order asks for

VARIABLES
  status,   \* what the reader sees of each order
  filled,   \* contracts each order is credited with
  closed,   \* placed orders whose last window has closed
  through   \* contracts the market printed through each placed order

promiseVars == <<status, filled, closed, through>>

Verdicts == {"filled", "partial", "unfilled", "unproven"}

\* Does a verdict say what its fill says?
Agrees(s, n) ==
  CASE s = "filled"  -> n = Quantity
    [] s = "partial" -> n \in 1..(Quantity - 1)
    [] OTHER         -> n = 0

Init ==
  /\ status = [o \in Orders |-> "none"]
  /\ filled = [o \in Orders |-> 0]
  /\ closed = {}
  /\ through = [o \in Orders |-> 0]

\* Time passes and the market prints; a closed window is over.
MarketMoves ==
  /\ closed \subseteq closed'
  /\ \A o \in Orders : through'[o] >= through[o]
  /\ \A o \in closed : through'[o] = through[o]
  /\ UNCHANGED <<status, filled>>

Place(o) ==
  /\ status[o] = "none"
  /\ \E s \in {"pending", "not_placed"} : status' = [status EXCEPT ![o] = s]
  /\ \A q \in Orders \ {o} : through'[q] = through[q]
  /\ UNCHANGED <<filled, closed>>

Judge ==
  /\ \A o \in Orders :
       \/ UNCHANGED <<status[o], filled[o]>>
       \/ /\ status[o] = "pending" /\ o \in closed
          /\ status'[o] \in Verdicts
          /\ filled'[o] <= through[o]
          /\ Agrees(status'[o], filled'[o])
  /\ UNCHANGED <<closed, through>>

Next == MarketMoves \/ Judge \/ \E o \in Orders : Place(o)

Spec == Init /\ [][Next]_promiseVars
=============================================================================
