---------------------------- MODULE ShadowOrders ----------------------------
(***************************************************************************)
(* Shadow maker orders (execution/shadow.py, execution/fill_sim.py): an    *)
(* order is placed as pending, and a later cycle judges it against the     *)
(* tape the recorder has stored by then.                                   *)
(*                                                                         *)
(* Judging reads the tape in several queries while the recorder writes, so *)
(* the coverage query, the walk and the commit are separate actions.       *)
(***************************************************************************)
EXTENDS Recorder, WalkUp

CONSTANTS
  Orders,        \* shadow orders
  Traded,        \* markets an order can be placed on
  NoOrder,       \* none of them
  Quantity,      \* contracts each order asks for
  StartPrice,    \* the price an order starts at
  Caps,          \* caps on the walk an order can have
  Rest,          \* rest_seconds, in ticks
  Grace,         \* RESOLVE_GRACE, in ticks
  UnprovenAfter, \* UNPROVEN_AFTER, in ticks
  GapHorizon     \* how far has_gap looks when no later row exists, in ticks

ASSUME ShadowAssumption ==
  /\ NoOrder \notin Orders
  /\ Traded \subseteq Markets
  /\ Quantity \in Nat \ {0}
  /\ StartPrice \in 1..99
  /\ Caps \subseteq 0..100
  /\ {Rest, Grace, UnprovenAfter, GapHorizon} \subseteq Nat \ {0}
  /\ Grace < UnprovenAfter

VARIABLES
  orders,  \* shadow_maker_orders
  judge    \* the cycle that judges: its step and its local variables

shadowVars == <<orders, judge>>

Unplaced == [status |-> "none", market |-> NoOrder, start |-> 0, prices |-> <<>>, filled |-> 0]
NoVerdict == [status |-> "pending", filled |-> 0]
Idle == [phase |-> "idle", at |-> 0, todo |-> {}, order |-> NoOrder,
         verdicts |-> [o \in Orders |-> NoVerdict]]

\* The end of an order's last rest window.
WindowEnd(o) == orders[o].start + Rest * Len(orders[o].prices)

Pending == {o \in Orders : orders[o].status = "pending"}

-----------------------------------------------------------------------------
(***************************************************************************)
(* The reads, on the tape as the database holds it.                        *)
(***************************************************************************)

Rows == {tape[i] : i \in DOMAIN tape}
SnapshotTimes(m) == {r.at : r \in {x \in Rows : x.market = m /\ x.type = "snapshot"}}

Latest(times)   == CHOOSE t \in times : \A u \in times : u <= t
Earliest(times) == CHOOSE t \in times : \A u \in times : t <= u

\* _first_row_after, with no upper bound: any market, any type.
RowsAfter(t) == {r.at : r \in {x \in Rows : x.at > t}}

\* Mutant of Covered: no row after the window is asked for.
CoveredSoFar(m, start, end) ==
  LET before == {t \in SnapshotTimes(m) : t <= start}
  IN before # {} /\ ~\E t \in SnapshotTimes(m) : t > Latest(before) /\ t <= end

\* coverage(): the market was snapshotted before the window and not inside it,
\* and some row arrived after the window, before the market's next snapshot.
Covered(m, start, end) ==
  LET before == {t \in SnapshotTimes(m) : t <= start}
      later  == {t \in SnapshotTimes(m) : t > end}
  IN /\ before # {}
     /\ ~\E t \in SnapshotTimes(m) : t > Latest(before) /\ t <= end
     /\ \E t \in RowsAfter(end) : later = {} \/ t < Earliest(later)

\* has_gap(): any gap on any market from the window's start until the first
\* row recorded after its end.
HasGap(start, end) ==
  LET horizon == IF RowsAfter(end) = {} THEN end + GapHorizon ELSE Earliest(RowsAfter(end))
  IN \E t \in gaps : t >= start /\ t <= horizon

\* The recorded prints of a market, by their place on the tape: load_tape.
LoadTape(m) == {k \in DOMAIN tape : tape[k].market = m /\ tape[k].type = "trade" /\ tape[k].payload}

\* Mutant of Through: a touch of our price counts as a fill.
Touches(print, price) == print.price <= price

\* trades_through: strictly through the price, never a touch.  Prints of our
\* own side and block trades print at no price that is through.
Through(print, price) == print.price < price

\* The contracts of `source` printed through an order's price i, in the i-th
\* window, whose two ends belong to it.
InStep(source, o, i) ==
  LET start == orders[o].start + Rest * (i - 1)
  IN Cardinality({k \in source :
       tape[k].at \in start..(start + Rest) /\ Through(tape[k], orders[o].prices[i])})

\* _walk and simulate_rest: rest at each price in turn, taking at most what is
\* left and at most what was printed.
Walk(printed) ==
  LET take[i \in 0..Len(printed)] ==
        IF i = 0 THEN 0 ELSE AtMost(take[i - 1] + printed[i], Quantity)
  IN take[Len(printed)]

WalkFill(source, o) == Walk([i \in 1..Len(orders[o].prices) |-> InStep(source, o, i)])

VerdictOf(filled) ==
  [status |-> IF filled = 0 THEN "unfilled" ELSE IF filled = Quantity THEN "filled" ELSE "partial",
   filled |-> filled]
Unproven == [status |-> "unproven", filled |-> 0]

-----------------------------------------------------------------------------
(***************************************************************************)
(* place_order, and resolve_pending in a cycle.                            *)
(***************************************************************************)

\* An order that no price clears is recorded as not placed.  Orders are
\* placed while the clock has room to judge them, a bound of the instance.
Place(o) ==
  /\ content = "trade"
  /\ orders[o].status = "none"
  /\ \E m \in Traded, cap \in Caps :
       LET prices == BuildPlan(StartPrice, cap)
       IN /\ now + Rest * Len(prices) + UnprovenAfter <= MaxTime
          /\ orders' = [orders EXCEPT ![o] =
               [status |-> IF prices = <<>> THEN "not_placed" ELSE "pending",
                market |-> m, start |-> now, prices |-> prices, filled |-> 0]]
  /\ UNCHANGED <<recorderVars, judge>>

\* The pending orders whose window has been closed for the grace period.
ResolveBegin ==
  LET due == {o \in Pending : now >= WindowEnd(o) + Grace}
  IN /\ judge.phase = "idle"
     /\ due # {}
     /\ judge' = [Idle EXCEPT !.phase = "look", !.at = now, !.todo = due]
     /\ UNCHANGED <<recorderVars, orders>>

\* Mutant of ResolveLook: an order that is never covered waits for ever.
ResolveLookPatiently ==
  /\ judge.phase = "look"
  /\ \E o \in judge.todo :
       judge' = IF Covered(orders[o].market, orders[o].start, WindowEnd(o))
                THEN [judge EXCEPT !.phase = "walk", !.order = o]
                ELSE [judge EXCEPT !.todo = @ \ {o}]
  /\ UNCHANGED <<recorderVars, orders>>

\* One order's coverage: walk it, or give it up as unproven once it is old
\* enough, or leave it pending.
ResolveLook ==
  /\ judge.phase = "look"
  /\ \E o \in judge.todo :
       judge' = IF Covered(orders[o].market, orders[o].start, WindowEnd(o))
                THEN [judge EXCEPT !.phase = "walk", !.order = o]
                ELSE [judge EXCEPT !.todo = @ \ {o},
                        !.verdicts[o] = IF judge.at >= WindowEnd(o) + UnprovenAfter
                                        THEN Unproven ELSE @]
  /\ UNCHANGED <<recorderVars, orders>>

\* A covered order: unproven across a gap, else what the tape fills.
ResolveWalk ==
  LET o == judge.order
  IN /\ judge.phase = "walk"
     /\ judge' = [judge EXCEPT !.phase = "look", !.order = NoOrder, !.todo = @ \ {o},
                    !.verdicts[o] = IF HasGap(orders[o].start, WindowEnd(o)) THEN Unproven
                                    ELSE VerdictOf(WalkFill(LoadTape(orders[o].market), o))]
     /\ UNCHANGED <<recorderVars, orders>>

\* All verdicts of the pass are committed together.
ResolveCommit ==
  /\ judge.phase = "look"
  /\ judge.todo = {}
  /\ orders' = [o \in Orders |->
       LET v == judge.verdicts[o]
       IN IF v = NoVerdict THEN orders[o]
          ELSE [orders[o] EXCEPT !.status = v.status, !.filled = v.filled]]
  /\ judge' = Idle
  /\ UNCHANGED recorderVars

\* An exception in the pass rolls it back; the cycle logs it and goes on.
ResolveFails ==
  /\ judge.phase # "idle"
  /\ Fault("raise")
  /\ judge' = Idle
  /\ UNCHANGED <<now, content, feed, prints, rec, tape, gaps, orders>>

Resolve == ResolveBegin \/ ResolveLook \/ ResolveWalk \/ ResolveCommit

ShadowInit ==
  /\ orders = [o \in Orders |-> Unplaced]
  /\ judge = Idle

ShadowNext == (\E o \in Orders : Place(o)) \/ Resolve \/ ResolveFails

-----------------------------------------------------------------------------
Judged(o) == orders[o].status \in {"filled", "partial", "unfilled"}

\* Every variable holds a value of its domain.
ShadowTypeOK ==
  /\ \A o \in Orders :
       /\ orders[o].status \in {"none", "not_placed", "pending", "filled", "partial",
                                "unfilled", "unproven"}
       /\ orders[o].filled \in 0..Quantity
  /\ judge.phase \in {"idle", "look", "walk"}
  /\ judge.todo \subseteq Orders

\* Nothing is judged too early: batches reach the tape late, yet no row that
\* arrives after the verdict would have changed it.  Judging a judged order
\* again on the tape as it is now gives the same fill.
VerdictsStand ==
  \A o \in Orders : Judged(o) => orders[o].filled = WalkFill(LoadTape(orders[o].market), o)

\* What the market printed strictly through an order, in each of its windows.
PrintedThrough(o) ==
  Cardinality({ki \in (DOMAIN prints) \X (DOMAIN orders[o].prices) :
    LET print == prints[ki[1]]
        opens == orders[o].start + Rest * (ki[2] - 1)
    IN /\ print.market = orders[o].market
       /\ opens <= print.at /\ print.at <= opens + Rest
       /\ print.price < orders[o].prices[ki[2]]})

\* The promise of a shadow order, as its abstract specification states it.
Promise ==
  INSTANCE ShadowPromise WITH
    status  <- [o \in Orders |-> orders[o].status],
    filled  <- [o \in Orders |-> orders[o].filled],
    closed  <- {o \in Orders : orders[o].status # "none" /\ now > WindowEnd(o)},
    through <- [o \in Orders |-> PrintedThrough(o)]

\* However the recorder fares, an order is judged once, never before its last
\* window has closed, and is credited with no contract the market did not
\* print through it: the orders implement their promise.
PromiseKept == Promise!Spec

\* "Not (yet) covered: stay pending, until UNPROVEN_AFTER": every order is
\* judged in the end, whatever the recorder recorded of its window.
EveryOrderJudged == \A o \in Orders : (orders[o].status = "pending") ~> (orders[o].status # "pending")

\* "Never `unfilled` for want of tape" (execution/shadow.py:188): an order is
\* judged unfilled only when nothing printed through it while it rested, and
\* not because the print is missing from the tape.
NeverUnfilledForWantOfTape ==
  \A o \in Orders : orders[o].status = "unfilled" =>
    ~\E k \in DOMAIN prints :
       /\ prints[k].market = orders[o].market
       /\ orders[o].start < prints[k].at /\ prints[k].at < WindowEnd(o)
       /\ prints[k].price < orders[o].prices[1]
=============================================================================
