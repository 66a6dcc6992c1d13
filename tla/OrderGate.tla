------------------------------ MODULE OrderGate ------------------------------
(***************************************************************************)
(* What one agent may do in each governance state (permissions.py), the    *)
(* capability gate (order_gate.py) and its composition with scalar sizing  *)
(* and the scalar fallback (hybrid.py), as functions of an order, the      *)
(* books and a permission.  Multipliers and caps are percentages, so a     *)
(* limit is a notional times 100; a refusal is the quantity zero.          *)
(***************************************************************************)
EXTENDS RiskChange

CONSTANTS
    Role,       \* "market_maker", "retail" or "institutional"
    Envelope,   \* ROLE_BASE[Role], its four notional limits and its frequency
    Price       \* price of every order, a positive integer

GovernanceState == {"NORMAL", "CAUTION", "RESTRICTED", "ISOLATED",
                    "STAGED_REENTRY_1", "STAGED_REENTRY_2"}
Severe == {"RESTRICTED", "ISOLATED"}

ASSUME EnvelopeAssumption ==
    /\ Role \in {"market_maker", "retail", "institutional"}
    /\ Envelope \in [max_order_notional : Nat, max_position_notional : Nat,
                     max_gross_exposure : Nat, max_net_exposure : Nat,
                     max_orders_per_interval : Nat]
    /\ Price \in Nat \ {0}

\* A permission is known by its agent, state and issue; the rest follows from the state.
Order == [side : Side, quantity : Nat \ {0}, order_type : {"MARKET", "LIMIT"}, quote : BOOLEAN]

-----------------------------------------------------------------------------
(* permission_for(): STATE_RULES applied to the role's envelope. *)

Multiplier == [s \in GovernanceState |->
    CASE s = "NORMAL" -> 100 [] s = "CAUTION" -> 60 [] s = "RESTRICTED" -> 40
      [] s = "ISOLATED" -> 25 [] s = "STAGED_REENTRY_1" -> 30 [] s = "STAGED_REENTRY_2" -> 55]

Frequency == [s \in GovernanceState |->
    CASE s = "NORMAL" -> 100 [] s \in {"CAUTION", "STAGED_REENTRY_2"} -> 67 [] OTHER -> 50]

reduce_only(s) == s \in Severe
allow_risk_increase(s) == s \notin Severe
allow_new_position(s) == s \notin Severe
allow_market_order(s) == s \in Severe \cup {"NORMAL"}
allow_open_short(s) ==
    s = "NORMAL" \/ (s = "STAGED_REENTRY_2" /\ Role = "market_maker")

max_orders_per_interval(s) ==
    Larger(1, (Envelope.max_orders_per_interval * Frequency[s]) \div 100)

\* A notional limit of this state, in units of the instrument.
Units(limit, s) == (limit * Multiplier[s]) \div (100 * Price)

max_order(s) == Units(Envelope.max_order_notional, s)
projected_limit(s) ==
    Smaller(Units(Envelope.max_position_notional, s),
            Smaller(Units(Envelope.max_gross_exposure, s), Units(Envelope.max_net_exposure, s)))

SCALAR_ACTION_CAP == [s \in GovernanceState |->
    CASE s = "NORMAL" -> 100 [] s = "CAUTION" -> 85 [] s = "RESTRICTED" -> 60
      [] s = "ISOLATED" -> 0 [] s = "STAGED_REENTRY_1" -> 35 [] s = "STAGED_REENTRY_2" -> 65]

Scaled(quantity, s) == (quantity * SCALAR_ACTION_CAP[s]) \div 100

-----------------------------------------------------------------------------
(* assess_order(): the order against the signed net position. *)

Projected(order, position) ==
    IF order.side = "BUY" THEN position + order.quantity ELSE position - order.quantity

CrossesZero(order, position) ==
    \/ position > 0 /\ Projected(order, position) < 0
    \/ position < 0 /\ Projected(order, position) > 0

\* The leg that closes the net position, zero when the order adds to it.
ClosingLeg(order, position) ==
    IF (position > 0 /\ order.side = "SELL") \/ (position < 0 /\ order.side = "BUY")
    THEN Smaller(Abs(position), order.quantity) ELSE 0

Increases(order, position) ==
    CrossesZero(order, position) \/ Abs(Projected(order, position)) > Abs(position)
Reduces(order, position) ==
    ~CrossesZero(order, position) /\ Abs(Projected(order, position)) < Abs(position)

\* Mutant: a sale through zero from a long position is not an opening short.
OpensShortFromFlat(order, position) == ~order.quote /\ order.side = "SELL" /\ position = 0

\* The intent OPEN_SHORT; a market-making quote has an intent of its own.
OpensShort(order, position) ==
    /\ ~order.quote
    /\ order.side = "SELL"
    /\ position = 0 \/ (position > 0 /\ order.quantity > position)

-----------------------------------------------------------------------------
(* _apply_permission_core(): the quantity the gate allows. *)

Refused(order, position, s, orders_this_interval) ==
    \/ reduce_only(s)
    \/ orders_this_interval >= max_orders_per_interval(s)
    \/ order.order_type = "MARKET" /\ ~allow_market_order(s)
    \/ Increases(order, position) /\ ~allow_risk_increase(s)

\* Mutant: the room left is counted from the flat book.
RoomFromFlat(order, position, s) == Smaller(max_order(s), projected_limit(s))

\* The largest quantity the notional and exposure limits leave.
Room(order, position, s) ==
    LET left == Larger(0, projected_limit(s) +
                          (IF order.side = "BUY" THEN -position ELSE position))
    IN  IF Increases(order, position) THEN Smaller(max_order(s), left) ELSE max_order(s)

GateQuantity(order, position, s, orders_this_interval) ==
    CASE reduce_only(s) /\ CrossesZero(order, position) -> ClosingLeg(order, position)
      [] Reduces(order, position) -> order.quantity
      [] OTHER ->
            IF Refused(order, position, s, orders_this_interval) THEN 0
            ELSE IF OpensShort(order, position) /\ ~allow_open_short(s)
                 THEN ClosingLeg(order, position)
            ELSE IF position = 0 /\ ~allow_new_position(s) THEN 0
            ELSE Smaller(order.quantity, Room(order, position, s))

-----------------------------------------------------------------------------
(* hybrid.py *)

\* Mutant: severe states fall back to the scalar size like the others.
FallbackScaled(order, book, s) == Scaled(order.quantity, s)

\* scalar_fallback_decision(): after a GovernanceAdapterError.
FallbackQuantity(order, book, s) ==
    IF s \in Severe
    THEN Smaller(order.quantity, IF order.side = "SELL" THEN book.long ELSE book.short)
    ELSE Scaled(order.quantity, s)

\* Mutant: reductions are scaled along with everything else.
HybridScalesAll(order, book, s, orders_this_interval) ==
    Scaled(GateQuantity(order, Net(book), s, orders_this_interval), s)

\* execute_hybrid() once the gate answered: only what opens on the books is scaled.
HybridQuantity(order, book, s, orders_this_interval) ==
    LET gated == GateQuantity(order, Net(book), s, orders_this_interval)
    IN  IF Opening(order.side, gated, book) = 0 THEN gated ELSE Scaled(gated, s)
=============================================================================
