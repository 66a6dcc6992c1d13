--------------------------- MODULE OrderGate_proofs ---------------------------
(***************************************************************************)
(* What the capability gate, its scaled form and the fallback may answer,  *)
(* for every role, envelope, price, order and books of any size: the       *)
(* lemmas about the operators of OrderGate that the proofs of the modules  *)
(* built on it cite.                                                       *)
(***************************************************************************)
EXTENDS OrderGate, RiskChange_proofs

-----------------------------------------------------------------------------
(* Arithmetic of the gate. *)

\* What the gate relies on in an order, proposed or not.
Asks(o) == o.side \in Side /\ o.quantity \in Nat \ {0}

\* Dividing natural numbers gives natural numbers.
LEMMA Quotient ==
    ASSUME NEW a \in Nat, NEW d \in Nat \ {0}
    PROVE  a \div d \in Nat
  OBVIOUS

\* Scaling keeps a quantity a natural number.
LEMMA ScaledType ==
    ASSUME NEW q \in Nat, NEW s \in GovernanceState
    PROVE  Scaled(q, s) \in Nat
  <1>1. SCALAR_ACTION_CAP[s] \in Nat
    BY DEF SCALAR_ACTION_CAP, GovernanceState
  <1>2. q * SCALAR_ACTION_CAP[s] \in Nat
    BY <1>1
  <1> QED  BY <1>2, Quotient DEF Scaled

\* The limits of a state are natural numbers.
LEMMA UnitsType ==
    ASSUME NEW limit \in Nat, NEW s \in GovernanceState
    PROVE  Units(limit, s) \in Nat
  <1>1. Multiplier[s] \in Nat
    BY DEF Multiplier, GovernanceState
  <1>2. limit * Multiplier[s] \in Nat
    BY <1>1
  <1>3. 100 * Price \in Nat \ {0}
    BY EnvelopeAssumption
  <1> QED  BY <1>2, <1>3, Quotient DEF Units

\* The room a limit leaves is a natural number.
LEMMA RoomType ==
    ASSUME NEW o, Asks(o), NEW position \in Int, NEW s \in GovernanceState
    PROVE  Room(o, position, s) \in Nat
  <1>1. max_order(s) \in Nat
    BY UnitsType, EnvelopeAssumption DEF max_order
  <1>2. projected_limit(s) \in Nat
    <2>1. /\ Units(Envelope.max_position_notional, s) \in Nat
          /\ Units(Envelope.max_gross_exposure, s) \in Nat
          /\ Units(Envelope.max_net_exposure, s) \in Nat
      BY UnitsType, EnvelopeAssumption
    <2> QED  BY <2>1 DEF projected_limit, Smaller
  <1> DEFINE left == Larger(0, projected_limit(s) +
                              (IF o.side = "BUY" THEN -position ELSE position))
  <1>3. left \in Nat
    BY <1>2 DEF Larger
  <1>4. Smaller(max_order(s), left) \in Nat
    BY <1>1, <1>3 DEF Smaller
  <1> QED  BY <1>1, <1>4 DEF Room

\* The closing leg is part of the order.
LEMMA ClosingLegType ==
    ASSUME NEW o, Asks(o), NEW position \in Int
    PROVE  ClosingLeg(o, position) \in Nat
  BY DEF ClosingLeg, Smaller, Abs, Asks

\* The gate answers with a natural number.
LEMMA GateType ==
    ASSUME NEW o, Asks(o), NEW position \in Int, NEW s \in GovernanceState, NEW n \in Nat
    PROVE  GateQuantity(o, position, s, n) \in Nat
  <1>1. o.quantity \in Nat
    BY DEF Asks
  <1>2. Smaller(o.quantity, Room(o, position, s)) \in Nat
    BY <1>1, RoomType DEF Smaller
  <1> QED  BY <1>1, <1>2, ClosingLegType DEF GateQuantity

-----------------------------------------------------------------------------
(* What opens nothing. *)

\* In a severe state what the gate allows is no more than the book it closes holds,
\* although the gate saw only the net of the two books.
LEMMA SevereGateCloses ==
    ASSUME NEW o, Asks(o), NEW b \in Book, NEW s \in Severe, NEW n \in Nat
    PROVE  GateQuantity(o, Net(b), s, n) <= (IF o.side = "SELL" THEN b.long ELSE b.short)
  <1> DEFINE position == Net(b)
             held == IF o.side = "SELL" THEN b.long ELSE b.short
  <1>1. /\ b.long \in Nat /\ b.short \in Nat /\ position = b.long - b.short
        /\ o.side \in {"BUY", "SELL"} /\ o.quantity \in Nat \ {0}
    BY DEF Book, Net, Asks, Side
  <1>2. reduce_only(s)
    BY DEF reduce_only
  <1>3. CASE CrossesZero(o, position)
    <2>1. ClosingLeg(o, position) <= held
      BY <1>1, <1>3 DEF CrossesZero, Projected, ClosingLeg, Smaller, Abs
    <2>2. ~Reduces(o, position)
      BY <1>3 DEF Reduces
    <2>3. GateQuantity(o, position, s, n) = ClosingLeg(o, position)
      BY <1>2, <1>3, <2>2 DEF GateQuantity
    <2> QED  BY <2>1, <2>3
  <1>4. CASE ~CrossesZero(o, position) /\ Reduces(o, position)
    <2>1. o.quantity <= held
      BY <1>1, <1>4 DEF Reduces, CrossesZero, Projected, Abs
    <2>2. GateQuantity(o, position, s, n) = o.quantity
      BY <1>4 DEF GateQuantity
    <2> QED  BY <2>1, <2>2
  <1>5. CASE ~CrossesZero(o, position) /\ ~Reduces(o, position)
    <2>1. Refused(o, position, s, n)
      BY <1>2 DEF Refused
    <2>2. GateQuantity(o, position, s, n) = 0
      BY <1>5, <2>1 DEF GateQuantity
    <2> QED  BY <1>1, <2>2
  <1> QED  BY <1>3, <1>4, <1>5

\* Neither the gate, nor the scaled gate, nor the fallback opens anything then.
LEMMA SevereOpensNothing ==
    ASSUME NEW o, Asks(o), NEW b \in Book, NEW s \in Severe, NEW n \in Nat
    PROVE  /\ Opening(o.side, GateQuantity(o, Net(b), s, n), b) = 0
           /\ Opening(o.side, HybridQuantity(o, b, s, n), b) = 0
           /\ Opening(o.side, FallbackQuantity(o, b, s), b) = 0
  <1>0. s \in GovernanceState /\ o.side \in Side /\ o.quantity \in Nat /\ Net(b) \in Int
    BY DEF Severe, GovernanceState, Asks, Net, Book
  <1>1. Opening(o.side, GateQuantity(o, Net(b), s, n), b) = 0
    BY <1>0, GateType, SevereGateCloses, Split
  <1>2. HybridQuantity(o, b, s, n) = GateQuantity(o, Net(b), s, n)
    BY <1>1 DEF HybridQuantity
  <1>3. Opening(o.side, FallbackQuantity(o, b, s), b) = 0
    <2> DEFINE held == IF o.side = "SELL" THEN b.long ELSE b.short
    <2>1. held \in Nat
      BY DEF Book
    <2>2. FallbackQuantity(o, b, s) = Smaller(o.quantity, held)
      BY DEF FallbackQuantity
    <2>3. Smaller(o.quantity, held) \in Nat /\ Smaller(o.quantity, held) <= held
      BY <1>0, <2>1 DEF Smaller
    <2> QED  BY <1>0, <2>2, <2>3, Split
  <1> QED  BY <1>1, <1>2, <1>3

\* Under a severe state gate and scaled gate answer with no more than the net position on
\* the other side of the order: they bring it towards zero and stop there.
LEMMA SevereGateNets ==
    ASSUME NEW o, Asks(o), NEW b \in Book, NEW s \in Severe, NEW n \in Nat
    PROVE  LET nets == Larger(0, IF o.side = "SELL" THEN Net(b) ELSE -Net(b))
           IN  /\ GateQuantity(o, Net(b), s, n) <= nets
               /\ HybridQuantity(o, b, s, n) <= nets
  <1> DEFINE position == Net(b)
             nets == Larger(0, IF o.side = "SELL" THEN position ELSE -position)
  <1>1. /\ b.long \in Nat /\ b.short \in Nat /\ position = b.long - b.short
        /\ o.side \in {"BUY", "SELL"} /\ o.quantity \in Nat \ {0}
    BY DEF Book, Net, Asks, Side
  <1>2. reduce_only(s)
    BY DEF reduce_only
  <1>3. GateQuantity(o, position, s, n) <= nets
    <2>1. CASE CrossesZero(o, position)
      <3>1. ClosingLeg(o, position) <= nets
        BY <1>1, <2>1 DEF CrossesZero, Projected, ClosingLeg, Smaller, Larger, Abs
      <3>2. ~Reduces(o, position)
        BY <2>1 DEF Reduces
      <3>3. GateQuantity(o, position, s, n) = ClosingLeg(o, position)
        BY <1>2, <2>1, <3>2 DEF GateQuantity
      <3> QED  BY <3>1, <3>3
    <2>2. CASE ~CrossesZero(o, position) /\ Reduces(o, position)
      <3>1. o.quantity <= nets
        BY <1>1, <2>2 DEF Reduces, CrossesZero, Projected, Larger, Abs
      <3>2. GateQuantity(o, position, s, n) = o.quantity
        BY <2>2 DEF GateQuantity
      <3> QED  BY <3>1, <3>2
    <2>3. CASE ~CrossesZero(o, position) /\ ~Reduces(o, position)
      <3>1. Refused(o, position, s, n)
        BY <1>2 DEF Refused
      <3>2. GateQuantity(o, position, s, n) = 0
        BY <2>3, <3>1 DEF GateQuantity
      <3>3. 0 <= nets
        BY <1>1 DEF Larger
      <3> QED  BY <3>2, <3>3
    <2> QED  BY <2>1, <2>2, <2>3
  <1>4. HybridQuantity(o, b, s, n) = GateQuantity(o, Net(b), s, n)
    <2>1. Opening(o.side, GateQuantity(o, Net(b), s, n), b) = 0
      BY SevereOpensNothing
    <2> QED  BY <2>1 DEF HybridQuantity
  <1> HIDE DEF nets
  <1>5. GateQuantity(o, position, s, n) <= nets /\ HybridQuantity(o, b, s, n) <= nets
    BY <1>3, <1>4
  <1> QED  BY <1>5 DEF nets

\* The three answers are natural numbers.
LEMMA AnswerType ==
    ASSUME NEW o, Asks(o), NEW b \in Book, NEW s \in GovernanceState, NEW n \in Nat
    PROVE  /\ GateQuantity(o, Net(b), s, n) \in Nat
           /\ HybridQuantity(o, b, s, n) \in Nat
           /\ FallbackQuantity(o, b, s) \in Nat
  <1>0. Net(b) \in Int /\ o.quantity \in Nat
    BY DEF Net, Book, Asks
  <1>1. GateQuantity(o, Net(b), s, n) \in Nat
    BY <1>0, GateType
  <1>2. HybridQuantity(o, b, s, n) \in Nat
    BY <1>1, ScaledType DEF HybridQuantity
  <1>3. FallbackQuantity(o, b, s) \in Nat
    BY <1>0, ScaledType DEF FallbackQuantity, Smaller, Book
  <1> QED  BY <1>1, <1>2, <1>3

-----------------------------------------------------------------------------
(* What opens something. *)

\* An answer that opens anything is the one the room under the limits leaves; it is not a
\* reduction, and no opening short was refused on the way.
LEMMA OpeningAnswer ==
    ASSUME NEW o, Asks(o), NEW b \in Book, NEW s \in GovernanceState, NEW n \in Nat,
           NEW q \in Nat, q <= GateQuantity(o, Net(b), s, n), Opening(o.side, q, b) > 0
    PROVE  /\ q <= o.quantity /\ q <= Room(o, Net(b), s)
           /\ ~Reduces(o, Net(b))
           /\ OpensShort(o, Net(b)) => allow_open_short(s)
  <1> DEFINE position == Net(b)
             held == IF o.side = "SELL" THEN b.long ELSE b.short
             answer == GateQuantity(o, position, s, n)
  <1>1. /\ b.long \in Nat /\ b.short \in Nat /\ position = b.long - b.short
        /\ o.side \in {"BUY", "SELL"} /\ o.quantity \in Nat \ {0}
        /\ position \in Int
    BY DEF Book, Net, Asks, Side
  <1>2. answer \in Nat
    BY <1>1, GateType
  <1>3. q > held
    <2>1. o.side \in Side /\ held \in Nat
      BY <1>1 DEF Side
    <2> QED  BY <2>1, Split
  <1>4. answer > held
    BY <1>1, <1>2, <1>3
  <1>5. ClosingLeg(o, position) <= held
    BY <1>1 DEF ClosingLeg, Smaller, Abs
  <1>6. ~Reduces(o, position)
    <2>1. SUFFICES ASSUME Reduces(o, position) PROVE FALSE
      OBVIOUS
    <2>2. o.quantity <= held
      BY <1>1, <2>1 DEF Reduces, CrossesZero, Projected, Abs
    <2>3. ~CrossesZero(o, position)
      BY <2>1 DEF Reduces
    <2>4. answer = o.quantity
      BY <2>1, <2>3 DEF GateQuantity
    <2> QED  BY <1>1, <1>4, <2>2, <2>4
  <1>7. ~(reduce_only(s) /\ CrossesZero(o, position))
    <2>1. SUFFICES ASSUME reduce_only(s) /\ CrossesZero(o, position) PROVE FALSE
      OBVIOUS
    <2>2. answer = ClosingLeg(o, position)
      BY <1>6, <2>1 DEF GateQuantity
    <2> QED  BY <1>1, <1>2, <1>4, <1>5, <2>2, ClosingLegType
  <1>8. answer = IF Refused(o, position, s, n) THEN 0
                 ELSE IF OpensShort(o, position) /\ ~allow_open_short(s)
                      THEN ClosingLeg(o, position)
                 ELSE IF position = 0 /\ ~allow_new_position(s) THEN 0
                 ELSE Smaller(o.quantity, Room(o, position, s))
    BY <1>6, <1>7 DEF GateQuantity
  <1>9. answer # 0 /\ answer # ClosingLeg(o, position)
    BY <1>1, <1>2, <1>4, <1>5, ClosingLegType
  <1>10. /\ OpensShort(o, position) => allow_open_short(s)
         /\ answer = Smaller(o.quantity, Room(o, position, s))
    BY <1>8, <1>9
  <1>11. Room(o, position, s) \in Nat
    BY <1>1, RoomType
  <1>12. q <= o.quantity /\ q <= Room(o, position, s)
    BY <1>1, <1>2, <1>10, <1>11 DEF Smaller
  <1> QED  BY <1>6, <1>10, <1>12

\* Such an answer, and any part of it that still opens something, ends inside the limits.
LEMMA OpeningWithinLimit ==
    ASSUME NEW o, Asks(o), NEW b \in Book, NEW s \in GovernanceState, NEW n \in Nat,
           NEW q \in Nat, q <= GateQuantity(o, Net(b), s, n), Opening(o.side, q, b) > 0
    PROVE  Abs(Net(After(o.side, q, b))) <= projected_limit(s)
  <1> DEFINE position == Net(b)
             held == IF o.side = "SELL" THEN b.long ELSE b.short
             limit == projected_limit(s)
  <1>1. /\ b.long \in Nat /\ b.short \in Nat /\ position = b.long - b.short
        /\ o.side \in {"BUY", "SELL"} /\ o.quantity \in Nat \ {0}
        /\ position \in Int /\ o.side \in Side
    BY DEF Book, Net, Asks, Side
  <1>2. q <= o.quantity /\ q <= Room(o, position, s) /\ ~Reduces(o, position)
    BY OpeningAnswer
  <1>3. held \in Nat /\ q > held
    BY <1>1, Split
  <1>4. limit \in Nat /\ max_order(s) \in Nat
    <2>1. /\ Units(Envelope.max_position_notional, s) \in Nat
          /\ Units(Envelope.max_gross_exposure, s) \in Nat
          /\ Units(Envelope.max_net_exposure, s) \in Nat
          /\ Units(Envelope.max_order_notional, s) \in Nat
      BY UnitsType, EnvelopeAssumption
    <2> QED  BY <2>1 DEF projected_limit, max_order, Smaller
  <1>5. Increases(o, position)
    BY <1>1, <1>2, <1>3 DEF Increases, Reduces, CrossesZero, Projected, Abs
  <1> DEFINE left == Larger(0, limit + (IF o.side = "BUY" THEN -position ELSE position))
  <1>6. q <= left
    <2>1. Room(o, position, s) = Smaller(max_order(s), left)
      BY <1>5 DEF Room
    <2>2. left \in Nat
      BY <1>1, <1>4 DEF Larger
    <2> QED  BY <1>2, <1>4, <2>1, <2>2 DEF Smaller
  <1>7. Net(After(o.side, q, b)) = IF o.side = "SELL" THEN position - q ELSE position + q
    <2>1. /\ Closing(o.side, q, b) \in Nat
          /\ Opening(o.side, q, b) = q - Closing(o.side, q, b)
      BY <1>1, Split DEF Opening
    <2> QED  BY <1>1, <2>1 DEF After, Net
  <1>8. CASE o.side = "SELL"
    <2>1. position - q \in Int /\ position - q <= 0 /\ q <= limit + position
      BY <1>1, <1>3, <1>4, <1>6, <1>8 DEF Larger
    <2> QED  BY <1>1, <1>4, <1>7, <1>8, <2>1 DEF Abs
  <1>9. CASE o.side = "BUY"
    <2>1. position + q \in Int /\ position + q >= 0 /\ q <= limit - position
      BY <1>1, <1>3, <1>4, <1>6, <1>9 DEF Larger
    <2> QED  BY <1>1, <1>4, <1>7, <1>9, <2>1 DEF Abs
  <1> QED  BY <1>1, <1>8, <1>9

\* Scaling never enlarges.
LEMMA ScaledDown ==
    ASSUME NEW q \in Nat, NEW s \in GovernanceState
    PROVE  Scaled(q, s) <= q
  <1>1. SCALAR_ACTION_CAP[s] \in 0..100
    BY DEF SCALAR_ACTION_CAP, GovernanceState
  <1>2. q * SCALAR_ACTION_CAP[s] <= q * 100
    BY <1>1
  <1>3. q * SCALAR_ACTION_CAP[s] \in Nat
    BY <1>1
  <1>4. ASSUME NEW a \in Nat, a <= q * 100 PROVE a \div 100 <= q
    BY <1>4
  <1> QED  BY <1>2, <1>3, <1>4 DEF Scaled

\* No answer is larger than the order.
LEMMA AnswerWithinOrder ==
    ASSUME NEW o, Asks(o), NEW b \in Book, NEW s \in GovernanceState, NEW n \in Nat
    PROVE  /\ GateQuantity(o, Net(b), s, n) <= o.quantity
           /\ HybridQuantity(o, b, s, n) <= o.quantity
           /\ FallbackQuantity(o, b, s) <= o.quantity
  <1>0. Net(b) \in Int /\ o.quantity \in Nat /\ b.long \in Nat /\ b.short \in Nat
    BY DEF Net, Book, Asks
  <1>1. GateQuantity(o, Net(b), s, n) <= o.quantity
    <2>1. ClosingLeg(o, Net(b)) <= o.quantity
      BY <1>0 DEF ClosingLeg, Smaller, Abs
    <2>2. Smaller(o.quantity, Room(o, Net(b), s)) <= o.quantity
      BY <1>0, RoomType DEF Smaller
    <2> QED  BY <1>0, <2>1, <2>2 DEF GateQuantity
  <1>2. HybridQuantity(o, b, s, n) <= o.quantity
    <2> DEFINE answer == GateQuantity(o, Net(b), s, n)
    <2>1. answer \in Nat
      BY AnswerType
    <2>2. Scaled(answer, s) <= answer /\ Scaled(answer, s) \in Nat
      BY <2>1, ScaledDown, ScaledType
    <2>3. HybridQuantity(o, b, s, n) \in {answer, Scaled(answer, s)}
      BY DEF HybridQuantity
    <2> HIDE DEF answer
    <2>4. answer <= o.quantity
      BY <1>1 DEF answer
    <2> QED  BY <1>0, <2>1, <2>2, <2>3, <2>4
  <1>3. FallbackQuantity(o, b, s) <= o.quantity
    BY <1>0, ScaledDown DEF FallbackQuantity, Smaller
  <1> QED  BY <1>1, <1>2, <1>3
=============================================================================
