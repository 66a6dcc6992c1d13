--------------------------- MODULE RiskChange_proofs ---------------------------
(***************************************************************************)
(* What quantities and native legs do to books of any size: the lemmas     *)
(* about the operators of RiskChange that the other proofs cite.           *)
(***************************************************************************)
EXTENDS RiskChange, TLAPS

\* The part that closes and the part that opens make up the quantity.
LEMMA Split ==
    ASSUME NEW side \in Side, NEW q \in Nat, NEW b \in Book
    PROVE  /\ Closing(side, q, b) \in Nat
           /\ Opening(side, q, b) \in Nat
           /\ Opening(side, q, b) = 0 <=> q <= (IF side = "SELL" THEN b.long ELSE b.short)
  BY DEF Closing, Opening, Smaller, Book, Side

\* A leg leaves books of natural numbers.
LEMMA LegKeepsBook ==
    ASSUME NEW side \in Side, NEW b \in Book, NEW n \in Nat,
           NEW short \in BOOLEAN, NEW cover \in BOOLEAN,
           side = "BUY" => ~short, side = "SELL" => ~cover
    PROVE  AfterLeg(side, [quantity |-> n, is_short |-> short, is_short_cover |-> cover], b) \in Book
  <1>1. b.long \in Nat /\ b.short \in Nat /\ b = [long |-> b.long, short |-> b.short]
    BY DEF Book
  <1>2. /\ b.short - Smaller(n, b.short) \in Nat
        /\ b.long - Smaller(n, b.long) \in Nat
        /\ b.long + n \in Nat
        /\ b.short + n \in Nat
    BY <1>1 DEF Smaller
  <1>3. /\ [b EXCEPT !.short = @ - Smaller(n, @)] \in Book
        /\ [b EXCEPT !.long = @ + n] \in Book
        /\ [b EXCEPT !.short = @ + n] \in Book
        /\ [b EXCEPT !.long = @ - Smaller(n, @)] \in Book
    BY <1>1, <1>2 DEF Book
  <1>4. CASE side = "BUY" /\ cover
    BY <1>3, <1>4 DEF AfterLeg
  <1>5. CASE side = "BUY" /\ ~cover
    BY <1>3, <1>5 DEF AfterLeg
  <1>6. CASE side = "SELL" /\ short
    BY <1>3, <1>6 DEF AfterLeg
  <1>7. CASE side = "SELL" /\ ~short
    BY <1>3, <1>7 DEF AfterLeg
  <1> QED  BY <1>4, <1>5, <1>6, <1>7 DEF Side

\* The native leg that opens, or closes, n for an order.
LegOf(side, opens, n) ==
    [quantity       |-> n,
     is_short       |-> side = "SELL" /\ opens,
     is_short_cover |-> side = "BUY" /\ ~opens]

\* A leg that opens adds its quantity to the book of its side; one that closes takes it
\* from the other, down to zero.
LEMMA LegMoves ==
    ASSUME NEW side \in Side, NEW opens \in BOOLEAN, NEW n \in Nat, NEW b \in Book
    PROVE  LET after == AfterLeg(side, LegOf(side, opens, n), b)
           IN  /\ after \in Book
               /\ opens /\ side = "BUY" => after.long = b.long + n /\ after.short = b.short
               /\ opens /\ side = "SELL" => after.long = b.long /\ after.short = b.short + n
               /\ ~opens /\ side = "BUY" =>
                     after.long = b.long /\ after.short = b.short - Smaller(n, b.short)
               /\ ~opens /\ side = "SELL" =>
                     after.long = b.long - Smaller(n, b.long) /\ after.short = b.short
  <1> DEFINE leg == LegOf(side, opens, n)
             after == AfterLeg(side, leg, b)
  <1>1. /\ b.long \in Nat /\ b.short \in Nat
        /\ b = [long |-> b.long, short |-> b.short]
    BY DEF Book
  <1>2. /\ leg = [quantity |-> n, is_short |-> side = "SELL" /\ opens,
                  is_short_cover |-> side = "BUY" /\ ~opens]
        /\ leg.quantity = n
        /\ leg.is_short = (side = "SELL" /\ opens)
        /\ leg.is_short_cover = (side = "BUY" /\ ~opens)
    BY DEF LegOf
  <1> HIDE DEF leg
  <1>3. after \in Book
    <2>1. (side = "SELL" /\ opens) \in BOOLEAN /\ (side = "BUY" /\ ~opens) \in BOOLEAN
      OBVIOUS
    <2> QED  BY <1>2, <2>1, LegKeepsBook
  <1>4. CASE opens /\ side = "BUY"
    <2>1. after = [b EXCEPT !.long = @ + n]
      BY <1>2, <1>4 DEF AfterLeg
    <2> QED  BY <1>1, <1>3, <1>4, <2>1 DEF leg
  <1>5. CASE opens /\ side = "SELL"
    <2>1. after = [b EXCEPT !.short = @ + n]
      BY <1>2, <1>5 DEF AfterLeg
    <2> QED  BY <1>1, <1>3, <1>5, <2>1 DEF leg
  <1>6. CASE ~opens /\ side = "BUY"
    <2>1. after = [b EXCEPT !.short = @ - Smaller(n, @)]
      BY <1>2, <1>6 DEF AfterLeg
    <2> QED  BY <1>1, <1>3, <1>6, <2>1 DEF leg
  <1>7. CASE ~opens /\ side = "SELL"
    <2>1. after = [b EXCEPT !.long = @ - Smaller(n, @)]
      BY <1>2, <1>7 DEF AfterLeg
    <2> QED  BY <1>1, <1>3, <1>7, <2>1 DEF leg
  <1> QED  BY <1>4, <1>5, <1>6, <1>7 DEF Side

\* What is read off the books around a leg: a delta of its side, the whole quantity of an
\* opening, and no opening at all in a closing.
LEMMA LegObserved ==
    ASSUME NEW side \in Side, NEW opens \in BOOLEAN, NEW n \in Nat, NEW b \in Book
    PROVE  LET after == AfterLeg(side, LegOf(side, opens, n), b)
           IN  /\ DeltaOfSide(side, b, after)
               /\ opens => ObservedQuantity(b, after) = n /\ ObservedOpening(side, b, after) = n
               /\ ~opens => /\ ObservedQuantity(b, after) \in 0..n
                            /\ ObservedOpening(side, b, after) = 0
  <1> DEFINE after == AfterLeg(side, LegOf(side, opens, n), b)
  <1>1. b.long \in Nat /\ b.short \in Nat
    BY DEF Book
  <1>2. CASE side = "BUY" /\ opens
    <2>1. after.long = b.long + n /\ after.short = b.short
      BY <1>2, LegMoves
    <2> HIDE DEF after
    <2>2. /\ DeltaOfSide(side, b, after)
          /\ ObservedQuantity(b, after) = n /\ ObservedOpening(side, b, after) = n
      BY <1>1, <1>2, <2>1 DEF DeltaOfSide, ObservedQuantity, ObservedOpening, Abs
    <2> QED  BY <1>2, <2>2 DEF after
  <1>3. CASE side = "SELL" /\ opens
    <2>1. after.long = b.long /\ after.short = b.short + n
      BY <1>3, LegMoves
    <2> HIDE DEF after
    <2>2. /\ DeltaOfSide(side, b, after)
          /\ ObservedQuantity(b, after) = n /\ ObservedOpening(side, b, after) = n
      BY <1>1, <1>3, <2>1 DEF DeltaOfSide, ObservedQuantity, ObservedOpening, Abs
    <2> QED  BY <1>3, <2>2 DEF after
  <1>4. CASE side = "BUY" /\ ~opens
    <2>1. after.long = b.long /\ after.short = b.short - Smaller(n, b.short)
      BY <1>4, LegMoves
    <2> HIDE DEF after
    <2>2. /\ DeltaOfSide(side, b, after)
          /\ ObservedQuantity(b, after) \in 0..n /\ ObservedOpening(side, b, after) = 0
      BY <1>1, <1>4, <2>1 DEF DeltaOfSide, ObservedQuantity, ObservedOpening, Abs, Smaller
    <2> QED  BY <1>4, <2>2 DEF after
  <1>5. CASE side = "SELL" /\ ~opens
    <2>1. after.long = b.long - Smaller(n, b.long) /\ after.short = b.short
      BY <1>5, LegMoves
    <2> HIDE DEF after
    <2>2. /\ DeltaOfSide(side, b, after)
          /\ ObservedQuantity(b, after) \in 0..n /\ ObservedOpening(side, b, after) = 0
      BY <1>1, <1>5, <2>1 DEF DeltaOfSide, ObservedQuantity, ObservedOpening, Abs, Smaller
    <2> QED  BY <1>5, <2>2 DEF after
  <1> QED  BY <1>2, <1>3, <1>4, <1>5 DEF Side
=============================================================================
