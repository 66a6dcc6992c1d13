------------------------------ MODULE RiskChange ------------------------------
(***************************************************************************)
(* Actual Net Risk (actual_risk.py): what a quantity bought or sold does   *)
(* to an agent's independent long and short books.  Exposures are books    *)
(* times one positive price, so comparisons of exposures at that price are *)
(* comparisons of positions here.                                          *)
(***************************************************************************)
EXTENDS Integers

Side == {"BUY", "SELL"}
Book == [long : Nat, short : Nat]

Smaller(a, b) == IF a < b THEN a ELSE b
Larger(a, b) == IF a > b THEN a ELSE b
Abs(n) == IF n < 0 THEN -n ELSE n

Net(book) == book.long - book.short
Gross(book) == book.long + book.short

\* Mutant: the whole book closes, whatever the quantity.
ClosingBook(side, quantity, book) == IF side = "SELL" THEN book.long ELSE book.short

\* assess_risk_change(): close against the opposite book first, open the rest.
Closing(side, quantity, book) ==
    Smaller(quantity, IF side = "SELL" THEN book.long ELSE book.short)

\* Mutant: the part that closes is opened as well.
OpeningWhole(side, quantity, book) == quantity

Opening(side, quantity, book) == quantity - Closing(side, quantity, book)

After(side, quantity, book) ==
    IF side = "SELL"
    THEN [long  |-> book.long - Closing(side, quantity, book),
          short |-> book.short + Opening(side, quantity, book)]
    ELSE [long  |-> book.long + Opening(side, quantity, book),
          short |-> book.short - Closing(side, quantity, book)]

\* assess_observed_risk_change(): the delta a venue applied must belong to the side ...
DeltaOfSide(side, pre, post) ==
    IF side = "BUY"
    THEN post.long >= pre.long /\ post.short <= pre.short
    ELSE post.long <= pre.long /\ post.short >= pre.short

\* ... and its quantity is read off the books alone.
ObservedQuantity(pre, post) == Abs(post.long - pre.long) + Abs(post.short - pre.short)
ObservedOpening(side, pre, post) ==
    IF side = "BUY" THEN post.long - pre.long ELSE post.short - pre.short

\* assess_native_execution_plan(), one leg: is_short opens short, is_short_cover closes
\* short, plain BUY opens long, plain SELL closes long; a close stops at zero.
LegAllowed(side, leg) ==
    /\ leg.quantity > 0
    /\ ~(leg.is_short /\ leg.is_short_cover)
    /\ side = "BUY" => ~leg.is_short
    /\ side = "SELL" => ~leg.is_short_cover

AfterLeg(side, leg, book) ==
    CASE side = "BUY" /\ leg.is_short_cover ->
            [book EXCEPT !.short = @ - Smaller(leg.quantity, @)]
      [] side = "BUY" /\ ~leg.is_short_cover -> [book EXCEPT !.long = @ + leg.quantity]
      [] side = "SELL" /\ leg.is_short -> [book EXCEPT !.short = @ + leg.quantity]
      [] side = "SELL" /\ ~leg.is_short ->
            [book EXCEPT !.long = @ - Smaller(leg.quantity, @)]
=============================================================================
