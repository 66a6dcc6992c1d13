--------------------------- MODULE OrderPath_proofs ---------------------------
(***************************************************************************)
(* Proofs about OrderPath, for every role and envelope, price, window,     *)
(* set of proposals, and books of any size.                                *)
(***************************************************************************)
EXTENDS OrderPath, OrderGate_proofs

-----------------------------------------------------------------------------
(* The invariant: what rests at the venue under a severe state can only       *)
(* close, and after the gate only what the net position holds; nothing is     *)
(* authorized as of a time to come; and when governance is severe, a wider    *)
(* permission is older than that.                                             *)

\* What is held on the other side of an order, in its book and on balance.
Held(side, b) == IF side = "SELL" THEN b.long ELSE b.short
HeldNet(side, b) == IF side = "SELL" THEN Net(b) ELSE -Net(b)

OnlyCloses(r, b) ==
    /\ r.opening = 0
    /\ r.closing <= Held(r.side, b)
    /\ r.by = "gate" => r.closing <= Larger(0, HeldNet(r.side, b))

Rested ==
    /\ order # NoOrder => order.proposed_at <= clock
    /\ resting # NoOrder =>
          /\ resting.at <= clock
          /\ resting.state \in Severe => OnlyCloses(resting, book)

Tightened ==
    /\ permission.from <= clock
    /\ severe_since >= 0 =>
          /\ permission.state \in Severe
          /\ former.state \notin Severe => former.from <= severe_since

IInv == TypeOK /\ Rested /\ Tightened /\ StaleAuthorityExpires

PendingOrder == [side : Side, quantity : Nat \ {0}, quote : BOOLEAN,
                 order_type : {"MARKET", "LIMIT"}, proposed_at : Nat]
RestingOrder == [side : Side, state : GovernanceState, by : {"gate", "fallback"},
                 at : Nat, closing : Nat, opening : Nat]

LEMMA Bounds == Window \in Nat /\ MaxFill \in Nat /\ MaxClock \in Nat
  BY OrderPathAssumption

\* Whatever an agent may present is a permission, and one that is authorized is its own,
\* in force or just replaced.
LEMMA PresentedFacts ==
    ASSUME TypeOK, NEW p \in Presented
    PROVE  /\ p \in Permission
           /\ IssuedTo(p) => p \in {permission, former}
  <1>1. ASSUME NEW f \in Foreign PROVE f \in Permission /\ ~IssuedTo(f)
    <2>1. PICK t \in 0..clock : f = [agent |-> "other", state |-> "NORMAL", from |-> t]
      BY <1>1 DEF Foreign
    <2>2. t \in Nat
      BY DEF TypeOK
    <2> QED  BY <2>1, <2>2 DEF Permission, GovernanceState, IssuedTo
  <1> QED  BY <1>1 DEF TypeOK, Presented

\* The evaluation time is the present or, by default, a proposal of the past.
LEMMA EvaluatedByNow ==
    ASSUME IInv, order # NoOrder, NEW timed \in BOOLEAN
    PROVE  /\ order \in PendingOrder
           /\ EvaluationTime(timed) \in Nat
           /\ EvaluationTime(timed) <= clock
  <1>1. order \in PendingOrder /\ clock \in Nat /\ order.proposed_at <= clock
    BY DEF IInv, TypeOK, Rested, PendingOrder
  <1>2. order.proposed_at \in Nat
    BY <1>1 DEF PendingOrder
  <1> QED  BY <1>1, <1>2 DEF EvaluationTime

\* The order as it rests once q of it was submitted.
Rests(p, q, by, time) ==
    [side |-> order.side, state |-> p.state, by |-> by, at |-> time,
     closing |-> Closing(order.side, q, book), opening |-> Opening(order.side, q, book)]

\* Submitting an answer to the order keeps the invariant, if under a severe permission the
\* answer opens nothing and the gate's stays within what is held on balance.
LEMMA SubmitKeeps ==
    ASSUME IInv, NEW p \in Presented, Answering(p), NEW time \in Nat, time <= clock,
           Authorized(p, time), NEW by \in {"gate", "fallback"}, NEW q \in Nat,
           Submit(p, q, by, time),
           p.state \in Severe =>
               /\ Opening(order.side, q, book) = 0
               /\ by = "gate" => q <= Larger(0, HeldNet(order.side, book))
    PROVE  IInv'
  <1>1. /\ p \in Permission /\ p \in {permission, former}
        /\ p.from <= time /\ time <= p.from + Window
        /\ order \in PendingOrder /\ book \in Book
        /\ clock \in Nat
    BY PresentedFacts DEF IInv, TypeOK, Authorized, WithinWindow, Answering, PendingOrder
  <1>2. /\ p.state \in GovernanceState /\ p.from \in Nat /\ order.side \in Side
        /\ book.long \in Nat /\ book.short \in Nat
    BY <1>1 DEF Permission, PendingOrder, Book
  <1>3. Closing(order.side, q, book) \in Nat /\ Opening(order.side, q, book) \in Nat
    BY <1>1, <1>2, Split
  <1> DEFINE r == Rests(p, q, by, time)
  <1>4. /\ r \in RestingOrder
        /\ r.side = order.side /\ r.state = p.state /\ r.by = by /\ r.at = time
        /\ r.closing = Closing(order.side, q, book)
        /\ r.opening = Opening(order.side, q, book)
    BY <1>1, <1>2, <1>3 DEF RestingOrder, Rests
  <1>5. /\ resting' = NoOrder \/ resting' = r
        /\ order' = NoOrder
        /\ orders_this_interval' \in Nat
        /\ UNCHANGED <<clock, permission, former, severe_since, book>>
    BY DEF Submit, IInv, TypeOK, Rests
  <1> HIDE DEF r
  <1>6. TypeOK'
    BY <1>4, <1>5 DEF IInv, TypeOK, RestingOrder
  <1>7. Rested'
    <2>1. ASSUME r.state \in Severe PROVE OnlyCloses(r, book)
      <3>1. /\ Opening(order.side, q, book) = 0
            /\ by = "gate" => q <= Larger(0, HeldNet(order.side, book))
        BY <1>4, <2>1
      <3>2. /\ Closing(order.side, q, book) <= q
            /\ Closing(order.side, q, book) <= Held(order.side, book)
        BY <1>2 DEF Closing, Smaller, Held
      <3>3. Larger(0, HeldNet(order.side, book)) \in Int
        BY <1>2 DEF Larger, HeldNet, Net
      <3> QED  BY <1>3, <1>4, <3>1, <3>2, <3>3 DEF OnlyCloses
    <2> QED  BY <1>4, <1>5, <2>1 DEF Rested
  <1>8. Tightened'
    BY <1>5 DEF IInv, Tightened
  <1>9. StaleAuthorityExpires'
    <2>1. SUFFICES ASSUME resting' = r, severe_since >= 0, r.opening > 0
                   PROVE  time <= severe_since + Window
      BY <1>4, <1>5 DEF StaleAuthorityExpires
    <2>2. p.state \notin Severe
      BY <1>4, <2>1
    <2>3. p.from <= severe_since
      <3>1. CASE p = permission
        BY <2>1, <2>2, <3>1 DEF IInv, Tightened
      <3>2. CASE p = former
        BY <2>1, <2>2, <3>2 DEF IInv, Tightened
      <3> QED  BY <1>1, <3>1, <3>2
    <2>4. severe_since \in Int
      BY DEF IInv, TypeOK
    <2> QED  BY <1>1, <1>2, <2>3, <2>4, Bounds
  <1> QED  BY <1>6, <1>7, <1>8, <1>9 DEF IInv

\* What is left of the resting order.
Left(c, a) == [resting EXCEPT !.closing = c, !.opening = a]

LEMMA LeftFields ==
    ASSUME resting \in RestingOrder, NEW c \in Nat, NEW a \in Nat
    PROVE  /\ Left(c, a) \in RestingOrder
           /\ Left(c, a).side = resting.side /\ Left(c, a).by = resting.by
           /\ Left(c, a).at = resting.at /\ Left(c, a).state = resting.state
           /\ Left(c, a).closing = c /\ Left(c, a).opening = a
  BY DEF RestingOrder, Left

\* A fill takes from what rests, and only changes the books.
LEMMA FillKeeps ==
    ASSUME IInv, resting # NoOrder, NEW c \in Nat, NEW a \in Nat,
           a <= resting.opening,
           resting' = Remaining(c, a), book' \in Book,
           resting.state \in Severe => OnlyCloses(Left(c, a), book'),
           UNCHANGED <<clock, permission, former, severe_since, order, orders_this_interval>>
    PROVE  IInv'
  <1>1. resting \in RestingOrder
    BY DEF IInv, TypeOK, RestingOrder
  <1> DEFINE r == Left(c, a)
  <1>2. /\ r \in RestingOrder
        /\ r.at = resting.at /\ r.state = resting.state /\ r.opening = a
    BY <1>1, LeftFields
  <1>3. resting' = NoOrder \/ resting' = r
    BY DEF Remaining, Left
  <1> HIDE DEF r
  <1>4. TypeOK'
    BY <1>2, <1>3 DEF IInv, TypeOK, RestingOrder
  <1>5. resting.opening \in Nat
    BY <1>1 DEF RestingOrder
  <1>6. Rested'
    <2>1. order' # NoOrder => order'.proposed_at <= clock'
      BY DEF IInv, Rested
    <2>2. ASSUME resting' = r
          PROVE  resting'.at <= clock' /\ (resting'.state \in Severe => OnlyCloses(resting', book'))
      BY <1>2, <2>2 DEF IInv, Rested, r
    <2> QED  BY <1>3, <2>1, <2>2 DEF Rested, OnlyCloses, Held, HeldNet
  <1>7. Tightened'
    BY DEF IInv, Tightened
  <1>8. StaleAuthorityExpires'
    <2>1. SUFFICES ASSUME resting' = r, severe_since >= 0, a > 0
                   PROVE  resting.at <= severe_since + Window
      BY <1>2, <1>3 DEF StaleAuthorityExpires
    <2>2. resting.opening > 0
      BY <1>5, <2>1
    <2> QED  BY <2>1, <2>2 DEF IInv, StaleAuthorityExpires
  <1> QED  BY <1>4, <1>6, <1>7, <1>8 DEF IInv

\* A part of what a severe state allowed fills: it takes from the book that it closes, what
\* is left still only closes, and the net position comes nearer to zero unless the fallback
\* answered over two-sided books.
LEMMA SevereFill ==
    ASSUME IInv, NEW n \in 1..MaxFill, FillClosing(n), resting.state \in Severe
    PROVE  /\ book'.long <= book.long /\ book'.short <= book.short
           /\ resting.by = "gate" \/ Smaller(book.long, book.short) = 0 => TowardsZero
           /\ OnlyCloses(Left(resting.closing - n, resting.opening), book')
  <1>1. /\ resting # NoOrder /\ resting \in RestingOrder /\ book \in Book
        /\ n \in Nat /\ n >= 1 /\ n <= resting.closing
        /\ OnlyCloses(resting, book)
    BY Bounds DEF FillClosing, IInv, TypeOK, RestingOrder, Rested
  <1>2. /\ resting.side \in {"BUY", "SELL"} /\ resting.closing \in Nat /\ resting.opening \in Nat
        /\ resting.closing - n \in Nat
        /\ book.long \in Nat /\ book.short \in Nat
    BY <1>1 DEF RestingOrder, Side, Book
  <1> DEFINE r == Left(resting.closing - n, resting.opening)
             b == book'
  <1>3. /\ r.side = resting.side /\ r.by = resting.by
        /\ r.closing = resting.closing - n /\ r.opening = resting.opening
    BY <1>1, <1>2, LeftFields
  <1>4. b = AfterLeg(resting.side, LegOf(resting.side, FALSE, n), book)
    BY DEF FillClosing, LegOf
  <1> HIDE DEF r, b
  <1>5. /\ resting.side = "SELL" =>
              b.long = book.long - Smaller(n, book.long) /\ b.short = book.short
        /\ resting.side = "BUY" =>
              b.long = book.long /\ b.short = book.short - Smaller(n, book.short)
    <2>1. resting.side \in Side
      BY <1>2 DEF Side
    <2> QED  BY <1>1, <1>4, <2>1, LegMoves
  <1>6. /\ resting.opening = 0
        /\ resting.closing <= Held(resting.side, book)
        /\ resting.by = "gate" => resting.closing <= Larger(0, HeldNet(resting.side, book))
    BY <1>1 DEF OnlyCloses
  <1>7. CASE resting.side = "SELL"
    <2>1. b.long = book.long - n /\ b.short = book.short /\ resting.closing <= book.long
      BY <1>1, <1>2, <1>5, <1>6, <1>7 DEF Smaller, Held
    <2>2. resting.by = "gate" => resting.closing <= book.long - book.short
      BY <1>1, <1>2, <1>6, <1>7 DEF Larger, HeldNet, Net
    <2>3. Smaller(book.long, book.short) = 0 => book.short = 0
      BY <1>1, <1>2, <2>1 DEF Smaller
    <2>4. resting.by = "gate" \/ Smaller(book.long, book.short) = 0 =>
             0 <= b.long - b.short /\ b.long - b.short <= book.long - book.short
      BY <1>1, <1>2, <2>1, <2>2, <2>3
    <2>5. resting.by = "gate" \/ Smaller(book.long, book.short) = 0 => TowardsZero
      BY <2>4 DEF TowardsZero, Net, b
    <2>6. OnlyCloses(r, b)
      <3>1. resting.closing - n <= Held("SELL", b)
        BY <1>1, <1>2, <2>1 DEF Held
      <3>2. resting.by = "gate" => resting.closing - n <= Larger(0, HeldNet("SELL", b))
        BY <1>1, <1>2, <2>1, <2>2 DEF Larger, HeldNet, Net
      <3> QED  BY <1>3, <1>6, <1>7, <3>1, <3>2 DEF OnlyCloses
    <2> QED  BY <1>1, <1>2, <2>1, <2>5, <2>6 DEF r, b
  <1>8. CASE resting.side = "BUY"
    <2>1. b.short = book.short - n /\ b.long = book.long /\ resting.closing <= book.short
      BY <1>1, <1>2, <1>5, <1>6, <1>8 DEF Smaller, Held
    <2>2. resting.by = "gate" => resting.closing <= book.short - book.long
      BY <1>1, <1>2, <1>6, <1>8 DEF Larger, HeldNet, Net
    <2>3. Smaller(book.long, book.short) = 0 => book.long = 0
      BY <1>1, <1>2, <2>1 DEF Smaller
    <2>4. resting.by = "gate" \/ Smaller(book.long, book.short) = 0 =>
             b.long - b.short <= 0 /\ book.long - book.short <= b.long - b.short
      BY <1>1, <1>2, <2>1, <2>2, <2>3
    <2>5. resting.by = "gate" \/ Smaller(book.long, book.short) = 0 => TowardsZero
      BY <2>4 DEF TowardsZero, Net, b
    <2>6. OnlyCloses(r, b)
      <3>1. resting.closing - n <= Held("BUY", b)
        BY <1>1, <1>2, <2>1 DEF Held
      <3>2. resting.by = "gate" => resting.closing - n <= Larger(0, HeldNet("BUY", b))
        BY <1>1, <1>2, <2>1, <2>2 DEF Larger, HeldNet, Net
      <3> QED  BY <1>3, <1>6, <1>8, <3>1, <3>2 DEF OnlyCloses
    <2> QED  BY <1>1, <1>2, <2>1, <2>5, <2>6 DEF r, b
  <1> QED  BY <1>2, <1>7, <1>8

-----------------------------------------------------------------------------
(* The theorems. *)

LEMMA Initially == Init => IInv
  <1> SUFFICES ASSUME Init PROVE IInv
    OBVIOUS
  <1>1. permission \in Permission /\ former \in Permission
    BY DEF Init, Permission, GovernanceState
  <1>2. book \in Book
    BY OrderPathAssumption DEF Init, Book
  <1> QED  BY <1>1, <1>2 DEF Init, IInv, TypeOK, Rested, Tightened, StaleAuthorityExpires

LEMMA Inductive == IInv /\ [Next]_vars => IInv'
  <1> SUFFICES ASSUME IInv, [Next]_vars PROVE IInv'
    OBVIOUS
  <1>0. TypeOK /\ clock \in Nat
    BY DEF IInv, TypeOK
  <1>1. CASE Tick
    <2>1. clock' = clock + 1 /\ clock' \in Nat /\ clock <= clock'
      BY <1>0, <1>1 DEF Tick
    <2>2. TypeOK'
      BY <1>1, <2>1 DEF Tick, IInv, TypeOK
    <2>3. Rested'
      <3>1. resting # NoOrder => resting.at \in Nat
        BY <1>0 DEF TypeOK
      <3>2. order # NoOrder => order.proposed_at \in Nat
        BY <1>0 DEF TypeOK
      <3>3. /\ order # NoOrder => order.proposed_at <= clock'
            /\ resting # NoOrder => resting.at <= clock'
        BY <1>0, <2>1, <3>1, <3>2 DEF IInv, Rested
      <3> QED  BY <1>1, <3>3 DEF Tick, IInv, Rested, OnlyCloses, Held, HeldNet
    <2>4. Tightened'
      <3>1. permission.from \in Nat
        BY <1>0 DEF TypeOK, Permission
      <3> QED  BY <1>0, <1>1, <2>1, <3>1 DEF Tick, IInv, Tightened
    <2>5. StaleAuthorityExpires'
      BY <1>1 DEF Tick, IInv, StaleAuthorityExpires
    <2> QED  BY <2>2, <2>3, <2>4, <2>5 DEF IInv
  <1>2. ASSUME NEW s \in States, Issue(s) PROVE IInv'
    <2>1. /\ permission' = [agent |-> "self", state |-> s, from |-> clock]
          /\ former' = permission
          /\ severe_since' = CASE s \notin Severe -> -1
                               [] s \in Severe /\ severe_since >= 0 -> severe_since
                               [] OTHER -> clock
          /\ orders_this_interval' = 0
          /\ UNCHANGED <<clock, book, order, resting>>
      BY <1>2 DEF Issue
    <2>2. severe_since \in Nat \cup {-1}
      BY <1>0 DEF TypeOK
    <2>3. \/ s \notin Severe /\ severe_since' = -1
          \/ s \in Severe /\ severe_since >= 0 /\ severe_since' = severe_since
          \/ s \in Severe /\ severe_since = -1 /\ severe_since' = clock
      BY <2>1, <2>2
    <2>4. s \in GovernanceState
      BY OrderPathAssumption
    <2>5. permission' \in Permission
      BY <1>0, <2>1, <2>4 DEF Permission
    <2>6. TypeOK'
      BY <1>0, <2>1, <2>2, <2>3, <2>5 DEF TypeOK
    <2>7. Rested'
      BY <2>1 DEF IInv, Rested, OnlyCloses, Held, HeldNet
    <2>8. Tightened'
      <3>1. permission'.from = clock /\ permission'.state = s
        BY <2>1
      <3>2. severe_since >= 0 => permission.state \in Severe
        BY DEF IInv, Tightened
      <3>3. permission.from <= clock
        BY DEF IInv, Tightened
      <3> QED  BY <1>0, <2>1, <2>3, <3>1, <3>2, <3>3 DEF Tightened
    <2>9. StaleAuthorityExpires'
      <3>1. SUFFICES ASSUME resting # NoOrder, severe_since' >= 0, resting.opening > 0
                     PROVE  resting.at <= severe_since' + Window
        BY <2>1 DEF StaleAuthorityExpires
      <3>2. CASE severe_since >= 0 /\ severe_since' = severe_since
        BY <3>1, <3>2 DEF IInv, StaleAuthorityExpires
      <3>3. CASE severe_since' = clock
        <4>1. resting.at <= clock /\ resting.at \in Nat
          BY <1>0, <3>1 DEF IInv, Rested, TypeOK
        <4> QED  BY <1>0, <3>3, <4>1, Bounds
      <3> QED  BY <2>3, <3>1, <3>2, <3>3
    <2> QED  BY <2>6, <2>7, <2>8, <2>9 DEF IInv
  <1>3. ASSUME NEW o \in Proposals, Propose(o) PROVE IInv'
    <2>1. o \in Order
      BY OrderPathAssumption
    <2>2. order' \in PendingOrder
      BY <1>0, <1>3, <2>1 DEF Propose, Order, PendingOrder
    <2>3. TypeOK'
      BY <1>0, <1>3, <2>2 DEF Propose, TypeOK, PendingOrder
    <2>4. order'.proposed_at <= clock'
      BY <1>0, <1>3 DEF Propose
    <2>5. Rested'
      BY <1>3, <2>4 DEF Propose, IInv, Rested, OnlyCloses, Held, HeldNet
    <2>6. Tightened' /\ StaleAuthorityExpires'
      BY <1>3 DEF Propose, IInv, Tightened, StaleAuthorityExpires
    <2> QED  BY <2>3, <2>5, <2>6 DEF IInv
  <1>4. ASSUME NEW p \in Presented, NEW timed \in BOOLEAN,
               \/ ApplyPermission(p, timed) \/ ExecuteHybrid(p, timed)
               \/ ExecuteFallback(p, timed)
        PROVE  IInv'
    <2>1. /\ Answering(p) /\ Authorized(p, EvaluationTime(timed))
          /\ EvaluationTime(timed) \in Nat /\ EvaluationTime(timed) <= clock
          /\ p.state \in GovernanceState /\ order \in PendingOrder
          /\ book \in Book /\ orders_this_interval \in Nat
      BY <1>0, <1>4, PresentedFacts, EvaluatedByNow
      DEF ApplyPermission, ExecuteHybrid, ExecuteFallback, Answering, TypeOK, Permission
    <2>2. Asks(order) /\ order.side \in Side
      BY <2>1 DEF Asks, PendingOrder
    <2>3. CASE ApplyPermission(p, timed)
      <3> DEFINE q == GateQuantity(order, Net(book), p.state, orders_this_interval)
      <3>1. q \in Nat
        BY <2>1, <2>2, AnswerType
      <3>2. p.state \in Severe =>
               /\ Opening(order.side, q, book) = 0
               /\ "gate" = "gate" => q <= Larger(0, HeldNet(order.side, book))
        BY <2>1, <2>2, SevereOpensNothing, SevereGateNets DEF HeldNet
      <3>3. Submit(p, q, "gate", EvaluationTime(timed))
        BY <2>3 DEF ApplyPermission
      <3> HIDE DEF q
      <3> QED  BY <2>1, <3>1, <3>2, <3>3, SubmitKeeps
    <2>4. CASE ExecuteHybrid(p, timed)
      <3> DEFINE q == HybridQuantity(order, book, p.state, orders_this_interval)
      <3>1. q \in Nat
        BY <2>1, <2>2, AnswerType
      <3>2. p.state \in Severe =>
               /\ Opening(order.side, q, book) = 0
               /\ "gate" = "gate" => q <= Larger(0, HeldNet(order.side, book))
        BY <2>1, <2>2, SevereOpensNothing, SevereGateNets DEF HeldNet
      <3>3. Submit(p, q, "gate", EvaluationTime(timed))
        BY <2>4 DEF ExecuteHybrid
      <3> HIDE DEF q
      <3> QED  BY <2>1, <3>1, <3>2, <3>3, SubmitKeeps
    <2>5. CASE ExecuteFallback(p, timed)
      <3> DEFINE q == FallbackQuantity(order, book, p.state)
      <3>1. q \in Nat
        BY <2>1, <2>2, AnswerType
      <3>2. p.state \in Severe =>
               /\ Opening(order.side, q, book) = 0
               /\ "fallback" = "gate" => q <= Larger(0, HeldNet(order.side, book))
        BY <2>1, <2>2, SevereOpensNothing
      <3>3. Submit(p, q, "fallback", EvaluationTime(timed))
        BY <2>5 DEF ExecuteFallback
      <3> HIDE DEF q
      <3> QED  BY <2>1, <3>1, <3>2, <3>3, SubmitKeeps
    <2> QED  BY <1>4, <2>3, <2>4, <2>5
  <1>5. ASSUME NEW p \in Presented, NEW timed \in BOOLEAN,
               ApplyPermissionRaises(p, timed) \/ ExecuteHybridRaises(p, timed)
        PROVE  IInv'
    <2>1. Raise(p)
      BY <1>5 DEF ApplyPermissionRaises, ExecuteHybridRaises
    <2>2. TypeOK'
      BY <1>0, <2>1 DEF Raise, TypeOK
    <2>3. Rested'
      BY <2>1 DEF Raise, IInv, Rested, OnlyCloses, Held, HeldNet
    <2>4. Tightened' /\ StaleAuthorityExpires'
      BY <2>1 DEF Raise, IInv, Tightened, StaleAuthorityExpires
    <2> QED  BY <2>2, <2>3, <2>4 DEF IInv
  <1>6. ASSUME NEW n \in 1..MaxFill, FillClosing(n) PROVE IInv'
    <2>1. /\ resting # NoOrder /\ resting \in RestingOrder /\ n \in Nat /\ book \in Book
          /\ n <= resting.closing
      BY <1>0, <1>6, Bounds DEF FillClosing, TypeOK, RestingOrder
    <2>2. /\ resting.side \in Side /\ resting.closing - n \in Nat /\ resting.opening \in Nat
      BY <2>1 DEF RestingOrder
    <2>3. book' \in Book
      BY <1>6, <2>1, <2>2, LegKeepsBook DEF FillClosing
    <2>4. /\ resting' = Remaining(resting.closing - n, resting.opening)
          /\ UNCHANGED <<clock, permission, former, severe_since, order, orders_this_interval>>
          /\ resting.opening <= resting.opening
      BY <1>6, <2>2 DEF FillClosing
    <2>5. resting.state \in Severe =>
             OnlyCloses(Left(resting.closing - n, resting.opening), book')
      BY <1>6, SevereFill
    <2> QED  BY <2>1, <2>2, <2>3, <2>4, <2>5, FillKeeps
  <1>7. ASSUME NEW n \in 1..MaxFill, FillOpening(n) PROVE IInv'
    <2>1. /\ resting # NoOrder /\ resting \in RestingOrder /\ n \in Nat /\ book \in Book
          /\ n >= 1 /\ n <= resting.opening
      BY <1>0, <1>7, Bounds DEF FillOpening, TypeOK, RestingOrder
    <2>2. /\ resting.side \in Side /\ resting.closing \in Nat
          /\ resting.opening - n \in Nat /\ resting.opening - n <= resting.opening
      BY <2>1 DEF RestingOrder
    <2>3. book' \in Book
      BY <1>7, <2>1, <2>2, LegKeepsBook DEF FillOpening
    <2>4. /\ resting' = Remaining(resting.closing, resting.opening - n)
          /\ UNCHANGED <<clock, permission, former, severe_since, order, orders_this_interval>>
      BY <1>7 DEF FillOpening
    <2>5. resting.state \notin Severe
      BY <2>1 DEF IInv, Rested, OnlyCloses
    <2> QED  BY <2>1, <2>2, <2>3, <2>4, <2>5, FillKeeps
  <1>8. CASE Cancel
    <2>1. TypeOK' /\ Tightened' /\ StaleAuthorityExpires'
      BY <1>0, <1>8 DEF Cancel, IInv, TypeOK, Tightened, StaleAuthorityExpires
    <2>2. Rested'
      BY <1>8 DEF Cancel, IInv, Rested
    <2> QED  BY <2>1, <2>2 DEF IInv
  <1>9. CASE UNCHANGED vars
    <2>1. TypeOK' /\ Tightened' /\ StaleAuthorityExpires'
      BY <1>9 DEF vars, IInv, TypeOK, Tightened, StaleAuthorityExpires
    <2>2. Rested'
      BY <1>9 DEF vars, IInv, Rested, OnlyCloses, Held, HeldNet
    <2> QED  BY <2>1, <2>2 DEF IInv
  <1> QED
    BY <1>1, <1>2, <1>3, <1>4, <1>5, <1>6, <1>7, <1>8, <1>9 DEF Next

LEMMA Invariant == Spec => []IInv
  BY Initially, Inductive, PTL DEF Spec

\* Every variable of the order path keeps its type, and no book goes negative.
THEOREM PathTypeCorrect == Spec => []TypeOK
  <1>1. IInv => TypeOK
    BY DEF IInv
  <1> QED  BY <1>1, Invariant, PTL

\* For every role, envelope, price and order, from any books and in fills of any size: what a
\* severe state allowed adds to no book, and takes the net position towards zero and not
\* through it, unless the fallback answered over two-sided books.
THEOREM SevereOnlyReduces == Spec => ReduceOnlyReduces
  <1>1. IInv /\ [Next]_vars =>
           [book' # book /\ resting.state \in Severe =>
               /\ book'.long <= book.long
               /\ book'.short <= book.short
               /\ resting.by = "gate" \/ Smaller(book.long, book.short) = 0 => TowardsZero]_vars
    <2>1. SUFFICES ASSUME IInv, Next, book' # book, resting.state \in Severe
          PROVE  /\ book'.long <= book.long
                 /\ book'.short <= book.short
                 /\ resting.by = "gate" \/ Smaller(book.long, book.short) = 0 => TowardsZero
      OBVIOUS
    <2>2. PICK n \in 1..MaxFill : FillClosing(n) \/ FillOpening(n)
      BY <2>1 DEF Next, Tick, Issue, Propose, ApplyPermission, ApplyPermissionRaises,
                  ExecuteHybrid, ExecuteHybridRaises, ExecuteFallback, Submit, Raise, Cancel
    <2>3. ~FillOpening(n)
      <3>1. SUFFICES ASSUME FillOpening(n) PROVE FALSE
        OBVIOUS
      <3>2. resting # NoOrder /\ n <= resting.opening /\ n \in Nat /\ n >= 1
        BY <3>1, Bounds DEF FillOpening
      <3>3. resting.opening = 0
        BY <2>1, <3>2 DEF IInv, Rested, OnlyCloses
      <3> QED  BY <3>2, <3>3
    <2> QED  BY <2>1, <2>2, <2>3, SevereFill
  <1> QED  BY <1>1, Invariant, PTL DEF Spec, ReduceOnlyReduces

\* Once governance is severe, openings are authorized as of one window more at the latest,
\* whichever permissions the agent holds, whoever they were issued to.
THEOREM StaleAuthority == Spec => []StaleAuthorityExpires
  <1>1. IInv => StaleAuthorityExpires
    BY DEF IInv
  <1> QED  BY <1>1, Invariant, PTL

-----------------------------------------------------------------------------
(* What the gate may answer: properties of single steps. *)

\* In a step in which the gate answers, scaled or not, the order is submitted for part of
\* what the gate allows, and for all of it when that opens nothing.
LEMMA GateStep ==
    ASSUME TypeOK, GateAnswers
    PROVE  \E p \in Presented, q \in Nat, time \in Nat :
              /\ Submit(p, q, "gate", time)
              /\ p.state \in GovernanceState
              /\ q <= GateQuantity(order, Net(book), p.state, orders_this_interval)
              /\ Opening(order.side,
                         GateQuantity(order, Net(book), p.state, orders_this_interval), book) = 0
                    => q = GateQuantity(order, Net(book), p.state, orders_this_interval)
              /\ Asks(order) /\ order \in PendingOrder
  <1>1. PICK p \in Presented, timed \in BOOLEAN :
           ApplyPermission(p, timed) \/ ExecuteHybrid(p, timed)
    BY DEF GateAnswers
  <1>2. /\ p.state \in GovernanceState /\ order \in PendingOrder
        /\ book \in Book /\ orders_this_interval \in Nat
    BY <1>1, PresentedFacts
    DEF ApplyPermission, ExecuteHybrid, Answering, TypeOK, PendingOrder, Permission
  <1>3. Asks(order)
    BY <1>2 DEF Asks, PendingOrder
  <1> DEFINE g == GateQuantity(order, Net(book), p.state, orders_this_interval)
             h == HybridQuantity(order, book, p.state, orders_this_interval)
  <1>4. g \in Nat /\ h \in Nat
    BY <1>2, <1>3, AnswerType
  <1>0. EvaluationTime(timed) \in Nat
    BY <1>2 DEF EvaluationTime, PendingOrder, TypeOK
  <1>5. CASE ApplyPermission(p, timed)
    <2>1. Submit(p, g, "gate", EvaluationTime(timed))
      BY <1>5 DEF ApplyPermission
    <2> HIDE DEF g
    <2> QED  BY <1>0, <1>2, <1>3, <1>4, <2>1 DEF g
  <1>6. CASE ExecuteHybrid(p, timed)
    <2>1. Submit(p, h, "gate", EvaluationTime(timed))
      BY <1>6 DEF ExecuteHybrid
    <2>2. h <= g
      <3>1. h = g \/ h = Scaled(g, p.state)
        BY DEF HybridQuantity
      <3>2. Scaled(g, p.state) <= g
        BY <1>2, <1>4, ScaledDown
      <3> HIDE DEF g, h
      <3> QED  BY <1>4, <3>1, <3>2
    <2>3. Opening(order.side, g, book) = 0 => h = g
      BY DEF HybridQuantity
    <2> HIDE DEF h
    <2> QED  BY <1>0, <1>2, <1>3, <1>4, <2>1, <2>2, <2>3
  <1> QED  BY <1>1, <1>5, <1>6

\* What is submitted for q is q, split on the live books.
LEMMA Submitted ==
    ASSUME TypeOK, NEW p, NEW q \in Nat, NEW time \in Nat,
           Submit(p, q, "gate", time), order \in PendingOrder
    PROVE  /\ q = 0 => resting' = NoOrder
           /\ q > 0 => /\ resting' # NoOrder
                       /\ resting'.state = p.state
                       /\ resting'.closing = Closing(order.side, q, book)
                       /\ resting'.opening = Opening(order.side, q, book)
  <1> DEFINE r == Rests(p, q, "gate", time)
  <1>1. r.side \in {"BUY", "SELL"} /\ NoOrder.side = "NONE"
    BY DEF PendingOrder, Side, NoOrder, Rests
  <1>2. r # NoOrder
    BY <1>1
  <1>3. q > 0 => resting' = r
    BY DEF Submit, Rests
  <1>4. q = 0 => resting' = NoOrder
    BY DEF Submit
  <1>5. /\ r.state = p.state
        /\ r.closing = Closing(order.side, q, book)
        /\ r.opening = Opening(order.side, q, book)
    BY DEF Rests
  <1> HIDE DEF r
  <1> QED  BY <1>2, <1>3, <1>4, <1>5

\* For every order, book and limit: an opening the gate allows, scaled or not, ends inside
\* the exposure limits of the state it was allowed under.
THEOREM OpeningsKeepLimits == Spec => LimitsHeld
  <1>1. TypeOK => (GateAnswers /\ resting' # NoOrder /\ resting'.opening > 0 =>
            Abs(Net(After(order.side, resting'.closing + resting'.opening, book)))
                <= projected_limit(resting'.state))
    <2>1. SUFFICES ASSUME TypeOK, GateAnswers, resting' # NoOrder, resting'.opening > 0
          PROVE  Abs(Net(After(order.side, resting'.closing + resting'.opening, book)))
                     <= projected_limit(resting'.state)
      OBVIOUS
    <2>2. PICK p \in Presented, q \in Nat, time \in Nat :
              /\ Submit(p, q, "gate", time) /\ p.state \in GovernanceState
              /\ q <= GateQuantity(order, Net(book), p.state, orders_this_interval)
              /\ Asks(order) /\ order \in PendingOrder
      BY <2>1, GateStep
    <2>3. /\ q > 0
          /\ resting'.state = p.state
          /\ resting'.closing = Closing(order.side, q, book)
          /\ resting'.opening = Opening(order.side, q, book)
      BY <2>1, <2>2, Submitted
    <2>4. book \in Book /\ orders_this_interval \in Nat /\ order.side \in Side
      BY <2>1, <2>2 DEF TypeOK, Asks
    <2>5. resting'.closing + resting'.opening = q
      BY <2>3, <2>4, Split DEF Opening
    <2>6. Abs(Net(After(order.side, q, book))) <= projected_limit(p.state)
      BY <2>1, <2>2, <2>3, <2>4, OpeningWithinLimit
    <2> QED  BY <2>3, <2>5, <2>6
  <1> QED  BY <1>1, PathTypeCorrect, PTL DEF LimitsHeld

\* For every order and books held on one side: a reduction passes the gate whole, in every
\* state, whatever its type and however many orders came before.
THEOREM ExitsPassWhole == Spec => ExitKept
  <1>1. TypeOK => (GateAnswers /\ Smaller(book.long, book.short) = 0
                       /\ Opening(order.side, order.quantity, book) = 0 =>
                   resting' # NoOrder /\ resting'.closing = order.quantity)
    <2>1. SUFFICES ASSUME TypeOK, GateAnswers, Smaller(book.long, book.short) = 0,
                          Opening(order.side, order.quantity, book) = 0
          PROVE  resting' # NoOrder /\ resting'.closing = order.quantity
      OBVIOUS
    <2>2. PICK p \in Presented, q \in Nat, time \in Nat :
              /\ Submit(p, q, "gate", time) /\ p.state \in GovernanceState
              /\ Opening(order.side,
                         GateQuantity(order, Net(book), p.state, orders_this_interval), book) = 0
                    => q = GateQuantity(order, Net(book), p.state, orders_this_interval)
              /\ Asks(order) /\ order \in PendingOrder
      BY <2>1, GateStep
    <2>3. /\ book \in Book /\ order.side \in {"BUY", "SELL"} /\ order.side \in Side
          /\ order.quantity \in Nat \ {0}
          /\ book.long \in Nat /\ book.short \in Nat /\ Net(book) = book.long - book.short
      BY <2>1, <2>2 DEF TypeOK, Asks, Side, Book, Net
    <2>4. order.quantity <= (IF order.side = "SELL" THEN book.long ELSE book.short)
      BY <2>1, <2>3, Split
    <2>5. book.long = 0 \/ book.short = 0
      BY <2>1, <2>3 DEF Smaller
    <2>6. ~CrossesZero(order, Net(book)) /\ Reduces(order, Net(book))
      BY <2>3, <2>4, <2>5 DEF CrossesZero, Reduces, Projected, Abs
    <2>7. GateQuantity(order, Net(book), p.state, orders_this_interval) = order.quantity
      BY <2>6 DEF GateQuantity
    <2>8. q = order.quantity
      BY <2>1, <2>2, <2>7
    <2>9. resting' # NoOrder /\ resting'.closing = Closing(order.side, q, book)
      BY <2>1, <2>2, <2>3, <2>8, Submitted
    <2>10. Closing(order.side, order.quantity, book) = order.quantity
      BY <2>3, <2>4 DEF Closing, Smaller
    <2> QED  BY <2>8, <2>9, <2>10
  <1> QED  BY <1>1, PathTypeCorrect, PTL DEF ExitKept

\* For every order and books: where the state grants no open short, no sale but a quote
\* takes a flat or long agent short through the gate.
THEOREM NoShortWithoutLeave == Spec => NoNewShort
  <1>1. TypeOK => (GateAnswers /\ resting' # NoOrder /\ resting'.opening > 0
                       /\ order.side = "SELL" /\ Net(book) >= 0 /\ ~order.quote =>
                   allow_open_short(resting'.state))
    <2>1. SUFFICES ASSUME TypeOK, GateAnswers, resting' # NoOrder, resting'.opening > 0,
                          order.side = "SELL", Net(book) >= 0, ~order.quote
          PROVE  allow_open_short(resting'.state)
      OBVIOUS
    <2>2. PICK p \in Presented, q \in Nat, time \in Nat :
              /\ Submit(p, q, "gate", time) /\ p.state \in GovernanceState
              /\ q <= GateQuantity(order, Net(book), p.state, orders_this_interval)
              /\ Asks(order) /\ order \in PendingOrder
      BY <2>1, GateStep
    <2>3. /\ q > 0
          /\ resting'.state = p.state
          /\ resting'.opening = Opening(order.side, q, book)
      BY <2>1, <2>2, Submitted
    <2>4. /\ book \in Book /\ orders_this_interval \in Nat /\ order.side \in Side
          /\ order.quantity \in Nat
          /\ book.long \in Nat /\ book.short \in Nat /\ Net(book) = book.long - book.short
      BY <2>1, <2>2 DEF TypeOK, Asks, Book, Net
    <2>5. /\ q <= order.quantity
          /\ OpensShort(order, Net(book)) => allow_open_short(p.state)
      BY <2>1, <2>2, <2>3, <2>4, OpeningAnswer
    <2>6. q > book.long
      <3>1. Opening(order.side, q, book) # 0
        BY <2>1, <2>3
      <3>2. ~(q <= (IF order.side = "SELL" THEN book.long ELSE book.short))
        BY <2>4, <3>1, Split
      <3> QED  BY <2>1, <2>4, <3>2
    <2>7. OpensShort(order, Net(book))
      BY <2>1, <2>4, <2>5, <2>6 DEF OpensShort
    <2> QED  BY <2>3, <2>5, <2>7
  <1> QED  BY <1>1, PathTypeCorrect, PTL DEF NoNewShort
=============================================================================
