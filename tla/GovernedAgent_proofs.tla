-------------------------- MODULE GovernedAgent_proofs --------------------------
(***************************************************************************)
(* Proofs about GovernedAgent, for every role and envelope, price, policy, *)
(* set of signals and proposals, number of resting legs and size of books. *)
(***************************************************************************)
EXTENDS GovernedAgent, OrderGate_proofs

-----------------------------------------------------------------------------
(* The invariant. *)

\* The ladder's counts, which the debt is measured against.
LadderCounts ==
    /\ wait \in 0..CooldownIntervals
    /\ evidence \in 0..MinNewOutcomes

\* The venue has a leg or nothing in every slot.
LegsAtVenue == legs \in [Slots -> Resting \cup {None}]

\* The clock of severity runs while governance is severe, and a permission of before that
\* could open is at least as old as the severity.
Timed ==
    /\ severe_for # -1 <=> state \in Severe
    /\ state \in Severe /\ former.state \notin Severe => former.age >= severe_for

\* Outside ISOLATED nothing is owed; inside, no more than the ladder still waits for.
Repaid ==
    /\ state # "ISOLATED" => debt = [cooldown |-> 0, outcomes |-> 0]
    /\ state = "ISOLATED" => /\ debt.cooldown <= wait
                             /\ debt.outcomes + evidence <= MinNewOutcomes

\* A leg the guard kept opens, and could be executed in full on the present books.
VettedAt(rest) ==
    \A i \in Slots : rest[i] # None /\ rest[i].kept => rest[i].opens /\ ~ExposureBreach(rest[i])

Vetted == VettedAt(legs)

IInv ==
    /\ TypeOK
    /\ LadderCounts
    /\ LegsAtVenue
    /\ ReductionsNeverCancelled
    /\ Timed
    /\ Repaid
    /\ Vetted

-----------------------------------------------------------------------------
(* The ladder. *)

LEMMA Parameters ==
    /\ CooldownIntervals \in Nat /\ MinNewOutcomes \in Nat
    /\ Window \in Nat /\ MaxBook \in Nat
    /\ Signals \subseteq Class /\ Proposals \subseteq Order /\ Slots \subseteq Nat
  BY LadderAssumption, GovernedAgentAssumption

\* An interval ends on a rung, and ISOLATED is left only when nothing is missing to it.
LEMMA TargetRung ==
    ASSUME state \in GovernanceState, NEW class \in Class,
           NEW lost \in BOOLEAN, NEW ready \in BOOLEAN
    PROVE  /\ Target(class, lost, ready) \in GovernanceState
           /\ state = "ISOLATED" /\ ~ready => Target(class, lost, ready) = "ISOLATED"
  <1>1. CASE class = "override" \/ lost
    BY <1>1 DEF Target, GovernanceState, Hard
  <1>2. CASE ~lost /\ class \in {"missing", "severe"}
    <2>1. Target(class, lost, ready) = HardTarget(class)
      BY <1>2 DEF Target, Hard
    <2> QED  BY <2>1 DEF HardTarget, GovernanceState
  <1>3. CASE ~lost /\ class \notin Hard /\ Acts(class)
    <2>1. Target(class, lost, ready) = SoftTarget(ready)
      BY <1>3 DEF Target, Hard
    <2> QED  BY <2>1 DEF SoftTarget, GovernanceState
  <1>4. CASE ~lost /\ class \notin Hard /\ ~Acts(class)
    <2>1. Target(class, lost, ready) = IF ready THEN Down[state] ELSE state
      BY <1>4 DEF Target, Hard
    <2>2. Down[state] \in GovernanceState
      BY DEF Down, GovernanceState, LadderState, Staged
    <2> QED  BY <2>1, <2>2
  <1> QED  BY <1>1, <1>2, <1>3, <1>4 DEF Hard, Class

\* What an interval does to the counts.
LEMMA IntervalCounts ==
    ASSUME state \in GovernanceState, LadderCounts, NEW class \in Class,
           NEW missing \in BOOLEAN, NEW advance \in 0..CooldownIntervals,
           NEW completed \in 0..MinNewOutcomes,
           Interval(class, missing, advance, completed)
    PROVE  /\ state' \in GovernanceState
           /\ LadderCounts'
           /\ state' = state => /\ wait' = AtLeast(0, wait - advance)
                                /\ evidence' = AtMost(MinNewOutcomes, evidence + completed)
           /\ state' # state => wait' = CooldownIntervals /\ evidence' = 0
           /\ state = "ISOLATED" /\ state' # "ISOLATED" =>
                 wait <= advance /\ evidence + completed >= MinNewOutcomes
  <1> DEFINE cooled == AtLeast(0, wait - advance)
             shown == AtMost(MinNewOutcomes, evidence + completed)
             gap == IF missing THEN AtMost(PersistentLoss, loss + 1) ELSE 0
             lost == gap = PersistentLoss
             ready == cooled = 0 /\ shown = MinNewOutcomes
  <1>1. /\ wait \in Nat /\ evidence \in Nat /\ advance \in Nat /\ completed \in Nat
        /\ wait <= CooldownIntervals /\ CooldownIntervals \in Nat /\ MinNewOutcomes \in Nat
    BY Parameters DEF LadderCounts
  <1>2. /\ state' = Target(class, lost, ready)
        /\ wait' = IF state' = state THEN cooled ELSE CooldownIntervals
        /\ evidence' = IF state' = state THEN shown ELSE 0
    BY DEF Interval
  <1>3. cooled \in 0..CooldownIntervals /\ shown \in 0..MinNewOutcomes
    BY <1>1 DEF AtLeast, AtMost
  <1>4. ready => wait <= advance /\ evidence + completed >= MinNewOutcomes
    BY <1>1 DEF AtLeast, AtMost
  <1>5. ready \in BOOLEAN /\ lost \in BOOLEAN
    OBVIOUS
  <1> HIDE DEF cooled, shown, lost, ready
  <1>6. state' \in GovernanceState /\ (state = "ISOLATED" /\ state' # "ISOLATED" => ready)
    BY <1>2, <1>5, TargetRung
  <1>7. LadderCounts'
    <2>1. wait' \in {cooled, CooldownIntervals} /\ evidence' \in {shown, 0}
      BY <1>2
    <2> QED  BY <1>1, <1>3, <2>1 DEF LadderCounts
  <1> QED  BY <1>2, <1>4, <1>6, <1>7 DEF cooled, shown

-----------------------------------------------------------------------------
(* Legs. *)

\* Putting a verdict aside changes nothing else about a leg.
LEMMA UnjudgedLegs ==
    ASSUME NEW rest \in [Slots -> Resting \cup {None}]
    PROVE  /\ Unjudged(rest) \in [Slots -> Resting \cup {None}]
           /\ \A i \in Slots : Unjudged(rest)[i] # None =>
                 /\ rest[i] # None
                 /\ ~Unjudged(rest)[i].kept
                 /\ Unjudged(rest)[i].cancel = rest[i].cancel
                 /\ Unjudged(rest)[i].opens = rest[i].opens
  <1>1. ASSUME NEW i \in Slots, rest[i] # None
        PROVE  LET leg == [rest[i] EXCEPT !.kept = FALSE]
               IN  /\ leg \in Resting /\ ~leg.kept
                   /\ leg.cancel = rest[i].cancel /\ leg.opens = rest[i].opens
    <2>1. rest[i] \in Resting
      BY <1>1
    <2> QED  BY <2>1 DEF Resting
  <1> QED  BY <1>1 DEF Unjudged

NewLeg(order, quantity, opens) ==
    [side |-> order.side, opens |-> opens, quantity |-> quantity,
     order_type |-> order.order_type, kept |-> FALSE, cancel |-> FALSE]

\* Placing a leg changes a slot to the new leg, or nothing.
LEMMA PlacedLegs ==
    ASSUME NEW rest \in [Slots -> Resting \cup {None}], NEW order \in Order,
           NEW quantity \in Nat, NEW opens \in BOOLEAN
    PROVE  /\ Placed(rest, order, quantity, opens) \in [Slots -> Resting \cup {None}]
           /\ \A i \in Slots :
                 \/ Placed(rest, order, quantity, opens)[i] = rest[i]
                 \/ /\ quantity # 0
                    /\ Placed(rest, order, quantity, opens)[i] = NewLeg(order, quantity, opens)
  <1> DEFINE slot == CHOOSE i \in Vacant(rest) : \A k \in Vacant(rest) : i <= k
             leg == NewLeg(order, quantity, opens)
  <1>1. CASE quantity = 0
    BY <1>1 DEF Placed
  <1>2. CASE quantity # 0
    <2>1. leg \in Resting
      BY <1>2 DEF NewLeg, Resting, Order
    <2>2. Placed(rest, order, quantity, opens) = [rest EXCEPT ![slot] = leg]
      BY <1>2 DEF Placed, NewLeg
    <2> HIDE DEF slot, leg
    <2> QED  BY <1>2, <2>1, <2>2 DEF leg
  <1> QED  BY <1>1, <1>2

\* What a submission puts at the venue: legs not judged yet, and one that opens only if
\* the permission it was answered under is not severe.
LEMMA SubmittedLegs ==
    ASSUME IInv, NEW order \in Proposals, NEW p \in {InForce, former}, Submit(order, p)
    PROVE  /\ LegsAtVenue'
           /\ \A i \in Slots : legs'[i] = legs[i] \/
                 (/\ ~legs'[i].kept /\ ~legs'[i].cancel
                  /\ legs'[i].opens => p.state \notin Severe)
           /\ UNCHANGED <<ladder, age, former, book, severe_for, debt>>
           /\ p.age <= Window
  <1> DEFINE allowed == HybridQuantity(order, book, p.state, 0)
             closing == Closing(order.side, allowed, book)
             opening == Opening(order.side, allowed, book)
             first == Placed(legs, order, closing, FALSE)
  <1>1. order \in Order /\ Asks(order) /\ order.side \in Side
    BY Parameters DEF Order, Asks
  <1>2. book \in Book /\ p.state \in GovernanceState
    BY DEF IInv, TypeOK, Book, InForce, Permission
  <1>3. allowed \in Nat
    BY <1>1, <1>2, AnswerType
  <1>4. p.state \in Severe => opening = 0
    BY <1>1, <1>2, SevereOpensNothing
  <1>5. legs' = Placed(first, order, opening, TRUE)
    BY DEF Submit
  <1> HIDE DEF allowed
  <1>6. closing \in Nat /\ opening \in Nat
    BY <1>1, <1>2, <1>3, Split
  <1> HIDE DEF closing, opening
  <1>7. /\ first \in [Slots -> Resting \cup {None}]
        /\ \A i \in Slots : first[i] = legs[i] \/ first[i] = NewLeg(order, closing, FALSE)
    BY <1>1, <1>6, PlacedLegs DEF IInv, LegsAtVenue
  <1> HIDE DEF first
  <1>8. /\ legs' \in [Slots -> Resting \cup {None}]
        /\ \A i \in Slots : \/ legs'[i] = first[i]
                            \/ opening # 0 /\ legs'[i] = NewLeg(order, opening, TRUE)
    BY <1>1, <1>5, <1>6, <1>7, PlacedLegs
  <1>9. UNCHANGED <<ladder, age, former, book, severe_for, debt>> /\ p.age <= Window
    BY DEF Submit, Live
  <1> QED  BY <1>4, <1>7, <1>8, <1>9 DEF NewLeg, LegsAtVenue

-----------------------------------------------------------------------------
(* A leg, executed. *)

\* What n of a leg does to the books: an opening adds n to its own side, a closing takes
\* from the other.
LEMMA LegExecuted ==
    ASSUME NEW leg \in Resting, NEW n \in Nat, NEW b \in Book
    PROVE  LET after == AfterLeg(leg.side, NativeLeg(leg, n), b)
           IN  /\ after \in Book
               /\ leg.opens /\ leg.side = "BUY" => after.long = b.long + n /\ after.short = b.short
               /\ leg.opens /\ leg.side = "SELL" => after.long = b.long /\ after.short = b.short + n
               /\ ~leg.opens => after.long <= b.long /\ after.short <= b.short
  <1> DEFINE after == AfterLeg(leg.side, LegOf(leg.side, leg.opens, n), b)
  <1>1. leg.side \in Side /\ leg.opens \in BOOLEAN
    BY DEF Resting
  <1>2. NativeLeg(leg, n) = LegOf(leg.side, leg.opens, n)
    BY DEF NativeLeg, LegOf
  <1>3. /\ after \in Book
        /\ leg.opens /\ leg.side = "BUY" => after.long = b.long + n /\ after.short = b.short
        /\ leg.opens /\ leg.side = "SELL" => after.long = b.long /\ after.short = b.short + n
        /\ ~leg.opens /\ leg.side = "BUY" =>
              after.long = b.long /\ after.short = b.short - Smaller(n, b.short)
        /\ ~leg.opens /\ leg.side = "SELL" =>
              after.long = b.long - Smaller(n, b.long) /\ after.short = b.short
    BY <1>1, LegMoves
  <1> HIDE DEF after
  <1>4. b.long \in Nat /\ b.short \in Nat
    BY DEF Book
  <1>5. ~leg.opens => after.long <= b.long /\ after.short <= b.short
    BY <1>1, <1>3, <1>4 DEF Side, Smaller
  <1> QED  BY <1>2, <1>3, <1>5 DEF after

\* A leg that closes opens nothing on any books, so the guard does not touch it.
LEMMA ClosingOpensNothing ==
    ASSUME NEW leg \in Resting, ~leg.opens, book \in Book
    PROVE  ~GuardCancels(leg)
  <1> DEFINE after == IfExecuted(leg)
  <1>1. leg.quantity \in Nat
    BY DEF Resting
  <1>2. after \in Book /\ after.long <= book.long /\ after.short <= book.short
    BY <1>1, LegExecuted DEF IfExecuted
  <1>3. after.long \in Nat /\ after.short \in Nat /\ book.long \in Nat /\ book.short \in Nat
    BY <1>2 DEF Book
  <1> HIDE DEF after
  <1>4. Larger(0, after.long - book.long) = 0 /\ Larger(0, after.short - book.short) = 0
    BY <1>2, <1>3 DEF Larger
  <1>5. OpensNow(leg) = 0
    BY <1>4 DEF OpensNow, after
  <1> QED  BY <1>5 DEF GuardCancels

\* One that opens does so on any books.
LEMMA OpeningOpens ==
    ASSUME NEW leg \in Resting, leg.opens, book \in Book
    PROVE  OpensNow(leg) > 0
  <1> DEFINE after == IfExecuted(leg)
  <1>1. leg.quantity \in Nat /\ leg.quantity > 0 /\ leg.side \in Side
    BY DEF Resting
  <1>2. \/ after.long = book.long + leg.quantity /\ after.short = book.short
        \/ after.long = book.long /\ after.short = book.short + leg.quantity
    <2>1. CASE leg.side = "BUY"
      BY <1>1, <2>1, LegExecuted DEF IfExecuted
    <2>2. CASE leg.side = "SELL"
      BY <1>1, <2>2, LegExecuted DEF IfExecuted
    <2> QED  BY <1>1, <2>1, <2>2 DEF Side
  <1>3. book.long \in Nat /\ book.short \in Nat
    BY DEF Book
  <1> HIDE DEF after
  <1>4. Larger(0, after.long - book.long) + Larger(0, after.short - book.short) > 0
    BY <1>1, <1>2, <1>3 DEF Larger
  <1> QED  BY <1>4 DEF OpensNow, after

-----------------------------------------------------------------------------
(* Every action keeps the invariant. *)

\* The invariant's part about the legs, for legs whose verdicts are those of before.
LEMMA LegsKept ==
    ASSUME IInv, book' = book, state' = state,
           legs' \in [Slots -> Resting \cup {None}],
           \A i \in Slots : legs'[i] # None =>
               \/ legs'[i] = legs[i]
               \/ ~legs'[i].kept /\ (legs'[i].cancel => legs'[i].opens)
    PROVE  LegsAtVenue' /\ ReductionsNeverCancelled' /\ Vetted'
  <1>1. \A leg : ExposureBreach(leg)' <=> ExposureBreach(leg)
    BY DEF ExposureBreach, IfExecuted
  <1>2. ReductionsNeverCancelled'
    BY DEF IInv, ReductionsNeverCancelled
  <1>3. Vetted'
    BY <1>1 DEF IInv, Vetted, VettedAt
  <1> QED  BY <1>2, <1>3 DEF LegsAtVenue

\* The same when the verdicts are put aside.
LEMMA LegsUnjudged ==
    ASSUME NEW rest \in [Slots -> Resting \cup {None}],
           \A i \in Slots : rest[i] # None /\ rest[i].cancel => rest[i].opens,
           legs' = Unjudged(rest)
    PROVE  LegsAtVenue' /\ ReductionsNeverCancelled' /\ Vetted'
  BY UnjudgedLegs DEF LegsAtVenue, ReductionsNeverCancelled, Vetted, VettedAt

LEMMA EvaluateKeeps ==
    ASSUME IInv, NEW class \in Signals, NEW advance \in 0..CooldownIntervals,
           NEW completed \in 0..MinNewOutcomes, Evaluate(class, advance, completed)
    PROVE  IInv'
  <1>1. TypeOK /\ LadderCounts /\ Timed /\ Repaid
    BY DEF IInv
  <1>2. /\ state' \in GovernanceState /\ LadderCounts'
        /\ state' = state => /\ wait' = AtLeast(0, wait - advance)
                             /\ evidence' = AtMost(MinNewOutcomes, evidence + completed)
        /\ state' # state => wait' = CooldownIntervals /\ evidence' = 0
        /\ state = "ISOLATED" /\ state' # "ISOLATED" =>
              wait <= advance /\ evidence + completed >= MinNewOutcomes
    <2>1. Interval(class, class = "missing", advance, completed)
      BY DEF Evaluate
    <2>2. class \in Class /\ (class = "missing") \in BOOLEAN
      BY Parameters
    <2>3. state \in GovernanceState
      BY <1>1 DEF TypeOK
    <2> QED  BY <1>1, <2>1, <2>2, <2>3, IntervalCounts
  <1>3. /\ age' = 0 /\ book' = book /\ legs' = Unjudged(legs)
        /\ former' \in {former} \cup (IF state \in Severe \/ age > Window THEN {} ELSE {InForce})
        /\ severe_for' = SevereFor(state')
        /\ debt' = Owed(state', advance, completed)
    BY DEF Evaluate
  <1>4. LegsAtVenue' /\ ReductionsNeverCancelled' /\ Vetted'
    BY <1>3, LegsUnjudged DEF IInv, LegsAtVenue, ReductionsNeverCancelled
  <1>5. former' = former \/ (former' = InForce /\ state \notin Severe)
    BY <1>3
  <1>6. age' \in Age /\ former' \in Permission
    <2>1. 0 \in Age
      BY Parameters DEF Age
    <2>2. InForce \in Permission
      BY <1>1 DEF TypeOK, InForce, Permission
    <2> QED  BY <1>1, <1>3, <1>5, <2>1, <2>2 DEF TypeOK
  <1>7. /\ state' \notin Severe => severe_for' = -1
        /\ state' \in Severe /\ state \in Severe => severe_for' = severe_for
        /\ state' \in Severe /\ state \notin Severe => severe_for' = 0
    BY <1>3 DEF SevereFor
  <1>8. severe_for \in Age \cup {-1} /\ severe_for' \in Age \cup {-1}
    <2>1. 0 \in Age
      BY Parameters DEF Age
    <2> QED  BY <1>1, <1>7, <2>1 DEF TypeOK
  <1>9. Timed'
    <2>1. severe_for' # -1 <=> state' \in Severe
      BY <1>1, <1>7 DEF Timed
    <2>2. ASSUME state' \in Severe, former'.state \notin Severe
          PROVE  former'.age >= severe_for'
      <3>1. CASE state \in Severe
        <4>1. former' = former /\ severe_for' = severe_for
          BY <1>5, <1>7, <2>2, <3>1
        <4> QED  BY <1>1, <2>2, <3>1, <4>1 DEF Timed
      <3>2. CASE state \notin Severe
        <4>1. severe_for' = 0
          BY <1>7, <2>2, <3>2
        <4>2. former'.age \in Age
          BY <1>6 DEF Permission
        <4> QED  BY <4>1, <4>2 DEF Age
      <3> QED  BY <3>1, <3>2
    <2> QED  BY <2>1, <2>2 DEF Timed
  <1>10. /\ debt.cooldown \in 0..CooldownIntervals /\ debt.outcomes \in 0..MinNewOutcomes
         /\ wait \in 0..CooldownIntervals /\ evidence \in 0..MinNewOutcomes
         /\ CooldownIntervals \in Nat /\ MinNewOutcomes \in Nat
    BY <1>1, Parameters DEF TypeOK, LadderCounts
  <1>11. debt' = IF state' = "ISOLATED" /\ state # "ISOLATED"
                 THEN [cooldown |-> CooldownIntervals, outcomes |-> MinNewOutcomes]
                 ELSE [cooldown |-> AtLeast(0, debt.cooldown - advance),
                       outcomes |-> AtLeast(0, debt.outcomes - completed)]
    BY <1>3 DEF Owed
  <1>12. debt' \in [cooldown : 0..CooldownIntervals, outcomes : 0..MinNewOutcomes]
    <2>1. /\ AtLeast(0, debt.cooldown - advance) \in 0..CooldownIntervals
          /\ AtLeast(0, debt.outcomes - completed) \in 0..MinNewOutcomes
      BY <1>10 DEF AtLeast
    <2> QED  BY <1>10, <1>11, <2>1
  <1>13. Repaid'
    <2>1. CASE state' = "ISOLATED" /\ state # "ISOLATED"
      BY <1>2, <1>10, <1>11, <2>1 DEF Repaid
    <2>2. CASE state' = "ISOLATED" /\ state = "ISOLATED"
      <3>1. debt.cooldown <= wait /\ debt.outcomes + evidence <= MinNewOutcomes
        BY <1>1, <2>2 DEF Repaid
      <3>2. /\ debt'.cooldown = AtLeast(0, debt.cooldown - advance)
            /\ debt'.outcomes = AtLeast(0, debt.outcomes - completed)
            /\ wait' = AtLeast(0, wait - advance)
            /\ evidence' = AtMost(MinNewOutcomes, evidence + completed)
        BY <1>2, <1>11, <2>2
      <3>3. debt'.cooldown <= wait' /\ debt'.outcomes + evidence' <= MinNewOutcomes
        BY <1>10, <3>1, <3>2 DEF AtLeast, AtMost
      <3> QED  BY <2>2, <3>3 DEF Repaid
    <2>3. CASE state' # "ISOLATED" /\ state = "ISOLATED"
      <3>1. debt.cooldown <= advance /\ debt.outcomes <= completed
        BY <1>1, <1>2, <1>10, <2>3 DEF Repaid
      <3>2. AtLeast(0, debt.cooldown - advance) = 0 /\ AtLeast(0, debt.outcomes - completed) = 0
        BY <1>10, <3>1 DEF AtLeast
      <3> QED  BY <1>11, <2>3, <3>2 DEF Repaid
    <2>4. CASE state' # "ISOLATED" /\ state # "ISOLATED"
      <3>1. debt.cooldown = 0 /\ debt.outcomes = 0
        BY <1>1, <2>4 DEF Repaid
      <3>2. AtLeast(0, debt.cooldown - advance) = 0 /\ AtLeast(0, debt.outcomes - completed) = 0
        BY <1>10, <3>1 DEF AtLeast
      <3> QED  BY <1>11, <2>4, <3>2 DEF Repaid
    <2> QED  BY <2>1, <2>2, <2>3, <2>4
  <1>14. TypeOK'
    BY <1>1, <1>2, <1>3, <1>4, <1>6, <1>8, <1>12 DEF TypeOK, LegsAtVenue
  <1> QED  BY <1>2, <1>4, <1>9, <1>13, <1>14 DEF IInv

\* An instant later a permission is as much older as the severity is, or expired.
LEMMA TickKeeps ==
    ASSUME IInv, Tick
    PROVE  IInv'
  <1>1. TypeOK /\ Timed /\ Window \in Nat
    BY Parameters DEF IInv
  <1>2. /\ age' = Older(age) /\ former' = Kept(former)
        /\ severe_for' = IF severe_for = -1 THEN -1 ELSE Older(severe_for)
        /\ state' = state /\ wait' = wait /\ evidence' = evidence
        /\ UNCHANGED <<book, legs, debt>>
    BY DEF Tick, ladder
  <1>3. age \in Age /\ former \in Permission /\ severe_for \in Age \cup {-1}
    BY <1>1 DEF TypeOK
  <1>4. \A a \in Age : Older(a) \in Age
    BY <1>1 DEF Age, Older, Smaller
  <1>5. \/ /\ former.age < Window
           /\ former' \in Permission /\ former'.state = former.state
           /\ former'.age = former.age + 1
        \/ former' \in Permission /\ former'.age = Window + 1
    <2>1. CASE former.age < Window
      <3>1. former' = [former EXCEPT !.age = @ + 1]
        BY <1>2, <2>1 DEF Kept
      <3>2. former.age + 1 \in Age
        BY <1>1, <1>3, <2>1 DEF Permission, Age
      <3> QED  BY <1>3, <2>1, <3>1, <3>2 DEF Permission
    <2>2. CASE ~(former.age < Window)
      <3>1. former' = [state |-> "NORMAL", age |-> Window + 1]
        BY <1>2, <2>2 DEF Kept
      <3>2. Window + 1 \in Age
        BY <1>1 DEF Age
      <3> QED  BY <3>1, <3>2 DEF Permission, GovernanceState
    <2> QED  BY <2>1, <2>2
  <1>6. severe_for' \in Age \cup {-1} /\ (severe_for' # -1 <=> severe_for # -1)
    <2>1. \A a \in Age : a # -1
      BY DEF Age
    <2> QED  BY <1>2, <1>3, <1>4, <2>1
  <1>7. Timed'
    <2>1. ASSUME state \in Severe, former'.state \notin Severe
          PROVE  former'.age >= severe_for'
      <3>1. severe_for \in Age /\ severe_for' = Older(severe_for)
        BY <1>1, <1>2, <1>3, <2>1 DEF Timed
      <3>2. severe_for' <= Window + 1 /\ severe_for' <= severe_for + 1
        BY <1>1, <3>1 DEF Older, Smaller, Age
      <3>3. CASE former'.age = Window + 1
        BY <3>2, <3>3
      <3>4. CASE former'.state = former.state /\ former'.age = former.age + 1
        <4>1. former.age >= severe_for /\ former.age \in Age
          BY <1>1, <1>3, <2>1, <3>4 DEF Timed, Permission
        <4>2. severe_for' \in Int
          BY <1>4, <3>1 DEF Age
        <4> QED  BY <3>1, <3>2, <3>4, <4>1, <4>2 DEF Age
      <3> QED  BY <1>5, <3>3, <3>4
    <2> QED  BY <1>1, <1>2, <1>6, <2>1 DEF Timed
  <1>8. TypeOK'
    BY <1>1, <1>2, <1>3, <1>4, <1>5, <1>6 DEF TypeOK
  <1>9. LegsAtVenue' /\ ReductionsNeverCancelled' /\ Vetted'
    BY <1>2, LegsKept DEF IInv, LegsAtVenue
  <1> QED
    BY <1>2, <1>7, <1>8, <1>9 DEF IInv, LadderCounts, Repaid

\* What an action that leaves ladder, permissions and history alone owes to the invariant.
LEMMA LegsOnly ==
    ASSUME IInv, UNCHANGED <<ladder, age, former, severe_for, debt>>,
           book' \in [long : 0..MaxBook, short : 0..MaxBook],
           LegsAtVenue', ReductionsNeverCancelled', Vetted'
    PROVE  IInv'
  <1>1. state' = state /\ wait' = wait /\ evidence' = evidence
    BY DEF ladder
  <1>2. TypeOK'
    BY <1>1 DEF IInv, TypeOK, LegsAtVenue
  <1> QED
    BY <1>1, <1>2 DEF IInv, LadderCounts, Timed, Repaid

LEMMA SubmitKeeps ==
    ASSUME IInv, NEW order \in Proposals, NEW p \in {InForce, former}, Submit(order, p)
    PROVE  IInv'
  <1>1. /\ LegsAtVenue'
        /\ \A i \in Slots : legs'[i] = legs[i] \/ (~legs'[i].kept /\ ~legs'[i].cancel)
        /\ UNCHANGED <<ladder, age, former, book, severe_for, debt>>
    BY SubmittedLegs
  <1>2. state' = state
    BY <1>1 DEF ladder
  <1>3. ReductionsNeverCancelled' /\ Vetted'
    BY <1>1, <1>2, LegsKept DEF LegsAtVenue
  <1>4. book' \in [long : 0..MaxBook, short : 0..MaxBook]
    BY <1>1 DEF IInv, TypeOK
  <1> QED  BY <1>1, <1>3, <1>4, LegsOnly

\* The guard marks for cancelling only what opens, and keeps only what fits.
LEMMA JudgeKeeps ==
    ASSUME IInv, NEW i \in Slots, Judge(i)
    PROVE  IInv'
  <1>1. /\ legs[i] # None /\ ~legs[i].cancel
        /\ legs' = IF GuardCancels(legs[i])
                   THEN [legs EXCEPT ![i].cancel = TRUE, ![i].kept = FALSE]
                   ELSE [legs EXCEPT ![i].kept = legs[i].opens]
        /\ UNCHANGED <<ladder, age, former, book, severe_for, debt>>
    BY DEF Judge
  <1>2. legs \in [Slots -> Resting \cup {None}] /\ legs[i] \in Resting /\ book \in Book
    BY <1>1 DEF IInv, LegsAtVenue, TypeOK, Book
  <1> DEFINE cancelled == [legs[i] EXCEPT !.cancel = TRUE, !.kept = FALSE]
             judged == [legs[i] EXCEPT !.kept = legs[i].opens]
  <1>3. /\ cancelled \in Resting /\ cancelled.cancel /\ ~cancelled.kept
        /\ cancelled.opens = legs[i].opens
        /\ judged \in Resting /\ judged.cancel = legs[i].cancel /\ judged.kept = legs[i].opens
        /\ judged.opens = legs[i].opens /\ judged.side = legs[i].side
        /\ judged.quantity = legs[i].quantity
    BY <1>2 DEF Resting
  <1>4. legs' = [legs EXCEPT ![i] = IF GuardCancels(legs[i]) THEN cancelled ELSE judged]
    BY <1>1, <1>2
  <1> HIDE DEF cancelled, judged
  <1>5. GuardCancels(legs[i]) => legs[i].opens
    BY <1>2, ClosingOpensNothing
  <1>6. ~GuardCancels(legs[i]) /\ legs[i].opens => ~ExposureBreach(judged)
    <2>1. SUFFICES ASSUME ~GuardCancels(legs[i]), legs[i].opens PROVE ~ExposureBreach(judged)
      OBVIOUS
    <2>2. ~ExposureBreach(legs[i])
      BY <1>2, <2>1, OpeningOpens DEF GuardCancels, Forbidden
    <2> QED  BY <1>3, <2>2 DEF ExposureBreach, IfExecuted, NativeLeg
  <1>7. /\ LegsAtVenue'
        /\ \A k \in Slots : k # i => legs'[k] = legs[k]
        /\ legs'[i] = IF GuardCancels(legs[i]) THEN cancelled ELSE judged
    BY <1>2, <1>3, <1>4 DEF LegsAtVenue
  <1>8. \A leg : ExposureBreach(leg)' <=> ExposureBreach(leg)
    BY <1>1 DEF ExposureBreach, IfExecuted, ladder
  <1>9. ReductionsNeverCancelled'
    BY <1>1, <1>3, <1>5, <1>7 DEF IInv, ReductionsNeverCancelled
  <1>10. Vetted'
    BY <1>3, <1>6, <1>7, <1>8 DEF IInv, Vetted, VettedAt
  <1>11. book' \in [long : 0..MaxBook, short : 0..MaxBook]
    BY <1>1 DEF IInv, TypeOK
  <1> QED  BY <1>1, <1>7, <1>9, <1>10, <1>11, LegsOnly

\* What is left of a leg keeps its flags.
LEMMA LeftLeg ==
    ASSUME NEW leg \in Resting, NEW n \in 1..MaxBook, n <= leg.quantity
    PROVE  /\ Left(leg, n) \in Resting \cup {None}
           /\ Left(leg, n) # None => /\ Left(leg, n).cancel = leg.cancel
                                     /\ Left(leg, n).opens = leg.opens
                                     /\ Left(leg, n).kept = leg.kept
  <1>1. leg.quantity \in Nat /\ n \in Nat \ {0} /\ MaxBook \in Nat
    BY Parameters DEF Resting
  <1>2. CASE leg.quantity = n
    BY <1>2 DEF Left
  <1>3. CASE leg.quantity # n
    <2>1. leg.quantity - n \in Nat \ {0}
      BY <1>1, <1>3
    <2>2. Left(leg, n) = [leg EXCEPT !.quantity = @ - n]
      BY <1>3 DEF Left
    <2> QED  BY <2>1, <2>2 DEF Resting
  <1> QED  BY <1>2, <1>3

\* A fill of an opening changes the books, so no verdict outlives it.
LEMMA FillKeeps ==
    ASSUME IInv, NEW i \in Slots, NEW n \in 1..MaxBook, Fill(i, n)
    PROVE  IInv'
  <1>1. /\ legs[i] # None /\ n <= legs[i].quantity
        /\ book' = AfterLeg(legs[i].side, NativeLeg(legs[i], n), book)
        /\ book'.long <= MaxBook /\ book'.short <= MaxBook
        /\ UNCHANGED <<ladder, age, former, severe_for, debt>>
    BY DEF Fill
  <1> DEFINE rest == [legs EXCEPT ![i] = Left(legs[i], n)]
  <1>2. legs' = IF book' = book THEN rest ELSE Unjudged(rest)
    BY DEF Fill
  <1>3. /\ legs \in [Slots -> Resting \cup {None}] /\ legs[i] \in Resting
        /\ book \in Book /\ n \in Nat /\ n > 0 /\ MaxBook \in Nat
    BY <1>1, Parameters DEF IInv, LegsAtVenue, TypeOK, Book
  <1>4. /\ Left(legs[i], n) \in Resting \cup {None}
        /\ Left(legs[i], n) # None => /\ Left(legs[i], n).cancel = legs[i].cancel
                                      /\ Left(legs[i], n).opens = legs[i].opens
                                      /\ Left(legs[i], n).kept = legs[i].kept
    BY <1>1, <1>3, LeftLeg
  <1>5. /\ book' \in Book
        /\ legs[i].opens => book' # book
    <2>1. book.long \in Nat /\ book.short \in Nat /\ legs[i].side \in Side
      BY <1>3 DEF Book, Resting
    <2>2. book' \in Book
      BY <1>1, <1>3, LegExecuted
    <2>3. legs[i].opens => book'.long = book.long + n \/ book'.short = book.short + n
      BY <1>1, <1>3, <2>1, LegExecuted DEF Side
    <2> QED  BY <1>3, <2>1, <2>2, <2>3
  <1>6. book' \in [long : 0..MaxBook, short : 0..MaxBook]
    BY <1>1, <1>3, <1>5 DEF Book
  <1>7. /\ rest \in [Slots -> Resting \cup {None}]
        /\ \A k \in Slots : rest[k] # None =>
              /\ k # i => rest[k] = legs[k]
              /\ k = i => rest[k] = Left(legs[i], n)
    BY <1>3, <1>4
  <1> HIDE DEF rest
  <1>8. \A k \in Slots : rest[k] # None /\ rest[k].cancel => rest[k].opens
    BY <1>1, <1>4, <1>7 DEF IInv, ReductionsNeverCancelled
  <1>9. CASE book' # book
    <2>1. legs' = Unjudged(rest)
      BY <1>2, <1>9
    <2>2. LegsAtVenue' /\ ReductionsNeverCancelled' /\ Vetted'
      BY <1>7, <1>8, <2>1, LegsUnjudged
    <2> QED  BY <1>1, <1>6, <2>2, LegsOnly
  <1>10. CASE book' = book
    <2>1. legs' = rest /\ ~legs[i].opens /\ state' = state
      BY <1>1, <1>2, <1>5, <1>10 DEF ladder
    <2>2. ~legs[i].kept /\ (legs[i].cancel => legs[i].opens)
      BY <1>1, <2>1 DEF IInv, Vetted, VettedAt, ReductionsNeverCancelled
    <2>3. \A k \in Slots : legs'[k] # None =>
              \/ legs'[k] = legs[k]
              \/ ~legs'[k].kept /\ (legs'[k].cancel => legs'[k].opens)
      BY <1>4, <1>7, <2>1, <2>2
    <2>4. LegsAtVenue' /\ ReductionsNeverCancelled' /\ Vetted'
      BY <1>7, <1>10, <2>1, <2>3, LegsKept
    <2> QED  BY <1>1, <1>6, <2>4, LegsOnly
  <1> QED  BY <1>9, <1>10

LEMMA CancelledKeeps ==
    ASSUME IInv, NEW i \in Slots, Cancelled(i)
    PROVE  IInv'
  <1>1. /\ legs' = [legs EXCEPT ![i] = None]
        /\ UNCHANGED <<ladder, age, former, book, severe_for, debt>>
    BY DEF Cancelled
  <1>2. legs \in [Slots -> Resting \cup {None}] /\ state' = state
    BY <1>1 DEF IInv, LegsAtVenue, ladder
  <1>3. /\ legs' \in [Slots -> Resting \cup {None}]
        /\ \A k \in Slots : legs'[k] # None => legs'[k] = legs[k]
    BY <1>1, <1>2
  <1>4. LegsAtVenue' /\ ReductionsNeverCancelled' /\ Vetted'
    BY <1>1, <1>2, <1>3, LegsKept
  <1>5. book' \in [long : 0..MaxBook, short : 0..MaxBook]
    BY <1>1 DEF IInv, TypeOK
  <1> QED  BY <1>1, <1>4, <1>5, LegsOnly

-----------------------------------------------------------------------------
(* The theorems. *)

LEMMA Initially == Init => IInv
  <1> SUFFICES ASSUME Init PROVE IInv
    OBVIOUS
  <1>1. /\ state = "NORMAL" /\ wait = CooldownIntervals /\ evidence = 0
        /\ age = 0 /\ former = [state |-> "NORMAL", age |-> 0]
        /\ legs = [i \in Slots |-> None]
        /\ severe_for = -1 /\ debt = [cooldown |-> 0, outcomes |-> 0]
    BY DEF Init, LadderInit, InForce
  <1>2. 0 \in Age /\ "NORMAL" \notin Severe /\ "NORMAL" \in GovernanceState
    BY Parameters DEF Age, Severe, GovernanceState
  <1>3. 0 \in 0..CooldownIntervals /\ CooldownIntervals \in 0..CooldownIntervals
        /\ 0 \in 0..MinNewOutcomes
    BY Parameters
  <1>4. book \in [long : 0..MaxBook, short : 0..MaxBook]
    BY DEF Init
  <1>5. TypeOK
    BY <1>1, <1>2, <1>3, <1>4 DEF TypeOK, Permission
  <1> QED
    BY <1>1, <1>2, <1>3, <1>5
    DEF IInv, LadderCounts, LegsAtVenue, ReductionsNeverCancelled, Timed, Repaid, Vetted, VettedAt

LEMMA Inductive == IInv /\ [Next]_agent => IInv'
  <1> SUFFICES ASSUME IInv, [Next]_agent PROVE IInv'
    OBVIOUS
  <1>1. CASE EvaluateAny
    BY <1>1, EvaluateKeeps DEF EvaluateAny
  <1>2. CASE Tick
    BY <1>2, TickKeeps
  <1>3. CASE SubmitAny
    BY <1>3, SubmitKeeps DEF SubmitAny
  <1>4. ASSUME NEW i \in Slots, Judge(i) PROVE IInv'
    BY <1>4, JudgeKeeps
  <1>5. ASSUME NEW i \in Slots, NEW n \in 1..MaxBook, Fill(i, n) PROVE IInv'
    BY <1>5, FillKeeps
  <1>6. ASSUME NEW i \in Slots, Cancelled(i) PROVE IInv'
    BY <1>6, CancelledKeeps
  <1>7. CASE UNCHANGED agent
    <2>1. UNCHANGED <<ladder, age, former, book, legs, severe_for, debt>> /\ state' = state
      BY <1>7 DEF agent, ladder
    <2>2. LegsAtVenue' /\ ReductionsNeverCancelled' /\ Vetted'
      BY <2>1, LegsKept DEF IInv, LegsAtVenue
    <2> QED  BY <2>1, <2>2, LegsOnly DEF IInv, TypeOK
  <1> QED  BY <1>1, <1>2, <1>3, <1>4, <1>5, <1>6, <1>7 DEF Next

LEMMA Invariant == Spec => []IInv
  BY Initially, Inductive, PTL DEF Spec

\* Every variable of the composition keeps its type, and no fill takes a book below zero.
THEOREM AgentTypeCorrect == Spec => []TypeOK
  BY Invariant, PTL DEF IInv

\* For any number of resting legs, whatever fills, expires or turns severe in between: the
\* guard never asks to cancel a leg that closes.
THEOREM ReductionsStay == Spec => []ReductionsNeverCancelled
  BY Invariant, PTL DEF IInv

\* Only a submission puts a leg that opens into a slot, or one that is not to be cancelled.
LEMMA OpeningsComeFromSubmissions ==
    ASSUME IInv, [Next]_agent
    PROVE  \/ \E order \in Proposals, p \in {InForce, former} : Submit(order, p)
           \/ \A i \in Slots : legs'[i] # None /\ legs'[i].opens =>
                 legs[i] # None /\ legs[i].opens /\ (legs[i].cancel => legs'[i].cancel)
  <1> DEFINE OfBefore(i) == legs'[i] # None /\ legs'[i].opens =>
                 legs[i] # None /\ legs[i].opens /\ (legs[i].cancel => legs'[i].cancel)
  <1>0. legs \in [Slots -> Resting \cup {None}]
    BY DEF IInv, LegsAtVenue
  <1>1. CASE EvaluateAny
    <2>1. legs' = Unjudged(legs)
      BY <1>1 DEF EvaluateAny, Evaluate
    <2> QED  BY <1>0, <2>1, UnjudgedLegs
  <1>2. CASE Tick \/ UNCHANGED agent
    BY <1>2 DEF Tick, agent
  <1>3. CASE SubmitAny
    BY <1>3 DEF SubmitAny
  <1>4. ASSUME NEW i \in Slots, Judge(i) PROVE \A k \in Slots : OfBefore(k)
    <2>1. /\ legs[i] # None
          /\ \/ legs' = [legs EXCEPT ![i] = [legs[i] EXCEPT !.cancel = TRUE, !.kept = FALSE]]
             \/ legs' = [legs EXCEPT ![i] = [legs[i] EXCEPT !.kept = legs[i].opens]]
      BY <1>4 DEF Judge
    <2>2. legs[i] \in Resting
      BY <1>0, <2>1
    <2>3. /\ [legs[i] EXCEPT !.cancel = TRUE, !.kept = FALSE].opens = legs[i].opens
          /\ [legs[i] EXCEPT !.cancel = TRUE, !.kept = FALSE].cancel
          /\ [legs[i] EXCEPT !.kept = legs[i].opens].opens = legs[i].opens
          /\ [legs[i] EXCEPT !.kept = legs[i].opens].cancel = legs[i].cancel
      BY <2>2 DEF Resting
    <2>4. /\ \A k \in Slots : k # i => legs'[k] = legs[k]
          /\ \/ legs'[i] = [legs[i] EXCEPT !.cancel = TRUE, !.kept = FALSE]
             \/ legs'[i] = [legs[i] EXCEPT !.kept = legs[i].opens]
      BY <1>0, <2>1
    <2> QED  BY <2>1, <2>3, <2>4
  <1>5. ASSUME NEW i \in Slots, NEW n \in 1..MaxBook, Fill(i, n) PROVE \A k \in Slots : OfBefore(k)
    <2> DEFINE rest == [legs EXCEPT ![i] = Left(legs[i], n)]
    <2>1. /\ legs[i] # None /\ n <= legs[i].quantity
          /\ legs' = rest \/ legs' = Unjudged(rest)
      BY <1>5 DEF Fill
    <2>2. legs[i] \in Resting
      BY <1>0, <2>1
    <2>3. /\ rest \in [Slots -> Resting \cup {None}]
          /\ \A k \in Slots : k # i => rest[k] = legs[k]
          /\ rest[i] # None => rest[i].cancel = legs[i].cancel /\ rest[i].opens = legs[i].opens
      BY <1>0, <2>1, <2>2, LeftLeg
    <2> HIDE DEF rest
    <2>4. CASE legs' = rest
      BY <2>1, <2>3, <2>4
    <2>5. CASE legs' = Unjudged(rest)
      BY <2>1, <2>3, <2>5, UnjudgedLegs
    <2> QED  BY <2>1, <2>4, <2>5
  <1>6. ASSUME NEW i \in Slots, Cancelled(i) PROVE \A k \in Slots : OfBefore(k)
    BY <1>0, <1>6 DEF Cancelled
  <1> QED  BY <1>1, <1>2, <1>3, <1>4, <1>5, <1>6 DEF Next

\* A permission presented while it lives is severe, or was issued before governance turned
\* severe, no longer ago than the window.
LEMMA PresentedInTime ==
    ASSUME IInv, NEW p \in {InForce, former}, p.age <= Window, p.state \notin Severe
    PROVE  state \notin Severe \/ severe_for \in 0..Window
  <1>1. CASE p = InForce
    BY <1>1 DEF InForce
  <1>2. CASE p = former /\ state \in Severe
    <2>1. severe_for # -1 /\ former.age >= severe_for
      BY <1>2 DEF IInv, Timed
    <2>2. severe_for \in Age /\ former.age \in Age
      BY <2>1 DEF IInv, TypeOK, Permission
    <2> QED  BY <1>2, <2>1, <2>2, Parameters DEF Age
  <1> QED  BY <1>1, <1>2

\* For every policy and window: after an isolation nothing that opens is submitted, once the
\* permissions of before have expired, until a cooldown and new outcomes were earned.
THEOREM ReopeningIsEarned == Spec => ReopeningEarned
  <1>1. IInv /\ [Next]_agent =>
            [(\E i \in OpeningsAt(legs') : legs[i] = None) =>
                \/ debt = [cooldown |-> 0, outcomes |-> 0]
                \/ severe_for \in 0..Window]_agent
    <2> SUFFICES ASSUME IInv, [Next]_agent, NEW i \in Slots,
                        legs'[i] # None, legs'[i].opens, legs[i] = None
                 PROVE  \/ debt = [cooldown |-> 0, outcomes |-> 0]
                        \/ severe_for \in 0..Window
      BY DEF OpeningsAt
    <2>1. PICK order \in Proposals, p \in {InForce, former} : Submit(order, p)
      BY OpeningsComeFromSubmissions
    <2>2. p.state \notin Severe /\ p.age <= Window
      BY <2>1, SubmittedLegs
    <2>3. state \notin Severe \/ severe_for \in 0..Window
      BY <2>2, PresentedInTime
    <2>4. state \notin Severe => debt = [cooldown |-> 0, outcomes |-> 0]
      BY DEF IInv, Repaid, Severe
    <2> QED  BY <2>3, <2>4
  <1> QED  BY <1>1, Invariant, PTL DEF Spec, ReopeningEarned

\* For every window: once the permissions of before have expired and every opening at the
\* venue is to be cancelled, no new one comes while governance stays severe.
THEOREM ShutForAsLongAsSevere == Spec => ShutStaysShut
  <1>1. IInv /\ [Next]_agent => [Shut /\ state' \in Severe => Shut']_agent
    <2> SUFFICES ASSUME IInv, [Next]_agent, Shut, state' \in Severe PROVE Shut'
      OBVIOUS
    <2>1. /\ severe_for > Window /\ severe_for \in Age \cup {-1} /\ Window \in Nat
          /\ \A i \in Slots : legs[i] # None /\ legs[i].opens => legs[i].cancel
      BY Parameters DEF Shut, OpeningsAt, IInv, TypeOK
    <2>2. severe_for # -1 /\ state \in Severe /\ ~(severe_for \in 0..Window)
      BY <2>1 DEF IInv, Timed
    <2>3. severe_for' > Window
      <3>1. CASE EvaluateAny
        <4>1. severe_for' = severe_for
          BY <2>2, <3>1 DEF EvaluateAny, Evaluate, SevereFor
        <4> QED  BY <2>1, <4>1
      <3>2. CASE Tick
        <4>1. severe_for' = Older(severe_for)
          BY <2>2, <3>2 DEF Tick
        <4> QED  BY <2>1, <2>2, <4>1 DEF Older, Smaller, Age
      <3>3. CASE SubmitAny \/ (\E i \in Slots : \/ Judge(i)
                                                \/ \E n \in 1..MaxBook : Fill(i, n)
                                                \/ Cancelled(i))
        BY <2>1, <3>3 DEF SubmitAny, Submit, Judge, Fill, Cancelled
      <3>4. CASE UNCHANGED agent
        BY <2>1, <3>4 DEF agent
      <3> QED  BY <3>1, <3>2, <3>3, <3>4 DEF Next
    <2>4. ASSUME NEW i \in Slots, legs'[i] # None, legs'[i].opens PROVE legs'[i].cancel
      <3>1. CASE \E order \in Proposals, p \in {InForce, former} : Submit(order, p)
        <4>1. PICK order \in Proposals, p \in {InForce, former} : Submit(order, p)
          BY <3>1
        <4>2. p.age <= Window /\ (legs'[i] = legs[i] \/ p.state \notin Severe)
          BY <2>4, <4>1, SubmittedLegs
        <4>3. legs'[i] = legs[i]
          BY <2>2, <4>2, PresentedInTime
        <4> QED  BY <2>1, <2>4, <4>3
      <3>2. CASE legs[i] # None /\ legs[i].opens /\ (legs[i].cancel => legs'[i].cancel)
        BY <2>1, <3>2
      <3> QED  BY <2>4, <3>1, <3>2, OpeningsComeFromSubmissions
    <2> QED  BY <2>3, <2>4 DEF Shut, OpeningsAt
  <1> QED  BY <1>1, Invariant, PTL DEF Spec, ShutStaysShut

\* For every envelope and books of any size: an opening the guard kept may fill in any parts
\* without carrying the agent beyond the limits it was judged by.
THEOREM VettedFillsFit == Spec => VettedFillsKeepLimits
  <1>1. IInv =>
            [\A i \in OpeningsAt(legs), n \in 1..MaxBook : legs[i].kept /\ Fill(i, n) =>
                /\ Gross(book') <= max_gross(state)
                /\ Abs(Net(book')) <= Larger(max_net(state), Abs(Net(book)))]_agent
    <2> SUFFICES ASSUME IInv, NEW i \in Slots, NEW n \in 1..MaxBook,
                        legs[i] # None, legs[i].opens, legs[i].kept, Fill(i, n)
                 PROVE  /\ Gross(book') <= max_gross(state)
                        /\ Abs(Net(book')) <= Larger(max_net(state), Abs(Net(book)))
      BY DEF OpeningsAt
    <2> DEFINE leg == legs[i]
               full == IfExecuted(leg)
    <2>1. leg \in Resting /\ book \in Book /\ state \in GovernanceState
      BY DEF IInv, LegsAtVenue, TypeOK, Book
    <2>2. n \in Nat /\ n <= leg.quantity /\ leg.quantity \in Nat /\ leg.side \in Side
      BY <2>1, Parameters DEF Fill, Resting
    <2>3. /\ ~(Gross(full) > max_gross(state))
          /\ ~(Abs(Net(full)) > max_net(state))
      BY DEF IInv, Vetted, VettedAt, ExposureBreach
    <2>4. max_gross(state) \in Nat /\ max_net(state) \in Nat
      BY <2>1, UnitsType, EnvelopeAssumption DEF max_gross, max_net
    <2>5. book' = AfterLeg(leg.side, NativeLeg(leg, n), book)
      BY DEF Fill
    <2>6. book.long \in Nat /\ book.short \in Nat
      BY <2>1 DEF Book
    <2>7. CASE leg.side = "BUY"
      <3>1. full.long = book.long + leg.quantity /\ full.short = book.short
        BY <2>1, <2>2, <2>7, LegExecuted DEF IfExecuted
      <3>2. book'.long = book.long + n /\ book'.short = book.short
        BY <2>1, <2>2, <2>5, <2>7, LegExecuted
      <3> HIDE DEF full, leg
      <3> QED  BY <2>2, <2>3, <2>4, <2>6, <3>1, <3>2 DEF Gross, Net, Abs, Larger
    <2>8. CASE leg.side = "SELL"
      <3>1. full.long = book.long /\ full.short = book.short + leg.quantity
        BY <2>1, <2>2, <2>8, LegExecuted DEF IfExecuted
      <3>2. book'.long = book.long /\ book'.short = book.short + n
        BY <2>1, <2>2, <2>5, <2>8, LegExecuted
      <3> HIDE DEF full, leg
      <3> QED  BY <2>2, <2>3, <2>4, <2>6, <3>1, <3>2 DEF Gross, Net, Abs, Larger
    <2> QED  BY <2>2, <2>7, <2>8 DEF Side
  <1> QED  BY <1>1, Invariant, PTL DEF VettedFillsKeepLimits
=============================================================================
