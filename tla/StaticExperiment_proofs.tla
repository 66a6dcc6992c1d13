------------------------ MODULE StaticExperiment_proofs ------------------------
(***************************************************************************)
(* Proofs about StaticExperiment, for every envelope and price, every last *)
(* index and every schedule: any number of observations and orders may be  *)
(* exchanged for any others.                                               *)
(***************************************************************************)
EXTENDS StaticExperiment, OrderGate_proofs, FiniteSetTheorems

-----------------------------------------------------------------------------
(* The invariant. *)

OneSided(book) == book.long = 0 \/ book.short = 0

\* What the opposite book has to close against.
Held(side, book) == IF side = "SELL" THEN book.long ELSE book.short

Run == [book : Book, cumulative : Nat, ledger : Ledger, metrics : [Counter -> Nat]]

\* The portfolio and the counts of an arm after i indices in which proposed was proposed.
Sound(arm, run, proposed, i) ==
    /\ run \in Run
    /\ OneSided(run.book)
    /\ run.metrics.severe_increase = 0
    /\ run.metrics.actual_amplification = 0
    /\ arm # "scalar" => run.metrics.blocked_reduction = 0 /\ run.metrics.institution_allowed = i
    /\ run.ledger.proposed_quantity = proposed
    /\ run.ledger.eligible_order_count + run.ledger.excluded_order_count = i
    /\ run.ledger.executed_quantity = IF arm = "shadow" THEN 0 ELSE run.ledger.authorized_quantity
    /\ run.ledger.authorized_quantity <= run.ledger.proposed_quantity
    /\ run.ledger.filled_orders \subseteq 0..(i - 1)
    /\ run.ledger.filled_order_count = Cardinality(run.ledger.filled_orders)
    /\ run.ledger.filled_order_count <= run.ledger.eligible_order_count
    /\ run.ledger.fill_event_count = run.metrics.executions

ArmsSound ==
    /\ arms \in [ARMS -> Run]
    /\ \A arm \in ARMS : Sound(arm, arms[arm], arms["shadow"].ledger.proposed_quantity, index)

States ==
    /\ full_state \in GovernanceState /\ lean_state \in GovernanceState
    /\ full_profile = "V21_FULL" /\ lean_profile = "V21_LEAN"
    /\ index \in 0..LastIndex + 1
    /\ changes \in 0..MaxChanges

\* Without a soft signal the two controllers are in the same place, and so are their arms.
Alike ==
    ~soft_seen =>
        /\ full_state = lean_state /\ full_wait = lean_wait
        /\ full_evidence = lean_evidence /\ full_loss = lean_loss
        /\ arms["hybrid_v2_1_full"] = arms["hybrid_v2_1_lean"]

IInv == States /\ ArmsSound /\ Alike

-----------------------------------------------------------------------------
(* Counters and ledger. *)

LEMMA OneType == ASSUME NEW c PROVE One(c) \in {0, 1} /\ (c => One(c) = 1) /\ (~c => One(c) = 0)
  BY DEF One

\* A fill moves three of the counters.
CountedFill(f, g, a, b, c) ==
    /\ g \in [Counter -> Nat]
    /\ g.executions = f.executions + a
    /\ g.severe_increase = f.severe_increase + b
    /\ g.actual_amplification = f.actual_amplification + c
    /\ g.blocked_reduction = f.blocked_reduction
    /\ g.institution_allowed = f.institution_allowed

LEMMA CountersExecuted ==
    ASSUME NEW f \in [Counter -> Nat], NEW a \in Nat, NEW b \in Nat, NEW c \in Nat
    PROVE  CountedFill(f, [f EXCEPT !.executions = @ + a, !.severe_increase = @ + b,
                                    !.actual_amplification = @ + c], a, b, c)
  <1>1. f.executions + a \in Nat /\ f.severe_increase + b \in Nat /\ f.actual_amplification + c \in Nat
    BY DEF Counter
  <1> QED  BY <1>1 DEF Counter, CountedFill

\* The decisions of an index move four.
CountedDecisions(f, g, b, c) ==
    /\ g \in [Counter -> Nat]
    /\ g.executions = f.executions
    /\ g.severe_increase = f.severe_increase
    /\ g.actual_amplification = f.actual_amplification
    /\ g.blocked_reduction = f.blocked_reduction + b
    /\ g.institution_allowed = f.institution_allowed + c

LEMMA CountersNoted ==
    ASSUME NEW f \in [Counter -> Nat], NEW a \in Nat, NEW b \in Nat, NEW c \in Nat, NEW d \in Nat
    PROVE  CountedDecisions(f, [f EXCEPT !.interventions = @ + a, !.blocked_reduction = @ + b,
                                         !.institution_allowed = @ + c, !.maker_allowed = @ + d], b, c)
  <1>1. /\ f.interventions + a \in Nat /\ f.blocked_reduction + b \in Nat
        /\ f.institution_allowed + c \in Nat /\ f.maker_allowed + d \in Nat
    BY DEF Counter
  <1> QED  BY <1>1 DEF Counter, CountedDecisions

\* The fields of a ledger after an order ...
LedgerOrdered(l, r, q, a, eligible) ==
    /\ r \in Ledger
    /\ r.proposed_quantity = l.proposed_quantity + (IF eligible THEN q ELSE 0)
    /\ r.authorized_quantity = l.authorized_quantity + (IF eligible THEN a ELSE 0)
    /\ r.executed_quantity = l.executed_quantity
    /\ r.eligible_order_count = l.eligible_order_count + (IF eligible THEN 1 ELSE 0)
    /\ r.excluded_order_count = l.excluded_order_count + (IF eligible THEN 0 ELSE 1)
    /\ r.filled_order_count = l.filled_order_count
    /\ r.fill_event_count = l.fill_event_count
    /\ r.filled_orders = l.filled_orders

LEMMA LedgerOrder ==
    ASSUME NEW l \in Ledger, NEW q \in Nat, NEW a \in Nat, a <= q, NEW eligible \in BOOLEAN
    PROVE  LedgerOrdered(l, observe_order(l, q, a, eligible), q, a, eligible)
  <1>1. CASE eligible
    <2> DEFINE count == l.eligible_order_count + 1
               proposed == l.proposed_quantity + q
               authorized == l.authorized_quantity + a
    <2>1. (IF a < q THEN a ELSE q) = a
      OBVIOUS
    <2>2. observe_order(l, q, a, eligible) =
              [l EXCEPT !.eligible_order_count = count, !.proposed_quantity = proposed,
                        !.authorized_quantity = authorized]
      BY <1>1, <2>1 DEF observe_order
    <2>3. count \in Nat /\ proposed \in Nat /\ authorized \in Nat
      BY DEF Ledger
    <2> HIDE DEF count, proposed, authorized
    <2>4. LET r == observe_order(l, q, a, eligible)
          IN  /\ r \in Ledger
              /\ r.proposed_quantity = proposed
              /\ r.authorized_quantity = authorized
              /\ r.executed_quantity = l.executed_quantity
              /\ r.eligible_order_count = count
              /\ r.excluded_order_count = l.excluded_order_count
              /\ r.filled_order_count = l.filled_order_count
              /\ r.fill_event_count = l.fill_event_count
              /\ r.filled_orders = l.filled_orders
      BY <2>2, <2>3 DEF Ledger
    <2>5. l.excluded_order_count + 0 = l.excluded_order_count
      BY DEF Ledger
    <2> QED  BY <1>1, <2>4, <2>5 DEF count, proposed, authorized, LedgerOrdered
  <1>2. CASE ~eligible
    <2>1. observe_order(l, q, a, eligible) = [l EXCEPT !.excluded_order_count = @ + 1]
      BY <1>2 DEF observe_order
    <2> QED  BY <1>2, <2>1 DEF Ledger, LedgerOrdered
  <1> QED  BY <1>1, <1>2

\* ... and after a fill.
LedgerFilled(l, r, i, n) ==
    /\ r \in Ledger
    /\ r.proposed_quantity = l.proposed_quantity
    /\ r.authorized_quantity = l.authorized_quantity
    /\ r.executed_quantity = l.executed_quantity + n
    /\ r.eligible_order_count = l.eligible_order_count
    /\ r.excluded_order_count = l.excluded_order_count
    /\ r.filled_order_count = l.filled_order_count + (IF i \in l.filled_orders THEN 0 ELSE 1)
    /\ r.fill_event_count = l.fill_event_count + 1
    /\ r.filled_orders = l.filled_orders \cup {i}

LEMMA LedgerFill ==
    ASSUME NEW l \in Ledger, NEW i \in Nat, NEW n \in Nat
    PROVE  LedgerFilled(l, observe_fill(l, i, n), i, n)
  <1> DEFINE count == IF i \in l.filled_orders THEN l.filled_order_count ELSE l.filled_order_count + 1
             orders == l.filled_orders \cup {i}
  <1>1. /\ count \in Nat /\ count = l.filled_order_count + (IF i \in l.filled_orders THEN 0 ELSE 1)
        /\ orders \in SUBSET Nat
        /\ l.executed_quantity + n \in Nat /\ l.fill_event_count + 1 \in Nat
    BY DEF Ledger
  <1>2. observe_fill(l, i, n) =
            [l EXCEPT !.executed_quantity = l.executed_quantity + n,
                      !.fill_event_count = l.fill_event_count + 1,
                      !.filled_order_count = count, !.filled_orders = orders]
    BY DEF observe_fill
  <1> HIDE DEF count
  <1> QED  BY <1>1, <1>2 DEF Ledger, LedgerFilled

-----------------------------------------------------------------------------
(* One order of one arm. *)

\* A part of an order leaves the book on one side.
LEMMA BookAfter ==
    ASSUME NEW side \in Side, NEW n \in Nat, NEW b \in Book, OneSided(b)
    PROVE  /\ After(side, n, b) \in Book
           /\ OneSided(After(side, n, b))
           /\ n <= Held(side, b) => /\ Held(side, After(side, n, b)) = Held(side, b) - n
                                   /\ Opening(side, n, b) = 0
  <1> DEFINE c == Closing(side, n, b)
             o == Opening(side, n, b)
  <1>1. b.long \in Nat /\ b.short \in Nat
    BY DEF Book
  <1>2. c \in Nat /\ o \in Nat /\ o = n - c /\ c <= Held(side, b)
        /\ (n <= Held(side, b) => c = n) /\ (o > 0 => c = Held(side, b))
    BY <1>1 DEF Closing, Opening, Smaller, Held
  <1> HIDE DEF c, o
  <1>3. CASE side = "SELL"
    <2>1. After(side, n, b) = [long |-> b.long - c, short |-> b.short + o]
      BY <1>3 DEF After, c, o
    <2>2. b.long - c \in Nat /\ b.short + o \in Nat
      BY <1>1, <1>2, <1>3 DEF Held
    <2>3. b.long - c = 0 \/ b.short + o = 0
      BY <1>1, <1>2, <1>3 DEF Held, OneSided
    <2> QED  BY <1>1, <1>2, <1>3, <2>1, <2>2, <2>3 DEF Book, OneSided, Held, o
  <1>4. CASE side = "BUY"
    <2>1. After(side, n, b) = [long |-> b.long + o, short |-> b.short - c]
      BY <1>4 DEF After, c, o
    <2>2. b.long + o \in Nat /\ b.short - c \in Nat
      BY <1>1, <1>2, <1>4 DEF Held
    <2>3. b.long + o = 0 \/ b.short - c = 0
      BY <1>1, <1>2, <1>4 DEF Held, OneSided
    <2> QED  BY <1>1, <1>2, <1>4, <2>1, <2>2, <2>3 DEF Book, OneSided, Held, o
  <1> QED  BY <1>3, <1>4 DEF Side

\* What an arm is allowed is within its order, closes only in a severe state, and behind
\* the gate is something whenever the order only closes.
LEMMA AllowedWithin ==
    ASSUME NEW arm, arms[arm].book \in Book, OneSided(arms[arm].book),
           NEW order, Asks(order), NEW s \in GovernanceState
    PROVE  LET book == arms[arm].book
           IN  /\ Allowed(arm, order, s) \in Nat
               /\ Allowed(arm, order, s) <= order.quantity
               /\ s \in Severe => Allowed(arm, order, s) <= Held(order.side, book)
               /\ arm # "scalar" /\ Opening(order.side, order.quantity, book) = 0 =>
                     Allowed(arm, order, s) > 0
  <1> DEFINE book == arms[arm].book
             hybrid == HybridQuantity(order, book, s, 0)
             fallback == FallbackQuantity(order, book, s)
  <1>0. book \in Book /\ OneSided(book) /\ order.side \in Side /\ order.quantity \in Nat
        /\ order.quantity > 0
    BY DEF Asks
  <1>1. Allowed(arm, order, s) = IF arm = "scalar" THEN fallback ELSE hybrid
    BY DEF Allowed, Decided
  <1> HIDE DEF book
  <1>2. hybrid \in Nat /\ fallback \in Nat
    BY <1>0, AnswerType
  <1>3. hybrid <= order.quantity /\ fallback <= order.quantity
    BY <1>0, AnswerWithinOrder
  <1>4. s \in Severe => hybrid <= Held(order.side, book) /\ fallback <= Held(order.side, book)
    <2> SUFFICES ASSUME s \in Severe
                 PROVE  hybrid <= Held(order.side, book) /\ fallback <= Held(order.side, book)
      OBVIOUS
    <2>1. Opening(order.side, hybrid, book) = 0 /\ Opening(order.side, fallback, book) = 0
      BY <1>0, SevereOpensNothing
    <2> HIDE DEF hybrid, fallback
    <2>2. hybrid <= (IF order.side = "SELL" THEN book.long ELSE book.short)
      BY <1>0, <1>2, <2>1, Split
    <2>3. fallback <= (IF order.side = "SELL" THEN book.long ELSE book.short)
      BY <1>0, <1>2, <2>1, Split
    <2> QED  BY <2>2, <2>3 DEF Held
  <1>5. Opening(order.side, order.quantity, book) = 0 => hybrid > 0
    <2> SUFFICES ASSUME Opening(order.side, order.quantity, book) = 0 PROVE hybrid > 0
      OBVIOUS
    <2>1. order.quantity <= (IF order.side = "SELL" THEN book.long ELSE book.short)
      BY <1>0, Split
    <2>2. book.long \in Nat /\ book.short \in Nat
      BY <1>0 DEF Book
    <2>3. Reduces(order, Net(book)) /\ ~CrossesZero(order, Net(book))
      BY <1>0, <2>1, <2>2 DEF OneSided, Net, Reduces, CrossesZero, Projected, Abs, Side
    <2>4. GateQuantity(order, Net(book), s, 0) = order.quantity
      BY <2>3 DEF GateQuantity
    <2>5. hybrid = order.quantity
      BY <2>4 DEF HybridQuantity
    <2> QED  BY <1>0, <2>5
  <1> QED  BY <1>1, <1>2, <1>3, <1>4, <1>5 DEF book

\* The institutional agent of an arm behind the gate may always sell.
LEMMA InstitutionAllowed ==
    ASSUME NEW arm, arm # "scalar", NEW s
    PROVE  InstAllowed(arm, s) > 0
  <1> DEFINE order == Static("SELL", 1, "LIMIT")
             book == [long |-> 20, short |-> 0]
  <1>1. order.side = "SELL" /\ order.quantity = 1 /\ Inst!Net(book) = 20
    BY DEF Static, Inst!Net
  <1>2. Inst!Reduces(order, 20) /\ ~Inst!CrossesZero(order, 20)
    BY <1>1 DEF Inst!Reduces, Inst!CrossesZero, Inst!Projected, Inst!Abs
  <1>3. Inst!GateQuantity(order, 20, s, 0) = 1
    BY <1>1, <1>2 DEF Inst!GateQuantity
  <1>4. Inst!Opening("SELL", 1, book) = 0
    BY DEF Inst!Opening, Inst!Closing, Inst!Smaller
  <1>5. Inst!HybridQuantity(order, book, s, 0) = 1
    BY <1>1, <1>3, <1>4 DEF Inst!HybridQuantity
  <1> QED  BY <1>5 DEF InstAllowed, Decided

\* What a part of n units does to the counts of an arm.
Moved(run, r, n) ==
    /\ r \in Run /\ OneSided(r.book)
    /\ r.cumulative = run.cumulative + n
    /\ r.metrics.severe_increase = run.metrics.severe_increase
    /\ r.metrics.actual_amplification = run.metrics.actual_amplification
    /\ r.metrics.blocked_reduction = run.metrics.blocked_reduction
    /\ r.metrics.institution_allowed = run.metrics.institution_allowed
    /\ r.metrics.executions - run.metrics.executions = r.ledger.fill_event_count - run.ledger.fill_event_count
    /\ r.ledger.proposed_quantity = run.ledger.proposed_quantity
    /\ r.ledger.authorized_quantity = run.ledger.authorized_quantity
    /\ r.ledger.executed_quantity = run.ledger.executed_quantity + n
    /\ r.ledger.eligible_order_count = run.ledger.eligible_order_count
    /\ r.ledger.excluded_order_count = run.ledger.excluded_order_count
    /\ n = 0 => /\ r.ledger.filled_orders = run.ledger.filled_orders
               /\ r.ledger.filled_order_count = run.ledger.filled_order_count
    /\ n > 0 => /\ r.ledger.filled_orders = run.ledger.filled_orders \cup {index}
               /\ r.ledger.filled_order_count =
                      run.ledger.filled_order_count + (IF index \in run.ledger.filled_orders THEN 0 ELSE 1)

\* A part that is authorized, and in a severe state closes, is executed without a violation.
LEMMA PartExecuted ==
    ASSUME index \in Nat, NEW run \in Run, OneSided(run.book), NEW order, Asks(order),
           NEW allowed \in Nat, NEW s, NEW n \in Nat, run.cumulative + n <= allowed,
           s \in Severe => n <= Held(order.side, run.book)
    PROVE  LET r == Executed(run, order, allowed, s, n)
           IN  /\ Moved(run, r, n)
               /\ s \in Severe => Held(order.side, r.book) = Held(order.side, run.book) - n
  <1> DEFINE r == Executed(run, order, allowed, s, n)
  <1>0. /\ run.book \in Book /\ run.cumulative \in Nat /\ run.ledger \in Ledger
        /\ run.metrics \in [Counter -> Nat] /\ order.side \in Side
        /\ Held(order.side, run.book) \in Nat
    BY DEF Run, Asks, Held, Book
  <1>1. CASE n = 0
    <2>1. r = run
      BY <1>1 DEF Executed
    <2>2. /\ run.metrics.executions \in Nat /\ run.ledger.fill_event_count \in Nat
          /\ run.ledger.executed_quantity \in Nat
      BY <1>0 DEF Counter, Ledger
    <2> HIDE DEF r
    <2>3. Moved(run, r, n)
      BY <1>0, <1>1, <2>1, <2>2 DEF Moved
    <2> QED  BY <1>0, <1>1, <2>1, <2>3 DEF r
  <1>2. CASE n > 0
    <2> DEFINE after == After(order.side, n, run.book)
               sum == run.cumulative + n
               ledger == observe_fill(run.ledger, index, n)
               severe == One(s \in Severe /\ Opening(order.side, n, run.book) > 0)
               beyond == One(sum > allowed)
               metrics == [run.metrics EXCEPT !.executions = @ + 1, !.severe_increase = @ + severe,
                                              !.actual_amplification = @ + beyond]
    <2>1. r = [book |-> after, cumulative |-> sum, ledger |-> ledger, metrics |-> metrics]
      BY <1>2 DEF Executed
    <2>2. after \in Book /\ OneSided(after) /\ sum \in Nat
      <3>1. after \in Book /\ OneSided(after)
        BY <1>0, BookAfter, Zenon
      <3>2. sum \in Nat
        BY <1>0
      <3> QED  BY <3>1, <3>2
    <2>3. s \in Severe => /\ Held(order.side, after) = Held(order.side, run.book) - n
                         /\ Opening(order.side, n, run.book) = 0
      BY <1>0, BookAfter
    <2>4. severe = 0 /\ beyond = 0
      <3>1. ~(s \in Severe /\ Opening(order.side, n, run.book) > 0)
        BY <2>3
      <3>2. ~(sum > allowed)
        BY <1>0
      <3> QED  BY <3>1, <3>2 DEF One
    <2>5. LedgerFilled(run.ledger, ledger, index, n)
      BY <1>0, LedgerFill
    <2> HIDE DEF severe, beyond
    <2>6. CountedFill(run.metrics, metrics, 1, severe, beyond)
      <3>1. severe \in Nat /\ beyond \in Nat /\ 1 \in Nat
        BY <2>4
      <3> QED  BY <1>0, <3>1, CountersExecuted, Zenon
    <2> HIDE DEF after, sum, ledger, metrics, r
    <2>7. /\ r \in Run /\ r.book = after /\ r.cumulative = sum /\ r.ledger = ledger
          /\ r.metrics = metrics
      BY <2>1, <2>2, <2>5, <2>6 DEF Run, LedgerFilled, CountedFill
    <2>8. /\ run.metrics.executions \in Nat /\ run.metrics.severe_increase \in Nat
          /\ run.metrics.actual_amplification \in Nat /\ run.ledger.fill_event_count \in Nat
      BY <1>0 DEF Counter, Ledger
    <2>9. Moved(run, r, n)
      <3>1. r \in Run /\ OneSided(r.book) /\ r.cumulative = run.cumulative + n
        BY <2>2, <2>7 DEF sum
      <3>2. /\ r.metrics.severe_increase = run.metrics.severe_increase
            /\ r.metrics.actual_amplification = run.metrics.actual_amplification
            /\ r.metrics.blocked_reduction = run.metrics.blocked_reduction
            /\ r.metrics.institution_allowed = run.metrics.institution_allowed
            /\ r.metrics.executions - run.metrics.executions
                  = r.ledger.fill_event_count - run.ledger.fill_event_count
        BY <2>4, <2>5, <2>6, <2>7, <2>8 DEF LedgerFilled, CountedFill
      <3> QED  BY <1>2, <2>5, <2>7, <3>1, <3>2 DEF Moved, LedgerFilled
    <2> QED  BY <2>3, <2>7, <2>9 DEF r
  <1> QED  BY <1>1, <1>2

\* The decisions of an index block no reduction behind the gate.
LEMMA NotedCounts ==
    ASSUME NEW arm, arms[arm] \in Run, OneSided(arms[arm].book), NEW order, Asks(order),
           NEW s \in GovernanceState
    PROVE  LET f == arms[arm].metrics
               g == Noted(arm, order, Allowed(arm, order, s), s)
           IN  /\ g \in [Counter -> Nat]
               /\ g.executions = f.executions
               /\ g.severe_increase = f.severe_increase
               /\ g.actual_amplification = f.actual_amplification
               /\ arm # "scalar" => /\ g.blocked_reduction = f.blocked_reduction
                                   /\ g.institution_allowed = f.institution_allowed + 1
  <1> DEFINE f == arms[arm].metrics
             allowed == Allowed(arm, order, s)
             opens == Opening(order.side, order.quantity, arms[arm].book) > 0
             a == One(allowed = 0)
             b == One(allowed = 0 /\ ~opens)
             c == One(InstAllowed(arm, s) > 0)
             d == One(MakerAllowed(arm, s) > 0)
             g == [f EXCEPT !.interventions = @ + a, !.blocked_reduction = @ + b,
                            !.institution_allowed = @ + c, !.maker_allowed = @ + d]
  <1>1. Noted(arm, order, allowed, s) = g
    BY DEF Noted
  <1>2. a \in Nat /\ b \in Nat /\ c \in Nat /\ d \in Nat
    BY OneType
  <1>3. arms[arm].book \in Book /\ f \in [Counter -> Nat]
    BY DEF Run
  <1>4. arm # "scalar" => b = 0 /\ c = 1
    <2> SUFFICES ASSUME arm # "scalar" PROVE b = 0 /\ c = 1
      OBVIOUS
    <2>1. Opening(order.side, order.quantity, arms[arm].book) \in Nat
      BY <1>3, Split DEF Asks
    <2>2. ~(allowed = 0 /\ ~opens)
      BY <1>3, <2>1, AllowedWithin
    <2>3. InstAllowed(arm, s) > 0
      BY InstitutionAllowed
    <2> QED  BY <2>2, <2>3, OneType
  <1> HIDE DEF f, allowed, a, b, c, d
  <1>5. CountedDecisions(f, g, b, c)
    BY <1>2, <1>3, CountersNoted, Zenon
  <1>6. f.blocked_reduction \in Nat
    BY <1>3 DEF Counter
  <1> HIDE DEF g
  <1> QED  BY <1>1, <1>4, <1>5, <1>6 DEF f, allowed, CountedDecisions

\* What an arm has after the index.
ProposedAt(i, quantity) == IF i \in STRUCTURALLY_UNFILLABLE_INDICES THEN 0 ELSE quantity

\* An index leaves an arm as sound as it found it.
LEMMA IteratedSound ==
    ASSUME index \in Nat, NEW arm \in ARMS, NEW p, Sound(arm, arms[arm], p, index),
           NEW order, Asks(order), NEW s \in GovernanceState
    PROVE  Sound(arm, Iterated(arm, order, s), p + ProposedAt(index, order.quantity), index + 1)
  <1> DEFINE old == arms[arm]
             allowed == Allowed(arm, order, s)
             eligible == index \notin STRUCTURALLY_UNFILLABLE_INDICES
             ledger == observe_order(old.ledger, order.quantity, allowed, eligible)
             metrics == Noted(arm, order, allowed, s)
             before == [book |-> old.book, cumulative |-> 0, ledger |-> ledger, metrics |-> metrics]
             first == IF index = 2 THEN Smaller(2, allowed) ELSE allowed
             rest == allowed - first
             once == Executed(before, order, allowed, s, first)
             twice == Executed(once, order, allowed, s, rest)
  <1>0. /\ old \in Run /\ old.book \in Book /\ OneSided(old.book) /\ old.ledger \in Ledger
        /\ old.metrics \in [Counter -> Nat] /\ order.side \in Side
        /\ order.quantity \in Nat /\ order.quantity > 0 /\ eligible \in BOOLEAN
    BY DEF Sound, Run, Asks
  <1>1. /\ allowed \in Nat /\ allowed <= order.quantity
        /\ s \in Severe => allowed <= Held(order.side, old.book)
    BY <1>0, AllowedWithin
  <1>2. LedgerOrdered(old.ledger, ledger, order.quantity, allowed, eligible)
    <2> HIDE DEF allowed, eligible
    <2> QED  BY <1>0, <1>1, LedgerOrder
  <1>3. /\ metrics \in [Counter -> Nat]
        /\ metrics.executions = old.metrics.executions
        /\ metrics.severe_increase = old.metrics.severe_increase
        /\ metrics.actual_amplification = old.metrics.actual_amplification
        /\ arm # "scalar" => /\ metrics.blocked_reduction = old.metrics.blocked_reduction
                            /\ metrics.institution_allowed = old.metrics.institution_allowed + 1
    BY <1>0, NotedCounts
  <1>4. Iterated(arm, order, s) = IF Routed(arm) THEN twice ELSE before
    BY DEF Iterated, Fills
  <1>5. Routed(arm) <=> arm # "shadow" /\ eligible
    BY DEF Routed
  <1>6. /\ first \in Nat /\ rest \in Nat /\ first + rest = allowed
        /\ allowed = 0 <=> first = 0
    BY <1>1 DEF Smaller
  <1> HIDE DEF allowed, eligible, ledger, metrics, first, rest
  <1>7. /\ before \in Run /\ before.book = old.book /\ before.cumulative = 0
        /\ before.ledger = ledger /\ before.metrics = metrics
    BY <1>0, <1>2, <1>3 DEF Run, LedgerOrdered
  <1> HIDE DEF before
  <1>8. /\ Moved(before, once, first)
        /\ s \in Severe => Held(order.side, once.book) = Held(order.side, old.book) - first
    <2>1. before.cumulative + first <= allowed
      BY <1>1, <1>6, <1>7
    <2>2. s \in Severe => first <= Held(order.side, before.book)
      BY <1>0, <1>1, <1>6, <1>7 DEF Held, Book
    <2>3. OneSided(before.book)
      BY <1>0, <1>7
    <2> QED  BY <1>1, <1>6, <1>7, <2>1, <2>2, <2>3, PartExecuted
  <1> HIDE DEF once
  <1>9. Moved(once, twice, rest)
    <2>1. once.cumulative + rest <= allowed
      BY <1>1, <1>6, <1>7, <1>8 DEF Moved
    <2>2. s \in Severe => rest <= Held(order.side, once.book)
      BY <1>0, <1>1, <1>6, <1>8 DEF Held, Book
    <2>3. once \in Run /\ OneSided(once.book)
      BY <1>8 DEF Moved
    <2> QED  BY <1>1, <1>6, <2>1, <2>2, <2>3, PartExecuted
  <1> HIDE DEF twice
  <1>10. /\ IsFiniteSet(old.ledger.filled_orders) /\ index \notin old.ledger.filled_orders
         /\ old.ledger.filled_orders \subseteq 0..(index + 1 - 1)
         /\ index \in 0..(index + 1 - 1)
    <2>1. old.ledger.filled_orders \subseteq 0..(index - 1)
      BY DEF Sound
    <2>2. IsFiniteSet(0..(index - 1))
      BY FS_Interval
    <2>3. IsFiniteSet(old.ledger.filled_orders)
      BY <2>1, <2>2, FS_Subset
    <2> QED  BY <2>1, <2>3
  <1>11. Cardinality(old.ledger.filled_orders \cup {index}) = Cardinality(old.ledger.filled_orders) + 1
    BY <1>10, FS_AddElement
  <1>12. /\ \A field \in Counter : old.metrics[field] \in Nat
         /\ old.ledger.proposed_quantity \in Nat /\ old.ledger.authorized_quantity \in Nat
         /\ old.ledger.executed_quantity \in Nat /\ old.ledger.eligible_order_count \in Nat
         /\ old.ledger.excluded_order_count \in Nat /\ old.ledger.filled_order_count \in Nat
         /\ old.ledger.fill_event_count \in Nat /\ old.metrics.executions \in Nat
    BY <1>0 DEF Ledger, Counter
  <1>13. CASE Routed(arm)
    <2>1. arm # "shadow" /\ eligible /\ ProposedAt(index, order.quantity) = order.quantity
      BY <1>5, <1>13 DEF ProposedAt, eligible
    <2>2. twice \in Run /\ OneSided(twice.book)
      BY <1>9 DEF Moved
    <2>3. /\ twice.metrics.severe_increase = 0 /\ twice.metrics.actual_amplification = 0
          /\ arm # "scalar" => /\ twice.metrics.blocked_reduction = 0
                              /\ twice.metrics.institution_allowed = index + 1
      BY <1>3, <1>7, <1>8, <1>9 DEF Moved, Sound
    <2>4. /\ twice.ledger.proposed_quantity = p + order.quantity
          /\ twice.ledger.eligible_order_count = old.ledger.eligible_order_count + 1
          /\ twice.ledger.excluded_order_count = old.ledger.excluded_order_count
          /\ twice.ledger.authorized_quantity = old.ledger.authorized_quantity + allowed
          /\ twice.ledger.executed_quantity = old.ledger.executed_quantity + allowed
      BY <1>1, <1>2, <1>6, <1>7, <1>8, <1>9, <1>12, <2>1 DEF Moved, LedgerOrdered, Sound
    <2>5. /\ twice.ledger.filled_orders \in {old.ledger.filled_orders, old.ledger.filled_orders \cup {index}}
          /\ twice.ledger.filled_order_count = Cardinality(twice.ledger.filled_orders)
          /\ twice.ledger.filled_order_count <= old.ledger.filled_order_count + 1
      <3>1. before.ledger.filled_orders = old.ledger.filled_orders
            /\ before.ledger.filled_order_count = old.ledger.filled_order_count
            /\ old.ledger.filled_order_count = Cardinality(old.ledger.filled_orders)
        BY <1>2, <1>7 DEF LedgerOrdered, Sound
      <3>2. CASE first = 0
        <4>1. rest = 0
          BY <1>6, <3>2
        <4> QED  BY <1>8, <1>9, <1>12, <3>1, <3>2, <4>1 DEF Moved
      <3>3. CASE first > 0
        <4>1. /\ once.ledger.filled_orders = old.ledger.filled_orders \cup {index}
              /\ once.ledger.filled_order_count = old.ledger.filled_order_count + 1
          BY <1>8, <1>10, <3>1, <3>3 DEF Moved
        <4>2. /\ twice.ledger.filled_orders = once.ledger.filled_orders
              /\ twice.ledger.filled_order_count = once.ledger.filled_order_count
          <5>1. CASE rest = 0
            BY <1>9, <5>1 DEF Moved
          <5>2. CASE rest > 0
            BY <1>9, <1>12, <4>1, <5>2 DEF Moved
          <5> QED  BY <1>6, <5>1, <5>2
        <4> QED  BY <1>11, <1>12, <3>1, <4>1, <4>2
      <3>4. first = 0 \/ first > 0
        BY <1>6
      <3> QED  BY <3>2, <3>3, <3>4
    <2>6. twice.ledger.fill_event_count = twice.metrics.executions
      <3>1. before.metrics.executions = before.ledger.fill_event_count
        BY <1>2, <1>3, <1>7 DEF LedgerOrdered, Sound
      <3>2. /\ once.metrics.executions \in Nat /\ once.ledger.fill_event_count \in Nat
            /\ before.metrics.executions \in Nat /\ before.ledger.fill_event_count \in Nat
            /\ twice.metrics.executions \in Nat /\ twice.ledger.fill_event_count \in Nat
        BY <1>7, <1>8, <1>9 DEF Moved, Run, Ledger, Counter
      <3>3. once.metrics.executions - before.metrics.executions
                = once.ledger.fill_event_count - before.ledger.fill_event_count
        BY <1>8 DEF Moved
      <3>4. twice.metrics.executions - once.metrics.executions
                = twice.ledger.fill_event_count - once.ledger.fill_event_count
        BY <1>9 DEF Moved
      <3> QED  BY <3>1, <3>2, <3>3, <3>4
    <2>7. Sound(arm, twice, p + order.quantity, index + 1)
      <3>1. /\ old.ledger.proposed_quantity = p
            /\ old.ledger.eligible_order_count + old.ledger.excluded_order_count = index
            /\ old.ledger.executed_quantity = old.ledger.authorized_quantity
            /\ old.ledger.authorized_quantity <= p
            /\ old.ledger.filled_order_count <= old.ledger.eligible_order_count
        BY <2>1 DEF Sound
      <3>2. twice.ledger.filled_orders \subseteq 0..(index + 1 - 1)
        BY <1>10, <2>5
      <3>3. twice.ledger.eligible_order_count + twice.ledger.excluded_order_count = index + 1
        BY <1>12, <2>4, <3>1
      <3>4. /\ twice.ledger.executed_quantity = twice.ledger.authorized_quantity
            /\ twice.ledger.authorized_quantity <= twice.ledger.proposed_quantity
        BY <1>0, <1>1, <1>12, <2>4, <3>1
      <3>5. twice.ledger.filled_order_count <= twice.ledger.eligible_order_count
        <4>1. twice.ledger.filled_order_count \in Nat
          BY <2>2 DEF Run, Ledger
        <4> QED  BY <1>12, <2>4, <2>5, <3>1, <4>1
      <3> QED  BY <2>1, <2>2, <2>3, <2>4, <2>5, <2>6, <3>2, <3>3, <3>4, <3>5 DEF Sound
    <2> QED  BY <1>4, <1>13, <2>1, <2>7
  <1>14. CASE ~Routed(arm)
    <2>1. Sound(arm, before, p + ProposedAt(index, order.quantity), index + 1)
      <3>1. OneSided(before.book)
        BY <1>0, <1>7
      <3>2. /\ before.metrics.severe_increase = 0 /\ before.metrics.actual_amplification = 0
            /\ arm # "scalar" => /\ before.metrics.blocked_reduction = 0
                                /\ before.metrics.institution_allowed = index + 1
            /\ before.ledger.fill_event_count = before.metrics.executions
        BY <1>2, <1>3, <1>7 DEF Sound, LedgerOrdered
      <3>3. /\ before.ledger.proposed_quantity = p + ProposedAt(index, order.quantity)
            /\ before.ledger.eligible_order_count + before.ledger.excluded_order_count = index + 1
            /\ before.ledger.eligible_order_count >= old.ledger.eligible_order_count
            /\ before.ledger.authorized_quantity <= before.ledger.proposed_quantity
        BY <1>0, <1>1, <1>2, <1>7, <1>12 DEF Sound, LedgerOrdered, ProposedAt, eligible
      <3>4. before.ledger.executed_quantity = IF arm = "shadow" THEN 0 ELSE before.ledger.authorized_quantity
        BY <1>0, <1>2, <1>5, <1>7, <1>12, <1>14 DEF Sound, LedgerOrdered
      <3>5. /\ before.ledger.filled_orders \subseteq 0..(index + 1 - 1)
            /\ before.ledger.filled_order_count = Cardinality(before.ledger.filled_orders)
            /\ before.ledger.filled_order_count <= before.ledger.eligible_order_count
        BY <1>2, <1>7, <1>10, <1>12, <3>3 DEF Sound, LedgerOrdered
      <3> QED  BY <1>7, <3>1, <3>2, <3>3, <3>4, <3>5 DEF Sound
    <2> QED  BY <1>4, <1>14, <2>1
  <1> QED  BY <1>13, <1>14

-----------------------------------------------------------------------------
(* The controllers. *)

\* An interval ends on a rung, and does not touch the profile.
LEMMA FullRung ==
    ASSUME full_state \in GovernanceState, NEW class, NEW missing, NEW advance, NEW completed,
           Full!Interval(class, missing, advance, completed)
    PROVE  full_state' \in GovernanceState /\ full_profile' = full_profile
  <1>1. PICK lost \in BOOLEAN, ready \in BOOLEAN : full_state' = Full!Target(class, lost, ready)
    BY DEF Full!Interval
  <1>2. Full!Down[full_state] \in GovernanceState
    BY DEF Full!Down, Full!LadderState, Full!Staged, GovernanceState
  <1>3. Full!HardTarget(class) \in GovernanceState /\ Full!SoftTarget(ready) \in GovernanceState
    BY DEF Full!HardTarget, Full!SoftTarget, GovernanceState
  <1>4. Full!Target(class, lost, ready) \in GovernanceState
    BY <1>2, <1>3 DEF Full!Target, Full!Hard, GovernanceState
  <1> QED  BY <1>1, <1>4 DEF Full!Interval

LEMMA LeanRung ==
    ASSUME lean_state \in GovernanceState, NEW class, NEW missing, NEW advance, NEW completed,
           Lean!Interval(class, missing, advance, completed)
    PROVE  lean_state' \in GovernanceState /\ lean_profile' = lean_profile
  <1>1. PICK lost \in BOOLEAN, ready \in BOOLEAN : lean_state' = Lean!Target(class, lost, ready)
    BY DEF Lean!Interval
  <1>2. Lean!Down[lean_state] \in GovernanceState
    BY DEF Lean!Down, Lean!LadderState, Lean!Staged, GovernanceState
  <1>3. Lean!HardTarget(class) \in GovernanceState /\ Lean!SoftTarget(ready) \in GovernanceState
    BY DEF Lean!HardTarget, Lean!SoftTarget, GovernanceState
  <1>4. Lean!Target(class, lost, ready) \in GovernanceState
    BY <1>2, <1>3 DEF Lean!Target, Lean!Hard, GovernanceState
  <1> QED  BY <1>1, <1>4 DEF Lean!Interval

\* The controllers are in the same place.
SamePlace ==
    /\ full_state = lean_state /\ full_wait = lean_wait
    /\ full_evidence = lean_evidence /\ full_loss = lean_loss

\* Whatever is not a soft signal moves both profiles alike.
LEMMA MovedAlike ==
    ASSUME full_profile = "V21_FULL", lean_profile = "V21_LEAN", SamePlace,
           NEW class \in Full!Class \ {"soft", "confidence"}, NEW missing, NEW advance, NEW completed,
           Full!Interval(class, missing, advance, completed),
           Lean!Interval(class, missing, advance, completed)
    PROVE  SamePlace'
  <1>1. Full!Acts(class) <=> Lean!Acts(class)
    BY DEF Full!Acts, Lean!Acts, Full!Hard, Lean!Hard, Full!Class
  <1>2. Full!Down = Lean!Down
    BY DEF Full!Down, Lean!Down, Full!LadderState, Lean!LadderState, Full!Staged, Lean!Staged
  <1>3. Full!HardTarget(class) = Lean!HardTarget(class)
    BY DEF SamePlace, Full!HardTarget, Lean!HardTarget, Full!Staged, Lean!Staged
  <1>4. ASSUME NEW ready \in BOOLEAN PROVE Full!SoftTarget(ready) = Lean!SoftTarget(ready)
    BY DEF SamePlace, Full!SoftTarget, Lean!SoftTarget
  <1>5. ASSUME NEW lost \in BOOLEAN, NEW ready \in BOOLEAN
        PROVE  Full!Target(class, lost, ready) = Lean!Target(class, lost, ready)
    BY <1>1, <1>2, <1>3, <1>4 DEF SamePlace, Full!Target, Lean!Target, Full!Hard, Lean!Hard
  <1> QED  BY <1>5 DEF SamePlace, Full!Interval, Lean!Interval, Full!AtLeast, Lean!AtLeast,
                      Full!AtMost, Lean!AtMost

-----------------------------------------------------------------------------
(* The invariant holds. *)

\* The order of the schedule is an order.
LEMMA ScheduledAsks == ASSUME index \in Nat PROVE Asks(_strategist_order(index))
  <1>1. ASSUME NEW side \in Side, NEW quantity \in Nat \ {0}, NEW order_type
        PROVE  Asks(Static(side, quantity, order_type))
    BY DEF Static, Asks
  <1>2. \A quantity \in 1..15 : quantity \in Nat \ {0}
    OBVIOUS
  <1>3. _strategist_order(index) \in
            {Static("SELL", 15, "MARKET"), Static("BUY", 5, "LIMIT"), Static("BUY", 6, "LIMIT"),
             Static("SELL", 3, "LIMIT"), Static("SELL", 5, "MARKET"), Static("BUY", 4, "LIMIT"),
             Static("SELL", 2, "LIMIT"), Static("BUY", 4, "MARKET"), Static("SELL", 1, "LIMIT")}
    BY DEF _strategist_order
  <1> QED  BY <1>1, <1>2, <1>3 DEF Side

LEMMA Initially == Init => IInv
  <1> SUFFICES ASSUME Init PROVE IInv
    OBVIOUS
  <1> DEFINE zero == [counter \in Counter |-> 0]
             run == [book |-> [long |-> 10, short |-> 0], cumulative |-> 0,
                     ledger |-> EmptyLedger, metrics |-> zero]
  <1>1. States
    BY StaticAssumption DEF Init, Full!LadderInit, Lean!LadderInit, States, GovernanceState
  <1>2. /\ EmptyLedger \in Ledger
        /\ EmptyLedger.proposed_quantity = 0 /\ EmptyLedger.authorized_quantity = 0
        /\ EmptyLedger.executed_quantity = 0 /\ EmptyLedger.eligible_order_count = 0
        /\ EmptyLedger.excluded_order_count = 0 /\ EmptyLedger.filled_order_count = 0
        /\ EmptyLedger.fill_event_count = 0 /\ EmptyLedger.filled_orders = {}
    BY DEF EmptyLedger, Ledger
  <1>3. /\ zero \in [Counter -> Nat]
        /\ zero.severe_increase = 0 /\ zero.actual_amplification = 0
        /\ zero.blocked_reduction = 0 /\ zero.institution_allowed = 0 /\ zero.executions = 0
    BY DEF Counter
  <1>4. Cardinality({}) = 0
    BY FS_EmptySet
  <1>5. arms = [arm \in ARMS |-> run] /\ index = 0
    BY DEF Init
  <1> HIDE DEF zero
  <1>6. run \in Run /\ OneSided(run.book) /\ run.ledger = EmptyLedger /\ run.metrics = zero
    BY <1>2, <1>3 DEF Run, Book, OneSided
  <1> HIDE DEF run
  <1>7. ASSUME NEW arm \in ARMS PROVE Sound(arm, run, 0, 0)
    BY <1>2, <1>3, <1>4, <1>6 DEF Sound
  <1>8. ArmsSound
    BY <1>2, <1>5, <1>6, <1>7 DEF ArmsSound, ARMS
  <1>9. Alike
    BY <1>5 DEF Init, Full!LadderInit, Lean!LadderInit, Alike, ARMS
  <1> QED  BY <1>1, <1>8, <1>9 DEF IInv

\* Behind the same gate, from the same books and in the same state, an order is the same.
LEMMA IteratedAlike ==
    ASSUME arms["hybrid_v2_1_full"] = arms["hybrid_v2_1_lean"], NEW order, NEW s
    PROVE  Iterated("hybrid_v2_1_full", order, s) = Iterated("hybrid_v2_1_lean", order, s)
  <1> DEFINE f == "hybrid_v2_1_full"
             l == "hybrid_v2_1_lean"
  <1>1. Allowed(f, order, s) = Allowed(l, order, s)
    BY DEF Allowed, Decided
  <1>2. InstAllowed(f, s) = InstAllowed(l, s) /\ MakerAllowed(f, s) = MakerAllowed(l, s)
    BY DEF InstAllowed, MakerAllowed, Decided
  <1>3. Noted(f, order, Allowed(f, order, s), s) = Noted(l, order, Allowed(l, order, s), s)
    BY <1>1, <1>2 DEF Noted
  <1>4. Routed(f) <=> Routed(l)
    BY DEF Routed
  <1> QED  BY <1>1, <1>3, <1>4 DEF Iterated

LEMMA StepKeeps ==
    ASSUME IInv, NEW observed \in OtherSignals \cup {_observation(index)},
           NEW order \in OtherOrders \cup {_strategist_order(index)}, Step(observed, order)
    PROVE  IInv'
  <1> DEFINE p == arms["shadow"].ledger.proposed_quantity
             q == ProposedAt(index, order.quantity)
  <1>0. index \in Nat /\ LastIndex \in Nat /\ MaxChanges \in Nat /\ changes \in Nat
    BY StaticAssumption DEF IInv, States
  <1>1. Asks(order)
    <2>1. CASE order \in OtherOrders
      BY <2>1, StaticAssumption DEF Order, Asks
    <2>2. CASE order = _strategist_order(index)
      BY <1>0, <2>2, ScheduledAsks
    <2> QED  BY <2>1, <2>2
  <1>2. /\ full_state' \in GovernanceState /\ lean_state' \in GovernanceState
        /\ full_profile' = full_profile /\ lean_profile' = lean_profile
    BY FullRung, LeanRung DEF Step, IInv, States
  <1>3. States'
    <2>1. index' \in 0..LastIndex + 1
      BY <1>0 DEF Step, IInv, States
    <2>2. changes' \in 0..MaxChanges
      <3>1. One(observed # _observation(index)) \in Nat /\ One(order # _strategist_order(index)) \in Nat
        BY DEF One
      <3> QED  BY <1>0, <3>1 DEF Step
    <2> QED  BY <1>2, <2>1, <2>2 DEF IInv, States
  <1>4. ArmsSound'
    <2>1. ASSUME NEW arm \in ARMS
          PROVE  Sound(arm, arms'[arm], p + q, index + 1)
      <3>1. StateOf(arm)' \in GovernanceState
        BY <1>2 DEF StateOf
      <3>2. Sound(arm, arms[arm], p, index)
        BY DEF IInv, ArmsSound
      <3>3. Sound(arm, Iterated(arm, order, StateOf(arm)'), p + q, index + 1)
        BY <1>0, <1>1, <3>1, <3>2, IteratedSound
      <3> QED  BY <3>3 DEF Step
    <2>2. arms' \in [ARMS -> Run]
      BY <2>1 DEF Step, Sound
    <2>3. arms'["shadow"].ledger.proposed_quantity = p + q /\ index' = index + 1
      BY <2>1 DEF Step, Sound, ARMS
    <2> QED  BY <2>1, <2>2, <2>3 DEF ArmsSound
  <1>5. Alike'
    <2> SUFFICES ASSUME ~soft_seen'
                 PROVE  SamePlace' /\ arms'["hybrid_v2_1_full"] = arms'["hybrid_v2_1_lean"]
      BY DEF Alike, SamePlace
    <2>1. ~soft_seen /\ observed.class \notin {"soft", "confidence"}
      BY DEF Step
    <2>2. observed.class \in Full!Class
      BY <1>0, StaticAssumption DEF _observation, Full!Class
    <2>3. SamePlace'
      BY <2>1, <2>2, MovedAlike DEF IInv, States, Alike, SamePlace, Step
    <2>4. StateOf("hybrid_v2_1_full")' = StateOf("hybrid_v2_1_lean")'
      BY <2>3 DEF StateOf, SamePlace
    <2>5. arms["hybrid_v2_1_full"] = arms["hybrid_v2_1_lean"]
      BY <2>1 DEF IInv, Alike
    <2> QED  BY <2>3, <2>4, <2>5, IteratedAlike DEF Step, ARMS
  <1> QED  BY <1>3, <1>4, <1>5 DEF IInv

LEMMA Invariance == Spec => []IInv
  <1>1. Init => IInv
    BY Initially
  <1>2. IInv /\ [Next]_experiment => IInv'
    <2> SUFFICES ASSUME IInv, [Next]_experiment PROVE IInv'
      OBVIOUS
    <2>1. CASE Next
      BY <2>1, StepKeeps DEF Next
    <2>2. CASE UNCHANGED experiment
      BY <2>2 DEF experiment, full, lean, IInv, States, ArmsSound, Alike
    <2> QED  BY <2>1, <2>2
  <1> QED  BY <1>1, <1>2, PTL DEF Spec

-----------------------------------------------------------------------------
(* What the comparison rests on. *)

\* TypeOK: the books of the arms stay one-sided books and their counters natural numbers,
\* in a schedule of any length with any number of exchanges (_single_run()).
THEOREM ArmTypeCorrect == Spec => []TypeOK
  <1>1. IInv => TypeOK
    BY DEF IInv, States, ArmsSound, Sound, Run, OneSided, TypeOK
  <1> QED  BY <1>1, Invariance, PTL

\* HardSafetyHeld: whatever signals and orders the schedule brings, no arm executes beyond
\* its authorization or opens in a severe state, and no arm behind the gate blocks a
\* reduction of the retail or the institutional agent.
THEOREM ArmsAreSafe == Spec => []HardSafetyHeld
  <1>1. IInv => HardSafetyHeld
    BY DEF IInv, ArmsSound, Sound, HardSafetyHeld, Hybrid, ARMS
  <1> QED  BY <1>1, Invariance, PTL

\* RetentionComparable: the arms share the denominators of the corrected rates, each on the
\* venue executes what it authorized, and parts of an order count as one order
\* (static_experiment_v2.py over fill_retention.py).
THEOREM RatesAreComparable == Spec => []RetentionComparable
  <1>1. IInv => RetentionComparable
    BY DEF IInv, ArmsSound, Sound, RetentionComparable, ARMS
  <1> QED  BY <1>1, Invariance, PTL

\* ProfilesDifferBySoftSignals: until a soft or a confidence signal comes the Full and the
\* Lean arm are in the same state with the same portfolio and the same counts.
THEOREM SameUntilSoftSignal == Spec => []ProfilesDifferBySoftSignals
  <1>1. IInv => ProfilesDifferBySoftSignals
    BY DEF IInv, Alike, ProfilesDifferBySoftSignals
  <1> QED  BY <1>1, Invariance, PTL
=============================================================================
