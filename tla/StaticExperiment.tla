--------------------------- MODULE StaticExperiment ---------------------------
(***************************************************************************)
(* The paired static comparison (static_experiment.py) and its corrected   *)
(* retention accounting (static_experiment_v2.py): four arms answer the    *)
(* same eighteen observations and orders, each with a portfolio of its     *)
(* own.  A schedule here is the fixed one with up to MaxChanges of its     *)
(* observations or orders exchanged for others.                            *)
(*                                                                         *)
(* Both harnesses run in one step per index: they share the decision, the  *)
(* portfolio and the fills.  The Full controllers of three arms see the    *)
(* same observations and are one here.  The random walk of the price is    *)
(* left out, and with it the utility metrics in money; the limits are      *)
(* those at the first price.                                               *)
(***************************************************************************)
EXTENDS OrderGate, FillRetention

CONSTANTS
    PersistentLoss, CooldownIntervals, MinNewOutcomes,  \* PolicyParameters.defaults()
    InstEnvelope, MakerEnvelope,    \* ROLE_BASE of the two other roles
    LastIndex,                      \* the last index of a run
    OtherSignals, OtherOrders,      \* what an observation or order may be exchanged for
    MaxChanges                      \* bound of the model: exchanges in one run

Counter == {"executions", "interventions", "blocked_reduction", "severe_increase",
            "actual_amplification", "institution_allowed", "maker_allowed"}

ARMS == {"shadow", "scalar", "hybrid_v2_1_full", "hybrid_v2_1_lean"}

VARIABLES
    full_profile, full_state, full_wait, full_evidence, full_loss,
    lean_profile, lean_state, lean_wait, lean_evidence, lean_loss,
    signal,         \* class of the last observation
    index,          \* the next index
    arms,           \* per arm: the retail agent's books, the bridge's count of the last
                    \* order, the counters of the first harness, the ledger of the second
    changes,        \* exchanges made so far
    soft_seen       \* history: a soft or a confidence signal came

full == <<full_profile, full_state, full_wait, full_evidence, full_loss>>
lean == <<lean_profile, lean_state, lean_wait, lean_evidence, lean_loss>>
experiment == <<full, lean, signal, index, arms, changes, soft_seen>>

\* _controller_for_arm()
Full == INSTANCE RecoveryLadder WITH
    Profiles <- {"V21_FULL"}, profile <- full_profile, state <- full_state,
    wait <- full_wait, evidence <- full_evidence, loss <- full_loss
Lean == INSTANCE RecoveryLadder WITH
    Profiles <- {"V21_LEAN"}, profile <- lean_profile, state <- lean_state,
    wait <- lean_wait, evidence <- lean_evidence, loss <- lean_loss

ASSUME StaticAssumption ==
    /\ OtherSignals \subseteq [class : Full!Class, missing : BOOLEAN]
    /\ OtherOrders \subseteq Order
    /\ {LastIndex, MaxChanges} \subseteq Nat

\* The static agents of the other two roles.
Inst == INSTANCE OrderGate WITH Role <- "institutional", Envelope <- InstEnvelope
Maker == INSTANCE OrderGate WITH Role <- "market_maker", Envelope <- MakerEnvelope

-----------------------------------------------------------------------------
(* The fixed schedule. *)

_observation(i) ==
    CASE i = 1 -> [class |-> "confidence", missing |-> FALSE]
      [] i = 2 -> [class |-> "soft", missing |-> FALSE]
      [] i \in {4, 5, 6} -> [class |-> "missing", missing |-> TRUE]
      [] i = 13 -> [class |-> "severe", missing |-> FALSE]
      [] i \in {14, 17} -> [class |-> "override", missing |-> FALSE]
      [] OTHER -> [class |-> "none", missing |-> FALSE]

One(condition) == IF condition THEN 1 ELSE 0

\* completed_outcome_count counts from index 5 on.
Completed(i) == One(i > 4)

Static(side, quantity, order_type) ==
    [side |-> side, quantity |-> quantity, order_type |-> order_type, quote |-> FALSE]

_strategist_order(i) ==
    CASE i = 0 -> Static("SELL", 15, "MARKET")
      [] i = 1 -> Static("BUY", 5, "LIMIT")
      [] i = 2 -> Static("BUY", 6, "LIMIT")
      [] i = 3 -> Static("SELL", 3, "LIMIT")
      [] i \in {4, 5, 6} -> Static("SELL", 5, "MARKET")
      [] i = 9 -> Static("BUY", 4, "LIMIT")
      [] i = 10 -> Static("SELL", 2, "LIMIT")
      [] i \in {13, 14, 17} -> Static("BUY", 4, "MARKET")
      [] OTHER -> Static("SELL", 1, "LIMIT")

STRUCTURALLY_UNFILLABLE_INDICES == {9}

-----------------------------------------------------------------------------
(* One arm, one index. *)

\* _decision_for_arm(), for an agent whose books and gate are given.
Decided(arm, fallback, gated) == IF arm = "scalar" THEN fallback ELSE gated

Allowed(arm, order, s) ==
    Decided(arm, FallbackQuantity(order, arms[arm].book, s),
                 HybridQuantity(order, arms[arm].book, s, 0))

InstAllowed(arm, s) ==
    LET order == Static("SELL", 1, "LIMIT")
        book == [long |-> 20, short |-> 0]
    IN  Decided(arm, Inst!FallbackQuantity(order, book, s), Inst!HybridQuantity(order, book, s, 0))

MakerAllowed(arm, s) ==
    LET order == [Static(IF index % 2 = 1 THEN "BUY" ELSE "SELL", 1, "LIMIT") EXCEPT !.quote = TRUE]
        book == [long |-> 10, short |-> 0]
    IN  Decided(arm, Maker!FallbackQuantity(order, book, s), Maker!HybridQuantity(order, book, s, 0))

\* The fills of one order, the one at index 2 in two parts; a part of nothing is left out.
Fills(allowed) ==
    LET first == IF index = 2 THEN Smaller(2, allowed) ELSE allowed
    IN  <<first, allowed - first>>

Routed(arm) == arm # "shadow" /\ index \notin STRUCTURALLY_UNFILLABLE_INDICES

\* The portfolio, both ledgers and the bridge's cumulative quantity after one more fill.
Executed(run, order, allowed, s, n) ==
    IF n = 0 THEN run ELSE
    [book |-> After(order.side, n, run.book),
     cumulative |-> run.cumulative + n,
     ledger |-> observe_fill(run.ledger, index, n),
     metrics |-> [run.metrics EXCEPT
         !.executions = @ + 1,
         !.severe_increase = @ + One(s \in Severe /\ Opening(order.side, n, run.book) > 0),
         !.actual_amplification = @ + One(run.cumulative + n > allowed)]]

\* What an arm books of its decisions before anything executes.
Noted(arm, order, allowed, s) ==
    LET opens == Opening(order.side, order.quantity, arms[arm].book) > 0
    IN  [arms[arm].metrics EXCEPT
            !.interventions = @ + One(allowed = 0),
            !.blocked_reduction = @ + One(allowed = 0 /\ ~opens),
            !.institution_allowed = @ + One(InstAllowed(arm, s) > 0),
            !.maker_allowed = @ + One(MakerAllowed(arm, s) > 0)]

\* The body of _single_run()'s loop for one arm.
Iterated(arm, order, s) ==
    LET allowed == Allowed(arm, order, s)
        before  == [book |-> arms[arm].book, cumulative |-> 0,
                    ledger |-> observe_order(arms[arm].ledger, order.quantity, allowed,
                                             index \notin STRUCTURALLY_UNFILLABLE_INDICES),
                    metrics |-> Noted(arm, order, allowed, s)]
        parts   == Fills(allowed)
    IN  IF ~Routed(arm) THEN before
        ELSE Executed(Executed(before, order, allowed, s, parts[1]), order, allowed, s, parts[2])

-----------------------------------------------------------------------------
StateOf(arm) == IF arm = "hybrid_v2_1_lean" THEN lean_state ELSE full_state

\* Every arm goes through the same index.
Step(observed, order) ==
    LET advance == One(index > 0)
    IN  /\ index <= LastIndex
        /\ Full!Interval(observed.class, observed.missing, advance, Completed(index))
        /\ Lean!Interval(observed.class, observed.missing, advance, Completed(index))
        /\ arms' = [arm \in ARMS |-> Iterated(arm, order, StateOf(arm)')]
        /\ index' = index + 1
        /\ changes' = changes + One(observed # _observation(index))
                              + One(order # _strategist_order(index))
        /\ changes' <= MaxChanges
        /\ soft_seen' = (soft_seen \/ observed.class \in {"soft", "confidence"})

Init ==
    /\ Full!LadderInit
    /\ Lean!LadderInit
    /\ index = 0
    /\ arms = [arm \in ARMS |->
          [book |-> [long |-> 10, short |-> 0], cumulative |-> 0,
           ledger |-> EmptyLedger, metrics |-> [counter \in Counter |-> 0]]]
    /\ changes = 0
    /\ soft_seen = FALSE

Next ==
    \E observed \in OtherSignals \cup {_observation(index)},
       order \in OtherOrders \cup {_strategist_order(index)} : Step(observed, order)

Spec == Init /\ [][Next]_experiment
-----------------------------------------------------------------------------
(* Properties. *)

Hybrid == {"hybrid_v2_1_full", "hybrid_v2_1_lean"}

\* Books and counters are natural numbers, no book turns two-sided, and no run goes on
\* after its last index.
TypeOK ==
    /\ full_state \in GovernanceState /\ lean_state \in GovernanceState
    /\ index \in 0..LastIndex + 1
    /\ \A arm \in ARMS :
          /\ arms[arm].book \in Book
          /\ arms[arm].book.long = 0 \/ arms[arm].book.short = 0
          /\ arms[arm].ledger \in Ledger
          /\ arms[arm].metrics \in [Counter -> Nat]
    /\ changes \in 0..MaxChanges

\* tests/test_static_experiment.py finds no hard safety violation in the fixed replay;
\* neither is there one when its signals and orders are others: nothing executes beyond
\* its authorization or opens in a severe state on any arm, and no arm behind the gate
\* blocks a reduction, of the retail or of the institutional agent.  (Actual amplification
\* is ruled out by the harness, which cuts an order into parts of what was authorized; the
\* other three counters depend on gate, fallback and books.)
HardSafetyHeld ==
    /\ \A arm \in ARMS :
          arms[arm].metrics.severe_increase = 0 /\ arms[arm].metrics.actual_amplification = 0
    /\ \A arm \in Hybrid \cup {"shadow"} :
          arms[arm].metrics.blocked_reduction = 0 /\ arms[arm].metrics.institution_allowed = index

\* The corrected rates compare like with like: all arms share their denominators, an arm
\* on the venue executes what it authorized in all (and never more than was proposed), the
\* shadow arm executes nothing, and parts of an order are one order.
RetentionComparable ==
    \A arm \in ARMS : LET ledger == arms[arm].ledger IN
        /\ ledger.proposed_quantity = arms["shadow"].ledger.proposed_quantity
        /\ ledger.eligible_order_count + ledger.excluded_order_count = index
        /\ ledger.executed_quantity = IF arm = "shadow" THEN 0 ELSE ledger.authorized_quantity
        /\ ledger.authorized_quantity <= ledger.proposed_quantity
        /\ ledger.filled_order_count = Cardinality(ledger.filled_orders)
        /\ ledger.filled_order_count <= ledger.eligible_order_count
        /\ ledger.fill_event_count = arms[arm].metrics.executions

\* The comparison is of the profiles alone: as long as no soft signal came, the Full and
\* the Lean arm agree in state, portfolio and every count.
ProfilesDifferBySoftSignals ==
    ~soft_seen =>
        /\ full_state = lean_state
        /\ arms["hybrid_v2_1_full"] = arms["hybrid_v2_1_lean"]
=============================================================================
