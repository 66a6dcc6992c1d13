# Formal models of the agent governance layer

TLA+ specifications of `governance_layer`, the Python package that stands between
autonomous trading agents and an execution venue: it keeps a governance state per agent,
turns the state into a capability permission, judges and sizes every order, and audits
what the venue actually executed. The models are translated from `src/src/governance_layer`;
TLC checks them on small instances and TLAPS proves the theorems listed below for every
value of the constants. Line numbers in this file are of the sources under `src/`.

## 1. Inventory

| Component | Source | State it keeps | Operations | Modelled in |
| --- | --- | --- | --- | --- |
| Governance state machine | `state_machine.py` | state, index and count of the last transition, recovery floor, missing streak, counters, watermark of the last observation | `evaluate()` | `GovernanceStateMachine` |
| Capability permissions | `permissions.py`, `models.py` | none; a permission is an immutable value with a window | `permission_for()` | `OrderGate`, `OrderPath` |
| Order gate | `order_gate.py` | none | `authorize_permission`, `assess_order`, `apply_permission`, `record_execution`, `pending_order_action` | `OrderGate`, `OrderPath` (all but the last) |
| Hybrid sizing, scalar fallback | `hybrid.py` | none | `execute_hybrid`, `scalar_fallback_decision` | `OrderGate`, `OrderPath` |
| Actual net risk | `actual_risk.py` | none | what a quantity closes and opens on two independent books; observed deltas; native legs | `RiskChange` |
| Execution audit bridge | `execution_audit.py` | per order: authorization, books at registration, executed totals, cancel flags | `register_authorization`, `bind_native_order_ids`, `request_cancel`, `record_cancel`, `record_execution` | `ExecutionAudit` |
| Audit recorder | `runtime_binding.py` | id maps, fill keys seen, cancel origins, counters, validity, files on disk | `register_order`, `bind_native_order_ids`, `note_cancel_*`, `record_fill`, `close` | `ExecutionAudit` |
| Resting orders guard | `pending_guard.py` | none | `pending_native_order_action`: keep or cancel a resting native leg on the books and permission of the moment | `GovernedAgent` |
| Fill retention | `fill_retention.py` | quantities and counts of one arm, ids of filled orders | `observe_order`, `observe_fill` | `FillRetention` |
| Static experiments | `static_experiment.py`, `static_experiment_v2.py` | per arm: a controller, a portfolio, a bridge, counters | one pass over a fixed schedule | `StaticExperiment` |
| Completed outcomes, preregistration | `state_machine.py` | none | filter what counts as completed evidence; read a policy | inputs / constants |
| Skew matrix, example, exports | the other files | none | a fixed table put through the guard; re-exports | not modelled |

How they interact. Once per interval the runtime calls `evaluate()` with telemetry and a
count of completed outcomes; the decision's state goes to `permission_for()`, which issues a
permission valid for 60 seconds. For every proposal the runtime passes order, books and
permission to `apply_permission()` or `execute_hybrid()`; what is allowed is split into
native legs and submitted, its authorization is registered with the audit and the native
ids are bound. Fills, cancels and confirmations come back as callbacks of one event loop.
Nothing is shared but values handed over: the hard behaviour is in *when* each of these
steps happens, not in locks.

What is hard to get right here, and which properties are aimed at it (PROJECT.json
`hazards` has the whole list with line numbers):

* *Long sequences of legal calls.* Isolation, partial recovery, re-isolation: evidence and
  cooldown must be spent once. `RecoveryEarned`, `RelaxationEarned`.
* *Observations replayed, repeated or out of order.* `NoRewind`, `ImplementsLadder`.
* *Two lists deciding severity* (trigger codes, hard blockers), with the branch order of
  `evaluate()` between them. `DemandMet`, `ConfidenceCapped`.
* *Recovery that never comes.* `QuietReachesNormal`, `IsolationEnds`.
* *Permissions that outlive the state they were issued for,* presented by an agent that may
  hold several, its own and others'. `StaleAuthorityExpires`.
* *Orders through zero, books on both sides, truncation.* `ReduceOnlyReduces`,
  `LimitsHeld`, `NoNewShort`, `ExitKept`.
* *Counters that drift over a long run.* `AuditCounters`.
* *Callbacks before registration, twice, after a cancel, after other orders' fills, and
  writes that fail.* `EligibleMeansComplete`, `RaceFlagged`, `ExceedCountedOnce`.
* *Legs that rest while governance tightens, the books move and cancels are on their way.*
  `ShutStaysShut`, `SevereShutsOpenings`, `VettedFillsKeepLimits`, `ReductionsNeverCancelled`.
* *Authority kept from before an isolation.* `ReopeningEarned`.
* *Arms of a comparison that should differ by their governance and nothing else.*
  `RetentionComparable`, `ProfilesDifferBySoftSignals`, `HardSafetyHeld`.

## 2. Modules

```
GovernanceStateMachine --- LadderRefinement ------- MC_GovernanceStateMachine
                              | INSTANCE
                           RecoveryLadder --- RecoveryProgress   (liveness)
RiskChange --- OrderGate --- OrderPath --- MC_OrderPath
        |         |
        |         +---- GovernedAgent --- MC_GovernedAgent     (EXTENDS RecoveryLadder too)
        |         +---- StaticExperiment --- MC_StaticExperiment
        |                  | INSTANCE RecoveryLadder, twice; EXTENDS FillRetention
        +---- ExecutionAudit --- MC_ExecutionAudit
```

The proofs about `M` are in `M_proofs`, which extends `M` and the proofs it cites:

```
GovernanceStateMachine_proofs --- LadderRefinement_proofs
RiskChange_proofs --- OrderGate_proofs --- OrderPath_proofs
        |                  +--- GovernedAgent_proofs
        |                  +--- StaticExperiment_proofs
        +--- ExecutionAudit_proofs
```

**GovernanceStateMachine.** The variables are the fields of
`AgentGovernanceStateMachine.__init__` and three more: `triggers`, the class of the codes the
last call returned, and two history variables, `isolation` and `heading`, the way the
severity of the state last changed. `evaluate(o)` is the disjunction of the branches of
the method in the order the code tries them; every branch contains the whole call, so the
validation, the order check, the watermark and the streak (`Accept`) are part of each, and a
call that raises is a stutter. Signals are abstracted to the side of the policy thresholds
they fall on, because `_trigger_codes` compares them with nothing else; indices, times and
outcome counts keep their values. The profile is chosen in `Init` and never changes, so one run
covers Full and Lean.

**RecoveryLadder** is the promise: six states, a saturated cooldown, saturated evidence and
a saturated streak. `LadderRefinement` gives the mapping and states `ImplementsLadder`. The
mapping of the evidence is where it could fail: in ISOLATED the code counts from
`recovery_evidence_floor` and elsewhere from `evidence_at_transition`, and the ladder knows
one count. `RecoveryProgress` adds fairness.

**RiskChange, OrderGate.** Pure definitions: books, legs, limits, the gate's quantity, the
scaled quantity and the fallback. A refusal is the quantity zero. Multipliers and caps are
percentages. Scaling is exact where the code multiplies by a binary fraction and truncates;
`int(q * 0.35)` is one below the exact product for some q (180, for one), never above, so
upper bounds carry over to the code.

**OrderPath.** One agent and one order at a time, with a clock. `Issue` is the runtime after
an evaluation; `Propose`, then `ApplyPermission`, `ExecuteHybrid` or `ExecuteFallback` (an
adapter that raised) answer under any permission the agent may present: the one in force, the
one it replaced, any that another agent was issued. The first two have raising counterparts.
Each is called with `evaluation_time` or without (`timed`). Without, the window is checked at
`proposed_at`, and the `at` of what then rests is that time: authority is bounded for
the proposal, not for the submission, which `docs/INTEGRATION.md` says too when it tells the caller
to pass the time if the gate runs materially later. `FillClosing`, `FillOpening` and
`Cancel` are the venue's. The venue, the clock and the choice of the permission are external:
modelled from how the code uses them.

**GovernedAgent** composes the parts through what they hand over. The machine is
represented by the ladder it was shown to implement. `Evaluate` is an interval together with
`permission_for()`: the permission in force is the present state and its age. The agent may
have kept one permission of before (`former`; which one is left open, and expired ones are not told apart) and `Submit` answers under
either while its window lasts at that instant (the runtime modelled here passes
`evaluation_time`, and proposes and submits in one step, so the default comes to the same),
through `HybridQuantity`; what is allowed becomes a closing
and an opening native leg in vacant slots. `Judge` is `pending_native_order_action()` for one leg:
`OpensNow` reads the leg by its native flags, `Forbidden` goes through the conditions in the order
of the code. The guard does not check a window, and neither does `Judge`; an order of
another agent, which makes it raise, is not presented. A verdict is remembered in `kept` and
forgotten as soon as books or permission change. A cancel sets `cancel`; until `Cancelled`
the leg may `Fill` like any other. `severe_for` and `debt` are history: how long governance
has been severe, and what of cooldown and evidence is still owed for the last isolation.

**FillRetention, StaticExperiment.** `Step` is one index of both harnesses, for all four arms:
the two `_single_run()` share everything up to the counters. An order is executed in two
parts, the second of nothing but at index 2; `Executed` leaves a part of nothing out. `_observation` and
`_strategist_order` are the tables of the code, the policy and the envelopes its defaults; an
observation is given by the class that the default thresholds make of it. Each of up to
`MaxChanges` intervals may bring another signal or another order than the table. The agents of
the two other roles are answered by instances of `OrderGate` with envelopes of their own.

**ExecutionAudit.** The recorder over the bridge. `Decide` and `SubmitLegs` are the
runtime's: the gate sees the books of one moment, the legs are cut from those of another
(and other orders fill in between). `record_fill` has a disjunct for each of the outcomes of
the method; `written` is whether a write to the audit directory succeeds (`Append`). Native ids
are bound with the registration or later, any of them at a time; there is one for each leg
that is not empty. `Fill`
is the venue's fill together with its callback, `Redeliver` the same callback once more.
`truth` and `lost` are history: what happened, whether anyone recorded it or not.

## 3. Runs

| Run | Shows | Instance |
| --- | --- | --- |
| `machine` | type, `RecoveryEarned`, `DemandMet`, `AuditCounters`, `ConfidenceCapped`, `NoRewind`, `RelaxationEarned`, refinement of the ladder | both profiles, cooldown 2, evidence 1, loss 2; indices 0, 1, 2, 4, 6, counts 0..3 |
| `recovery_progress` | `QuietReachesNormal`, `IsolationEnds` | both profiles, cooldown 2, evidence 2, loss 3: the whole ladder, no bound |
| `order_path` | type, `StaleAuthorityExpires`, `ReduceOnlyReduces`, `ExitKept`, `LimitsHeld`, `NoNewShort` | retail; books 0..2 on either side, NORMAL, CAUTION and RESTRICTED, market orders of 1, limit orders of 3, a quote of 3, window 1 in a clock of 2 |
| `audit` | type, `EligibleMeansComplete`, `RaceFlagged`, `ExceedCountedOnce` | one order of 3 from long 2 or 4 with every cancel, and two orders of 2 over one book in strict mode; one repeat and one failed write |
| `governed_agent` | type, `ReductionsNeverCancelled`, `ReopeningEarned`, `ShutStaysShut`, `VettedFillsKeepLimits`, `SevereShutsOpenings` | retail, Full, cooldown 1, evidence 1, loss 2; two slots, books 0..2 on either side, a market sale of 1 and a limit purchase of 2, window 1 |
| `static_experiment` | type, `HardSafetyHeld`, `RetentionComparable`, `ProfilesDifferBySoftSignals` | all 18 indices with the code's own quantities, policy and envelopes; any two observations or orders exchanged |
| `recovery_not_always_earned`, `exit_blocked`, `fallback_reverses`, `reissue_then_retry`, `guard_race_lost`, `refusal_undone` | the disagreements of section 6 | as the runs above, smaller for the audit |

Why the bounds are enough. In `machine` an isolation, its cooldown, two stages, a second
isolation and another re-entry take index 6 and three outcomes at least; the observations hold one
representative of each class of signals and one of each clause `validate()` refuses, and are
offered at every index and count, so repeats and replays are all there. The indices hold
steps of one, which stay within a cooldown, and jumps that end it. `MaxStreak` is one
above the persistent loss. The stream ends when the indices do, so deadlock is not checked
there. Recovery's own arithmetic does not depend on these sizes: it is proved. In
`order_path` a quantity of 3 crosses zero from every book and of 1 from none but the flat one;
a window of 1 in a clock of 2 leaves room for a permission to be live, replaced and stale, and for a
proposal to be older than its answer by either. The three states are one that grants everything, one that
scales and one that only reduces; the theorems of section 4 cover all six. `MaxFill`,
`MaxBook` and `MaxOrders` bound one fill, the books and the orders of an interval. In `audit`
a quantity of 3 gives three partial fills on one leg and both legs from a long of 2, and with two
orders two units each are what it takes for an order to exceed its authorized opening in
two separate fills. There one write fails at most (`lost => written` in `Next`):
a second failure finds the audit already invalid. One callback comes again at most, at any
time until the next fill: what it finds is a key already seen, which a third arrival would find too. In `governed_agent` a purchase of 2 closes and
opens in one order from a short of 1, two slots hold two openings that only together break a
limit, and the window of 1 lets a permission be kept across an evaluation and expire after it;
`Slots` and `MaxBook` bound the model. In `static_experiment` nothing is scaled down; two exchanges are
enough to take both soft signals out of the schedule, to add an isolation to it, or to put
another order into one. A run ends with its schedule, so deadlock is not checked there.

Fairness. Safety needs none. `RecoveryProgress` assumes weak fairness of an evaluation that
advances both the governance index and the count of completed outcomes. This is an assumption about the
environment: evaluation is the runtime's to call and outcomes are the market's to complete, and
nothing in the package makes either happen. Nothing is assumed of the
signals: the properties say what follows *if* they stay quiet, or stay free of hard ones.
`GovernedAgent` assumes that the clock runs, that the runtime has each resting leg judged again and
again, which is what the guard is there for (`pending_guard.py:1`, "Revalidate resting native
orders against the live independent books"), and that the venue answers each cancel; it assumes
nothing of evaluations, of the agent or of fills.

## 4. Proofs

`GovernanceStateMachine_proofs` (any observations, both profiles, any policy parameters):

* `TypeCorrect`: `Spec => []TypeOK`.
* `RecoveryIsEarned`: `Spec => []RecoveryEarned`. The property alone is not inductive: it
  speaks of the authority regained, not of what the next relaxation will be measured from.
  `RecoveryInv` adds that the last transition, its evidence and the recovery floor are never
  ahead of the last accepted observation; that only an agent that was isolated is isolated
  or in re-entry; and that in ISOLATED floor and cooldown run from the isolation itself.
  `EvaluateShape` first reduces every branch of `evaluate()` to a hold or one of five moves
  (isolate, leave ISOLATED, cap a re-entry at CAUTION, tighten, relax), and the invariant is
  then proved move by move.
* `SoftSignalsAreCapped`, `NothingRewinds`, `RelaxationIsEarned`: the three action properties
  `ConfidenceCapped`, `NoRewind` and `RelaxationEarned`, from `EvaluateShape` and `RecoveryInv`.
  `HardDemand` is the arithmetic below the first: no demand of severity 2 or more comes
  without a hard blocker, however the rules are combined.
* `DemandIsMet`: `Spec => []DemandMet`, call by call. `Demands` says what each class of triggers
  asks for, `CautionAnswers` and `OrdinaryAnswers` what a branch must do to have given it, and
  `DemandEvaluate` finds each of the nine branches under one of them.
* `CountersAreTrue`: `Spec => AuditCounters`, an action property: what a call adds to each counter is
  what happened in it. `Counted` says what a move does to the counters, `MoveCounts` that it is that
  much for every pair of states, and `MoveHeads`, with the invariant `Headed`, that the direction
  the code remembers is the way the severity last changed, which is what a reversal is measured against.

`OrderPath_proofs` (any role, envelope, price, window, proposals and books; the bounds of
the model are arbitrary natural numbers):

* `PathTypeCorrect`, `StaleAuthority`: the two invariants of the run. `IInv` adds that the
  permission in force is severe whenever `severe_since` is set, that a replaced one that is not
  severe is at least as old (`Tightened`), and that no proposal is of a time to come, so
  that the default evaluation time is no later than the present (`Rested`);
  without it `StaleAuthorityExpires` says nothing of the permissions still to be presented.
* `SevereOnlyReduces`: what rests under a severe state opens nothing, closes no more than its book
  holds and, if the gate allowed it, no more than the net position holds (`OnlyCloses`). This is
  kept by every fill (`SevereFill`), which is why parts add up as the whole would; `SevereGateNets`
  gives it for the gate's answer.
* `OpeningsKeepLimits`, `ExitsPassWhole`, `NoShortWithoutLeave`: the other three action properties.
  They follow from type correctness and from lemmas about the gate's quantity
  (`SevereGateCloses`, `SevereGateNets`, `OpeningAnswer`, `OpeningWithinLimit`, `ScaledDown`): the gate sees
  the net of two books and the venue splits over both, and these lemmas are what
  connects the two.

`LadderRefinement_proofs` (any observations, both profiles, any policy parameters):

* `MachineImplementsLadder`: `Spec => ImplementsLadder`, where the ladder is instantiated under
  the mapping of `LadderRefinement`. `LadderInitially` maps the initial states; `LadderStep`
  maps every call to a ladder interval with the class of its signals, the advance of the index
  and the newly completed outcomes, or to a stutter. Below it `CooldownRunsDown`,
  `EvidenceComesIn` and `GapGrows` say that the saturated counts of the ladder follow the
  unbounded ones of the code, `ClassIsHard` and `ClassActs` that trigger codes and hard blockers
  agree with the ladder's one class, and `EvaluateTarget` that each branch ends on the ladder's
  target. It needs `RecoveryInv`: the last transition is never ahead of the last accepted
  observation, so nothing saturates below zero, and in ISOLATED the recovery floor is the count at
  the last transition, so the two counts of evidence in the code can be one in the ladder.

`RiskChange_proofs`, `OrderGate_proofs`: the lemmas about the pure operators, stated once for
all modules built on them. `Split` is what closing and opening add up to, `LegMoves` what a native leg
does to two books, `LegObserved` that what the audit reads from the books before and after a fill
is that leg; `AnswerType`, `AnswerWithinOrder`, `SevereOpensNothing` and `OpeningWithinLimit` bound
what gate, scaled gate and fallback answer.

`GovernedAgent_proofs` (any role, envelope, policy, signals, proposals, slots, window and books):

* `AgentTypeCorrect`, `ReductionsStay`: the two invariants. `IInv` adds the bounds of the
  ladder's counts, and three facts the action properties need: `Timed` (the clock of severity runs
  just while governance is severe, and a permission of before that could open is at least as
  old), `Repaid` (outside ISOLATED nothing is owed, and inside no more than the ladder still waits for)
  and `Vetted` (a leg marked as kept could be executed in full on the present books within the
  limits).
* `ReopeningIsEarned`, `ShutForAsLongAsSevere`: an opening comes only from `Submit`, under a
  permission that is not severe and still live (`PresentedInTime`); by `Timed` that leaves one
  window, by `Repaid` it leaves a state in which the debt is paid.
* `VettedFillsFit`: from `Vetted`; a part of a leg moves gross and net no further than the whole.

`ExecutionAudit_proofs` (any orders, quantities, books, cancellers, either mode, any number of
repeats):

* `AuditTypeCorrect`, `EligibleIsComplete`, `RacesAreCounted`, `ExceedsAreCountedOnce`. None of the
  last three is inductive. `IInv` adds that an order is decided, rests, is registered and is bound
  in this order (`Registered`); that what is booked and what still rests stay within the
  order (`Budget`, which is what makes every fill fit the bridge's checks); that a key seen
  before is never the key of a new fill, and the last message's key is always among them (`Keyed`);
  that the bridge knows of a cancel, and marks an order as exceeding, exactly when it happened
  (`CancelsNoted`, `ExceedsNoted`). `Certified` then relates record and truth fill by fill, and only
  while the audit is valid. `UnbookedFillKeeps` covers the outcomes of `record_fill` that end
  validity, `BookedFillKeeps` the one that books.

`StaticExperiment_proofs` (any envelopes, price, policy, last index, and schedules with any number
of exchanges for any orders and signals):

* `ArmTypeCorrect`, `ArmsAreSafe`, `RatesAreComparable`: from `Sound`, what an arm's portfolio,
  counters and ledger satisfy after i indices. `AllowedWithin` brings the gate in: within the
  order, in a severe state within the opposite book, and never zero for a reduction behind the
  gate, for which the book must be one-sided; `BookAfter` keeps it so. `PartExecuted` is one
  fill, used twice for an order in parts. The filled orders are indices already passed, so that the next
  one is new to the ledger.
* `SameUntilSoftSignal`: the two controllers and the two arms are equal (`Alike`), because every
  class but a soft one moves both profiles alike (`MovedAlike`) and an arm's answer does not depend
  on its name (`IteratedAlike`).

Each of these invariants was checked by TLC on the instance of its run before it was proved. The
assumptions are those of the modules: `EnvelopeAssumption` (natural limits, positive price),
`OrderPathAssumption`, `ObservationsAssumption`, `ProfileAssumption`, `ParametersAssumption`,
`LadderAssumption`, `GovernedAgentAssumption`, `ExecutionAuditAssumption`, `NoneAssumption` (the absent value
is no decision, resting order or record), and `StaticAssumption`. TLC evaluates each of them on the instances above.

What stays with TLC. Every invariant and every action property of a passing run is proved; the
three liveness properties, `QuietReachesNormal`, `IsolationEnds` and `SevereShutsOpenings`, are
checked only: they need fairness, so ENABLED, which the prover does not handle. What a recursive
definition computes for every input would need induction over data with an operator parameter,
which no installed backend instantiates; no theorem here rests on one, because the models write a
fold over the one or two parts of an order out. The six disagreements that section 6 has runs for are
counterexamples, which a finite instance is enough for.

## 5. What is not modelled

* Thresholds, prices and wording: a signal is a level, a permission is its agent, state and
  start, a reason code is left out. One price applies to every order of a run.
* `OrderPath` handles one proposal and one resting order at a time; `GovernedAgent` has several
  legs and no account of who allowed them. Orders are not counted per interval there, and none is
  answered later than it is proposed: a runtime that keeps a proposal and leaves `evaluation_time` out
  is in `OrderPath` only, so `ReopeningEarned` and `ShutStaysShut` are not claimed of it.
* `pending_order_action`, which judges a whole resting order by the net position and checks the
  permission at the time the order was proposed, so that a permission issued since raises
  PermissionExpiredError instead of cancelling. `pending_native_order_action` does its work for
  native legs.
* `eligible_completed_outcomes`: a filter over rows that only the runtime calls. The models
  take the number of completed outcomes as input, in any order and repeated.
* Permissions: the decision-id digest and input validation; `allow_cancel_order`,
  `allow_leverage_increase` and `allow_limit_order` take one value in every state.
* Audit: exposure-limit breaches and the state at execution, which are copied into events;
  file names, hashes and environment variables; message-content fill keys, for which the model
  has sequence numbers, as the order-book venue does; native ids used twice. A tuple of native ids that is refused part way leaves
  the ids before the bad one bound in the bridge and not in the recorder; the model keeps the
  recorder's account, and the audit is invalid from then on. A native id equal to the logical id,
  which needs no binding, is one that is bound with its registration. `close(strict=True)` raises
  where `close()` returns an invalid report; the model calls both refused.
* A cancel noted before its native id is bound is dropped by the code without a trace. The
  model has no step for it, so `RaceFlagged` speaks of the cancels that were noted.
* Of the static experiments the price walk, and with it equity, drawdown and exposure; the
  occupancies, delays and the averages over seeds. The skew matrix: a fixed table of cases for
  the guard.

A caller that leaves `evaluation_time` out may submit under a permission that has run out since the
proposal. `docs/INTEGRATION.md:30-31` documents the default and tells callers when to pass the time, although
`SECURITY.md` counts a permission usable outside its window as a defect; the models take the
documented default as the contract.

Three things a reader of the code may not expect, which no document contradicts: a quote is never
tested for opening short; the guard keeps a closing leg on a two-sided book even where closing it widens the net position, so
`VettedFillsKeepLimits` speaks of openings; and Lean, which stays out of CAUTION, may be in a
more severe state than Full later on, so the profiles are compared only while no soft signal
has come.

## 6. Disagreements between code and documents

The first six are runs that end in a counterexample; PROJECT.json `findings` quotes the lines.

1. `recovery_not_always_earned`: a soft warning takes STAGED_REENTRY_1 to CAUTION, a wider
   authority, with neither cooldown nor evidence (`state_machine.py:539`).
2. `exit_blocked`: outside the severe states the scalar fallback scales reductions too, and
   one unit becomes none (`hybrid.py:74`).
3. `fallback_reverses`: in a severe state the fallback clips to the opposite book, not to the net
   position, and over two-sided books reverses it (`hybrid.py:66`).
4. `reissue_then_retry`: a proposal retried under a re-issued permission expires again, because
   the gate is not given the evaluation time (`hybrid.py:124`).
5. `guard_race_lost`: a routine cancel after the guard's on the same native order hides the
   race the guard lost (`runtime_binding.py:435`).
6. `refusal_undone`: when the integrity file cannot be written `close()` refuses to certify,
   and the next `close()` certifies (`runtime_binding.py:658`).

Two more are plain from one branch of the code and have no run:

* The repository's `README.md:84-86` says that recovery "returns through staged re-entry rather than a single
  jump". With a soft or a confidence warning on, an isolated agent that has paid goes to CAUTION in
  one transition (`state_machine.py:527`). `RecoveryEarned` says what that path costs.
* Its `README.md:91` says that confidence-only signals are "capped at `CAUTION`". They never take an agent
  further (`ConfidenceCapped`), but one that persists holds an agent in RESTRICTED, by hysteresis,
  for as long as it does (`state_machine.py:553`). `IsolationEnds` shows that it does not
  hold one in ISOLATED or in re-entry.

## 7. Plan

Order of work, most important behaviour first; done parts are marked.

1. *(done)* State machine, ladder, refinement, liveness; type correctness, what
   recovery costs, demands, counters and three action properties proved.
2. *(done)* Books, gate, hybrid, order path; all of its properties proved.
3. *(done)* Recorder and bridge between runtime and venue.
4. *(done)* Several resting legs and the guard, composed with state machine and gate.
5. *(done)* Fill retention and the paired experiments.
6. *(done)* The refinement of the ladder, and the properties of the governed agent, the audit and the
   experiments, proved.
7. `pending_order_action`, if the runtime is found to use it beside the native guard.
