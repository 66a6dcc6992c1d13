-------------------- MODULE GovernanceStateMachine_proofs --------------------
(***************************************************************************)
(* Proofs about GovernanceStateMachine, for every set of observations,     *)
(* both profiles and all values of the policy parameters.                  *)
(***************************************************************************)
EXTENDS LadderRefinement, TLAPS

Direct == {"ESCALATE", "DEESCALATE"}

-----------------------------------------------------------------------------
(* The observations. *)

\* An accepted observation has natural index and count, no smaller than before.
LEMMA AcceptedFacts ==
    ASSUME NEW o \in Observations, TypeOK, Accept(o)
    PROVE  /\ o \in Observation
           /\ o.index \in Nat
           /\ o.time \in Nat
           /\ o.completed \in Nat
           /\ o.index >= last_observation.index
           /\ o.completed >= last_observation.completed
           /\ last_observation'.index = o.index
           /\ last_observation'.completed = o.completed
  <1>1. o \in Observation
    BY ObservationsAssumption
  <1>2. o.index \in Int /\ o.time \in Nat /\ o.completed \in Int
    BY <1>1 DEF Observation
  <1>3. /\ o.index >= 0 /\ o.completed >= 0
        /\ o.index >= last_observation.index
        /\ o.completed >= last_observation.completed
        /\ last_observation' = [index |-> o.index, time |-> o.time, completed |-> o.completed]
    BY DEF Accept, Valid, InOrder
  <1>4. last_observation'.index = o.index /\ last_observation'.completed = o.completed
    BY <1>3
  <1>5. o.index \in Nat /\ o.completed \in Nat
    BY <1>2, <1>3
  <1> QED
    BY <1>1, <1>2, <1>3, <1>4, <1>5

\* The classes of trigger codes are told apart.
LEMMA TriggerClasses ==
    ASSUME NEW o \in Observations
    PROVE  TriggerClass(o) \in {"none", "confidence", "soft", "missing", "severe", "override"}
  BY DEF TriggerClass

\* The streak of missing telemetry is counted in natural numbers.
LEMMA MissingStreakType ==
    ASSUME NEW o, missing_streak \in Nat
    PROVE  MissingStreak(o) \in Nat
  <1>1. CASE o.missing
    BY <1>1 DEF MissingStreak
  <1>2. CASE ~o.missing
    BY <1>2 DEF MissingStreak
  <1> QED  BY <1>1, <1>2

\* A transition has one of three directions.
LEMMA Directions ==
    ASSUME NEW target \in GovernanceState, state \in GovernanceState
    PROVE  Direction(target) \in Direct \cup {"LATERAL"}
  <1>1. \A s \in GovernanceState : Severity[s] \in 0..3
    BY DEF Severity, GovernanceState
  <1> QED  BY <1>1 DEF Direction, Direct

-----------------------------------------------------------------------------
(* Every branch of evaluate() is a hold or one transition. *)

\* Where a call that changes state takes it, and what it must have seen to.
Moves(o, target) ==
    /\ Accept(o)
    /\ Transition(target, o)
    /\ target \in {"RESTRICTED", "ISOLATED"} => HardBlocker(o)
    /\ \/ target = "ISOLATED" /\ state # "ISOLATED"
       \/ /\ state = "ISOLATED"
          /\ target \in {"CAUTION", "STAGED_REENTRY_1"}
          /\ RecoveryEvidenceReady(o)
          /\ CooldownReady(o)
       \/ state \in Staged /\ target = "CAUTION"
       \/ /\ state # "ISOLATED"
          /\ target \in {"CAUTION", "RESTRICTED"}
          /\ Severity[target] > Severity[state]
       \/ /\ state \in GovernanceState \ {"NORMAL", "ISOLATED"}
          /\ target = RelaxTo[state]
          /\ EvidenceReady(o)
          /\ CooldownReady(o)

\* The table of severities.
LEMMA Severities ==
    /\ Severity["NORMAL"] = 0 /\ Severity["ISOLATED"] = 3
    /\ Severity["CAUTION"] = 1 /\ Severity["STAGED_REENTRY_2"] = 1
    /\ Severity["RESTRICTED"] = 2 /\ Severity["STAGED_REENTRY_1"] = 2
  BY DEF Severity, GovernanceState

\* An emergency has a hard blocker, and so has every demand of severity 2 or more.
LEMMA HardDemand ==
    ASSUME TypeOK, NEW o \in Observations
    PROVE  /\ RequiredSeverity(o) \in 0..3
           /\ EffectiveSeverity(o) \in {0, RequiredSeverity(o)}
           /\ RequiredSeverity(o) >= 2 => HardBlocker(o)
           /\ Emergency(o) => HardBlocker(o)
  <1>1. MissingStreak(o) >= PersistentLoss => o.missing
    BY ParametersAssumption DEF MissingStreak
  <1>2. MissingStreak(o) \in Nat
    BY MissingStreakType DEF TypeOK
  <1>3. CASE MissingStreak(o) >= PersistentLoss
    <2>1. RequiredSeverity(o) = 3
      BY <1>3, <1>2, ParametersAssumption DEF RequiredSeverity
    <2> QED  BY <1>1, <1>3, <2>1 DEF HardBlocker, EffectiveSeverity
  <1>4. CASE MissingStreak(o) < PersistentLoss /\ SevereTrigger(o)
    <2>1. RequiredSeverity(o) = 2
      BY <1>4, <1>2, ParametersAssumption DEF RequiredSeverity
    <2> QED  BY <1>4, <2>1 DEF HardBlocker, EffectiveSeverity
  <1>5. CASE MissingStreak(o) < PersistentLoss /\ ~SevereTrigger(o)
    <2>1. RequiredSeverity(o) = IF IndependentTrigger(o) \/ CalibrationTrigger(o) THEN 1 ELSE 0
      BY <1>5, <1>2, ParametersAssumption DEF RequiredSeverity
    <2>2. RequiredSeverity(o) \in {0, 1}
      BY <2>1
    <2> QED  BY <2>2 DEF EffectiveSeverity, Emergency, HardBlocker
  <1> QED
    BY <1>2, <1>3, <1>4, <1>5, ParametersAssumption DEF Emergency, HardBlocker

LEMMA EvaluateShape ==
    ASSUME TypeOK, NEW o \in Observations, evaluate(o)
    PROVE  \/ Accept(o) /\ Hold
           \/ \E target \in GovernanceState : Moves(o, target)
  <1>1. CASE EmergencyIsolate(o)
    <2>1. Moves(o, "ISOLATED")  BY <1>1, HardDemand DEF EmergencyIsolate, Moves
    <2> QED  BY <2>1 DEF GovernanceState
  <1>2. CASE ReisolateDuringReentry(o)
    <2>1. Moves(o, "ISOLATED")  BY <1>2 DEF ReisolateDuringReentry, Moves, Staged
    <2> QED  BY <2>1 DEF GovernanceState
  <1>3. CASE LeaveIsolation(o)
    <2>1. RecoveryTarget(o) \in {"CAUTION", "STAGED_REENTRY_1"}  BY DEF RecoveryTarget
    <2>2. Moves(o, RecoveryTarget(o))  BY <1>3, <2>1 DEF LeaveIsolation, Moves
    <2> QED  BY <2>1, <2>2 DEF GovernanceState
  <1>4. CASE HoldIsolated(o)
    BY <1>4 DEF HoldIsolated
  <1>5. CASE SoftWarningDuringReentry(o)
    <2>1. Moves(o, "CAUTION")  BY <1>5 DEF SoftWarningDuringReentry, Moves, Staged
    <2> QED  BY <2>1 DEF GovernanceState
  <1>6. CASE Escalate(o)
    <2>1. EscalationTarget(o) \in {"CAUTION", "RESTRICTED"}  BY DEF EscalationTarget
    <2>2. /\ state \in GovernanceState \ {"ISOLATED"} /\ RequiredSeverity(o) # 3
          /\ EffectiveSeverity(o) > Severity[state]
      BY <1>6 DEF Escalate, Ordinary, Emergency, TypeOK
    <2>3. EffectiveSeverity(o) \in 0..2 /\ Severity[state] \in 0..2
      BY <2>2, HardDemand, Severities DEF GovernanceState
    <2>4. ASSUME EffectiveSeverity(o) = 2 PROVE Moves(o, EscalationTarget(o))
      <3>1. EscalationTarget(o) = "RESTRICTED"
        BY <2>4 DEF EscalationTarget
      <3>2. HardBlocker(o)
        BY <2>4, HardDemand
      <3> QED  BY <1>6, <2>2, <2>4, <3>1, <3>2, Severities DEF Escalate, Moves
    <2>5. ASSUME EffectiveSeverity(o) = 1 PROVE Moves(o, EscalationTarget(o))
      <3>1. EscalationTarget(o) = "CAUTION"
        BY <2>5 DEF EscalationTarget
      <3> QED  BY <1>6, <2>2, <2>5, <3>1, Severities DEF Escalate, Moves
    <2>6. EffectiveSeverity(o) \in {1, 2}
      BY <2>2, <2>3
    <2>7. Moves(o, EscalationTarget(o))
      BY <2>4, <2>5, <2>6
    <2> QED  BY <2>1, <2>7 DEF GovernanceState
  <1>7. CASE HoldHysteresis(o)
    BY <1>7 DEF HoldHysteresis
  <1>8. CASE Relax(o)
    <2>1. state \in GovernanceState \ {"NORMAL", "ISOLATED"}
      BY <1>8 DEF Relax, Quiet, Ordinary, TypeOK
    <2>2. RelaxTo[state] \in {"STAGED_REENTRY_2", "NORMAL", "CAUTION"}
      BY <2>1 DEF RelaxTo, GovernanceState
    <2>3. Moves(o, RelaxTo[state])
      BY <1>8, <2>1, <2>2 DEF Relax, Moves
    <2> QED  BY <2>2, <2>3 DEF GovernanceState
  <1>9. CASE HoldQuiet(o)
    BY <1>9 DEF HoldQuiet
  <1> QED
    BY <1>1, <1>2, <1>3, <1>4, <1>5, <1>6, <1>7, <1>8, <1>9 DEF evaluate

-----------------------------------------------------------------------------
(* Type correctness. *)

LEMMA TypeInit == Init => TypeOK
  <1> SUFFICES ASSUME Init PROVE TypeOK
    OBVIOUS
  <1>1. /\ last_observation \in [index : Nat, time : Nat, completed : Nat]
        /\ isolation \in [index : Nat, completed : Nat]
        /\ heading \in {-1, 0, 1}
    BY DEF Init
  <1> QED  BY <1>1 DEF Init, TypeOK, GovernanceState

LEMMA TypeHold ==
    ASSUME TypeOK, NEW o \in Observations, Accept(o), Hold
    PROVE  TypeOK'
  <1>1. last_observation' \in [index : Nat, time : Nat, completed : Nat]
    BY AcceptedFacts DEF Accept
  <1>2. missing_streak' \in Nat
    BY MissingStreakType DEF Accept, TypeOK
  <1> QED
    BY <1>1, <1>2, TriggerClasses DEF TypeOK, Hold, Accept

LEMMA TypeTransition ==
    ASSUME TypeOK, NEW o \in Observations, NEW target \in GovernanceState,
           Accept(o), Transition(target, o)
    PROVE  TypeOK'
  <1>1. last_observation' \in [index : Nat, time : Nat, completed : Nat]
    BY AcceptedFacts DEF Accept
  <1>2. missing_streak' \in Nat
    BY MissingStreakType DEF Accept, TypeOK
  <1>3. isolation' \in [index : Nat, completed : Nat] /\ heading' \in {-1, 0, 1}
    BY AcceptedFacts DEF Transition, TypeOK
  <1>4. reversal_count' \in Nat /\ transition_count' \in Nat /\ recovery_epoch' \in Nat
    <2>1. reversal_count \in Nat /\ transition_count \in Nat /\ recovery_epoch \in Nat
      BY DEF TypeOK
    <2>2. /\ transition_count' = transition_count + 1
          /\ reversal_count' = reversal_count + (IF Reverses(Direction(target)) THEN 1 ELSE 0)
          /\ recovery_epoch' \in {recovery_epoch, recovery_epoch + 1}
      BY DEF Transition
    <2>3. reversal_count' \in {reversal_count, reversal_count + 1}
      <3>1. CASE Reverses(Direction(target))   BY <2>1, <2>2, <3>1
      <3>2. CASE ~Reverses(Direction(target))  BY <2>1, <2>2, <3>2
      <3> QED  BY <3>1, <3>2
    <2> QED  BY <2>1, <2>2, <2>3
  <1>5. last_transition_direction' \in {""} \cup Direct
    BY Directions DEF Transition, TypeOK, Direct
  <1>6. state' \in GovernanceState /\ ever_isolated' \in BOOLEAN
    BY DEF Transition, TypeOK
  <1>7. /\ last_transition_index' \in Nat
        /\ evidence_at_transition' \in Nat
        /\ recovery_evidence_floor' \in Nat
    BY AcceptedFacts DEF Transition, TypeOK
  <1> QED
    BY <1>1, <1>2, <1>3, <1>4, <1>5, <1>6, <1>7, TriggerClasses DEF TypeOK, Accept, Direct

LEMMA TypeStep == TypeOK /\ [Next]_vars => TypeOK'
  <1> SUFFICES ASSUME TypeOK, [Next]_vars PROVE TypeOK'
    OBVIOUS
  <1>1. CASE Next
    <2>1. PICK o \in Observations : evaluate(o)  BY <1>1 DEF Next
    <2>2. CASE Accept(o) /\ Hold  BY <2>2, TypeHold
    <2>3. ASSUME NEW target \in GovernanceState, Moves(o, target) PROVE TypeOK'
      BY <2>3, TypeTransition DEF Moves
    <2> QED  BY <2>1, <2>2, <2>3, EvaluateShape
  <1>2. CASE UNCHANGED vars
    BY <1>2 DEF TypeOK, vars
  <1> QED  BY <1>1, <1>2

\* The fields of the machine keep their types.
THEOREM TypeCorrect == Spec => []TypeOK
  BY TypeInit, TypeStep, PTL DEF Spec

-----------------------------------------------------------------------------
(* Recovery is earned. *)

\* The inductive invariant: transitions happen at observations already accepted, only an
\* agent that was isolated is isolated or in re-entry, and in ISOLATED the recovery floor
\* and the cooldown run from the isolation itself.
RecoveryInv ==
    /\ TypeOK
    /\ last_transition_index <= last_observation.index
    /\ evidence_at_transition <= last_observation.completed
    /\ recovery_evidence_floor <= last_observation.completed
    /\ state = "ISOLATED" \/ state \in Staged => ever_isolated
    /\ state = "ISOLATED" => /\ isolation.index = last_transition_index
                             /\ isolation.completed = evidence_at_transition
    /\ RecoveryEarned

\* The types the arithmetic of recovery needs.
LEMMA RecoveryTypes ==
    ASSUME TypeOK
    PROVE  /\ last_transition_index \in Nat /\ evidence_at_transition \in Nat
           /\ recovery_evidence_floor \in Nat
           /\ last_observation.index \in Nat /\ last_observation.completed \in Nat
           /\ isolation.index \in Nat /\ isolation.completed \in Nat
           /\ CooldownIntervals \in Nat /\ MinNewOutcomes \in Nat
           /\ state \in GovernanceState
  BY ParametersAssumption DEF TypeOK

LEMMA RecoveryInit == Init => RecoveryInv
  <1> SUFFICES ASSUME Init PROVE RecoveryInv
    OBVIOUS
  <1>1. TypeOK
    BY TypeInit
  <1>2. last_observation.index = 0 /\ last_observation.completed = 0
    BY DEF Init
  <1>3. /\ state = "NORMAL" /\ ~ever_isolated
        /\ last_transition_index = 0 /\ evidence_at_transition = 0
        /\ recovery_evidence_floor = 0
    BY DEF Init
  <1> QED  BY <1>1, <1>2, <1>3 DEF RecoveryInv, RecoveryEarned, Staged

\* An observation that changes nothing but the watermark.
LEMMA RecoveryHold ==
    ASSUME RecoveryInv, NEW o \in Observations, Accept(o), Hold
    PROVE  RecoveryInv'
  <1>1. TypeOK'
    BY TypeHold DEF RecoveryInv
  <1>2. /\ last_transition_index' <= last_observation'.index
        /\ evidence_at_transition' <= last_observation'.completed
        /\ recovery_evidence_floor' <= last_observation'.completed
    BY AcceptedFacts, RecoveryTypes DEF RecoveryInv, Hold
  <1>3. RecoveryEarned'
    BY DEF RecoveryInv, RecoveryEarned, Hold
  <1> QED
    BY <1>1, <1>2, <1>3 DEF RecoveryInv, Hold

\* Isolating restarts the floor and the cooldown from this observation.
LEMMA RecoveryIsolate ==
    ASSUME RecoveryInv, NEW o \in Observations, Accept(o), Transition("ISOLATED", o)
    PROVE  RecoveryInv'
  <1>1. TypeOK'
    BY TypeTransition DEF RecoveryInv, GovernanceState
  <1>2. /\ state' = "ISOLATED"
        /\ last_transition_index' = o.index
        /\ evidence_at_transition' = o.completed
        /\ recovery_evidence_floor' = o.completed
        /\ isolation' = [index |-> o.index, completed |-> o.completed]
        /\ ever_isolated'
    BY DEF Transition, ResetsRecovery
  <1>3. isolation'.index = o.index /\ isolation'.completed = o.completed
    BY <1>2
  <1>4. /\ last_transition_index' <= last_observation'.index
        /\ evidence_at_transition' <= last_observation'.completed
        /\ recovery_evidence_floor' <= last_observation'.completed
    BY <1>2, AcceptedFacts DEF RecoveryInv
  <1>5. RecoveryEarned'
    BY <1>2, <1>3 DEF RecoveryEarned
  <1> QED
    BY <1>1, <1>2, <1>3, <1>4, <1>5 DEF RecoveryInv

\* Any other transition leaves the isolation on record as it was.
LEMMA RecoveryMove ==
    ASSUME RecoveryInv, NEW o \in Observations,
           NEW target \in GovernanceState, target # "ISOLATED", Moves(o, target)
    PROVE  RecoveryInv'
  <1>1. TypeOK'
    BY TypeTransition DEF RecoveryInv, Moves
  <1>2. /\ state' = target
        /\ last_transition_index' = o.index
        /\ evidence_at_transition' = o.completed
        /\ recovery_evidence_floor' = recovery_evidence_floor
        /\ isolation' = isolation
        /\ ever_isolated' = ever_isolated
    BY DEF Moves, Transition, ResetsRecovery, RecoveryInv, TypeOK
  <1>3. /\ o.index \in Nat /\ o.completed \in Nat
        /\ o.index >= last_observation.index
        /\ o.completed >= last_observation.completed
        /\ last_observation'.index = o.index
        /\ last_observation'.completed = o.completed
    BY AcceptedFacts DEF RecoveryInv, Moves
  <1>4. o.index >= last_transition_index /\ o.completed >= evidence_at_transition
    BY <1>3, RecoveryTypes DEF RecoveryInv
  <1>5. target \in Staged => ever_isolated
    BY DEF Moves, RecoveryInv, RelaxTo, GovernanceState, Staged
  <1>6. ASSUME ever_isolated
        PROVE  /\ o.completed - isolation.completed >= MinNewOutcomes
               /\ o.index - isolation.index >= CooldownIntervals
               /\ target \in {"STAGED_REENTRY_2", "NORMAL"} =>
                     /\ o.completed - isolation.completed >= 2 * MinNewOutcomes
                     /\ o.index - isolation.index >= 2 * CooldownIntervals
    <2>1. CASE state = "ISOLATED"
      <3>1. /\ o.completed - recovery_evidence_floor >= MinNewOutcomes
            /\ o.index - last_transition_index >= CooldownIntervals
            /\ target \in {"CAUTION", "STAGED_REENTRY_1"}
        BY <2>1 DEF Moves, RecoveryEvidenceReady, CooldownReady, RelaxTo, Staged
      <3> QED
        BY <1>6, <2>1, <3>1, RecoveryTypes DEF RecoveryInv, RecoveryEarned
    <2>2. CASE state # "ISOLATED"
      <3>1. /\ evidence_at_transition - isolation.completed >= MinNewOutcomes
            /\ last_transition_index - isolation.index >= CooldownIntervals
        BY <1>6, <2>2 DEF RecoveryInv, RecoveryEarned
      <3>2. target \in {"STAGED_REENTRY_2", "NORMAL"} =>
                /\ o.completed - evidence_at_transition >= MinNewOutcomes
                /\ o.index - last_transition_index >= CooldownIntervals
        BY <2>2 DEF Moves, EvidenceReady, CooldownReady
      <3> QED
        BY <1>3, <1>4, <3>1, <3>2, RecoveryTypes DEF RecoveryInv
    <2> QED  BY <2>1, <2>2
  <1>7. RecoveryEarned'
    BY <1>2, <1>6 DEF RecoveryEarned, RecoveryInv
  <1> QED
    BY <1>1, <1>2, <1>3, <1>5, <1>7, RecoveryTypes DEF RecoveryInv

LEMMA RecoveryStep == RecoveryInv /\ [Next]_vars => RecoveryInv'
  <1> SUFFICES ASSUME RecoveryInv, [Next]_vars PROVE RecoveryInv'
    OBVIOUS
  <1>1. CASE Next
    <2>1. PICK o \in Observations : evaluate(o)  BY <1>1 DEF Next
    <2>2. CASE Accept(o) /\ Hold  BY <2>2, RecoveryHold
    <2>3. ASSUME NEW target \in GovernanceState, Moves(o, target) PROVE RecoveryInv'
      <3>1. CASE target = "ISOLATED"  BY <2>3, <3>1, RecoveryIsolate DEF Moves
      <3>2. CASE target # "ISOLATED"  BY <2>3, <3>2, RecoveryMove
      <3> QED  BY <3>1, <3>2
    <2> QED  BY <2>1, <2>2, <2>3, EvaluateShape DEF RecoveryInv
  <1>2. CASE UNCHANGED vars
    BY <1>2 DEF RecoveryInv, RecoveryEarned, TypeOK, vars
  <1> QED  BY <1>1, <1>2

LEMMA RecoveryInvariant == Spec => []RecoveryInv
  BY RecoveryInit, RecoveryStep, PTL DEF Spec

\* Whatever the signals, authority regained after an isolation was earned.
THEOREM RecoveryIsEarned == Spec => []RecoveryEarned
  BY RecoveryInvariant, PTL DEF RecoveryInv

-----------------------------------------------------------------------------
(* What no single call may do. *)

\* A move changes the state.
LEMMA MovesLeave ==
    ASSUME TypeOK, NEW o \in Observations, NEW target \in GovernanceState, Moves(o, target)
    PROVE  target # state
  BY Severities DEF Moves, RelaxTo, GovernanceState, Staged

\* An action property of the machine follows from what holds of a hold and of a move.
LEMMA StepShape ==
    ASSUME TypeOK, [Next]_vars
    PROVE  \/ UNCHANGED vars
           \/ \E o \in Observations : Accept(o) /\ Hold
           \/ \E o \in Observations, target \in GovernanceState : Moves(o, target)
  BY EvaluateShape DEF Next

\* For every policy: a signal that is not hard never takes an agent into RESTRICTED or
\* ISOLATED, the confidence it reports about itself least of all.
THEOREM SoftSignalsAreCapped == Spec => ConfidenceCapped
  <1>1. TypeOK /\ [Next]_vars =>
            [state' # state /\ state' \in {"RESTRICTED", "ISOLATED"} =>
                triggers' \in {"missing", "severe", "override"}]_vars
    <2>1. SUFFICES ASSUME TypeOK, [Next]_vars, state' # state,
                          state' \in {"RESTRICTED", "ISOLATED"}
                   PROVE  triggers' \in {"missing", "severe", "override"}
      OBVIOUS
    <2>2. CASE UNCHANGED vars
      BY <2>1, <2>2 DEF vars
    <2>3. CASE \E o \in Observations : Accept(o) /\ Hold
      BY <2>1, <2>3 DEF Hold
    <2>4. ASSUME NEW o \in Observations, NEW target \in GovernanceState, Moves(o, target)
          PROVE  triggers' \in {"missing", "severe", "override"}
      <3>1. state' = target /\ triggers' = TriggerClass(o)
        BY <2>4 DEF Moves, Accept, Transition
      <3>2. HardBlocker(o)
        BY <2>1, <2>4, <3>1 DEF Moves
      <3>3. CASE MaterialOverride(o)
        <4>1. TriggerClass(o) = "override"
          BY <3>3 DEF TriggerClass, HardBlocker, IndependentTrigger, SevereTrigger,
                  MaterialOverride, Raised
        <4> QED  BY <3>1, <4>1
      <3>4. CASE SevereTrigger(o) /\ ~MaterialOverride(o)
        <4>1. TriggerClass(o) = "severe"
          BY <3>4 DEF TriggerClass, HardBlocker, IndependentTrigger, SevereTrigger,
                  MaterialOverride, Raised
        <4> QED  BY <3>1, <4>1
      <3>5. CASE o.missing /\ ~SevereTrigger(o) /\ ~MaterialOverride(o)
        <4>1. TriggerClass(o) = "missing"
          BY <3>2, <3>5 DEF TriggerClass, HardBlocker, IndependentTrigger, SevereTrigger,
                  MaterialOverride, Raised
        <4> QED  BY <3>1, <4>1
      <3> QED  BY <3>2, <3>3, <3>4, <3>5 DEF HardBlocker
    <2> QED  BY <2>1, <2>2, <2>3, <2>4, StepShape
  <1> QED  BY <1>1, TypeCorrect, PTL DEF Spec, ConfidenceCapped

\* For every stream of observations, replayed and reordered ones included: cooldown served
\* and evidence shown are not lost but by a transition, and the floor never comes down.
THEOREM NothingRewinds == Spec => NoRewind
  <1> DEFINE Served ==
          /\ state' = state =>
                /\ last_observation'.index - last_transition_index'
                       >= last_observation.index - last_transition_index
                /\ last_observation'.completed - evidence_at_transition'
                       >= last_observation.completed - evidence_at_transition
          /\ recovery_evidence_floor' >= recovery_evidence_floor
  <1>1. RecoveryInv /\ [Next]_vars => [Served]_vars
    <2>1. SUFFICES ASSUME RecoveryInv, [Next]_vars PROVE Served
      OBVIOUS
    <2>2. TypeOK
      BY <2>1 DEF RecoveryInv
    <2>3. CASE UNCHANGED vars
      BY <2>2, <2>3, RecoveryTypes DEF vars
    <2>4. ASSUME NEW o \in Observations, Accept(o), Hold PROVE Served
      BY <2>2, <2>4, AcceptedFacts, RecoveryTypes DEF Hold
    <2>5. ASSUME NEW o \in Observations, NEW target \in GovernanceState, Moves(o, target)
          PROVE  Served
      <3>1. state' = target /\ target # state
        BY <2>2, <2>5, MovesLeave DEF Moves, Transition
      <3>2. recovery_evidence_floor' \in {o.completed, recovery_evidence_floor}
        BY <2>5 DEF Moves, Transition
      <3>3. o.completed \in Nat /\ o.completed >= last_observation.completed
        BY <2>2, <2>5, AcceptedFacts DEF Moves
      <3> QED  BY <2>1, <2>2, <3>1, <3>2, <3>3, RecoveryTypes DEF RecoveryInv
    <2> QED  BY <2>2, <2>1, <2>3, <2>4, <2>5, StepShape
  <1> QED  BY <1>1, RecoveryInvariant, PTL DEF Spec, NoRewind

\* For every policy: a relaxation, but for the exit of a staged re-entry to CAUTION, has
\* waited out a cooldown and seen its own new outcomes.
THEOREM RelaxationIsEarned == Spec => RelaxationEarned
  <1> DEFINE Earned ==
          Severity[state'] < Severity[state] /\ ~(state \in Staged /\ state' = "CAUTION") =>
              /\ last_transition_index' - last_transition_index >= CooldownIntervals
              /\ evidence_at_transition' - evidence_at_transition >= MinNewOutcomes
  <1>1. RecoveryInv /\ [Next]_vars => [Earned]_vars
    <2>1. SUFFICES ASSUME RecoveryInv, [Next]_vars, Severity[state'] < Severity[state],
                          ~(state \in Staged /\ state' = "CAUTION")
                   PROVE  /\ last_transition_index' - last_transition_index >= CooldownIntervals
                          /\ evidence_at_transition' - evidence_at_transition >= MinNewOutcomes
      OBVIOUS
    <2>2. TypeOK /\ Severity[state] \in 0..3
      <3>1. TypeOK
        BY <2>1 DEF RecoveryInv
      <3>2. state \in GovernanceState
        BY <3>1 DEF TypeOK
      <3> QED  BY <3>1, <3>2, Severities DEF GovernanceState
    <2>3. state' # state
      BY <2>1, <2>2
    <2>4. PICK o \in Observations, target \in GovernanceState : Moves(o, target)
      BY <2>1, <2>2, <2>3, StepShape DEF vars, Hold
    <2>5. /\ state' = target /\ last_transition_index' = o.index
          /\ evidence_at_transition' = o.completed
      BY <2>4 DEF Moves, Transition
    <2>6. Severity[target] \in 0..3 /\ ~(Severity[target] > Severity[state])
      BY <2>1, <2>2, <2>5, Severities DEF GovernanceState
    <2>7. target # "ISOLATED"
      BY <2>2, <2>6, <2>1, <2>5, Severities
    <2>8. \/ state = "ISOLATED" /\ RecoveryEvidenceReady(o) /\ CooldownReady(o)
          \/ EvidenceReady(o) /\ CooldownReady(o)
      BY <2>1, <2>4, <2>5, <2>6, <2>7 DEF Moves
    <2>9. state = "ISOLATED" => recovery_evidence_floor = evidence_at_transition
      BY <2>1 DEF RecoveryInv, RecoveryEarned
    <2> QED  BY <2>5, <2>8, <2>9 DEF RecoveryEvidenceReady, CooldownReady, EvidenceReady
  <1> QED  BY <1>1, RecoveryInvariant, PTL DEF Spec, RelaxationEarned

-----------------------------------------------------------------------------
(* The state answers the last observation. *)

\* What the triggers of an observation demand.
LEMMA Demands ==
    ASSUME TypeOK, NEW o \in Observations
    PROVE  /\ TriggerClass(o) = "override" => Emergency(o)
           /\ MissingStreak(o) >= PersistentLoss => Emergency(o) /\ HardBlocker(o)
           /\ TriggerClass(o) = "severe" =>
                 HardBlocker(o) /\ (Emergency(o) \/ EffectiveSeverity(o) >= 2)
           /\ TriggerClass(o) = "missing" =>
                 HardBlocker(o) /\ (Emergency(o) \/ EffectiveSeverity(o) >= 1)
           /\ CautionOnSoftSignal /\ TriggerClass(o) # "none" =>
                 Emergency(o) \/ EffectiveSeverity(o) >= 1
  <1>1. MissingStreak(o) \in Nat /\ PersistentLoss \in Nat
    BY MissingStreakType, ParametersAssumption DEF TypeOK
  <1>2. ASSUME MissingStreak(o) >= PersistentLoss
        PROVE  Emergency(o) /\ HardBlocker(o)
    <2>1. RequiredSeverity(o) = 3
      BY <1>1, <1>2 DEF RequiredSeverity
    <2> QED  BY <2>1, HardDemand DEF Emergency
  <1>3. TriggerClass(o) = "override" => MaterialOverride(o)
    BY DEF TriggerClass
  <1>4. TriggerClass(o) = "severe" => SevereTrigger(o)
    BY DEF TriggerClass
  <1>5. TriggerClass(o) = "missing" => o.missing
    BY DEF TriggerClass
  <1>6. TriggerClass(o) # "none" =>
            MaterialOverride(o) \/ SevereTrigger(o) \/ IndependentTrigger(o) \/ CalibrationTrigger(o)
    BY DEF TriggerClass, IndependentTrigger
  <1>7. o.missing => IndependentTrigger(o)
    BY DEF IndependentTrigger
  <1>8. ASSUME MissingStreak(o) < PersistentLoss, SevereTrigger(o)
        PROVE  RequiredSeverity(o) = 2
    BY <1>1, <1>8 DEF RequiredSeverity
  <1>9. ASSUME MissingStreak(o) < PersistentLoss, ~SevereTrigger(o),
               IndependentTrigger(o) \/ CalibrationTrigger(o)
        PROVE  RequiredSeverity(o) = 1
    BY <1>1, <1>9 DEF RequiredSeverity
  <1>10. HardBlocker(o) \/ CautionOnSoftSignal => EffectiveSeverity(o) = RequiredSeverity(o)
    BY DEF EffectiveSeverity, SoftSignal
  <1>11. MissingStreak(o) < PersistentLoss \/ MissingStreak(o) >= PersistentLoss
    BY <1>1
  <1> QED
    BY <1>2, <1>3, <1>4, <1>5, <1>6, <1>7, <1>8, <1>9, <1>10, <1>11
    DEF HardBlocker, Emergency

\* A call that ends in ISOLATED has met every demand.
LEMMA IsolationAnswers ==
    ASSUME state' = "ISOLATED"
    PROVE  DemandMet'
  BY DEF DemandMet

\* A call without a hard blocker owes at most caution.
LEMMA CautionAnswers ==
    ASSUME TypeOK, NEW o \in Observations, Accept(o), ~HardBlocker(o),
           EffectiveSeverity(o) > 0 => state' \in {"CAUTION", "RESTRICTED"}
    PROVE  DemandMet'
  <1>1. /\ triggers' = TriggerClass(o) /\ missing_streak' = MissingStreak(o)
        /\ profile' = profile
    BY DEF Accept
  <1>2. /\ ~Emergency(o) /\ EffectiveSeverity(o) \in 0..3
        /\ TriggerClass(o) \notin {"override", "severe", "missing"}
        /\ ~(MissingStreak(o) >= PersistentLoss)
    BY Demands, HardDemand DEF HardBlocker
  <1>3. CautionOnSoftSignal /\ TriggerClass(o) # "none" => EffectiveSeverity(o) > 0
    BY <1>2, Demands
  <1> QED
    BY <1>1, <1>2, <1>3 DEF DemandMet, CautionOnSoftSignal

\* Outside ISOLATED and re-entry, what an observation demands decides how severe the state
\* must be.
LEMMA OrdinaryAnswers ==
    ASSUME TypeOK, NEW o \in Observations, Accept(o), ~Emergency(o),
           EffectiveSeverity(o) >= 2 => state' = "RESTRICTED",
           EffectiveSeverity(o) = 1 => state' \in {"CAUTION", "RESTRICTED"}
    PROVE  DemandMet'
  <1>1. /\ triggers' = TriggerClass(o) /\ missing_streak' = MissingStreak(o)
        /\ profile' = profile
    BY DEF Accept
  <1>2. EffectiveSeverity(o) \in 0..3
    BY HardDemand
  <1>3. EffectiveSeverity(o) >= 1 => state' \in {"CAUTION", "RESTRICTED"}
    BY <1>2
  <1>4. /\ TriggerClass(o) # "override" /\ ~(MissingStreak(o) >= PersistentLoss)
        /\ TriggerClass(o) = "severe" => EffectiveSeverity(o) >= 2
        /\ TriggerClass(o) = "missing" => EffectiveSeverity(o) >= 1
        /\ CautionOnSoftSignal /\ TriggerClass(o) # "none" => EffectiveSeverity(o) >= 1
    BY Demands
  <1> QED
    BY <1>1, <1>3, <1>4 DEF DemandMet, CautionOnSoftSignal

LEMMA DemandEvaluate ==
    ASSUME TypeOK, NEW o \in Observations, evaluate(o)
    PROVE  DemandMet'
  <1>1. /\ RequiredSeverity(o) \in 0..3 /\ EffectiveSeverity(o) \in 0..3
        /\ EffectiveSeverity(o) \in {0, RequiredSeverity(o)}
        /\ EffectiveSeverity(o) >= 2 => HardBlocker(o)
        /\ Emergency(o) => HardBlocker(o)
    BY HardDemand
  <1>2. CASE EmergencyIsolate(o)
    BY <1>2, IsolationAnswers DEF EmergencyIsolate, Transition
  <1>3. CASE ReisolateDuringReentry(o)
    BY <1>3, IsolationAnswers DEF ReisolateDuringReentry, Transition
  <1>4. CASE LeaveIsolation(o)
    BY <1>4, CautionAnswers DEF LeaveIsolation, RecoveryTarget, Transition
  <1>5. CASE HoldIsolated(o)
    BY <1>5, IsolationAnswers DEF HoldIsolated, Hold
  <1>6. CASE SoftWarningDuringReentry(o)
    BY <1>6, CautionAnswers DEF SoftWarningDuringReentry, Transition
  <1>7. CASE Escalate(o)
    <2>1. Accept(o) /\ ~Emergency(o) /\ EffectiveSeverity(o) \in 0..2
      BY <1>1, <1>7 DEF Escalate, Ordinary, Emergency
    <2>2. state' = IF EffectiveSeverity(o) = 2 THEN "RESTRICTED" ELSE "CAUTION"
      BY <1>7 DEF Escalate, EscalationTarget, Transition
    <2>3. EffectiveSeverity(o) >= 2 => EffectiveSeverity(o) = 2
      BY <2>1
    <2> QED  BY <2>1, <2>2, <2>3, OrdinaryAnswers
  <1>8. CASE HoldHysteresis(o)
    <2>1. /\ Accept(o) /\ ~Emergency(o) /\ state' = state
          /\ state \in GovernanceState \ {"ISOLATED"}
          /\ state \in Staged => ~HardBlocker(o) /\ EffectiveSeverity(o) # 1
          /\ EffectiveSeverity(o) > 0 /\ EffectiveSeverity(o) <= Severity[state]
      BY <1>8 DEF HoldHysteresis, Ordinary, Hold, TypeOK
    <2>2. state \notin Staged
      BY <1>1, <2>1
    <2>3. state \in {"CAUTION", "RESTRICTED"}
      BY <1>1, <2>1, <2>2, Severities DEF GovernanceState, Staged
    <2>4. EffectiveSeverity(o) >= 2 => state = "RESTRICTED"
      BY <1>1, <2>1, <2>3, Severities
    <2> QED  BY <2>1, <2>3, <2>4, OrdinaryAnswers
  <1>9. CASE Relax(o)
    BY <1>9, OrdinaryAnswers DEF Relax, Quiet, Ordinary
  <1>10. CASE HoldQuiet(o)
    BY <1>10, OrdinaryAnswers DEF HoldQuiet, Quiet, Ordinary
  <1> QED
    BY <1>2, <1>3, <1>4, <1>5, <1>6, <1>7, <1>8, <1>9, <1>10 DEF evaluate

\* For every policy, both profiles and every stream of observations: the state always
\* answers the last observation, so no call that saw a blocker ends in more authority.
THEOREM DemandIsMet == Spec => []DemandMet
  <1>1. Init => DemandMet
    <2> SUFFICES ASSUME Init PROVE DemandMet
      OBVIOUS
    <2>1. triggers = "none" /\ missing_streak = 0
      BY DEF Init
    <2>2. ~(missing_streak >= PersistentLoss)
      BY <2>1, ParametersAssumption
    <2> QED  BY <2>1, <2>2 DEF DemandMet
  <1>2. TypeOK /\ DemandMet /\ [Next]_vars => DemandMet'
    <2> SUFFICES ASSUME TypeOK, DemandMet, [Next]_vars PROVE DemandMet'
      OBVIOUS
    <2>1. CASE Next
      BY <2>1, DemandEvaluate DEF Next
    <2>2. CASE UNCHANGED vars
      BY <2>2 DEF DemandMet, CautionOnSoftSignal, vars
    <2> QED  BY <2>1, <2>2
  <1> QED  BY <1>1, <1>2, TypeCorrect, PTL DEF Spec

-----------------------------------------------------------------------------
(* The audit counters tell the truth. *)

\* The direction the code remembers is the way the severity last went.
Headed ==
    \/ heading = 0 /\ last_transition_direction = ""
    \/ heading = 1 /\ last_transition_direction = "ESCALATE"
    \/ heading = -1 /\ last_transition_direction = "DEESCALATE"

\* What the counters may do in one step.
Counted ==
    /\ transition_count' - transition_count = (IF state' # state THEN 1 ELSE 0)
    /\ reversal_count' - reversal_count = (IF Turns THEN 1 ELSE 0)
    /\ recovery_epoch' - recovery_epoch =
          (IF state # "ISOLATED" /\ state' = "ISOLATED" THEN 1 ELSE 0)

LEMMA SeverityRange == \A s \in GovernanceState : Severity[s] \in 0..3
  BY DEF Severity, GovernanceState

\* A move up, down or sideways: the severities decide direction, heading and reversal alike.
LEMMA MoveHeads ==
    ASSUME TypeOK, Headed, NEW o \in Observations, NEW target \in GovernanceState,
           Transition(target, o)
    PROVE  /\ Headed'
           /\ Reverses(Direction(target)) <=> Turns
  <1>1. /\ Severity[target] \in 0..3 /\ Severity[state] \in 0..3
    BY SeverityRange, Zenon DEF TypeOK
  <1>0. /\ heading = 1 <=> last_transition_direction = "ESCALATE"
        /\ heading = -1 <=> last_transition_direction = "DEESCALATE"
    <2>1. CASE heading = 0 /\ last_transition_direction = ""
      <3>0. heading = 0
        BY <2>1, Zenon
      <3>1. heading # 1 /\ heading # -1
        BY <3>0
      <3>2. last_transition_direction # "ESCALATE" /\ last_transition_direction # "DEESCALATE"
        BY <2>1, Zenon
      <3> QED  BY <3>1, <3>2, Zenon
    <2>2. CASE heading = 1 /\ last_transition_direction = "ESCALATE"
      BY <2>2
    <2>3. CASE heading = -1 /\ last_transition_direction = "DEESCALATE"
      BY <2>3
    <2> QED  BY <2>1, <2>2, <2>3, Zenon DEF Headed
  <1>2. /\ state' = target
        /\ last_transition_direction' =
              IF Direction(target) = "LATERAL" THEN last_transition_direction
                                               ELSE Direction(target)
        /\ heading' = IF Severity[target] > Severity[state] THEN 1
                      ELSE IF Severity[target] < Severity[state] THEN -1 ELSE heading
    BY DEF Transition
  <1>3. CASE Severity[target] > Severity[state]
    <2>1. Direction(target) = "ESCALATE" /\ ~(Severity[target] < Severity[state])
      BY <1>1, <1>3 DEF Direction
    <2>0. last_transition_direction \in {"", "ESCALATE", "DEESCALATE"}
      BY DEF TypeOK
    <2>2. heading' = 1 /\ last_transition_direction' = "ESCALATE"
      BY <1>2, <1>3, <2>1
    <2>3. Turns <=> heading = -1
      BY <1>2, <1>3, <2>1 DEF Turns
    <2>4. Reverses(Direction(target)) <=> last_transition_direction = "DEESCALATE"
      BY <2>1, <2>0 DEF Reverses
    <2>6. Headed'
      BY <2>2, Zenon DEF Headed
    <2> QED  BY <1>0, <2>3, <2>4, <2>6, Zenon
  <1>4. CASE Severity[target] < Severity[state]
    <2>1. Direction(target) = "DEESCALATE" /\ ~(Severity[target] > Severity[state])
      BY <1>1, <1>4 DEF Direction
    <2>0. last_transition_direction \in {"", "ESCALATE", "DEESCALATE"}
      BY DEF TypeOK
    <2>2. heading' = -1 /\ last_transition_direction' = "DEESCALATE"
      BY <1>2, <1>4, <2>1
    <2>3. Turns <=> heading = 1
      BY <1>2, <1>4, <2>1 DEF Turns
    <2>4. Reverses(Direction(target)) <=> last_transition_direction = "ESCALATE"
      BY <2>1, <2>0 DEF Reverses
    <2>6. Headed'
      BY <2>2, Zenon DEF Headed
    <2> QED  BY <1>0, <2>3, <2>4, <2>6, Zenon
  <1>5. CASE Severity[target] = Severity[state]
    <2>1. /\ Direction(target) = "LATERAL"
          /\ ~(Severity[target] > Severity[state]) /\ ~(Severity[target] < Severity[state])
      BY <1>1, <1>5 DEF Direction
    <2>2. heading' = heading /\ last_transition_direction' = last_transition_direction
      BY <1>2, <2>1
    <2>3. ~Turns
      BY <1>2, <2>1 DEF Turns
    <2>4. ~Reverses(Direction(target))
      BY <2>1 DEF Reverses
    <2> QED  BY <2>2, <2>3, <2>4 DEF Headed
  <1> QED  BY <1>1, <1>3, <1>4, <1>5

\* A move leaves the state it was in, so it counts as one transition, and it opens an epoch
\* just when it isolates.
LEMMA MoveCounts ==
    ASSUME TypeOK, Headed, NEW o \in Observations, NEW target \in GovernanceState,
           Moves(o, target)
    PROVE  Counted
  <1>1. Transition(target, o) /\ target # state /\ state' = target
    BY MovesLeave DEF Moves, Transition
  <1>2. /\ transition_count \in Nat /\ reversal_count \in Nat /\ recovery_epoch \in Nat
        /\ transition_count' = transition_count + 1
    BY <1>1 DEF TypeOK, Transition
  <1>3. reversal_count' = reversal_count + (IF Turns THEN 1 ELSE 0)
    <2>1. reversal_count' = reversal_count + (IF Reverses(Direction(target)) THEN 1 ELSE 0)
      BY <1>1 DEF Transition
    <2>2. Reverses(Direction(target)) <=> Turns
      BY <1>1, MoveHeads
    <2>3. CASE Turns   BY <2>1, <2>2, <2>3
    <2>4. CASE ~Turns  BY <2>1, <2>2, <2>4
    <2> QED  BY <2>3, <2>4
  <1>4. recovery_epoch' = IF target = "ISOLATED" THEN recovery_epoch + 1 ELSE recovery_epoch
    BY <1>1 DEF Transition, ResetsRecovery
  <1>5. transition_count' - transition_count = (IF state' # state THEN 1 ELSE 0)
    BY <1>1, <1>2
  <1>6. reversal_count' - reversal_count = (IF Turns THEN 1 ELSE 0)
    <2>1. CASE Turns   BY <1>2, <1>3, <2>1
    <2>2. CASE ~Turns  BY <1>2, <1>3, <2>2
    <2> QED  BY <2>1, <2>2
  <1>7. recovery_epoch' - recovery_epoch =
           (IF state # "ISOLATED" /\ state' = "ISOLATED" THEN 1 ELSE 0)
    <2>1. CASE target = "ISOLATED"
      BY <1>1, <1>2, <1>4, <2>1
    <2>2. CASE target # "ISOLATED"
      BY <1>1, <1>2, <1>4, <2>2
    <2> QED  BY <2>1, <2>2
  <1> QED  BY <1>5, <1>6, <1>7 DEF Counted

\* For every stream of observations: each change of state is counted once, each turn of the
\* severity once and nothing else as a reversal, and each isolation from outside as an epoch.
THEOREM CountersAreTrue == Spec => AuditCounters
  <1>1. Init => Headed
    BY DEF Init, Headed
  <1>2. TypeOK /\ Headed /\ [Next]_vars => Headed' /\ [Counted]_vars
    <2> SUFFICES ASSUME TypeOK, Headed, [Next]_vars PROVE Headed' /\ [Counted]_vars
      OBVIOUS
    <2>1. CASE UNCHANGED vars
      BY <2>1 DEF Headed, vars
    <2>2. CASE \E o \in Observations : Accept(o) /\ Hold
      <3>1. /\ state' = state /\ heading' = heading
            /\ transition_count' = transition_count
            /\ reversal_count' = reversal_count
            /\ last_transition_direction' = last_transition_direction
            /\ recovery_epoch' = recovery_epoch
        BY <2>2 DEF Hold
      <3>2. Headed'
        BY <3>1 DEF Headed
      <3>3. /\ transition_count \in Nat /\ reversal_count \in Nat /\ recovery_epoch \in Nat
            /\ state \in GovernanceState
        BY DEF TypeOK
      <3>6. Severity[state] \in 0..3
        BY <3>3, SeverityRange, Zenon
      <3>4. ~Turns
        BY <3>1, <3>6 DEF Turns
      <3>5. Counted
        BY <3>1, <3>3, <3>4 DEF Counted
      <3> QED  BY <3>2, <3>5
    <2>3. ASSUME NEW o \in Observations, NEW target \in GovernanceState, Moves(o, target)
          PROVE  Headed' /\ Counted
      BY <2>3, MoveHeads, MoveCounts DEF Moves
    <2> QED  BY <2>1, <2>2, <2>3, StepShape
  <1> QED  BY <1>1, <1>2, TypeCorrect, PTL DEF Spec, AuditCounters, Counted
=============================================================================
