------------------------ MODULE LadderRefinement_proofs ------------------------
(***************************************************************************)
(* The governance state machine implements the recovery ladder, for every  *)
(* set of observations, both profiles and all values of the policy         *)
(* parameters.  An evaluate() is matched with the interval that brings the *)
(* class of its trigger codes and as much advance and evidence as decides. *)
(***************************************************************************)
EXTENDS GovernanceStateMachine_proofs

-----------------------------------------------------------------------------
(* Saturated counts. *)

\* What an observation would leave of the cooldown, and show of the evidence.
CooldownAfter(o) ==
    LET left == CooldownIntervals - (o.index - last_transition_index)
    IN  IF left > 0 THEN left ELSE 0

EvidenceAfter(o) == Saturate(MinNewOutcomes, o.completed - evidence_at_transition)

\* The interval that stands for an observation.
Advance(o) == Saturate(CooldownIntervals, o.index - last_observation.index)
Completed(o) == Saturate(MinNewOutcomes, o.completed - last_observation.completed)

\* Saturating in between loses nothing: the cooldown runs down as far as the observation
\* took it, and is over exactly when the code finds it over.
LEMMA CooldownRunsDown ==
    ASSUME RecoveryInv, NEW o \in Observations, Accept(o)
    PROVE  /\ Advance(o) \in 0..CooldownIntervals
           /\ Ladder!AtLeast(0, CooldownRemaining - Advance(o)) = CooldownAfter(o)
           /\ CooldownAfter(o) = 0 <=> CooldownReady(o)
  <1>1. /\ o.index \in Nat /\ last_observation.index \in Nat /\ last_transition_index \in Nat
        /\ last_transition_index <= last_observation.index
        /\ last_observation.index <= o.index /\ CooldownIntervals \in Nat
    BY AcceptedFacts, RecoveryTypes DEF RecoveryInv
  <1> QED
    BY <1>1 DEF Advance, Saturate, CooldownRemaining, CooldownAfter, CooldownReady, Ladder!AtLeast

\* The same of the evidence.
LEMMA EvidenceComesIn ==
    ASSUME RecoveryInv, NEW o \in Observations, Accept(o)
    PROVE  /\ Completed(o) \in 0..MinNewOutcomes
           /\ Ladder!AtMost(MinNewOutcomes, EvidenceShown + Completed(o)) = EvidenceAfter(o)
           /\ EvidenceAfter(o) = MinNewOutcomes <=> EvidenceReady(o)
  <1>1. /\ o.completed \in Nat /\ last_observation.completed \in Nat
        /\ evidence_at_transition \in Nat
        /\ evidence_at_transition <= last_observation.completed
        /\ last_observation.completed <= o.completed /\ MinNewOutcomes \in Nat
    BY AcceptedFacts, RecoveryTypes DEF RecoveryInv
  <1> QED
    BY <1>1 DEF Completed, Saturate, EvidenceShown, EvidenceAfter, EvidenceReady, Ladder!AtMost

\* And of the streak of missing telemetry.
LEMMA GapGrows ==
    ASSUME TypeOK, NEW o \in Observations
    PROVE  /\ Saturate(PersistentLoss, MissingStreak(o)) =
                 IF o.missing
                 THEN Ladder!AtMost(PersistentLoss, Saturate(PersistentLoss, missing_streak) + 1)
                 ELSE 0
           /\ Saturate(PersistentLoss, MissingStreak(o)) = PersistentLoss
                 <=> MissingStreak(o) >= PersistentLoss
  <1>1. missing_streak \in Nat /\ PersistentLoss \in Nat /\ PersistentLoss > 0
    <2>1. missing_streak \in Nat
      BY DEF TypeOK
    <2>2. PersistentLoss \in Nat \ {0}
      BY ParametersAssumption
    <2> QED  BY <2>1, <2>2
  <1>2. CASE o.missing
    BY <1>1, <1>2 DEF MissingStreak, Saturate, Ladder!AtMost
  <1>3. CASE ~o.missing
    BY <1>1, <1>3 DEF MissingStreak, Saturate
  <1> QED  BY <1>2, <1>3

\* A hold leaves the counts where the observation took them.
LEMMA HoldShows ==
    ASSUME RecoveryInv, NEW o \in Observations, Accept(o), Hold
    PROVE  /\ CooldownRemaining' = CooldownAfter(o)
           /\ EvidenceShown' = EvidenceAfter(o)
  <1>1. last_observation'.index = o.index /\ last_observation'.completed = o.completed
    BY AcceptedFacts DEF RecoveryInv
  <1>2. /\ last_transition_index' = last_transition_index
        /\ evidence_at_transition' = evidence_at_transition
    BY DEF Hold
  <1> QED
    BY <1>1, <1>2 DEF CooldownRemaining, CooldownAfter, EvidenceShown, EvidenceAfter, Saturate

\* A transition starts the cooldown and the evidence afresh.
LEMMA TransitionResets ==
    ASSUME RecoveryInv, NEW o \in Observations, Accept(o),
           NEW target \in GovernanceState, Transition(target, o)
    PROVE  CooldownRemaining' = CooldownIntervals /\ EvidenceShown' = 0
  <1>1. /\ last_observation'.index = o.index /\ last_observation'.completed = o.completed
        /\ o.index \in Nat /\ o.completed \in Nat
    BY AcceptedFacts DEF RecoveryInv
  <1>2. last_transition_index' = o.index /\ evidence_at_transition' = o.completed
    BY DEF Transition
  <1>3. /\ last_observation'.index - last_transition_index' = 0
        /\ last_observation'.completed - evidence_at_transition' = 0
    BY <1>1, <1>2
  <1>4. CooldownIntervals \in Nat /\ MinNewOutcomes \in Nat
    BY ParametersAssumption
  <1> QED
    BY <1>3, <1>4 DEF CooldownRemaining, EvidenceShown, Saturate

-----------------------------------------------------------------------------
(* The class of an interval decides what the code decides on severities. *)

Lost(o) == MissingStreak(o) >= PersistentLoss
Ready(o) == CooldownReady(o) /\ EvidenceReady(o)

\* Emergencies and hard blockers, by class.
LEMMA ClassIsHard ==
    ASSUME TypeOK, NEW o \in Observations
    PROVE  /\ TriggerClass(o) = "override" <=> MaterialOverride(o)
           /\ TriggerClass(o) \in Ladder!Hard <=> HardBlocker(o)
           /\ TriggerClass(o) = "missing" => o.missing
           /\ o.missing => TriggerClass(o) \in Ladder!Hard
           /\ TriggerClass(o) = "severe" => SevereTrigger(o)
           /\ TriggerClass(o) = "missing" => ~SevereTrigger(o)
           /\ TriggerClass(o) # "none" <=> IndependentTrigger(o) \/ CalibrationTrigger(o)
           /\ TriggerClass(o) \in Ladder!Class
  <1>1. HardBlocker(o) => IndependentTrigger(o)
    BY DEF HardBlocker, SevereTrigger, MaterialOverride, IndependentTrigger, Raised
  <1>2. CASE MaterialOverride(o)
    <2>1. TriggerClass(o) = "override"
      BY <1>1, <1>2 DEF TriggerClass, HardBlocker
    <2> QED  BY <1>1, <1>2, <2>1 DEF Ladder!Hard, Ladder!Class, HardBlocker
  <1>3. CASE SevereTrigger(o) /\ ~MaterialOverride(o)
    <2>1. TriggerClass(o) = "severe"
      BY <1>1, <1>3 DEF TriggerClass, HardBlocker
    <2> QED  BY <1>1, <1>3, <2>1 DEF Ladder!Hard, Ladder!Class, HardBlocker
  <1>4. CASE o.missing /\ ~SevereTrigger(o) /\ ~MaterialOverride(o)
    <2>1. TriggerClass(o) = "missing"
      BY <1>1, <1>4 DEF TriggerClass, HardBlocker
    <2> QED  BY <1>1, <1>4, <2>1 DEF Ladder!Hard, Ladder!Class, HardBlocker
  <1>5. CASE ~HardBlocker(o)
    <2>1. ~MaterialOverride(o) /\ ~SevereTrigger(o) /\ ~o.missing
      BY <1>5 DEF HardBlocker
    <2>2. CASE IndependentTrigger(o)
      <3>1. TriggerClass(o) = "soft"
        BY <1>5, <2>1, <2>2 DEF TriggerClass
      <3> QED  BY <1>5, <2>1, <2>2, <3>1 DEF Ladder!Hard, Ladder!Class
    <2>3. CASE ~IndependentTrigger(o) /\ CalibrationTrigger(o)
      <3>1. TriggerClass(o) = "confidence"
        BY <1>5, <2>1, <2>3 DEF TriggerClass
      <3> QED  BY <1>5, <2>1, <2>3, <3>1 DEF Ladder!Hard, Ladder!Class
    <2>4. CASE ~IndependentTrigger(o) /\ ~CalibrationTrigger(o)
      <3>1. TriggerClass(o) = "none"
        BY <1>5, <2>1, <2>4 DEF TriggerClass
      <3> QED  BY <1>5, <2>1, <2>4, <3>1 DEF Ladder!Hard, Ladder!Class
    <2> QED  BY <2>2, <2>3, <2>4
  <1> QED  BY <1>2, <1>3, <1>4, <1>5 DEF HardBlocker

\* The severity a call acts on, by class, as long as it is no emergency.
LEMMA ClassActs ==
    ASSUME TypeOK, NEW o \in Observations
    PROVE  /\ Emergency(o) <=> TriggerClass(o) = "override" \/ Lost(o)
           /\ Lost(o) => HardBlocker(o)
           /\ ~Emergency(o) =>
                 EffectiveSeverity(o) =
                     CASE TriggerClass(o) = "severe" -> 2
                       [] TriggerClass(o) # "severe" ->
                             IF Ladder!Acts(TriggerClass(o)) THEN 1 ELSE 0
  <1>1. MissingStreak(o) \in Nat /\ PersistentLoss \in Nat
    BY MissingStreakType, ParametersAssumption DEF TypeOK
  <1>2. CASE Lost(o)
    <2>1. RequiredSeverity(o) = 3
      BY <1>1, <1>2 DEF RequiredSeverity, Lost
    <2> QED  BY <1>2, <2>1, HardDemand DEF Emergency
  <1>3. CASE ~Lost(o) /\ SevereTrigger(o)
    <2>1. RequiredSeverity(o) = 2
      BY <1>1, <1>3 DEF RequiredSeverity, Lost
    <2>2. EffectiveSeverity(o) = 2
      BY <2>1 DEF EffectiveSeverity, SoftSignal
    <2>3. Emergency(o) <=> MaterialOverride(o)
      BY <2>1 DEF Emergency
    <2>4. ~MaterialOverride(o) => TriggerClass(o) = "severe"
      BY <1>3, ClassIsHard DEF HardBlocker, Ladder!Hard
    <2> QED  BY <1>3, <2>2, <2>3, <2>4, ClassIsHard
  <1>4. CASE ~Lost(o) /\ ~SevereTrigger(o)
    <2>1. RequiredSeverity(o) = IF TriggerClass(o) # "none" THEN 1 ELSE 0
      BY <1>1, <1>4, ClassIsHard DEF RequiredSeverity, Lost
    <2>2. Emergency(o) <=> MaterialOverride(o)
      BY <2>1 DEF Emergency
    <2>3. TriggerClass(o) # "severe"
      BY <1>4, ClassIsHard
    <2>4. EffectiveSeverity(o) = IF Ladder!Acts(TriggerClass(o)) THEN 1 ELSE 0
      <3>1. CASE HardBlocker(o)
        <4>1. TriggerClass(o) \in Ladder!Hard /\ TriggerClass(o) # "none"
          BY <3>1, ClassIsHard DEF Ladder!Hard
        <4> QED  BY <2>1, <3>1, <4>1 DEF EffectiveSeverity, SoftSignal, Ladder!Acts
      <3>2. CASE ~HardBlocker(o)
        <4>1. TriggerClass(o) \notin Ladder!Hard
          BY <3>2, ClassIsHard
        <4> QED
          BY <2>1, <3>2, <4>1
          DEF EffectiveSeverity, SoftSignal, CautionOnSoftSignal, Ladder!Acts
      <3> QED  BY <3>1, <3>2
    <2> QED  BY <1>4, <2>2, <2>3, <2>4, ClassIsHard
  <1> QED  BY <1>2, <1>3, <1>4

-----------------------------------------------------------------------------
(* The rung a call ends on is the rung the ladder promises. *)

\* The target of an interval, read off its cases.
LEMMA TargetCases ==
    ASSUME NEW class \in Ladder!Class, NEW lost \in BOOLEAN, NEW ready \in BOOLEAN
    PROVE  /\ class = "override" \/ lost => Ladder!Target(class, lost, ready) = "ISOLATED"
           /\ class \in {"missing", "severe"} /\ ~lost =>
                 Ladder!Target(class, lost, ready) = Ladder!HardTarget(class)
           /\ class \notin Ladder!Hard /\ ~lost /\ Ladder!Acts(class) =>
                 Ladder!Target(class, lost, ready) = Ladder!SoftTarget(ready)
           /\ class \notin Ladder!Hard /\ ~lost /\ ~Ladder!Acts(class) =>
                 Ladder!Target(class, lost, ready) =
                     IF ready THEN Ladder!Down[state] ELSE state
  BY DEF Ladder!Target, Ladder!Hard

\* Every branch of evaluate() ends where the ladder does.
LEMMA EvaluateTarget ==
    ASSUME RecoveryInv, NEW o \in Observations, evaluate(o)
    PROVE  state' = Ladder!Target(TriggerClass(o), Lost(o), Ready(o))
  <1> DEFINE class == TriggerClass(o)
             next == Ladder!Target(class, Lost(o), Ready(o))
  <1>1. TypeOK /\ state \in GovernanceState
    BY DEF RecoveryInv, TypeOK
  <1>2. /\ Lost(o) \in BOOLEAN /\ Ready(o) \in BOOLEAN
        /\ class \in Ladder!Class
    BY <1>1, ClassIsHard DEF Lost, Ready, CooldownReady, EvidenceReady
  <1>3. Emergency(o) => next = "ISOLATED"
    BY <1>1, <1>2, TargetCases, ClassActs
  <1>4. ~Emergency(o) /\ HardBlocker(o) =>
            /\ next = Ladder!HardTarget(class)
            /\ class \in {"missing", "severe"}
    BY <1>1, <1>2, TargetCases, ClassActs, ClassIsHard DEF Ladder!Hard
  <1>5. ~HardBlocker(o) =>
            next = IF Ladder!Acts(class) THEN Ladder!SoftTarget(Ready(o))
                   ELSE IF Ready(o) THEN Ladder!Down[state] ELSE state
    BY <1>1, <1>2, TargetCases, ClassActs, ClassIsHard, HardDemand DEF Ladder!Hard
  <1>6. ~HardBlocker(o) =>
            EffectiveSeverity(o) = IF Ladder!Acts(class) THEN 1 ELSE 0
    BY <1>1, ClassActs, ClassIsHard, HardDemand DEF Ladder!Hard
  <1>7. state = "ISOLATED" => (EvidenceReady(o) <=> RecoveryEvidenceReady(o))
    BY DEF RecoveryInv, RecoveryEarned, EvidenceReady, RecoveryEvidenceReady
  <1>8. ~Emergency(o) /\ HardBlocker(o) =>
            EffectiveSeverity(o) = IF class = "severe" THEN 2 ELSE 1
    BY <1>1, <1>4, ClassActs DEF Ladder!Acts, Ladder!Hard
  <1> SUFFICES state' = next
    OBVIOUS
  <1> HIDE DEF next, class
  <1>9. CASE EmergencyIsolate(o)
    BY <1>3, <1>9 DEF EmergencyIsolate, Transition
  <1>10. CASE ReisolateDuringReentry(o)
    BY <1>4, <1>10 DEF ReisolateDuringReentry, Transition, Ladder!HardTarget, Ladder!Staged, Staged
  <1>11. CASE LeaveIsolation(o)
    <2>1. /\ state = "ISOLATED" /\ ~HardBlocker(o) /\ Ready(o)
          /\ state' = RecoveryTarget(o)
      BY <1>7, <1>11 DEF LeaveIsolation, Transition, Ready
    <2>2. Ladder!Down["ISOLATED"] = "STAGED_REENTRY_1" /\ Ladder!SoftTarget(Ready(o)) = "CAUTION"
      BY <2>1 DEF Ladder!Down, Ladder!LadderState, Ladder!SoftTarget
    <2>3. RecoveryTarget(o) = IF Ladder!Acts(class) THEN "CAUTION" ELSE "STAGED_REENTRY_1"
      BY <1>6, <2>1 DEF RecoveryTarget
    <2> QED  BY <1>5, <2>1, <2>2, <2>3
  <1>12. CASE HoldIsolated(o)
    <2>1. state = "ISOLATED" /\ state' = state
      BY <1>12 DEF HoldIsolated, Hold
    <2>2. HardBlocker(o) \/ ~Ready(o)
      BY <1>7, <1>12, <2>1 DEF HoldIsolated, Ready
    <2>3. ~Emergency(o) /\ HardBlocker(o) => next = "ISOLATED"
      BY <1>4, <2>1 DEF Ladder!HardTarget, Ladder!Staged
    <2>4. ~HardBlocker(o) => next = "ISOLATED"
      BY <1>5, <2>1, <2>2 DEF Ladder!SoftTarget
    <2> QED  BY <1>3, <2>1, <2>3, <2>4
  <1>13. CASE SoftWarningDuringReentry(o)
    <2>1. /\ state \in Staged /\ ~HardBlocker(o) /\ EffectiveSeverity(o) = 1
          /\ state' = "CAUTION"
      BY <1>13 DEF SoftWarningDuringReentry, Transition
    <2>2. Ladder!SoftTarget(Ready(o)) = "CAUTION"
      BY <2>1 DEF Ladder!SoftTarget, Staged
    <2> QED  BY <1>5, <1>6, <2>1, <2>2
  <1>14. CASE Escalate(o)
    <2>1. /\ ~Emergency(o) /\ state \in GovernanceState \ {"ISOLATED"}
          /\ state \in Staged => ~HardBlocker(o) /\ EffectiveSeverity(o) # 1
          /\ EffectiveSeverity(o) > Severity[state]
          /\ state' = IF EffectiveSeverity(o) = 2 THEN "RESTRICTED" ELSE "CAUTION"
      BY <1>1, <1>14 DEF Escalate, Ordinary, Transition, EscalationTarget
    <2>2. Severity[state] \in 0..2
      BY <2>1, Severities DEF GovernanceState
    <2>3. CASE HardBlocker(o)
      <3>1. state \in {"NORMAL", "CAUTION", "RESTRICTED"}
        BY <2>1, <2>3 DEF Staged, GovernanceState
      <3>2. EffectiveSeverity(o) = IF class = "severe" THEN 2 ELSE 1
        BY <1>8, <2>1, <2>3
      <3>3. state = "NORMAL" \/ (state = "CAUTION" /\ class = "severe")
        BY <2>1, <3>1, <3>2, Severities
      <3>4. next = IF class = "severe" THEN "RESTRICTED" ELSE "CAUTION"
        BY <1>4, <2>1, <2>3, <3>3 DEF Ladder!HardTarget, Ladder!Staged
      <3> QED  BY <2>1, <3>2, <3>4
    <2>4. CASE ~HardBlocker(o)
      <3>1. EffectiveSeverity(o) = 1 /\ Ladder!Acts(class)
        BY <1>6, <2>1, <2>2, <2>4
      <3>2. state = "NORMAL"
        BY <2>1, <3>1, Severities DEF GovernanceState
      <3>3. Ladder!SoftTarget(Ready(o)) = "CAUTION"
        BY <3>2 DEF Ladder!SoftTarget
      <3> QED  BY <1>5, <2>1, <2>4, <3>1, <3>3
    <2> QED  BY <2>3, <2>4
  <1>15. CASE HoldHysteresis(o)
    <2>1. /\ ~Emergency(o) /\ state \in GovernanceState \ {"ISOLATED"}
          /\ state \in Staged => ~HardBlocker(o) /\ EffectiveSeverity(o) # 1
          /\ EffectiveSeverity(o) > 0 /\ EffectiveSeverity(o) <= Severity[state]
          /\ state' = state
      BY <1>1, <1>15 DEF HoldHysteresis, Ordinary, Hold
    <2>2. CASE HardBlocker(o)
      <3>1. EffectiveSeverity(o) = IF class = "severe" THEN 2 ELSE 1
        BY <1>8, <2>1, <2>2
      <3>2. state = "RESTRICTED" \/ (state = "CAUTION" /\ class # "severe")
        BY <2>1, <2>2, <3>1, Severities DEF GovernanceState, Staged
      <3> QED
        BY <1>4, <2>1, <2>2, <3>2 DEF Ladder!HardTarget, Ladder!Staged
    <2>3. CASE ~HardBlocker(o)
      <3>1. EffectiveSeverity(o) = 1 /\ Ladder!Acts(class)
        BY <1>6, <2>1, <2>3
      <3>2. state \in {"CAUTION", "RESTRICTED"}
        BY <2>1, <3>1, Severities DEF GovernanceState, Staged
      <3>3. Ladder!SoftTarget(Ready(o)) = state
        BY <3>2 DEF Ladder!SoftTarget
      <3> QED  BY <1>5, <2>1, <2>3, <3>1, <3>3
    <2> QED  BY <2>2, <2>3
  <1>16. CASE Relax(o)
    <2>1. /\ ~Emergency(o) /\ EffectiveSeverity(o) = 0 /\ Ready(o)
          /\ state \in GovernanceState \ {"NORMAL", "ISOLATED"} /\ state' = RelaxTo[state]
      BY <1>1, <1>16 DEF Relax, Quiet, Ordinary, Transition, Ready
    <2>2. RelaxTo[state] = Ladder!Down[state]
      BY <2>1 DEF RelaxTo, Ladder!Down, Ladder!LadderState, Ladder!Staged, GovernanceState
    <2>3. ~HardBlocker(o) /\ ~Ladder!Acts(class)
      BY <1>6, <1>8, <2>1
    <2> QED  BY <1>5, <2>1, <2>2, <2>3
  <1>17. CASE HoldQuiet(o)
    <2>1. /\ ~Emergency(o) /\ EffectiveSeverity(o) = 0 /\ (~Ready(o) \/ state = "NORMAL")
          /\ state' = state
      BY <1>17 DEF HoldQuiet, Quiet, Ordinary, Hold, Ready
    <2>2. Ladder!Down["NORMAL"] = "NORMAL"
      BY DEF Ladder!Down, Ladder!LadderState
    <2>3. ~HardBlocker(o) /\ ~Ladder!Acts(class)
      BY <1>6, <1>8, <2>1
    <2> QED  BY <1>5, <2>1, <2>2, <2>3
  <1> QED
    BY <1>9, <1>10, <1>11, <1>12, <1>13, <1>14, <1>15, <1>16, <1>17 DEF evaluate

-----------------------------------------------------------------------------
(* The refinement. *)

\* A fresh agent stands at the top of the ladder with all of the cooldown to wait.
LEMMA LadderInitially == Init => Ladder!LadderInit
  <1> SUFFICES ASSUME Init PROVE Ladder!LadderInit
    OBVIOUS
  <1>1. /\ last_observation.index = 0 /\ last_observation.completed = 0
        /\ last_transition_index = 0 /\ evidence_at_transition = 0 /\ missing_streak = 0
    BY DEF Init
  <1>2. CooldownIntervals \in Nat /\ MinNewOutcomes \in Nat /\ PersistentLoss \in Nat
    BY ParametersAssumption
  <1>3. CooldownRemaining = CooldownIntervals
    BY <1>1, <1>2 DEF CooldownRemaining
  <1>4. EvidenceShown = 0
    BY <1>1, <1>2 DEF EvidenceShown, Saturate
  <1>5. Saturate(PersistentLoss, missing_streak) = 0
    BY <1>1, <1>2 DEF Saturate
  <1>6. profile \in Profiles /\ state = "NORMAL" /\ triggers = "none"
    BY DEF Init
  <1> QED  BY <1>3, <1>4, <1>5, <1>6 DEF Ladder!LadderInit

\* Every evaluate() is an interval of the ladder.
LEMMA LadderStep ==
    ASSUME RecoveryInv, NEW o \in Observations, evaluate(o)
    PROVE  Ladder!LadderNext
  <1> DEFINE class == TriggerClass(o)
             cooled == Ladder!AtLeast(0, CooldownRemaining - Advance(o))
             shown == Ladder!AtMost(MinNewOutcomes, EvidenceShown + Completed(o))
             gap == IF o.missing
                    THEN Ladder!AtMost(PersistentLoss, Saturate(PersistentLoss, missing_streak) + 1)
                    ELSE 0
             next == Ladder!Target(class, gap = PersistentLoss,
                                   cooled = 0 /\ shown = MinNewOutcomes)
  <1>1. TypeOK
    BY DEF RecoveryInv
  <1>2. \/ Accept(o) /\ Hold
        \/ \E target \in GovernanceState : Moves(o, target)
    BY <1>1, EvaluateShape
  <1>3. Accept(o)
    BY <1>2 DEF Moves
  <1>4. /\ class \in Ladder!Class /\ o.missing \in BOOLEAN
        /\ class = "missing" => o.missing
        /\ o.missing => class \in Ladder!Hard
    BY <1>1, <1>3, ClassIsHard, AcceptedFacts DEF Observation
  <1>5. gap = Saturate(PersistentLoss, MissingStreak(o)) /\ (gap = PersistentLoss <=> Lost(o))
    BY <1>1, GapGrows DEF Lost
  <1>6. cooled = CooldownAfter(o) /\ (cooled = 0 <=> CooldownReady(o))
    BY <1>3, CooldownRunsDown
  <1>7. shown = EvidenceAfter(o) /\ (shown = MinNewOutcomes <=> EvidenceReady(o))
    BY <1>3, EvidenceComesIn
  <1>8. Advance(o) \in 0..CooldownIntervals /\ Completed(o) \in 0..MinNewOutcomes
    BY <1>3, CooldownRunsDown, EvidenceComesIn
  <1>9. next = Ladder!Target(class, Lost(o), Ready(o))
    <2>1. (gap = PersistentLoss) = Lost(o)
      BY <1>5 DEF Lost
    <2>2. (cooled = 0 /\ shown = MinNewOutcomes) = Ready(o)
      BY <1>6, <1>7 DEF Ready, CooldownReady, EvidenceReady
    <2> QED  BY <2>1, <2>2, Zenon
  <1>10. state' = next
    BY <1>9, EvaluateTarget
  <1>11. /\ triggers' = class /\ profile' = profile
         /\ Saturate(PersistentLoss, missing_streak)' = gap
    BY <1>3, <1>5 DEF Accept, Saturate
  <1>12. /\ CooldownRemaining' = IF next = state THEN cooled ELSE CooldownIntervals
         /\ EvidenceShown' = IF next = state THEN shown ELSE 0
    <2> HIDE DEF next, cooled, shown
    <2>1. CASE Hold
      <3>1. state' = state
        BY <2>1 DEF Hold
      <3> QED  BY <1>3, <1>6, <1>7, <1>10, <2>1, <3>1, HoldShows
    <2>2. ASSUME NEW target \in GovernanceState, Moves(o, target)
          PROVE  /\ CooldownRemaining' = IF next = state THEN cooled ELSE CooldownIntervals
                 /\ EvidenceShown' = IF next = state THEN shown ELSE 0
      <3>1. state' = target /\ target # state /\ Transition(target, o)
        BY <1>1, <2>2, MovesLeave DEF Moves, Transition
      <3> QED  BY <1>3, <1>10, <3>1, TransitionResets
    <2> QED  BY <1>2, <2>1, <2>2
  <1>13. Ladder!Interval(class, o.missing, Advance(o), Completed(o))
    BY <1>4, <1>10, <1>11, <1>12 DEF Ladder!Interval
  <1> QED  BY <1>4, <1>8, <1>13 DEF Ladder!LadderNext

\* For every policy, both profiles and every stream of observations: the machine takes the
\* rungs of the ladder the policy promises, and leaves each as soon as it may.
THEOREM MachineImplementsLadder == Spec => ImplementsLadder
  <1>1. RecoveryInv /\ [Next]_vars => [Ladder!LadderNext]_(Ladder!ladder)
    <2> SUFFICES ASSUME RecoveryInv, [Next]_vars
                 PROVE  [Ladder!LadderNext]_(Ladder!ladder)
      OBVIOUS
    <2>1. CASE Next
      BY <2>1, LadderStep DEF Next
    <2>2. CASE UNCHANGED vars
      BY <2>2
      DEF vars, Ladder!ladder, CooldownRemaining, EvidenceShown, Saturate
    <2> QED  BY <2>1, <2>2
  <1> QED
    BY <1>1, LadderInitially, RecoveryInvariant, PTL DEF Spec, ImplementsLadder, Ladder!LadderSpec
=============================================================================
