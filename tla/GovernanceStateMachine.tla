------------------------ MODULE GovernanceStateMachine ------------------------
(***************************************************************************)
(* AgentGovernanceStateMachine (state_machine.py): one agent's hysteretic  *)
(* governance state, driven by observations the runtime presents one at a  *)
(* time.  evaluate() is one call; each of its branches is an action here,  *)
(* and every action contains the whole call: validation, the order check,  *)
(* the watermark, the streak, the transition and the returned triggers.    *)
(*                                                                         *)
(* Numeric signals are abstracted to the side of the policy thresholds     *)
(* they fall on ("ok", "soft" = caution threshold, "severe" = restricted   *)
(* threshold); a number validate() refuses (NaN, out of range) is          *)
(* "invalid".  Indices, times and outcome counts keep their values.  The    *)
(* fresh streak and the reason code, which only the decision record        *)
(* reports, are left out.                                                  *)
(***************************************************************************)
EXTENDS Integers

CONSTANTS
    Observations,           \* the observations a caller may present
    Profiles,               \* the profiles an agent may be given
    PersistentLoss,         \* persistent_telemetry_loss_intervals
    CooldownIntervals,      \* cooldown_intervals
    MinNewOutcomes,         \* minimum_new_completed_outcomes
    MaxStreak               \* bound of the model: longest missing streak explored

Level == {"ok", "soft", "severe"}
Measured == Level \cup {"invalid"}

Observation ==
    [index : Int, time : Nat, cutoff : Int, result : Int, completed : Int,
     missing : BOOLEAN, age : Level, reliability : Measured,
     calibration : Measured, delayed : Level, exposure : Measured,
     breach : BOOLEAN, limit : BOOLEAN, signals : Level]

ASSUME ObservationsAssumption == Observations \subseteq Observation
ASSUME ProfileAssumption == Profiles \subseteq {"V21_FULL", "V21_LEAN"}
ASSUME ParametersAssumption ==
    /\ PersistentLoss \in Nat \ {0}
    /\ CooldownIntervals \in Nat
    /\ MinNewOutcomes \in Nat
    /\ MaxStreak \in Nat

VARIABLES
    profile,            \* the agent's profile, fixed when it is made
    state, last_transition_index, evidence_at_transition,
    recovery_evidence_floor, missing_streak,
    transition_count, reversal_count, last_transition_direction,
    ever_isolated, recovery_epoch,
    last_observation,   \* index, time and count of the last accepted observation
    triggers,           \* class of the trigger_codes the last evaluate() returned
    isolation,          \* history: index and count when ISOLATED was last entered
    heading             \* history: 1 if the severity last went up, -1 if down, 0 if it never moved

vars == <<profile, state, last_transition_index, evidence_at_transition,
          recovery_evidence_floor, missing_streak,
          transition_count, reversal_count, last_transition_direction,
          ever_isolated, recovery_epoch, last_observation, triggers, isolation, heading>>

GovernanceState == {"NORMAL", "CAUTION", "RESTRICTED", "ISOLATED",
                    "STAGED_REENTRY_1", "STAGED_REENTRY_2"}
Staged == {"STAGED_REENTRY_1", "STAGED_REENTRY_2"}

Severity == [s \in GovernanceState |->
    CASE s = "NORMAL" -> 0
      [] s \in {"CAUTION", "STAGED_REENTRY_2"} -> 1
      [] s \in {"RESTRICTED", "STAGED_REENTRY_1"} -> 2
      [] s = "ISOLATED" -> 3]

-----------------------------------------------------------------------------
(* What an observation says. *)

Raised == {"soft", "severe"}

Valid(o) ==
    /\ o.index >= 0
    /\ o.reliability # "invalid"
    /\ o.calibration # "invalid"
    /\ o.exposure # "invalid"
    /\ o.cutoff <= o.time
    /\ o.result <= o.time
    /\ o.completed >= 0

\* Trigger codes that do not begin with CONFIDENCE_.
IndependentTrigger(o) ==
    \/ o.missing \/ o.breach \/ o.limit
    \/ o.age \in Raised \/ o.reliability \in Raised \/ o.delayed \in Raised
    \/ o.exposure \in Raised \/ o.signals \in Raised

CalibrationTrigger(o) == o.calibration \in Raised

\* Independent trigger codes that end with SEVERE.
SevereTrigger(o) ==
    \/ o.age = "severe" \/ o.reliability = "severe"
    \/ o.delayed = "severe" \/ o.exposure = "severe"

MaterialOverride(o) == o.breach \/ o.limit \/ o.signals = "severe"

\* Mutant: severe exposure, reliability or delay does not revoke recovery.
HardBlockerWithoutSevere(o) == o.missing \/ MaterialOverride(o)

HardBlocker(o) == o.missing \/ SevereTrigger(o) \/ MaterialOverride(o)

\* The trigger codes of the observation, by the strongest among them.
TriggerClass(o) ==
    CASE MaterialOverride(o) -> "override"
      [] SevereTrigger(o) /\ ~MaterialOverride(o) -> "severe"
      [] o.missing /\ ~SevereTrigger(o) /\ ~MaterialOverride(o) -> "missing"
      [] IndependentTrigger(o) /\ ~HardBlocker(o) -> "soft"
      [] CalibrationTrigger(o) /\ ~IndependentTrigger(o) -> "confidence"
      [] OTHER -> "none"

-----------------------------------------------------------------------------
(* What the machine makes of it. *)

\* profile.caution_on_soft_signal
CautionOnSoftSignal == profile = "V21_FULL"

\* Mutant: a fresh interval takes one off the streak instead of clearing it.
MissingStreakDecays(o) == IF o.missing THEN missing_streak + 1 ELSE missing_streak - 1

MissingStreak(o) == IF o.missing THEN missing_streak + 1 ELSE 0

\* Mutant: any code that ends with SEVERE counts, confidence among them.
RequiredSeverityOfAnyCode(o) ==
    CASE MissingStreak(o) >= PersistentLoss -> 3
      [] MissingStreak(o) < PersistentLoss /\ (SevereTrigger(o) \/ o.calibration = "severe") -> 2
      [] OTHER -> IF IndependentTrigger(o) \/ CalibrationTrigger(o) THEN 1 ELSE 0

RequiredSeverity(o) ==
    CASE MissingStreak(o) >= PersistentLoss -> 3
      [] MissingStreak(o) < PersistentLoss /\ SevereTrigger(o) -> 2
      [] MissingStreak(o) < PersistentLoss /\ ~SevereTrigger(o) ->
            IF IndependentTrigger(o) \/ CalibrationTrigger(o) THEN 1 ELSE 0

\* Mutant: any caution-level demand is taken for a soft signal.
SoftSignalBlocked(o) == RequiredSeverity(o) = 1

SoftSignal(o) == RequiredSeverity(o) = 1 /\ ~HardBlocker(o)

\* V21_LEAN records a soft signal without letting it act.
EffectiveSeverity(o) ==
    IF SoftSignal(o) /\ ~CautionOnSoftSignal THEN 0 ELSE RequiredSeverity(o)

Emergency(o) == MaterialOverride(o) \/ RequiredSeverity(o) = 3

\* Mutant: the cooldown is one interval too long.
CooldownReadyLate(o) == o.index - last_transition_index > CooldownIntervals

CooldownReady(o) == o.index - last_transition_index >= CooldownIntervals

\* Mutant: evidence spent on an earlier rung counts again.
EvidenceReadyFromFloor(o) == o.completed - recovery_evidence_floor >= MinNewOutcomes

\* Out of ISOLATED, evidence counts from the recovery floor ...
RecoveryEvidenceReady(o) ==
    o.completed - recovery_evidence_floor >= MinNewOutcomes

\* ... and elsewhere from the last transition.
EvidenceReady(o) == o.completed - evidence_at_transition >= MinNewOutcomes

\* Mutant: only index and time are held in order.
InOrderButEvidence(o) ==
    /\ o.index >= last_observation.index
    /\ o.time >= last_observation.time

InOrder(o) ==
    /\ o.index >= last_observation.index
    /\ o.time >= last_observation.time
    /\ o.completed >= last_observation.completed

Direction(target) ==
    CASE Severity[target] > Severity[state] -> "ESCALATE"
      [] Severity[target] < Severity[state] -> "DEESCALATE"
      [] Severity[target] = Severity[state] -> "LATERAL"

\* Mutant: the first transition and the lateral ones count too.
ReversesAnyChange(direction) == direction # last_transition_direction

Reverses(direction) ==
    /\ last_transition_direction # ""
    /\ direction # "LATERAL"
    /\ direction # last_transition_direction

-----------------------------------------------------------------------------
(* The steps every branch shares. *)

\* validate(), _reject_out_of_order() and the streaks.  The zero watermark of
\* Init accepts whatever None accepts, because validate() comes first.
Accept(o) ==
    /\ InOrder(o)
    /\ Valid(o)
    /\ MissingStreak(o) <= MaxStreak
    /\ last_observation' =
           [index |-> o.index, time |-> o.time, completed |-> o.completed]
    /\ missing_streak' = MissingStreak(o)
    /\ triggers' = TriggerClass(o)
    /\ UNCHANGED profile

\* Mutant: a second isolation keeps the floor of the first.
ResetsRecoveryOnce(target) == target = "ISOLATED" /\ ~ever_isolated

\* _transition(): reset_recovery is passed exactly by the moves to ISOLATED.
ResetsRecovery(target) == target = "ISOLATED"

Transition(target, o) ==
    /\ state' = target
    /\ last_transition_index' = o.index
    /\ evidence_at_transition' = o.completed
    /\ transition_count' = transition_count + 1
    /\ reversal_count' = reversal_count + (IF Reverses(Direction(target)) THEN 1 ELSE 0)
    /\ last_transition_direction' =
           IF Direction(target) = "LATERAL" THEN last_transition_direction
                                            ELSE Direction(target)
    /\ ever_isolated' = (ever_isolated \/ target = "ISOLATED")
    /\ recovery_epoch' = IF ResetsRecovery(target) THEN recovery_epoch + 1
                                                   ELSE recovery_epoch
    /\ recovery_evidence_floor' = IF ResetsRecovery(target) THEN o.completed
                                                            ELSE recovery_evidence_floor
    /\ isolation' = IF target = "ISOLATED"
                    THEN [index |-> o.index, completed |-> o.completed]
                    ELSE isolation
    /\ heading' = IF Severity[target] > Severity[state] THEN 1
                  ELSE IF Severity[target] < Severity[state] THEN -1 ELSE heading

Hold ==
    UNCHANGED <<state, last_transition_index, evidence_at_transition,
                recovery_evidence_floor, transition_count, reversal_count,
                last_transition_direction, ever_isolated, recovery_epoch,
                isolation, heading>>

-----------------------------------------------------------------------------
(* The branches of evaluate(), in the order the code tries them. *)

EmergencyIsolate(o) ==
    /\ Accept(o)
    /\ state # "ISOLATED"
    /\ Emergency(o)
    /\ Transition("ISOLATED", o)

ReisolateDuringReentry(o) ==
    /\ Accept(o)
    /\ state \in Staged
    /\ ~Emergency(o)
    /\ HardBlocker(o)
    /\ Transition("ISOLATED", o)

RecoveryTarget(o) ==
    IF EffectiveSeverity(o) > 0 THEN "CAUTION" ELSE "STAGED_REENTRY_1"

LeaveIsolation(o) ==
    /\ Accept(o)
    /\ state = "ISOLATED"
    /\ ~HardBlocker(o)
    /\ RecoveryEvidenceReady(o)
    /\ CooldownReady(o)
    /\ Transition(RecoveryTarget(o), o)

HoldIsolated(o) ==
    /\ Accept(o)
    /\ state = "ISOLATED"
    /\ \/ HardBlocker(o)
       \/ ~RecoveryEvidenceReady(o)
       \/ ~CooldownReady(o)
    /\ Hold

SoftWarningDuringReentry(o) ==
    /\ Accept(o)
    /\ state \in Staged
    /\ ~Emergency(o)
    /\ ~HardBlocker(o)
    /\ EffectiveSeverity(o) = 1
    /\ Transition("CAUTION", o)

\* None of the branches above applies.
Ordinary(o) ==
    /\ state # "ISOLATED"
    /\ ~Emergency(o)
    /\ state \in Staged => ~HardBlocker(o) /\ EffectiveSeverity(o) # 1

EscalationTarget(o) == IF EffectiveSeverity(o) = 2 THEN "RESTRICTED" ELSE "CAUTION"

Escalate(o) ==
    /\ Accept(o)
    /\ Ordinary(o)
    /\ EffectiveSeverity(o) > Severity[state]
    /\ Transition(EscalationTarget(o), o)

HoldHysteresis(o) ==
    /\ Accept(o)
    /\ Ordinary(o)
    /\ EffectiveSeverity(o) > 0
    /\ EffectiveSeverity(o) <= Severity[state]
    /\ Hold

\* One rung down, from each state that has one.
RelaxTo == [s \in GovernanceState \ {"NORMAL", "ISOLATED"} |->
    CASE s = "STAGED_REENTRY_1" -> "STAGED_REENTRY_2"
      [] s = "STAGED_REENTRY_2" -> "NORMAL"
      [] s = "RESTRICTED" -> "CAUTION"
      [] s = "CAUTION" -> "NORMAL"]

Quiet(o) == Ordinary(o) /\ EffectiveSeverity(o) = 0

Relax(o) ==
    /\ Accept(o)
    /\ Quiet(o)
    /\ state # "NORMAL"
    /\ EvidenceReady(o)
    /\ CooldownReady(o)
    /\ Transition(RelaxTo[state], o)

HoldQuiet(o) ==
    /\ Accept(o)
    /\ Quiet(o)
    /\ state = "NORMAL" \/ ~EvidenceReady(o) \/ ~CooldownReady(o)
    /\ Hold

-----------------------------------------------------------------------------
Init ==
    /\ profile \in Profiles
    /\ state = "NORMAL"
    /\ last_transition_index = 0
    /\ evidence_at_transition = 0
    /\ recovery_evidence_floor = 0
    /\ missing_streak = 0
    /\ transition_count = 0
    /\ reversal_count = 0
    /\ last_transition_direction = ""
    /\ ever_isolated = FALSE
    /\ recovery_epoch = 0
    /\ last_observation = [index |-> 0, time |-> 0, completed |-> 0]
    /\ triggers = "none"
    /\ isolation = [index |-> 0, completed |-> 0]
    /\ heading = 0

\* evaluate(); a call that raises leaves everything as it was and is a stutter.
evaluate(o) ==
    \/ EmergencyIsolate(o)
    \/ ReisolateDuringReentry(o)
    \/ LeaveIsolation(o)
    \/ HoldIsolated(o)
    \/ SoftWarningDuringReentry(o)
    \/ Escalate(o)
    \/ HoldHysteresis(o)
    \/ Relax(o)
    \/ HoldQuiet(o)

Next == \E o \in Observations : evaluate(o)

Spec == Init /\ [][Next]_vars

-----------------------------------------------------------------------------
(* Properties. *)

\* Every field of AgentGovernanceStateMachine keeps its type.
TypeOK ==
    /\ profile \in Profiles
    /\ state \in GovernanceState
    /\ last_transition_index \in Nat
    /\ evidence_at_transition \in Nat
    /\ recovery_evidence_floor \in Nat
    /\ missing_streak \in Nat
    /\ transition_count \in Nat
    /\ reversal_count \in Nat
    /\ last_transition_direction \in {"", "ESCALATE", "DEESCALATE"}
    /\ ever_isolated \in BOOLEAN
    /\ recovery_epoch \in Nat
    /\ last_observation \in [index : Nat, time : Nat, completed : Nat]
    /\ triggers \in {"none", "confidence", "soft", "missing", "severe", "override"}
    /\ isolation \in [index : Nat, completed : Nat]
    /\ heading \in {-1, 0, 1}

\* Authority regained since the last isolation was earned: outside ISOLATED it has cost one
\* cooldown and newly completed outcomes, and in the second stage or NORMAL both twice over.
RecoveryEarned ==
    ever_isolated =>
        /\ recovery_evidence_floor = isolation.completed
        /\ state # "ISOLATED" =>
              /\ evidence_at_transition - isolation.completed >= MinNewOutcomes
              /\ last_transition_index - isolation.index >= CooldownIntervals
        /\ state \in {"STAGED_REENTRY_2", "NORMAL"} =>
              /\ evidence_at_transition - isolation.completed >= 2 * MinNewOutcomes
              /\ last_transition_index - isolation.index >= 2 * CooldownIntervals

\* The state always answers the last observation: an override or persistent
\* telemetry loss isolates, a severe signal restricts, and no call that saw a hard
\* blocker (or, in the Full profile, any trigger) ends in NORMAL or in re-entry.
DemandMet ==
    /\ triggers = "override" => state = "ISOLATED"
    /\ missing_streak >= PersistentLoss => state = "ISOLATED"
    /\ triggers = "severe" => state \in {"RESTRICTED", "ISOLATED"}
    /\ triggers = "missing" \/ (CautionOnSoftSignal /\ triggers # "none") =>
          state \in {"CAUTION", "RESTRICTED", "ISOLATED"}

\* The severity moves the other way than it last did, whatever rungs and lateral moves lie
\* between.
Turns ==
    \/ heading = 1 /\ Severity[state'] < Severity[state]
    \/ heading = -1 /\ Severity[state'] > Severity[state]

\* The audit counters count what happened, no more and no less, on every branch: each change
\* of state once, each turn of the severity once (not the first move, a lateral one or a
\* second one the same way), and an epoch just when the agent is isolated from outside.
AuditCounters ==
    [][/\ transition_count' - transition_count = (IF state' # state THEN 1 ELSE 0)
       /\ reversal_count' - reversal_count = (IF Turns THEN 1 ELSE 0)
       /\ recovery_epoch' - recovery_epoch =
             (IF state # "ISOLATED" /\ state' = "ISOLATED" THEN 1 ELSE 0)]_vars

\* Confidence-only and soft signals never take an agent into RESTRICTED or ISOLATED.
ConfidenceCapped ==
    [][state' # state /\ state' \in {"RESTRICTED", "ISOLATED"} =>
          triggers' \in {"missing", "severe", "override"}]_vars

\* No call gives back cooldown already served or takes back evidence already shown,
\* other than by a transition, and the recovery floor never comes down.
NoRewind ==
    [][/\ state' = state =>
             /\ last_observation'.index - last_transition_index'
                    >= last_observation.index - last_transition_index
             /\ last_observation'.completed - evidence_at_transition'
                    >= last_observation.completed - evidence_at_transition
       /\ recovery_evidence_floor' >= recovery_evidence_floor]_vars

\* Every relaxation waits out the cooldown and sees enough new outcomes since the last
\* transition, except the exit of a staged re-entry to CAUTION on a soft warning.
RelaxationEarned ==
    [][Severity[state'] < Severity[state] /\ ~(state \in Staged /\ state' = "CAUTION") =>
          /\ last_transition_index' - last_transition_index >= CooldownIntervals
          /\ evidence_at_transition' - evidence_at_transition >= MinNewOutcomes]_vars

\* README: "Recovery requires both a cooldown and newly completed evidence".
RecoveryAlwaysEarned ==
    [][Severity[state'] < Severity[state] =>
          /\ last_transition_index' - last_transition_index >= CooldownIntervals
          /\ evidence_at_transition' - evidence_at_transition >= MinNewOutcomes]_vars
=============================================================================
