---------------------------- MODULE RecoveryLadder ----------------------------
(***************************************************************************)
(* What the governance state machine promises, in a form with finitely     *)
(* many states: the ladder of states, how much cooldown is left, how much  *)
(* of the required new evidence is in, and how long telemetry has been     *)
(* missing, each saturated at the value that decides.  An interval brings  *)
(* one class of signals, an advance of the governance index and a number   *)
(* of newly completed outcomes.  GovernanceStateMachine implements it: a   *)
(* rung is left as soon as cooldown and evidence allow.  How much of both  *)
(* the deciding interval brought is not part of the state, so that a rung  *)
(* is left no sooner is a property of the machine itself.                  *)
(***************************************************************************)
EXTENDS Integers

CONSTANTS Profiles, PersistentLoss, CooldownIntervals, MinNewOutcomes

ASSUME LadderAssumption ==
    /\ Profiles \subseteq {"V21_FULL", "V21_LEAN"}
    /\ PersistentLoss \in Nat \ {0}
    /\ CooldownIntervals \in Nat
    /\ MinNewOutcomes \in Nat

VARIABLES
    profile,    \* the agent's profile, fixed when it is made
    state,      \* the governance state
    wait,       \* cooldown_remaining
    evidence,   \* outcomes completed since the last transition, up to the minimum
    loss,       \* missing_streak, up to the persistent loss
    signal      \* class of the last interval's signals

ladder == <<profile, state, wait, evidence, loss, signal>>

Class == {"none", "confidence", "soft", "missing", "severe", "override"}
Hard == {"missing", "severe", "override"}
Staged == {"STAGED_REENTRY_1", "STAGED_REENTRY_2"}
LadderState == {"NORMAL", "CAUTION", "RESTRICTED", "ISOLATED"} \cup Staged

\* Mutant: Full is cautious whatever the interval brings.
ActsAlways(class) == class \in Hard \/ profile = "V21_FULL"

\* The signals this profile acts on.
Acts(class) == class \in Hard \/ (profile = "V21_FULL" /\ class # "none")

\* Mutant: the relaxation of RESTRICTED is forgotten.
DownButRestricted == [s \in LadderState |->
    CASE s = "ISOLATED" -> "STAGED_REENTRY_1"
      [] s = "STAGED_REENTRY_1" -> "STAGED_REENTRY_2"
      [] s = "RESTRICTED" -> "RESTRICTED"
      [] s \in {"STAGED_REENTRY_2", "CAUTION", "NORMAL"} -> "NORMAL"]

\* One rung towards NORMAL in quiet weather.
Down == [s \in LadderState |->
    CASE s = "ISOLATED" -> "STAGED_REENTRY_1"
      [] s = "STAGED_REENTRY_1" -> "STAGED_REENTRY_2"
      [] s = "RESTRICTED" -> "CAUTION"
      [] s \in {"STAGED_REENTRY_2", "CAUTION", "NORMAL"} -> "NORMAL"]

\* A hard signal revokes re-entry and raises an ordinary state to its own severity.
HardTarget(class) ==
    CASE state \in Staged \cup {"ISOLATED"} -> "ISOLATED"
      [] state = "RESTRICTED" \/ (class = "severe" /\ state \in {"NORMAL", "CAUTION"}) -> "RESTRICTED"
      [] OTHER -> "CAUTION"

\* Mutant: a soft signal blocks the way out of ISOLATED like a hard one.
SoftTargetBlocked(ready) ==
    IF state \in {"RESTRICTED", "ISOLATED"} THEN state ELSE "CAUTION"

\* A soft one ends re-entry in CAUTION and releases ISOLATED no further than that.
SoftTarget(ready) ==
    IF state = "RESTRICTED" \/ (state = "ISOLATED" /\ ~ready) THEN state ELSE "CAUTION"

\* Where an interval takes the ladder.
Target(class, lost, ready) ==
    CASE class = "override" \/ lost -> "ISOLATED"
      [] class \in {"missing", "severe"} /\ ~lost -> HardTarget(class)
      [] class \notin Hard /\ ~lost ->
            IF Acts(class) THEN SoftTarget(ready)
            ELSE IF ready THEN Down[state] ELSE state

AtMost(bound, n) == IF n < bound THEN n ELSE bound
AtLeast(bound, n) == IF n > bound THEN n ELSE bound

\* A hard signal may or may not come with missing telemetry.
Interval(class, missing, advance, completed) ==
    LET cooled == AtLeast(0, wait - advance)
        shown  == AtMost(MinNewOutcomes, evidence + completed)
        gap    == IF missing THEN AtMost(PersistentLoss, loss + 1) ELSE 0
        next   == Target(class, gap = PersistentLoss, cooled = 0 /\ shown = MinNewOutcomes)
    IN  /\ signal' = class
        /\ class = "missing" => missing
        /\ missing => class \in Hard
        /\ loss' = gap
        /\ state' = next
        /\ wait' = IF next = state THEN cooled ELSE CooldownIntervals
        /\ evidence' = IF next = state THEN shown ELSE 0
        /\ UNCHANGED profile

LadderInit ==
    /\ profile \in Profiles
    /\ state = "NORMAL"
    /\ wait = CooldownIntervals
    /\ evidence = 0
    /\ loss = 0
    /\ signal = "none"

LadderNext ==
    \E class \in Class, missing \in BOOLEAN,
       advance \in 0..CooldownIntervals, completed \in 0..MinNewOutcomes :
          Interval(class, missing, advance, completed)

LadderSpec == LadderInit /\ [][LadderNext]_ladder
=============================================================================
