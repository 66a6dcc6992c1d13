--------------------------- MODULE LadderRefinement ---------------------------
(***************************************************************************)
(* The governance state machine implements the recovery ladder.  Indices   *)
(* and counts become what is left of the cooldown and how much of the      *)
(* required evidence is in; in ISOLATED, where the code counts from the    *)
(* recovery floor, the mapping relies on the floor being the count at the  *)
(* last transition.                                                        *)
(***************************************************************************)
EXTENDS GovernanceStateMachine

Saturate(bound, n) == IF n < bound THEN n ELSE bound

CooldownRemaining ==
    LET left == CooldownIntervals - (last_observation.index - last_transition_index)
    IN  IF left > 0 THEN left ELSE 0

EvidenceShown ==
    Saturate(MinNewOutcomes, last_observation.completed - evidence_at_transition)

Ladder == INSTANCE RecoveryLadder WITH
    wait <- CooldownRemaining,
    evidence <- EvidenceShown,
    loss <- Saturate(PersistentLoss, missing_streak),
    signal <- triggers

\* Every evaluate() of the code is an interval of the ladder.
ImplementsLadder == Ladder!LadderSpec
=============================================================================
