SPECIFICATION Spec
CONSTANTS
    Observations <- MC_Observations
    Profiles = {"V21_FULL", "V21_LEAN"}
    PersistentLoss = 2
    CooldownIntervals = 2
    MinNewOutcomes = 1
    MaxStreak = 3
    Indices = {0, 1, 2, 4, 6}
    LastCompleted = 3
INVARIANTS TypeOK RecoveryEarned DemandMet
PROPERTIES AuditCounters ConfidenceCapped NoRewind RelaxationEarned ImplementsLadder
CHECK_DEADLOCK FALSE
