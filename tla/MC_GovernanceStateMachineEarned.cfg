SPECIFICATION Spec
CONSTANTS
    Observations <- MC_Observations
    Profiles = {"V21_FULL"}
    PersistentLoss = 2
    CooldownIntervals = 2
    MinNewOutcomes = 1
    MaxStreak = 3
    Indices = {0, 1, 2, 4, 6}
    LastCompleted = 3
PROPERTY RecoveryAlwaysEarned
CHECK_DEADLOCK FALSE
