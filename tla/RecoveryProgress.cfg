SPECIFICATION ProgressSpec
CONSTANTS
    Profiles = {"V21_FULL", "V21_LEAN"}
    PersistentLoss = 3
    CooldownIntervals = 2
    MinNewOutcomes = 2
PROPERTIES QuietReachesNormal IsolationEnds
