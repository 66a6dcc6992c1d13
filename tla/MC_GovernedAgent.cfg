SPECIFICATION Spec
CONSTANTS
    Role = "retail"
    Envelope <- MC_Envelope
    Price = 1
    Profiles = {"V21_FULL"}
    PersistentLoss = 2
    CooldownIntervals = 1
    MinNewOutcomes = 1
    Signals = {"none", "override"}
    Window = 1
    Proposals <- MC_Proposals
    Slots = {1, 2}
    MaxBook = 2
    None = None
INVARIANTS TypeOK ReductionsNeverCancelled
PROPERTIES ReopeningEarned ShutStaysShut VettedFillsKeepLimits SevereShutsOpenings
