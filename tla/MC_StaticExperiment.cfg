SPECIFICATION Spec
CONSTANTS
    Role = "retail"
    Envelope <- MC_Envelope
    InstEnvelope <- MC_InstEnvelope
    MakerEnvelope <- MC_MakerEnvelope
    Price = 100
    PersistentLoss = 3
    CooldownIntervals = 2
    MinNewOutcomes = 2
    LastIndex = 17
    OtherSignals <- MC_OtherSignals
    OtherOrders <- MC_OtherOrders
    MaxChanges = 2
INVARIANTS TypeOK HardSafetyHeld RetentionComparable ProfilesDifferBySoftSignals
CHECK_DEADLOCK FALSE
