SPECIFICATION Spec
CONSTANTS
    o1 = o1
    o2 = o2
    Orders <- MC_Orders
    Setups <- MC_Setups
    None = None
    MaxRepeats = 1
SYMMETRY MC_Symmetry
INVARIANTS TypeOK EligibleMeansComplete RaceFlagged ExceedCountedOnce
