SPECIFICATION Spec
CONSTANTS
    o1 = o1
    o2 = o2
    Orders <- MC_Orders
    Setups <- MC_OneOrder
    None = None
    MaxRepeats = 0
PROPERTY RefusalIsFinal
