SPECIFICATION Spec
CONSTANTS
    Role = "retail"
    Envelope <- MC_Envelope
    Price = 1
    States = {"NORMAL", "CAUTION", "RESTRICTED"}
    Window = 1
    Proposals <- MC_Proposals
    MaxClock = 2
    MaxFill = 2
    MaxBook = 2
    MaxOrders = 2
PROPERTY ExitNeverBlocked
