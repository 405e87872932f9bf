CONSTANTS
    MaxCalls = 3
    MaxWaits = 2
    Faults = {"crash", "restart", "dbus"}
SPECIFICATION FairSpec
INVARIANTS
    TypeOK
    SuccessIsOurs
PROPERTIES
    StartReturns
    KeepsContract
