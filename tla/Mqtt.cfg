CONSTANTS
    Threads = {t1, t2}
    Serial = TRUE
    MaxRetries = 2
    MaxDue = 3
    Faults = {"client"}
SPECIFICATION Spec
SYMMETRY ThreadSymmetry
INVARIANTS
    TypeOK
    DeafOnlyWhileDisconnected
    ConnectedIsAnnounced
    GivesUpInOneOutage
PROPERTY
    TransitionsAreRows
