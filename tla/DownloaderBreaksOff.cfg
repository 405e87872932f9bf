CONSTANTS
    Sizes <- MCSizes
    MaxBytes = 21
    MaxSubscriptions = 3
SPECIFICATION Spec
INVARIANT
    SuccessIsComplete
