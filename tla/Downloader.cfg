CONSTANTS
    Sizes <- MCSizes
    MaxBytes = 21
    MaxSubscriptions = 3
SPECIFICATION Spec
INVARIANTS
    TypeOK
    ReportsComeInSteps
    ListenersLive
PROPERTY
    FirstProgressIsReported
