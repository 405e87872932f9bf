CONSTANTS
    Versions = {v1, v2, v3}
    StartModes = {TRUE, FALSE}
    Faults = {"crash", "timeout", "mark", "dbus"}
    Activities = {a1, a2}
SPECIFICATION FeedbackSpec
SYMMETRY RequestSymmetry
INVARIANTS
    TypeOK
    ReportedImageIsInOtherSlot
    SuccessIsActivated
    NextBootIsComplete
    FeedbackTypeOK
    BodyAnswersItsRequest
    FeedbackIsAddressed
    ClosingTellsTheOutcome
    SuccessNamesTheImage
    AwaitedBundleIsUntouched
PROPERTIES
    KeepsContract
    RefusalsAreTold
