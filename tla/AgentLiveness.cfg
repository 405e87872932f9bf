CONSTANTS
    Versions = {v1, v2}
    StartModes = {TRUE}
    Faults = {"crash", "timeout"}
SPECIFICATION FairSpec
PROPERTY
    UpdateConcludes
