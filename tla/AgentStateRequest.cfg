CONSTANTS
    Versions = {v1, v2}
    StartModes = {TRUE}
    Faults = {}
SPECIFICATION Spec
PROPERTY
    StateRequestIsAnswered
