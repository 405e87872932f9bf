CONSTANTS
    Versions = {v1, v2}
    StartModes = {TRUE}
    Faults = {"timeout"}
SPECIFICATION Spec
PROPERTY
    OnlyActivateSwitches
