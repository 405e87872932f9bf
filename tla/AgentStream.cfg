CONSTANTS
    Versions = {v1, v2}
    StartModes = {FALSE}
    Faults = {}
SPECIFICATION FairSpec
PROPERTY
    StreamUpdateProceeds
