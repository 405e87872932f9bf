CONSTANTS
    Versions = {v1, v2, v3}
    StartModes = {TRUE, FALSE}
    Faults = {"dbus"}
SPECIFICATION Spec
SYMMETRY VersionSymmetry
INVARIANT
    InstalledWaitsForActivation
PROPERTIES
    OnlyActivateSwitches
    SlotProtocol
    EventsFollowTable
