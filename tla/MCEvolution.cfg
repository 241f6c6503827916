SPECIFICATION Spec
CONSTANTS
    v1 = v1
    v2 = v2
    v3 = v3
    c1 = c1
    c2 = c2
    Versions <- MCVersions
    Callers = {c1, c2}
    WindowDays = 2
    Evidence <- MCEvidence
    MaxDay = 3
    MaxCrashes = 1
INVARIANTS
    WindowsAreSeparate
    OneActive
    RejectedStaysOut
    PointerIsEarned
CHECK_DEADLOCK FALSE
SYMMETRY Symmetry
