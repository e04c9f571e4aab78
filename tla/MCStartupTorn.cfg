\* A crash during the copy: ServesEventually does not hold.
CONSTANTS
    p1 = p1
    p2 = p2
    Projects = {p1, p2}
    Additions <- MCAdditions
    Keep = 1
    MaxCrashes = 1
    InitialTargets <- AllTargets
    InitialLegacies <- AnyLegacy
    Missing = Missing
    Torn = Torn
SPECIFICATION StartupSpec
PROPERTIES ServesEventually
