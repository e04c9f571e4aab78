\* Databases of every version, with and without a legacy file beside them.
CONSTANTS
    p1 = p1
    p2 = p2
    Projects = {p1, p2}
    Additions <- MCAdditions
    Keep = 1
    MaxCrashes = 2
    InitialTargets <- AllTargets
    InitialLegacies <- AnyLegacy
    Missing = Missing
    Torn = Torn
SPECIFICATION StartupSpec
INVARIANTS StartupTypeOK ServesCurrent UnfilledOnlyAfterCrash
PROPERTIES ReplacedIsKept BackupBeforeChange CurrentIsLeftAlone StartAdvances ServesUnlessTorn BooksImplemented
