\* Two threads, four requests in two seconds; one or two automatic backups are kept.
CONSTANTS
    Threads = {t1, t2}
    Torn = Torn
    Void = Void
    KeepsTyped = {0}
    MostKept = 2
    MaxClock = 1
    MaxRequests = 4
SPECIFICATION BackupsSpec
SYMMETRY Interchangeable
INVARIANTS BackupsTypeOK ReplacedIsKeptUnlessCrossed
PROPERTIES OnlyOldAutoPruned BackedUpOnStart RestoresTheChosen
CHECK_DEADLOCK FALSE
