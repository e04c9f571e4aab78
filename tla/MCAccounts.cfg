\* Two requests at a time, of different users in one browser too; any tick is too long, and one
\* exchange of the table.
CONSTANTS
    Users = {u1, u2}
    Names = {"admin", "sara"}
    DefaultName = "admin"
    Browsers = {b1}
    Threads = {t1, t2}
    None = None
    Files <- MCFiles
    Timeout = 0
    MaxClock = 1
    MaxFiles = 1
SPECIFICATION AccountsSpec
SYMMETRY Interchangeable
INVARIANTS OwnSession
PROPERTIES LostOnlyToTheRemoved IdleLock
