CONSTANTS
    t1 = t1  t2 = t2  f1 = f1  f2 = f2
    Tab = {t1}
    Does = {"one-off", "new case", "new session", "open", "switch", "delete"}
    MaxInv = 2
    MaxRequests = 3
    File = {f1, f2}
    Unreadable = {}
    MaxCases = 4
    OldCases = {1}
    MaxPicks = 1
    Faults = FALSE
    Disconnects = FALSE
    Deletes = TRUE
SPECIFICATION GuiSpec
INVARIANTS SessionTypeOK OncePerCase Apart
CHECK_DEADLOCK FALSE
