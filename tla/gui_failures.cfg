CONSTANTS
    t1 = t1  t2 = t2  f1 = f1  f2 = f2
    Tab = {t1}
    Does = {"one-off", "open", "new session"}
    MaxInv = 2
    MaxRequests = 2
    File = {f1, f2}
    Unreadable = {}
    MaxCases = 3
    OldCases = {1}
    MaxPicks = 1
    Faults = TRUE
    Disconnects = TRUE
    Deletes = FALSE
SPECIFICATION GuiSpec
INVARIANT IngestedHere
CHECK_DEADLOCK FALSE
