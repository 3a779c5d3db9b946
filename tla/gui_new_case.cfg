CONSTANTS
    t1 = t1  t2 = t2  f1 = f1  f2 = f2
    Tab = {t1}
    Does = {"new case"}
    MaxInv = 2
    MaxRequests = 3
    File = {f1, f2}
    Unreadable = {}
    MaxCases = 3
    OldCases = {}
    MaxPicks = 1
    Faults = FALSE
    Disconnects = FALSE
    Deletes = FALSE
SPECIFICATION GuiSpec
INVARIANT IngestedHere
CHECK_DEADLOCK FALSE
