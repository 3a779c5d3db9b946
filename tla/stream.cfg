\* Two requests over cases that exist, are minted, or are deleted meanwhile.
CONSTANTS
    f1 = f1  f2 = f2
    MaxRequests = 2
    File = {f1}
    Unreadable = {f1}
    MaxCases = 2
    OldCases = {}
    MaxPicks = 1
    Faults = TRUE
    Disconnects = TRUE
    Deletes = TRUE
SPECIFICATION FairSpec
INVARIANTS TypeOK SeesOwn NoEvidenceLost AllTold
PROPERTY Answered
CHECK_DEADLOCK FALSE
