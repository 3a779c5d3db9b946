\* The GUI and a CLI run on one case of an older layout, forced re-adds
\* included, one operation cut short.
CONSTANTS
    w1 = w1  w2 = w2  gui = gui  cli = cli
    b1 = b1  b2 = b2  none = none
    n1 = n1  n2 = n2  gw = gw  c1 = c1  c2 = c2  c3 = c3
    Process = {gui, cli}
    Worker = {w1, w2}
    ProcessOf <- TwoProcesses
    Batch = {b1, b2}
    SizeOf <- MCSizeOf
    Text = {n1}
    IpList <- OnlyEmpty
    Column = {c1, c2, c3}
    ColumnsOf <- SameVersion
    OldLayouts <- OlderLayout
    Deletes = FALSE
    ForceAllowed = TRUE
    MaxOps = 3
    MaxFaults = 1
    MaxFiles = 1
    MaxRowId = 20
SPECIFICATION Spec
INVARIANTS EventIdsUnique UntimedOwned SourceBacked Rebuildable EventsDerived
CHECK_DEADLOCK FALSE
