\* One caller whose operations are cut short twice, anywhere.
CONSTANTS
    w1 = w1  w2 = w2  gui = gui  cli = cli
    b1 = b1  b2 = b2  none = none
    n1 = n1  n2 = n2  gw = gw  c1 = c1  c2 = c2  c3 = c3
    Process = {gui}
    Worker = {w1}
    ProcessOf <- OneProcess
    Batch = {b1, b2}
    SizeOf <- MCSizeOf
    Text = {n1}
    IpList <- OnlyEmpty
    Column = {c1, c2, c3}
    ColumnsOf <- SameVersion
    OldLayouts <- AnyLayout
    Deletes = FALSE
    ForceAllowed = FALSE
    MaxOps = 4
    MaxFaults = 2
    MaxFiles = 1
    MaxRowId = 20
SPECIFICATION Spec
INVARIANT AnalysisSeesEverySource
CHECK_DEADLOCK FALSE
