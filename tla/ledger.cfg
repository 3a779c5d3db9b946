\* One caller, no failure, deletions included: the store implements the ledger.
CONSTANTS
    w1 = w1  w2 = w2  gui = gui  cli = cli
    b1 = b1  b2 = b2  none = none
    n1 = n1  n2 = n2  gw = gw  c1 = c1  c2 = c2  c3 = c3
    Process = {gui}
    Worker = {w1}
    ProcessOf <- OneProcess
    Batch = {b1, b2, none}
    SizeOf <- MCSizeOf
    Text = {n1}
    IpList <- MCIpList
    Column = {c1, c2, c3}
    ColumnsOf <- SameVersion
    OldLayouts <- WiderLayout
    Deletes = TRUE
    ForceAllowed = FALSE
    MaxOps = 4
    MaxFaults = 0
    MaxFiles = 3
    MaxRowId = 20
SPECIFICATION Spec
INVARIANTS TypeOK CountsAgree
PROPERTY ImplementsLedger
CHECK_DEADLOCK FALSE
