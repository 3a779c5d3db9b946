\* Every request of MCIngest, its EVTX files two at a time, while another
\* request of the installation runs Hayabusa.
CONSTANTS
    None = None
    EventIds <- MCEventIds
    TacticName <- MCTacticName
    YearLength = 100
    Request <- MCRequest
    Cpus = 2
    Runner = {0, 1, 2, 3, 9}
    Peers = {9}
    Faults = TRUE
SPECIFICATION Spec
INVARIANTS BuildTypeOK NothingLostSilently NoFalseAlarm OnceOnly LinkSettles JoinKeys OneClock ValuesUnderTheirKey ZeekWhole
PROPERTY Returns
CHECK_DEADLOCK FALSE
