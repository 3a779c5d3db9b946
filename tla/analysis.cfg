\* Three uploads to a case, analyses between them, a gateway that may be declared.
CONSTANTS
    none = none
    None = none
    Generic = {"system"}
    TacticsIn <- MCTactics
    ParentOf <- MCParent
    PhaseOfTactic <- MCPhases
    Gap = 2
    ClusterLimit = 5
    EpisodeLimit = 5
    TimelineLimit = 5
    NodeLimit = 6
    FamilyLimit = 2
    HostLimit = 2
    TechniqueLimit = 5
    CommonPorts = {80}
    TopLimit = 3
    MinEvents = 4
    Uploads <- MCUploads
    Addresses = {"gw"}
    DigestCap = 2
    MaxUploads = 3
    Faults = TRUE
SPECIFICATION Spec
INVARIANTS TypeOK ClustersAreComponents EpisodesAreSessions HostsAgree NoSilentAbsence BandsHold BeaconsByConnection
PROPERTIES BridgesTold MergedIsMerged
