CONSTANTS
    Commit <- MCCommit
    CommitTree <- MCCommitTree
    Compatibility <- MCCompatibility
    Fixtures <- MCFixtures
    Mounts <- MCMounts
    MountPath = "session"
    QidPath = "qid"
    MountText <- MCMountText
    QidText <- MCQidText
    Dependencies <- MCDependencies
    Required <- MCRequired
    OwnerModules <- MCOwnerModules
    LegacyCases <- MCLegacyCases
    BinaryOf <- MCBinaryOf
    PhaseLogs <- MCPhaseLogs
    Timing = "timing"
    Ignored = "ignored"
    Frozen = "frozen"
    Commands <- MCCommands
    MaxTimeout = 3
    ScheduleFloor = 2
    Kinds <- MCKinds
    Rates <- MCRates
    Loads <- MCLoads
    Interval <- MCInterval
    P95Slack = 1
    P99Slack = 1
    Updates <- MCUpdates
    Pairs <- MCPairs
    MaxUpdates = 2
    AdmittedFloor = 2
    MaxPair = 2
    AcceptanceGroups = 4
    MaxRuns = 8
    DrainBudget = 2
    MaxMishaps = 1
SPECIFICATION GateSpec
INVARIANTS
    
    PassRanTheNamedBinaries
    ManifestNamesEveryChange
    InterruptedIsRefused
    ManifestBindsTheDisk
    CampaignIsReadable
    GatePassIsEarned
PROPERTIES
    OthersLockSurvives
    BoundedRunsEnd
CHECK_DEADLOCK FALSE
