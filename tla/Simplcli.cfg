SPECIFICATION FairSpec
CONSTANTS
    Lines <- MCLines
    Unused = Unused
    Args <- MCArgs
    Opened <- MCOpened
    NoMr = "nil"
    RowCap = 1
    FailedPipelines <- MCFailedPipelines
    Relevant <- MCRelevant
    PipelineJobs <- MCPipelineJobs
    FailedJobs <- MCFailedJobs
    Says429 <- MCSays429
    HeadPipeline <- MCHeadPipeline
    NoPipeline = "null"
    FailedOf <- MCFailedOf
    FortifyJobs <- MCFortifyJobs
    ReleaseIn <- MCReleaseIn
    NoRelease = "null"
    ProjectId <- MCProjectId
    Members <- MCMembers
    WordLists <- MCWordLists
    Me <- MCMe
    Given <- MCGiven
    Registries <- MCRegistries
    Names <- MCNames
    Realms = {r1, r2}
    NoRealm = NoRealm
INVARIANTS
    TypeOK
    OneOutcomeEach
    NoNilDereference
    RestartsWanted
    RestartsBounded
    ReportIsHonest
    EveryQueryMine
    AnswerIsPrefix
    PairsMatchReport
    HonestExit
PROPERTIES
    Finishes
