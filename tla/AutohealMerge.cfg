SPECIFICATION FairSpec
CONSTANTS
    Args <- MCArgs
    Opened <- MCOpened
    HeadPipeline <- MCHeadPipeline
    NoPipeline = "null"
    FailedJobs <- MCFailedJobs
    FortifyJobs <- MCFortifyJobs
    ReleaseIn <- MCReleaseIn
    NoRelease = "null"
    Cap = 1
INVARIANTS
    RestartOnlyMarked
    ReportedWereRestarted
    RestartsBounded
PROPERTIES
    ImplementsWorklist
