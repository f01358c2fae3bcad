SPECIFICATION ComposedSpec
CONSTANTS
    Args = {1}
    Opened <- MCOpened
    HeadPipeline <- MCHeadPipeline
    NoPipeline = "null"
    FailedJobs <- MCFailedJobs
    FortifyJobs <- MCFortifyJobs
    ReleaseIn <- MCReleaseIn
    NoRelease = "null"
    Cap = 1
    Nobody = Nobody
    Pause = 1
    MaxTtl = 1
PROPERTIES
    ImplementsAutoheal
