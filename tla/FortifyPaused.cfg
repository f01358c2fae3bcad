SPECIFICATION Spec
CONSTANTS
    Callers = {c1, c2}
    Nobody = Nobody
    Pause = 2
    MaxTtl = 2
PROPERTY
    PausedRequests
