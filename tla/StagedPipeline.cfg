SPECIFICATION FairSpec
CONSTANTS
    NStages = 3
    Cap = 1
    Item <- MCItem
    Source <- MCSource
    Answers <- MCAnswers
    Skips <- MCSkips
INVARIANTS
    NoSendOnClosed
    NothingLeftBehind
PROPERTIES
    ImplementsWorklist
