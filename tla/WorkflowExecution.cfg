\* Two generations of two calls behind one slot, one retry each.
\* A run may end for good, so the system may stop.
SPECIFICATION FairSpec
CONSTANTS
    MaxGens = 2
    MaxAgents = 2
    Limit = 1
    Retries = 1
    Hashes = {h1}
    Ask = Ask
INVARIANTS
    DenseManifest
    ResultsJournaled
    NoIdleSlot
PROPERTIES CancelTruthful
    NoRework
    QueueDrains
CHECK_DEADLOCK FALSE
