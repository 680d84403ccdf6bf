\* Three calls of one generation behind one slot.
SPECIFICATION Spec
CONSTANTS
    MaxGens = 1
    MaxAgents = 3
    Limit = 1
    Retries = 0
    Hashes = {h1}
    Ask = Ask
INVARIANT WithinLimit
CHECK_DEADLOCK FALSE
