SPECIFICATION Spec
CONSTANTS
    Agents = {a1, a2}
    Queues = {q1}
    Steers = {s1}
    Session <- MCSession
    Cap = 1
    MaxCalls = 1
    MaxCrashes = 1
    MaxDrains = 0
    None = None
PROPERTY FreshCallsAreOpen
CHECK_DEADLOCK FALSE
