SPECIFICATION Spec
CONSTANTS
    Agents = {a1, a2}
    Queues = {q1}
    Steers = {s1, s2}
    Session <- MCSession
    Cap = 1
    MaxCalls = 3
    MaxCrashes = 1
    MaxDrains = 1
    None = None
INVARIANTS LedgerFirst OneTurnPerSession CapUnlessRestored SlotsWorked NothingForgotten
CHECK_DEADLOCK FALSE
CONSTRAINT Effort
SYMMETRY SteersAlike
