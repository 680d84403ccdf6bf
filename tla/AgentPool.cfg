SPECIFICATION LiveSpec
CONSTANTS
  r1 = r1
  r2 = r2
  r3 = r3
  Reqs = {r1, r2}
  Size = 1
  MaxConns = 2
  MaxAuth = 1
  MaxProv = 1
  MaxReplays = 2
  Injected = {TRUE, FALSE}
  Faulty = TRUE
INVARIANTS SlotsCounted ReservedByOne NoneLost
PROPERTIES DisposalSparesBusy ShrinksToSize DisposeEnds
CONSTRAINTS OneChange OthersInject
CHECK_DEADLOCK FALSE
