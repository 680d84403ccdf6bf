SPECIFICATION LiveSpec
CONSTANTS
  m1 = m1
  m2 = m2
  Managers = {m1, m2}
  NoManager = NoManager
  call = call
  ask = ask
  Calls = {ask}
  Checkpoint = ask
  v1 = v1
  v2 = v2
  Values = {v1}
  NoValue = NoValue
  o1 = o1
  Ops = {o1}
  NoOp = NoOp
  MalformedReplies = FALSE
  ReuseIds = FALSE
  MaxGen = 2
  MaxLog = 2
  MaxFaults = 0
INVARIANTS CachedHistoryYields
PROPERTIES DeadOwnerReconciles
CHECK_DEADLOCK FALSE
