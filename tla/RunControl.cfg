\* Two daemons, one run, one stop intent, one continuation or fault.
\* A run may end for good, so the system may stop.
SPECIFICATION ControlLiveSpec
CONSTANTS
  m1 = m1
  m2 = m2
  Managers = {m1, m2}
  Daemons = {m1, m2}
  NoManager = NoManager
  ask = ask
  Calls = {ask}
  Checkpoint = ask
  v1 = v1
  Values = {v1}
  NoValue = NoValue
  Ops = {}
  NoOp = NoOp
  MalformedReplies = FALSE
  ReuseIds = FALSE
  MaxGen = 1
  MaxLog = 0
  MaxFaults = 1
  Ids = {1}
CONSTRAINTS PlainPauses Effort OneCall
INVARIANTS AckedStopIsDurable OnlySupersededKilled
PROPERTIES StopSettles
CHECK_DEADLOCK FALSE
