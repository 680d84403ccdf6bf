SPECIFICATION Spec
CONSTANTS
  m1 = m1
  m2 = m2
  Managers = {m1, m2}
  NoManager = NoManager
  call = call
  ask = ask
  Calls = {call, ask}
  Checkpoint = ask
  v1 = v1
  v2 = v2
  Values = {v1, v2}
  NoValue = NoValue
  o1 = o1
  Ops = {o1}
  NoOp = NoOp
  MalformedReplies = TRUE
  ReuseIds = FALSE
  MaxGen = 1
  MaxLog = 3
  MaxFaults = 1
SYMMETRY Symmetry
INVARIANTS OwnerHoldsLease OwnerSubsumesDisk OwnerAtTail
PROPERTIES FirstWriterWins LossIsFinal RefinesRunRecord
CHECK_DEADLOCK FALSE
