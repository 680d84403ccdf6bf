SPECIFICATION Spec
CONSTANTS
  p1 = p1
  p2 = p2
  o1 = o1
  Procs = {p1, p2}
  OldProcs = {o1}
  NoProc = NoProc
  MaxTokens = 3
INVARIANTS LegacyOwnerExcludes AtMostOneStraySave RecoveredOwnerIsDead
PROPERTIES RefinesExclusiveLease RobbedByRaceOnly
SYMMETRY Symmetry
CHECK_DEADLOCK FALSE
