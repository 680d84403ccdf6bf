SPECIFICATION LiveSpec
CONSTANTS
  d1 = d1
  d2 = d2
  r1 = r1
  k1 = k1
  k2 = k2
  Nobody = Nobody
  NoKey = NoKey
  Daemons = {d1, d2}
  Runs = {r1}
  Keys = {k1, k2}
  Cap = 1
  MaxCrashes = 1
  MaxFaults = 1
INVARIANTS AcceptedOnce StartsWithConsent AcknowledgedAnswersKept PreparedInSync SlotsAccounted
PROPERTIES RecordEvolves PreparationAdvances
CHECK_DEADLOCK FALSE
