SPECIFICATION FairSpec
CONSTANTS
  Runners = {r1, r2}
  N = 3
  Commented = {}
  Unrecordable = {3}
  Rerunnable = {1}
  MaxDowns = 2
  DownsAlone = TRUE
  MaxFaults = 2
INVARIANTS
  TableSound
  DivergenceBounded
PROPERTIES
  SuccessIsComplete
  RetryingHeals
