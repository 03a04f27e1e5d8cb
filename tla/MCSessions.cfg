SPECIFICATION Spec
CONSTANTS
  r1 = r1
  r2 = r2
  r3 = r3
  r4 = r4
  Requests <- SomeRequests
  First = First
  None = None
  Home = Home
  Blank = Blank
  k1 = k1
  k2 = k2
  todos = todos
  notes = notes
  Keys <- SomeKeys
  Values = {v1}
  Paths <- SomePaths
  MaxFaults = 1
SYMMETRY Symmetry
INVARIANTS
  StoreSound
  LedBack
CHECK_DEADLOCK FALSE
