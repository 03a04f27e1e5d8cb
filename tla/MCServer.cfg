SPECIFICATION ServerFairSpec
CONSTANTS
  main = main
  a = a
  w1 = w1
  w2 = w2
  f1 = f1
  f2 = f2
  s = s
  lib = lib
  Main = main
  Includes = {a}
  MaxTime = 3
  MaxEdits = 3
  Apart = TRUE
  Quiet = {a}
  Workers = {w1, w2}
  Filters = {f1, f2}
  Faulty = {f2}
  Scripts = {s}
  Embedded = lib
INVARIANTS
  ServerSound
  ProgramsAreReleased
PROPERTIES
  ImplementsLifecycle
  EditsAreServed
