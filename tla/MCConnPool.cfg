SPECIFICATION Spec
CONSTANTS
  Threads = {t1, t2, t3}
  Conns = {c1, c2, c3}
  InitialSize = 2
  MaxSize = 2
  MaxFaults = 2
  NoThread = NoThread
  NoConn = NoConn
INVARIANTS
  ExclusiveLease
  PoolSound
PROPERTIES
  ImplementsLease
