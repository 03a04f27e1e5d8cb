SPECIFICATION DbFairSpec
CONSTANTS
  Threads = {t1, t2}
  Conns = {c1, c2}
  InitialSize = 1
  MaxSize = 2
  MaxFaults = 1
  NoThread = NoThread
  NoConn = NoConn
  Sqls = {s1, s2}
  Rejected = {s2}
  Plain = plain
INVARIANTS
  CacheSound
  ErrorNeedsLostSession
PROPERTIES
  ImplementsPool
  PlainQueriesRecover
  DbStopCompletes
