SPECIFICATION DbSpec
CONSTANTS
  Threads = {t1}
  Conns = {c1}
  InitialSize = 1
  MaxSize = 1
  MaxFaults = 1
  NoThread = NoThread
  NoConn = NoConn
  Sqls = {s1}
  Rejected = {}
  Plain = plain
INVARIANT CachedIsPrepared
