SPECIFICATION Spec
CONSTANTS
  t1 = t1
  t2 = t2
  request1 = request1
  request2 = request2
  Threads = {t1, t2}
  Arenas = {server}
  Users <- ServerUsers
  Capacity = 28
  Requests <- Sizes
INVARIANT SharedArenaSound
