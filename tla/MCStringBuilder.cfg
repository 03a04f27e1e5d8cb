SPECIFICATION BuilderSpec
CONSTANTS
  t1 = t1
  request1 = request1
  Threads = {t1}
  Arenas = {request1}
  Users <- RequestUsers
  Capacity = 60
  Requests <- Sizes
  Header = 8
  Initial = 8
  Limit = 60
  Pieces <- Lengths
INVARIANTS
  PrivateArenaSound
  BuilderSound
  TextIsWhole
