CONSTANTS
  Main = "app"
  Paths = {"a", "b"}
  MaxIncludes = 2
  Followed = {"page", "style", "partial"}
  MaxDecls = 3
SPECIFICATION Spec
INVARIANTS
  StackSound
  NothingLost
  NoSiteAfterError
PROPERTIES
  AlwaysReads
