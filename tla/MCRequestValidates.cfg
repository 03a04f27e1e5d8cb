CONSTANTS
  Conns = {"c1", "c2"}
  Threads = {"t1", "t2"}
  Placements <- MCPlacements
  Messages <- MCMessages
  Apis <- MCApis
  Pages <- MCPages
  ApiHash <- MCApiHash
  PageHash <- MCPageHash
  ParamSegments = {":id", ":any", ":part"}
  Empty = ""
  TableSize = 2
  MaxParams = 8
  SpecialUrls <- MCSpecial
  Keys = {"name"}
  Texts <- MCTexts
  JsonValues <- MCJsonValues
  NotANumber = NotANumber
  IntBits = 5
  LongBits = 8
  None = None
  MaxFormFields = 2
  MaxCalls = 1
  MaxFaults = 1
SPECIFICATION Spec
INVARIANT FieldsAreValidated
CHECK_DEADLOCK FALSE
