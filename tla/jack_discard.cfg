SPECIFICATION Spec
CONSTANTS
  Size = 3
  Period = 2
  MaxWrite = 5
  Limit = 9
  Requests = {"flush", "discard"}
INVARIANTS
  SpacesEmpty
