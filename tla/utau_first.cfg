SPECIFICATION Spec
CONSTANTS
  Songs <- MC_Songs
  Bank = {"la", "so"}
  Setup = "(Setup)"
  Keys = {"C", "D", "E"}
  Looping = {"E"}
  NewLen <- MC_NewLen
  CacheLen = 6
  MaxLoads = 4
INVARIANTS
  FirstNoteSung
