SPECIFICATION Spec
CONSTANTS
  MaxBank = 1
  MaxProg = 1
  Ids = {1, 2, 3, 4, 5, 6}
  Configs <- MC_Configs
  MaxCommands = 2
INVARIANTS
  TypeOK
  Owned
PROPERTIES
  SoundsSame
  Ready
