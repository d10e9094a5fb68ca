SPECIFICATION Spec
CONSTANTS
  MaxBank = 1
  MaxProg = 1
  Ids = {1, 2, 3, 4, 5, 6}
  Configs <- MC_Changed
  MaxCommands = 2
INVARIANT
  Owned
