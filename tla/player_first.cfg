SPECIFICATION Spec
CONSTANTS
  Songs <- MC_Songs
  Controllers = {"vol", "caf", "tune"}
  Unsought = {"caf"}
  Unreset = {"tune"}
  Buffer = 2
  Capacity = 3
  Presearch = 3
  Commands = {"skip", "restart", "jump", "forward", "back", "pause", "sync", "reload"}
  Step = 2
  MaxCommands = 1
INVARIANT
  FirstEventKept
