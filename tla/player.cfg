SPECIFICATION FairSpec
CONSTANTS
  Songs <- MC_Songs
  Controllers = {"vol", "caf", "tune"}
  Unsought = {"caf"}
  Unreset = {"tune"}
  Buffer = 2
  Capacity = 3
  Presearch = 3
  Commands = {"skip", "restart", "jump", "forward", "back", "pause", "sync", "effect", "reload", "samerate"}
  Step = 2
  MaxCommands = 3
INVARIANTS
  TypeOK
  InOrder
  NotesPlayed
  ChannelRight
  PositionKept
  TraceSorted
PROPERTY
  Ends
