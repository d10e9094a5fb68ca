SPECIFICATION FairSpec
CONSTANTS
  m = m
  d = d
  n1 = n1
  n2 = n2
  None = None
  Channels = {m}
  Notes = {n1, n2}
  MaxVoices = 2
  MaxSamples = 2
  VidMod = 2
  DrumChannels = {}
  DamperChannels = {m}
  PedalMoves <- MC_Half
  SostenutoChannels = {m}
  MonoChannels = {m}
  AltAssign <- MC_NoAlt
  AssignMode <- MC_Multi
  OverlapAllow = FALSE
  SurroundChorus = FALSE
  InstantDeath = FALSE
  Resize = FALSE
  ControllerResets = FALSE
  WrapAllowed = FALSE
INVARIANTS
  SustainedHeld
  OneInstance
PROPERTY
  DyingLeave
