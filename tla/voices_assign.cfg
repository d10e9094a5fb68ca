SPECIFICATION Spec
CONSTANTS
  m = m
  d = d
  n1 = n1
  n2 = n2
  None = None
  Channels = {m}
  Notes = {n1}
  MaxVoices = 3
  MaxSamples = 2
  VidMod = 4
  DrumChannels = {}
  DamperChannels = {}
  PedalMoves <- MC_NoPedal
  SostenutoChannels = {}
  MonoChannels = {}
  AltAssign <- MC_NoAlt
  AssignMode <- MC_Limited
  OverlapAllow = TRUE
  SurroundChorus = FALSE
  InstantDeath = FALSE
  Resize = FALSE
  ControllerResets = FALSE
  WrapAllowed = FALSE
INVARIANTS
  AssignLimit
