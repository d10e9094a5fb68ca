SPECIFICATION Spec
CONSTANTS
  m = m
  d = d
  n1 = n1
  n2 = n2
  None = None
  Channels = {m}
  Notes = {n1}
  MaxVoices = 3
  MaxSamples = 2
  VidMod = 3
  DrumChannels = {}
  DamperChannels = {}
  PedalMoves <- MC_NoPedal
  SostenutoChannels = {}
  MonoChannels = {}
  AltAssign <- MC_NoAlt
  AssignMode <- MC_Multi
  OverlapAllow = TRUE
  SurroundChorus = FALSE
  InstantDeath = TRUE
  Resize = TRUE
  ControllerResets = FALSE
  WrapAllowed = FALSE
INVARIANTS
  SoundingBelowUpper
