SPECIFICATION Spec
CONSTANTS
  m = m
  d = d
  n1 = n1
  n2 = n2
  None = None
  Channels = {m, d}
  Notes = {n1}
  MaxVoices = 3
  MaxSamples = 2
  VidMod = 2
  DrumChannels = {d}
  DamperChannels = {}
  PedalMoves <- MC_Pedals
  SostenutoChannels = {}
  MonoChannels = {}
  AltAssign <- MC_AltDrum
  AssignMode <- MC_Multi
  OverlapAllow = TRUE
  SurroundChorus = TRUE
  InstantDeath = FALSE
  Resize = FALSE
  ControllerResets = TRUE
  WrapAllowed = FALSE
INVARIANTS
  LinksDoubled
