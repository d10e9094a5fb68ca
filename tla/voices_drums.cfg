SPECIFICATION Spec
CONSTANTS
  m = m
  d = d
  n1 = n1
  n2 = n2
  None = None
  Channels = {d}
  Notes = {n1, n2}
  MaxVoices = 2
  MaxSamples = 2
  VidMod = 3
  DrumChannels = {d}
  DamperChannels = {}
  PedalMoves <- MC_NoPedal
  SostenutoChannels = {}
  MonoChannels = {}
  AltAssign <- MC_AltDrum
  AssignMode <- MC_Multi
  OverlapAllow = TRUE
  SurroundChorus = TRUE
  InstantDeath = FALSE
  Resize = FALSE
  ControllerResets = FALSE
  WrapAllowed = FALSE
INVARIANTS
  ExclusiveNotes
