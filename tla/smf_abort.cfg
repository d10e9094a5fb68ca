SPECIFICATION Spec
CONSTANTS
  Note = Note
  Eot = Eot
  Rates = {1}
  DefaultRate = 2
  Slack = 1
  SharedTempo = FALSE
  MaxTracks = 1
  MaxEvents = 2
  MaxPulses = 2
  Seconds = {0, 3}
INVARIANTS
  AssertsHold
