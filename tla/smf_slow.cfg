SPECIFICATION Spec
CONSTANTS
  Note = Note
  Eot = Eot
  Rates = {1}
  DefaultRate = 3
  Slack = 1
  SharedTempo = FALSE
  MaxTracks = 2
  MaxEvents = 3
  MaxPulses = 2
  Seconds = {5}
INVARIANTS
  SavedIdentical
