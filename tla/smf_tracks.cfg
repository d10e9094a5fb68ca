SPECIFICATION Spec
CONSTANTS
  Note = Note
  Eot = Eot
  Rates = {1}
  DefaultRate = 2
  Slack = 1
  SharedTempo = FALSE
  MaxTracks = 2
  MaxEvents = 3
  MaxPulses = 2
  Seconds = {3}
INVARIANTS
  TypeOK
  Numbered
  SecondsRight
  NothingSkipped
  SavedIdentical
