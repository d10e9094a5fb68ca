------------------------------ MODULE MCPlayer ------------------------------
(* Instances of Player for TLC: two songs of five or six events.             *)
EXTENDS Player

At(t, w) == [time |-> t, what |-> w]

\* A control change and a note at the start, two events at one time; a late
\* control change after the last note, which check_midi_play_end ignores.
MC_Songs == {
  <<At(0, "vol"), At(0, "note"), At(1, "vol"), At(3, "note"), At(3, "caf"), At(5, "eot")>>,
  <<At(0, "note"), At(2, "tune"), At(2, "vol"), At(3, "note"), At(6, "vol"), At(6, "eot")>> }
=============================================================================
