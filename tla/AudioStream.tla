----------------------------- MODULE AudioStream -----------------------------
(***************************************************************************)
(* What the audio queue promises (timidity/aq.h): samples are played in    *)
(* the order aq_add took them, none lost, none twice, followed by silence  *)
(* where a bucket had to be filled up, unless everything is discarded.     *)
(***************************************************************************)
EXTENDS Integers, Sequences

CONSTANTS
  Silence,   \* the padding aq_soft_flush adds
  MaxPad     \* how much of it may follow the last sample

VARIABLES
  line,      \* what has been taken and not played
  accepted,  \* samples taken since the last flush
  heard      \* samples played since the last flush

streamVars == <<line, accepted, heard>>

Numbers(a, n) == [i \in 1 .. n |-> a + i]

StreamInit == line = <<>> /\ accepted = 0 /\ heard = 0

Accept ==
  \E n \in 1 .. Len(line') :
    /\ line' = line \o Numbers(accepted, n)
    /\ accepted' = accepted + n
    /\ heard' = heard

Pad ==
  \E n \in 1 .. MaxPad :
    /\ line' = line \o [i \in 1 .. n |-> Silence]
    /\ UNCHANGED <<accepted, heard>>

Play ==
  /\ line # <<>>
  /\ Head(line) \in {Silence, heard + 1}
  /\ line' = Tail(line)
  /\ heard' = IF Head(line) = Silence THEN heard ELSE Head(line)
  /\ accepted' = accepted

\* aq_flush ends with nothing left: played out or discarded.
Clear == line' = <<>> /\ accepted' = 0 /\ heard' = 0

StreamSpec == StreamInit /\ [][Accept \/ Pad \/ Play \/ Clear]_streamVars
=============================================================================
