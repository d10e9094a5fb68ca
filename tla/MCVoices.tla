------------------------------ MODULE MCVoices ------------------------------
(* Instances of Voices for TLC: a melodic channel m and a drum channel d.    *)
EXTENDS Voices

CONSTANTS m, d, n1, n2

MC_Pedals  == [c \in Channels |-> IF c = m THEN {"up", "down"} ELSE {}]
MC_Half    == [c \in Channels |-> IF c = m THEN Pedal ELSE {}]
MC_NoPedal == [c \in Channels |-> {}]
MC_NoAlt   == [c \in Channels |-> {}]
MC_AltDrum == [c \in Channels |-> IF c \in DrumChannels THEN Notes ELSE {}]

\* reset_midi's modes: full multi, limited multi for drums and under GS.
MC_Multi   == [c \in Channels |-> IF c \in DrumChannels THEN 1 ELSE 2]
MC_Limited == [c \in Channels |-> 1]
=============================================================================
