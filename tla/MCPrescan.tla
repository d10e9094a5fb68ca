------------------------------ MODULE MCPrescan ------------------------------
(* Instances of Prescan for TLC: songs of five to nine events.               *)
EXTENDS Prescan

Note(t, what, k) == [time |-> t, what |-> what, arg |-> k, marked |-> FALSE]
Text(t, word)    == [time |-> t, what |-> "lyric", arg |-> word, marked |-> FALSE]
Line(t, word)    == [time |-> t, what |-> "lyric", arg |-> word, marked |-> TRUE]
Control(t, what) == [time |-> t, what |-> what, arg |-> NoSample, marked |-> FALSE]
End(t)           == Control(t, "eot")

\* UTAU's export after a rest, with a word the bank does not have, and one
\* that starts at once.
Rested == <<Text(0, Setup), Note(0, "on", "C"), Note(0, "off", "C"),
            Text(1, "la"), Note(1, "on", "C"), Note(2, "off", "C"),
            Text(2, "mi"), Note(2, "on", "D"), Note(3, "off", "D"), End(3)>>
Prompt == <<Text(0, Setup), Note(0, "on", "C"), Note(0, "off", "C"),
            Text(0, "la"), Note(0, "on", "C"), Note(1, "off", "C"), End(1)>>

\* Songs of other origin: one with a title and a line of karaoke, one whose
\* setup note has a length, one without words in which notes overlap.
Karaoke == <<Text(0, "so"), Text(0, "la"), Note(0, "on", "C"), Note(1, "off", "C"),
             Line(1, "so"), Note(2, "on", "D"), Note(3, "off", "D"), End(3)>>
Long    == <<Text(0, Setup), Note(0, "on", "C"), Note(1, "off", "C"),
             Text(1, "so"), Note(1, "on", "C"), Note(2, "off", "C"), End(2)>>
Wordless == <<Note(0, "on", "C"), Note(1, "on", "D"), Control(2, "wheel"),
              Note(2, "on", "C"), Control(3, "porta"), Note(3, "on", "E"),
              Note(4, "on", "E"), Note(6, "off", "E"), End(7)>>

MC_Songs  == {Rested, Prompt, Karaoke, Long, Wordless}
MC_NewLen == [C |-> 1, D |-> 3, E |-> 2]
=============================================================================
