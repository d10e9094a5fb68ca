---------------------------- MODULE MCInstruments ----------------------------
(* Instances of Instruments for TLC: two banks of two programs.              *)
EXTENDS Instruments, TLC

Names(a, b, c, d) == <<0, 0>> :> a @@ <<0, 1>> :> b @@ <<1, 0>> :> c @@ <<1, 1>> :> d

Songs2 == {{<<0, 0>>, <<1, 0>>}, {<<1, 0>>, <<1, 1>>}, Places}

Base == [names |-> Names("piano", Mute, Mute, "piano"), patches |-> {"piano", "bell"},
         fonts |-> {}, songs |-> Songs2, default |-> Mute, force |-> {},
         realtime |-> FALSE, freeAfter |-> TRUE, changes |-> TRUE]

\* Patches only, one under two places and one that cannot be read.
Patches == [Base EXCEPT !.names = Names("piano", "bell", Mute, "piano")]
Broken  == [Base EXCEPT !.names = Names("piano", "lost", Mute, "lost")]

\* A sound font, for bank 0 and for a place that also has a name.
Fonts == [Base EXCEPT !.names = Names("piano", Mute, Mute, "bell"),
                      !.fonts = {<<0, 0, 1>>, <<1, 1, 1>>}]
FontOnly == [Base EXCEPT !.names = Names(Mute, Mute, Mute, Mute),
                         !.fonts = {<<0, 0, 0>>, <<1, 0, 1>>}]

\* A default instrument, one of its own or one of bank 0.
Default == [Patches EXCEPT !.default = "bell", !.changes = FALSE]
Forced  == [Patches EXCEPT !.force = {0}, !.changes = FALSE]

Options(c) == {[c EXCEPT !.realtime = r, !.freeAfter = f] : r, f \in BOOLEAN}

MC_Configs == UNION {Options(c) : c \in {Patches, Broken, Fonts, FontOnly, Default, Forced}}

\* What the theorems of InstrumentsProofs ask of a configuration.
ASSUME TidyConfigs == \A c \in MC_Configs : Tidy(c) /\ OneSound(c)

\* Counterexamples: presets of bank 1 that have no name; a name and a preset for
\* one place; a default instrument and a change of rate; a change of rate; a
\* forced program of a sound font, with a default instrument, with a change of
\* rate.
MC_Preset  == {[Base EXCEPT !.names = Names("piano", Mute, Mute, Mute),
                            !.fonts = {<<0, 0, 1>>, <<0, 1, 1>>}]}
MC_Both    == {[Base EXCEPT !.fonts = {<<0, 0, 0>>}]}
MC_Renew   == {[Default EXCEPT !.changes = TRUE]}
MC_Patches == {Patches}
MC_Forced  == {[FontOnly EXCEPT !.force = {0}, !.changes = FALSE]}
MC_Replaced == {[Forced EXCEPT !.default = "bell"]}
MC_Changed  == {[Forced EXCEPT !.changes = TRUE]}
=============================================================================
