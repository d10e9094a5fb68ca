----------------------------- MODULE Instruments -----------------------------
(***************************************************************************)
(* The instruments of the tone banks: which are asked for when a song is   *)
(* read, loaded before it is played or while it plays, shared between      *)
(* banks and freed between songs (instrum.c, play_midi_load_instrument).   *)
(*                                                                         *)
(* An element of a bank points to nothing, to one of two magic values or   *)
(* to an instrument.  An instrument read from a patch file belongs to a    *)
(* cache, one from a sound font to the banks that point to it, and the     *)
(* default instrument to a variable; bank 0's may also stand in another    *)
(* bank.  free_instruments has to free each once.  The drum sets are       *)
(* handled by the same code as the tone banks and are not told apart.      *)
(***************************************************************************)
EXTENDS Integers, FiniteSets

CONSTANTS
  MaxBank,      \* the last bank
  MaxProg,      \* the last program of a bank
  Ids,          \* instruments; none is loaded where all are allocated
  Configs,      \* configurations of the program, see InstrumentsAssumption
  MaxCommands   \* bound on the user's commands

None  == 0      \* NULL
Load  == -1     \* MAGIC_LOAD_INSTRUMENT
Error == -2     \* MAGIC_ERROR_INSTRUMENT
Mute  == ""     \* no patch name; also: no sound

Banks  == 0 .. MaxBank
Progs  == 0 .. MaxProg
Places == Banks \X Progs

\* The same program of bank 0.
Zero(x) == <<0, x[2]>>

\* names: the patch names of timidity.cfg; patches: those that can be read;
\* fonts: the order, bank and program of each preset of the sound fonts;
\* songs: the programs each song plays; default: the default instrument's
\* patch; force: the program of --force-program; realtime, freeAfter: options;
\* changes: whether the user changes the rate or the output.
ASSUME InstrumentsAssumption ==
  /\ {MaxBank, MaxProg, MaxCommands} \subseteq Nat /\ Ids \subseteq Nat \ {None}
  /\ \A c \in Configs :
       /\ c.names \in [Places -> STRING]
       /\ Mute \notin c.patches /\ c.default \in c.patches \cup {Mute}
       /\ c.fonts \subseteq {0, 1} \X Banks \X Progs
       /\ \A s \in c.songs : s \subseteq Places
       /\ c.force \subseteq Progs /\ Cardinality(c.force) <= 1
       /\ {c.realtime, c.freeAfter, c.changes} \subseteq BOOLEAN

VARIABLES
  config,
  bank,       \* tone[].instrument: None, Load, Error or an instrument
  name,       \* tone[].name
  defined,    \* the banks that are allocated
  cache,      \* instrument_cache: <<source, instrument>>
  default,    \* default_instrument
  live,       \* the instruments that are allocated
  source,     \* what each was made of
  voices,     \* the instruments of the voices in voice[]
  song, pc,   \* the song; where its playing is
  at,         \* the place fill_bank is at
  reload,     \* the song will be read again (RC_RELOAD)
  commands,
  twice,      \* history: an instrument was freed that was not allocated
  bare,       \* history: instruments freed between loading and playing
  late,       \* history: instruments freed while the song fades
  sound       \* history: what each place sounded like

heapVars == <<live, source, cache>>
bankVars == <<bank, name, defined>>
history  == <<twice, bare, late, sound>>
vars == <<config, bankVars, default, heapVars, voices, song, pc, at, reload, commands,
          history>>

\* What an instrument is made of, and what a place has sounded like.
Font(o, x) == <<"font", o, x>>
Patch(n)   == <<"patch", n>>
Preset(n)  == <<"default", n>>    \* a patch read without a bank's parameters
Nothing    == <<"nothing">>
Unheard    == <<"unheard">>

Top == <<MaxBank, 0>>

Init ==
  /\ config \in Configs
  /\ bank = [x \in Places |-> None]
  /\ name = config.names
  /\ defined = {0} \cup {x[1] : x \in {y \in Places : name[y] # Mute}}
                   \cup {f[2] : f \in config.fonts}     \* init_sf
  /\ cache = {} /\ default = None /\ live = {}
  /\ source = [i \in Ids |-> Nothing]
  /\ voices = {} /\ song = {} /\ pc = "start" /\ at = Top /\ reload = FALSE
  /\ commands = 0
  /\ twice = FALSE /\ bare = FALSE /\ late = FALSE
  /\ sound = [x \in Places |-> Unheard]

(***************************************************************************)
(* load_instrument: a sound font of order 0, the patch, a sound font of    *)
(* order 1.                                                                *)
(***************************************************************************)
IsFont(i) == source[i][1] = "font"

InFont(o, x) == <<o, x[1], x[2]>> \in config.fonts

Found(x) ==
  IF InFont(0, x) THEN Font(0, x)
  ELSE IF name[x] \in config.patches THEN Patch(name[x])
  ELSE IF InFont(1, x) THEN Font(1, x)
  ELSE Nothing

\* An instrument that is not allocated.
Fresh(i, used) == i \in Ids \ used /\ \A j \in Ids \ used : i <= j

Allocate(i, s) ==
  /\ Fresh(i, live)
  /\ live' = live \cup {i}
  /\ source' = [source EXCEPT ![i] = s]

\* load_instrument(x) returns i; load_gus_instrument looks into its cache.
LoadInstrument(x, i) ==
  LET s == Found(x)
  IN \/ s = Nothing /\ i = None /\ UNCHANGED heapVars
     \/ <<s, i>> \in cache /\ UNCHANGED heapVars
     \/ /\ s # Nothing /\ \A e \in cache : e[1] # s
        /\ Allocate(i, s)
        /\ cache' = IF s[1] = "patch" THEN cache \cup {<<s, i>>} ELSE cache

BadLoadIfMissing(x, i) ==
  IF bank[x] = Load THEN LoadInstrument(x, i)
  ELSE i = bank[x] /\ UNCHANGED heapVars

\* load_instrument where the element points to nothing yet.
LoadIfMissing(x, i) ==
  IF bank[x] \in {None, Load} THEN LoadInstrument(x, i)
  ELSE i = bank[x] /\ UNCHANGED heapVars

\* play_midi_load_instrument(x) returns i: the bank's own, or bank 0's, which
\* then stands in both.
PlayMidiLoadInstrument(x, i) ==
  LET y == Zero(x)
  IN /\ defined' = defined \cup {x[1]}
     /\ \/ /\ name[x] # Mute
           /\ LoadIfMissing(x, i)
           /\ bank' = [bank EXCEPT ![x] = IF i > 0 THEN i ELSE Error]
           /\ name' = name
        \/ /\ name[x] = Mute
           /\ LoadIfMissing(y, i)
           /\ IF i > 0
              THEN /\ bank' = [bank EXCEPT ![y] = i, ![x] = i]
                   /\ name' = [name EXCEPT ![x] = name[y]]
              ELSE bank' = [bank EXCEPT ![y] = Error] /\ name' = name

(***************************************************************************)
(* free_instruments.  A sound font's instrument is freed at each place     *)
(* that points to it, unless bank 0 points to it too.                      *)
(***************************************************************************)
BadFontPlaces ==
  {x \in Places : x[1] \in defined /\ bank[x] > 0 /\ IsFont(bank[x])}

FontPlaces ==
  {x \in Places : /\ x[1] \in defined /\ bank[x] > 0 /\ IsFont(bank[x])
                  /\ x[1] = 0 \/ bank[x] # bank[Zero(x)]}

Entries(all) == {e \in cache : all \/ e[2] # default}

\* How often instrument i is freed.
Frees(all, i) ==
  Cardinality({x \in FontPlaces : bank[x] = i})
    + Cardinality({e \in Entries(all) : e[2] = i})

Freed(all) == {bank[x] : x \in FontPlaces} \cup {e[2] : e \in Entries(all)}

\* set_default_instrument, with what is allocated and cached: the default
\* instrument is read, the one before freed.
RenewDefault(used, kept) ==
  \E i \in Ids :
    /\ Fresh(i, used)
    /\ default' = i
    /\ live' = (used \cup {i}) \ {default}
    /\ source' = [source EXCEPT ![i] = Preset(config.default)]
    /\ cache' = kept \cup {<<Preset(config.default), i>>}

FreeInstruments(all) ==
  LET rest == live \ Freed(all)
      kept == cache \ Entries(all)
      again == all /\ config.default # Mute
  IN /\ bank' = [x \in Places |-> None]
     /\ \/ again /\ RenewDefault(rest, kept)
        \/ ~again /\ live' = rest /\ cache' = kept /\ UNCHANGED <<default, source>>
     /\ twice' = (twice \/ (again /\ default \notin rest)
                        \/ \E i \in Freed(all) : i \notin live \/ Frees(all, i) > 1)
     /\ UNCHANGED <<name, defined>>

\* clear_magic_instruments.
ClearMagic == bank' = [x \in Places |-> IF bank[x] < 0 THEN None ELSE bank[x]]

(***************************************************************************)
(* The program begins: --force-program, then the default instrument.       *)
(***************************************************************************)
ForceProgram ==
  /\ pc = "start" /\ config.force # {}
  /\ \E p \in config.force, i \in Ids \cup {None} :
       /\ PlayMidiLoadInstrument(<<0, p>>, i)
       /\ default' = IF i > 0 THEN i ELSE default
  /\ pc' = "default"
  /\ UNCHANGED <<config, voices, song, at, reload, commands, history>>

SetDefault ==
  /\ pc = "default" \/ (pc = "start" /\ config.force = {})
  /\ \/ config.default = Mute /\ UNCHANGED <<default, heapVars>>
     \/ config.default # Mute /\ RenewDefault(live, cache)
  /\ pc' = "idle"
  /\ UNCHANGED <<config, bankVars, voices, song, at, reload, commands, history>>

(***************************************************************************)
(* A song is read: groom_list marks what its notes need, and               *)
(* load_missing_instruments loads it, the last bank first.                 *)
(***************************************************************************)
BadNeeded(x) == x

\* The bank's own element, or bank 0's if the bank is not defined.
Needed(x) == IF x[1] \in defined THEN x ELSE Zero(x)

ReadSong ==
  /\ pc = "idle"
  /\ IF reload THEN song' = song ELSE song' \in config.songs
  /\ LET needed == {Needed(x) : x \in song'}
     IN bank' = [x \in Places |->
                   IF x \in needed /\ bank[x] = None THEN Load ELSE bank[x]]
  /\ reload' = FALSE /\ at' = Top /\ bare' = FALSE /\ late' = FALSE
  /\ pc' = IF config.realtime THEN "loaded" ELSE "load"
  /\ UNCHANGED <<config, name, defined, default, heapVars, voices, commands, twice,
                 sound>>

\* Where load_missing_instruments and fill_bank go on.
BadAdvance ==
  /\ pc' = "load"
  /\ \/ at[2] # MaxProg /\ at' = <<at[1], at[2] + 1>>
     \/ at[2] = MaxProg /\ at' = <<at[1] - 1, 0>>

Advance ==
  \/ at[2] # MaxProg /\ pc' = "load" /\ at' = <<at[1], at[2] + 1>>
  \/ at[2] = MaxProg /\ at[1] # 0 /\ pc' = "load" /\ at' = <<at[1] - 1, 0>>
  \/ at = <<0, MaxProg>> /\ pc' = "loaded" /\ at' = at

Marked == at[1] \in defined /\ bank[at] = Load

PassOver ==
  /\ pc = "load" /\ ~Marked
  /\ Advance
  /\ UNCHANGED <<config, bankVars, default, heapVars, voices, song, reload, commands,
                 history>>

\* An element without a patch name: where there is nothing for it, bank 0's
\* instrument is asked for.
FillUnnamed ==
  /\ pc = "load" /\ Marked /\ name[at] = Mute
  /\ \E i \in Ids \cup {None} :
       /\ LoadInstrument(at, i)
       /\ LET y == Zero(at)
          IN bank' = CASE i > 0 -> [bank EXCEPT ![at] = i]
                       [] i = None /\ at[1] # 0 ->
                            [bank EXCEPT ![at] = None,
                                         ![y] = IF bank[y] = None THEN Load ELSE bank[y]]
                       [] OTHER -> [bank EXCEPT ![at] = Error]
  /\ Advance
  /\ UNCHANGED <<config, name, defined, default, voices, song, reload, commands,
                 history>>

FillNamed ==
  /\ \/ pc = "load" /\ Marked /\ name[at] # Mute
     \/ pc = "fill"
  /\ \E i \in Ids \cup {None} :
       LoadInstrument(at, i) /\ bank' = [bank EXCEPT ![at] = i]
  /\ Advance
  /\ UNCHANGED <<config, name, defined, default, voices, song, reload, commands,
                 history>>

(***************************************************************************)
(* Playing: play_midi, play_event and midi_play_end.                       *)
(***************************************************************************)
\* reset_midi(0): the voices left by the song before are forgotten.
Begin ==
  /\ pc = "loaded"
  /\ voices' = {}
  /\ pc' = "play"
  /\ UNCHANGED <<config, bankVars, default, heapVars, song, at, reload, commands,
                 history>>

Sounds(i) == IF i > 0 THEN source'[i] ELSE Nothing

NoteOn(x) ==
  /\ pc = "play"
  /\ \E i \in Ids \cup {None, Error} :
       /\ PlayMidiLoadInstrument(x, i)
       /\ voices' = IF i > 0 THEN voices \cup {i} ELSE voices
       /\ sound' = [sound EXCEPT ![x] = Sounds(i)]
  /\ UNCHANGED <<config, default, song, pc, at, reload, commands, twice, bare, late>>

\* A channel whose program is SPECIAL_PROGRAM.
NoteOnDefault ==
  /\ pc = "play" /\ default # None
  /\ voices' = voices \cup {default}
  /\ UNCHANGED <<config, bankVars, default, heapVars, song, pc, at, reload, commands,
                 history>>

VoiceEnds ==
  /\ pc \in {"play", "fade"}
  /\ \E i \in voices : voices' = voices \ {i}
  /\ UNCHANGED <<config, bankVars, default, heapVars, song, pc, at, reload, commands,
                 history>>

\* ME_EOT: the voices fade, then they are killed.
SongEnds ==
  /\ pc = "play"
  /\ pc' = "fade"
  /\ UNCHANGED <<config, bankVars, default, heapVars, voices, song, at, reload,
                 commands,
                 history>>

KillAll ==
  /\ pc = "fade"
  /\ voices' = {}
  /\ pc' = "end"
  /\ UNCHANGED <<config, bankVars, default, heapVars, song, at, reload, commands,
                 history>>

\* play_midi_file's play_end.
PlayEnd ==
  /\ pc = "end"
  /\ IF config.freeAfter THEN FreeInstruments(FALSE)
     ELSE UNCHANGED <<bankVars, default, heapVars, twice>>
  /\ pc' = "idle"
  /\ UNCHANGED <<config, voices, song, at, reload, commands, bare, late, sound>>

(***************************************************************************)
(* The user's commands.                                                    *)
(***************************************************************************)
Command == commands < MaxCommands /\ commands' = commands + 1

\* check_apply_control: between songs, before a patch is read, and when the
\* song begins.
Asked ==
  \/ pc = "idle" /\ ~reload
  \/ pc = "load" /\ Marked /\ name[at] # Mute
  \/ pc = "loaded"

\* RC_IS_SKIP_FILE: the voices stay as they are.
Skip ==
  /\ Command
  /\ \/ pc = "load" /\ Asked /\ ClearMagic
     \/ pc \in {"loaded", "play", "fade"} /\ UNCHANGED bank
  /\ pc' = "end"
  /\ UNCHANGED <<config, name, defined, default, heapVars, voices, song, at, reload,
                 history>>

\* RC_CHANGE_RATE, RC_OUTPUT_CHANGED: check_apply_control and midi_play_end
\* go on, play_event returns and the song is read again.
ChangeOutput ==
  /\ config.changes /\ Command
  /\ FreeInstruments(TRUE)
  /\ \/ /\ Asked
        /\ pc' = IF pc = "load" THEN "fill" ELSE pc
        /\ bare' = TRUE /\ UNCHANGED <<reload, late>>
     \/ /\ pc = "play"
        /\ pc' = "end" /\ reload' = TRUE /\ UNCHANGED <<bare, late>>
     \/ /\ pc = "fade"
        /\ pc' = pc /\ late' = TRUE /\ UNCHANGED <<bare, reload>>
  /\ UNCHANGED <<config, voices, song, at, sound>>

-----------------------------------------------------------------------------
Next ==
  \/ ForceProgram \/ SetDefault
  \/ ReadSong \/ PassOver \/ FillUnnamed \/ FillNamed
  \/ Begin \/ NoteOnDefault \/ VoiceEnds \/ SongEnds \/ KillAll \/ PlayEnd
  \/ \E x \in song : NoteOn(x)
  \/ Skip \/ ChangeOutput

Spec == Init /\ [][Next]_vars
-----------------------------------------------------------------------------
(***************************************************************************)
(* Properties.                                                             *)
(***************************************************************************)
Pointed == {bank[x] : x \in {y \in Places : bank[y] > 0}} \cup {e[2] : e \in cache}
             \cup ({default} \ {None})

\* No voice is mixed whose instrument has been freed.
VoicesLive == pc \in {"play", "fade"} => voices \subseteq live

\* Types; the magic values stand only where fill_bank and note_on put them.
TypeOK ==
  /\ config \in Configs
  /\ bank \in [Places -> Ids \cup {None, Load, Error}]
  /\ name \in [Places -> STRING] /\ defined \in SUBSET Banks
  /\ \A e \in cache : e[2] \in Ids /\ e = <<e[1], e[2]>>
  /\ default \in Ids \cup {None} /\ live \subseteq Ids /\ voices \subseteq Ids
  /\ DOMAIN source = Ids /\ DOMAIN sound = Places
  /\ song \subseteq Places /\ at \in Places
  /\ pc \in {"start", "default", "idle", "load", "fill", "loaded",
             "play", "fade", "end"}
  /\ commands \in 0 .. MaxCommands
  /\ {reload, twice, bare, late} \subseteq BOOLEAN

\* The configurations in which Owned holds.  The code loses or frees twice, one
\* clause each: a preset of another bank than 0 without a patch name, the
\* default instrument where the output changes, a forced instrument that the
\* default one replaces, a forced instrument of a sound font.
Tidy(c) ==
  /\ \A f \in c.fonts : f[2] # 0 => c.names[<<f[2], f[3]>>] # Mute
  /\ c.changes => c.default = Mute /\ c.force = {}
  /\ c.default # Mute => c.force = {}
  /\ \A p \in c.force, f \in c.fonts : <<f[2], f[3]>> # <<0, p>>

\* Those in which SoundsSame holds: a named place of bank 0 sounds of its patch.
OneSound(c) ==
  \A p \in Progs : c.names[<<0, p>>] # Mute =>
    /\ <<0, 0, p>> \notin c.fonts
    /\ <<1, 0, p>> \in c.fonts => c.names[<<0, p>>] \in c.patches

(***************************************************************************)
(* However instruments are shared between banks and the cache, each is     *)
(* freed once, none is lost, none is pointed to that has been freed, and   *)
(* no voice is mixed whose instrument has been freed (free_instruments;    *)
(* "bank[*]->tone[j].instrument may pointer to bank[0]->...").             *)
(***************************************************************************)
Owned ==
  /\ ~twice
  /\ live = Pointed
  /\ late \/ VoicesLive

(***************************************************************************)
(* A place sounds the same in every song, whether its instrument was       *)
(* loaded before the song, when first played or for the song before        *)
(* (groom_list, fill_bank and play_midi_load_instrument agree).            *)
(***************************************************************************)
SoundsSame ==
  [][\A x \in Places : sound[x] # Unheard => sound'[x] = sound[x]]_vars

(***************************************************************************)
(* Unless the user has changed the output since, every note of a song      *)
(* finds its instrument loaded: none is read while the song plays          *)
(* (load_missing_instruments).                                             *)
(***************************************************************************)
Ready ==
  [][pc = "play" /\ pc' = "play" /\ ~config.realtime /\ ~bare
     => live' \subseteq live]_vars
=============================================================================
