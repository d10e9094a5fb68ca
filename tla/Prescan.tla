------------------------------- MODULE Prescan -------------------------------
(***************************************************************************)
(* What is done to a song before it is played, and what playing it relies  *)
(* on.  play_midi_prescan reads the whole event list once.  For the UTAU   *)
(* singer (utau.c) it counts lyrics against notes, prepares the samples    *)
(* the lyrics name and silences the setup note UTAU puts at the beginning; *)
(* without the singer it measures how long each note sounds and fills the  *)
(* resample cache (recache.c).  The song is then played, sought in and     *)
(* loaded again, while the singer's state is static and never cleared.     *)
(*                                                                         *)
(* Left out: channel layers, several channels, the samples' contents, the  *)
(* xml output of the singer; a note has one sample.                        *)
(***************************************************************************)
EXTENDS Integers, Sequences, FiniteSets, FiniteSetsExt, SequencesExt, Functions

CONSTANTS
  Songs,      \* event lists, as groom_list makes them
  Bank,       \* names of the samples in oto.ini
  Setup,      \* the text "(Setup)"
  Keys,       \* the notes
  Looping,    \* of them, those whose sample loops
  NewLen,     \* samples a key's sample has when resampled: newlen, slen
  CacheLen,   \* CACHE_DATA_LEN
  MaxLoads    \* bound on songs loaded

Gone == "stale"    \* a text that has been freed with its song

\* A text is a word, behind '/' or '\' when it begins a line of karaoke.
IsSong(s) ==
  /\ Len(s) \in Nat \ {0, 1} /\ s[Len(s)].what = "eot"
  /\ \A i \in 1 .. Len(s) : s[i].time \in Nat
  /\ \A i, j \in 1 .. Len(s) : i <= j => s[i].time <= s[j].time
  /\ \A i \in 1 .. Len(s) - 1 :
       /\ s[i].what \in {"on", "off", "lyric", "wheel", "porta"}
       /\ s[i].what \in {"on", "off"} => s[i].arg \in Keys
       /\ s[i].what = "lyric" => s[i].marked \in BOOLEAN /\ s[i].arg # Gone

ASSUME PrescanAssumption ==
  /\ \A s \in Songs : IsSong(s)
  /\ Setup \notin Bank
  /\ IsFiniteSet(Keys) /\ Looping \subseteq Keys /\ NewLen \in [Keys -> Nat \ {0}]
  /\ CacheLen \in Nat \ {0}       \* 0: no prescan at all
  /\ MaxLoads \in Nat

VARIABLES
  utau,                                  \* whether the singer is on
  song, pos, pc, loads,                  \* event list, event, phase
  lyr_count, note_count, is_utau_midifile,
  setup_start_event, setup_stop_event,   \* places in the song, None or Stale
  silenced,                              \* events turned into ME_PROGRAM
  ready,                                 \* samples with a root_freq
  utau_text,                             \* the word to sing next, or Gone
  note_table, cnt,                       \* channel_note_table, cache_hash.cnt
  cached,                                \* keys in cache_data, in order
  portamento,
  joined, last                           \* history: first event played, last note

singerVars == <<lyr_count, note_count, is_utau_midifile, setup_start_event,
                setup_stop_event, silenced, ready>>
cacheVars  == <<note_table, cnt, cached>>
vars == <<utau, song, pos, pc, loads, singerVars, utau_text, cacheVars,
          portamento, joined, last>>

None    == 0
Stale   == -1         \* a pointer into a song that has been freed
NoSample == "none"
Default == "default"  \* utau_text before any
Nothing == [event |-> 0, sample |-> NoSample, ready |-> TRUE]

Event   == song[pos]
Eot     == Len(song)
NoRefs  == [k \in Keys |-> None]
NoCount == [k \in Keys |-> 0]

Init ==
  /\ utau \in BOOLEAN
  /\ song \in Songs /\ pos = 1 /\ pc = "idle" /\ loads = 0
  /\ lyr_count = 0 /\ note_count = 0 /\ is_utau_midifile = 0
  /\ setup_start_event = None /\ setup_stop_event = None
  /\ silenced = {} /\ ready = {} /\ utau_text = Default
  /\ note_table = NoRefs /\ cnt = NoCount /\ cached = <<>>
  /\ portamento = FALSE /\ joined = 1 /\ last = Nothing

Freed(p) == IF p = None THEN None ELSE Stale

(***************************************************************************)
(* play_midi_load_file frees the event list and the texts of the song      *)
(* before; play_midi_prescan starts with resamp_cache_reset.               *)
(***************************************************************************)
LoadFile(s) ==
  /\ loads < MaxLoads /\ loads' = loads + 1
  /\ song' = s /\ pos' = 1 /\ pc' = "prescan"
  /\ setup_start_event' = Freed(setup_start_event)
  /\ setup_stop_event' = Freed(setup_stop_event)
  /\ utau_text' = IF utau_text = Default THEN Default ELSE Gone
  /\ silenced' = {}
  /\ note_table' = NoRefs /\ cnt' = NoCount /\ cached' = <<>>
  /\ portamento' = FALSE /\ last' = Nothing
  /\ UNCHANGED <<utau, lyr_count, note_count, is_utau_midifile, ready>>

\* The next song of the list.
Load(s) == pc = "idle" /\ LoadFile(s) /\ joined' = 1

(***************************************************************************)
(* resamp_cache_refer_off, _on and _alloff on <<note_table, cnt>>.         *)
(***************************************************************************)
\* A sample without a loop is not heard beyond its end.
Heard(key, len) == IF key \in Looping THEN len ELSE Min({len, NewLen[key]})

\* note_table holds the place of the note on.
Off(refs, key, time) ==
  IF refs[1][key] = None THEN refs
  ELSE <<[refs[1] EXCEPT ![key] = None],
         [refs[2] EXCEPT ![key] = @ + Heard(key, time - song[refs[1][key]].time)]>>

AllOff(refs, time) ==
  <<NoRefs, [k \in Keys |-> Off(refs, k, time)[2][k]]>>

\* Mutant: the note that sounds already is not counted.
BadOn(refs, key, at) == <<[refs[1] EXCEPT ![key] = at], refs[2]>>

On(refs, key, at) ==
  LET closed == Off(refs, key, song[at].time)
  IN  <<[closed[1] EXCEPT ![key] = at], closed[2]>>

Refer(refs) == note_table' = refs[1] /\ cnt' = refs[2] /\ cached' = cached

Refs == <<note_table, cnt>>

Prescanning(what) == pc = "prescan" /\ Event.what = what

Prescanned ==
  /\ pos' = pos + 1
  /\ UNCHANGED <<utau, song, loads, utau_text, portamento, joined, last>>

(***************************************************************************)
(* play_midi_prescan, one action per kind of event.                        *)
(***************************************************************************)
PrescanNoteOn ==
  /\ Prescanning("on")
  /\ setup_start_event' =
       IF utau /\ Event.time = 0 THEN pos ELSE setup_start_event
  /\ IF utau THEN UNCHANGED cacheVars ELSE Refer(On(Refs, Event.arg, pos))
  /\ pc' = pc /\ Prescanned
  /\ UNCHANGED <<lyr_count, note_count, is_utau_midifile, setup_stop_event,
                 silenced, ready>>

\* Mutant: off by one.
BadMissing(notes) == notes > lyr_count + 1

Missing(notes) == notes > lyr_count

\* utau_prescan_off: "missing lyrics for note", exit.
MissingLyrics ==
  /\ Prescanning("off") /\ utau
  /\ note_count' = note_count + 1
  /\ Missing(note_count')
  /\ pc' = "exit"
  /\ UNCHANGED <<utau, song, pos, loads, lyr_count, is_utau_midifile,
                 setup_start_event, setup_stop_event, silenced, ready, utau_text,
                 cacheVars, portamento, joined, last>>

\* The first note off after the beginning silences the setup note, through
\* pointers that a song without one leaves NULL or dangling.
PrescanNoteOff ==
  /\ Prescanning("off")
  /\ Refer(Off(Refs, Event.arg, Event.time))
  /\ IF ~utau
     THEN pc' = pc /\ UNCHANGED singerVars
     ELSE LET setup == {setup_start_event, setup_stop_event}
          IN /\ note_count' = note_count + 1
             /\ ~Missing(note_count')
             /\ UNCHANGED <<lyr_count, setup_start_event, ready>>
             /\ \/ /\ Event.time = 0
                   /\ setup_stop_event' = pos
                   /\ UNCHANGED <<pc, silenced, is_utau_midifile>>
                \/ /\ Event.time # 0 /\ is_utau_midifile # 1
                   /\ UNCHANGED <<pc, silenced, is_utau_midifile, setup_stop_event>>
                \/ /\ Event.time # 0 /\ is_utau_midifile = 1
                   /\ is_utau_midifile' = 2
                   /\ silenced' = silenced \cup (setup \ {None, Stale})
                   /\ pc' = IF setup \cap {None, Stale} = {} THEN pc ELSE "exit"
                   /\ UNCHANGED setup_stop_event
  /\ Prescanned

\* Mutant: only in a file that UTAU has written.
BadInitialised(text) ==
  IF text.arg \in Bank /\ ~text.marked /\ is_utau_midifile # 0
  THEN {text.arg} ELSE {}

\* utau_init_sample: the text is looked up as it stands.
Initialised(text) ==
  IF text.arg \in Bank /\ ~text.marked THEN {text.arg} ELSE {}

IsSetup(text) == text.arg = Setup /\ ~text.marked

PrescanLyric ==
  /\ Prescanning("lyric")
  /\ IF utau
     THEN /\ lyr_count' = lyr_count + 1
          /\ is_utau_midifile' = IF IsSetup(Event) THEN 1 ELSE is_utau_midifile
          /\ ready' = ready \cup Initialised(Event)
     ELSE UNCHANGED <<lyr_count, is_utau_midifile, ready>>
  /\ pc' = pc /\ Prescanned
  /\ UNCHANGED <<note_count, setup_start_event, setup_stop_event, silenced, cacheVars>>

\* ME_PITCHWHEEL, and ME_PORTAMENTO which runs on into ME_RESET_CONTROLLERS.
PrescanControl ==
  /\ pc = "prescan" /\ Event.what \in {"wheel", "porta"}
  /\ Refer(AllOff(Refs, Event.time))
  /\ pc' = pc /\ Prescanned
  /\ UNCHANGED singerVars

(***************************************************************************)
(* resamp_cache_create: what is used most for its length comes first, but  *)
(* only when the notes' time, not their samples, exceeds the cache.        *)
(***************************************************************************)
\* f[1] + ... + f[n].
Sum(f, n) ==
  LET s[i \in 0 .. n] == IF i = 0 THEN 0 ELSE s[i - 1] + f[i]
  IN  s[n]

Room(keys) == Sum([i \in 1 .. Len(keys) |-> NewLen[keys[i]] + 1], Len(keys))

\* cache_resampling.
With(keys, k) ==
  IF Room(keys) + NewLen[k] + 1 > CacheLen THEN keys ELSE Append(keys, k)

\* The loop over it.
Kept(keys) ==
  LET q[i \in 0 .. Len(keys)] == IF i = 0 THEN <<>> ELSE With(q[i - 1], keys[i])
  IN  q[Len(keys)]

Worth(j, k, count) == NewLen[j] * count[k] <= NewLen[k] * count[j]

Orders(count) ==
  LET used  == {k \in Keys : count[k] > 0}
      total == FoldFunctionOnSet(LAMBDA a, b : a + b, 0, count, used)
  IN  {q \in SetToSeqs(used) :
         total > CacheLen =>
           \A i \in 1 .. Len(q) - 1 : Worth(q[i], q[i + 1], count)}

PrescanEnd ==
  /\ Prescanning("eot")
  /\ LET refs == AllOff(Refs, Event.time)
     IN /\ note_table' = refs[1] /\ cnt' = refs[2]
        /\ \E q \in Orders(refs[2]) : cached' = Kept(q)
  /\ pc' = "play" /\ pos' = joined
  /\ portamento' = \E j \in 1 .. joined - 1 : song[j].what = "porta"
  /\ UNCHANGED <<utau, song, loads, singerVars, utau_text, joined, last>>

-----------------------------------------------------------------------------
(***************************************************************************)
(* Playing.                                                                *)
(***************************************************************************)
Playing(what) == pc = "play" /\ Event.what = what

Played ==
  /\ pos' = pos + 1
  /\ UNCHANGED <<utau, song, pc, loads, singerVars, cacheVars, joined>>

\* utau_get_sample, by a text that may be gone.
Sung == IF utau_text = Gone THEN Bank \cup {NoSample}
        ELSE IF utau_text \in Bank THEN {utau_text} ELSE {NoSample}

\* find_samples: the singer's sample, or whether the cache has the note's.
PlayNoteOn ==
  /\ Playing("on") /\ pos \notin silenced
  /\ IF utau
     THEN \E s \in Sung :
            last' = [event |-> pos, sample |-> s, ready |-> s \in ready]
     ELSE last' = [event |-> pos, ready |-> TRUE,
                   sample |-> IF ~portamento /\ Event.arg \in ToSet(cached)
                              THEN "resampled" ELSE NoSample]
  /\ Played /\ UNCHANGED <<utau_text, portamento>>

\* utau_set_text: "(Setup)" is passed over, a karaoke mark is stripped.
PlayLyric ==
  /\ Playing("lyric")
  /\ utau_text' = IF utau /\ ~IsSetup(Event) THEN Event.arg ELSE utau_text
  /\ Played /\ UNCHANGED <<portamento, last>>

PlayControl ==
  /\ \/ pc = "play" /\ Event.what \in {"wheel", "off"}
     \/ Playing("on") /\ pos \in silenced
     \/ Playing("porta")
  /\ portamento' = (portamento \/ Event.what = "porta")
  /\ Played /\ UNCHANGED <<utau_text, last>>

\* The song ends, or the user ends it.
EndSong ==
  /\ pc = "play" /\ pc' = "idle"
  /\ UNCHANGED <<utau, song, pos, loads, singerVars, utau_text, cacheVars,
                 portamento, joined, last>>

\* skip_to and the loop of play_midi: seek_forward sets portamento and has no
\* case for lyrics.
Seek(until) ==
  /\ pc = "play"
  /\ \E i \in 1 .. Eot :
       /\ \/ \A j \in 1 .. Eot : song[j].time >= until <=> j >= i
          \/ until = 0 /\ i = 2
       /\ pos' = i /\ joined' = i
       /\ portamento' = \E j \in 1 .. i - 1 :
                          song[j].what = "porta" /\ song[j].time < until
  /\ last' = Nothing
  /\ UNCHANGED <<utau, song, pc, loads, singerVars, utau_text, cacheVars>>

\* RC_RELOAD: the song is read again and joined at the event before.
Reload(until) ==
  /\ pc = "play" /\ LoadFile(song)
  /\ joined' = Max({1} \cup {i \in 1 .. Eot - 1 : song[i].time < until})

Exit == pc = "exit" /\ UNCHANGED vars
Idle == pc = "idle" /\ loads = MaxLoads /\ UNCHANGED vars

Times == UNION {{s[i].time : i \in 1 .. Len(s)} : s \in Songs}

ReadSong ==
  \/ PrescanNoteOn \/ PrescanNoteOff \/ MissingLyrics \/ PrescanLyric
  \/ PrescanControl \/ PrescanEnd

PlaySong ==
  \/ PlayNoteOn \/ PlayLyric \/ PlayControl \/ EndSong
  \/ \E t \in Times : t <= song[Eot].time /\ (Seek(t) \/ Reload(t))

Next == (\E s \in Songs : Load(s)) \/ ReadSong \/ PlaySong \/ Exit \/ Idle

Spec == Init /\ [][Next]_vars
-----------------------------------------------------------------------------
(***************************************************************************)
(* Properties.                                                             *)
(***************************************************************************)
Places == Stale .. Eot

\* Types, and that over all songs loaded so far no more notes were accepted
\* than there were lyrics, though neither count is ever cleared.
TypeOK ==
  /\ utau \in BOOLEAN /\ song \in Songs /\ pos \in 1 .. Eot
  /\ pc \in {"idle", "prescan", "play", "exit"} /\ loads \in 0 .. MaxLoads
  /\ lyr_count \in Nat /\ note_count \in Nat
  /\ pc # "exit" => note_count <= lyr_count
  /\ is_utau_midifile \in 0 .. 2
  /\ setup_start_event \in Places /\ setup_stop_event \in Places
  /\ silenced \subseteq 1 .. Eot /\ ready \subseteq Bank
  /\ note_table \in [Keys -> Nat] /\ cnt \in [Keys -> Nat]
  /\ ToSet(cached) \subseteq Keys /\ portamento \in BOOLEAN
  /\ joined \in 1 .. Eot

\* The note has a lyric of its own right before it, which has been played.
Worded(i) ==
  /\ song[i].what = "on" /\ i - 1 >= joined
  /\ song[i - 1].what = "lyric" /\ ~song[i - 1].marked /\ ~IsSetup(song[i - 1])

\* What UTAU exports: the setup text, its note, which has no length, and then
\* notes, each behind its lyric.
Exported(s) ==
  /\ \E i \in 4 .. Len(s) : s[i].what = "off"
  /\ s[1].what = "lyric" /\ IsSetup(s[1])
  /\ s[2].what = "on" /\ s[2].time = 0
  /\ s[3].what = "off" /\ s[3].time = 0
  /\ \A i \in 4 .. Len(s) - 1 : s[i].what = "on" => s[i - 1].what = "lyric"

Delayed(s) == \A i \in 4 .. Len(s) : s[i].time > 0

(***************************************************************************)
(* A note that has a lyric is sung with it, by a sample that has been      *)
(* prepared, wherever the song is joined and whatever was sung before it;  *)
(* in a song UTAU has exported, whose first note does not start at once,   *)
(* just the setup note is silenced (utau_prescan_on, _off, _lyr against    *)
(* utau_set_text and utau_get_sample).                                     *)
(***************************************************************************)
SungRight ==
  pc = "play" /\ utau =>
    /\ last.event # 0 /\ Worded(last.event) =>
         LET word == song[last.event - 1].arg
         IN  IF word \in Bank THEN last.sample = word /\ last.ready
             ELSE last.sample = NoSample
    /\ Exported(song) /\ Delayed(song) => silenced = {2, 3}

\* What ends the note on at i.
Ends(i) ==
  {j \in i + 1 .. Eot :
     \/ song[j].what \in {"wheel", "porta", "eot"}
     \/ song[j].what \in {"on", "off"} /\ song[j].arg = song[i].arg}

\* How long it is the last thing that happened to its key.
Sounding(i) == Heard(song[i].arg, song[Min(Ends(i))].time - song[i].time)

Sounds(k) ==
  [i \in 1 .. Eot |-> IF song[i].what = "on" /\ song[i].arg = k
                      THEN Sounding(i) ELSE 0]

(***************************************************************************)
(* The cache is filled for what will be played: every key is counted for   *)
(* just the time its notes sound, none is kept that is not heard, none     *)
(* twice, and all that is kept fits, the sample written after each at its  *)
(* loop's end included (resamp_cache_refer_on, _off, _create).             *)
(***************************************************************************)
CacheRight ==
  pc = "play" /\ ~utau =>
    /\ \A k \in Keys : cnt[k] = Sum(Sounds(k), Eot)
    /\ \A k \in ToSet(cached) : cnt[k] > 0
    /\ IsInjective(cached)
    /\ Room(cached) <= CacheLen

\* utau.c: the program "can sing any midi file exported by UTAU".  Also when
\* its first note starts at once, nothing but the setup note is silenced.
FirstNoteSung ==
  pc = "play" /\ utau /\ Exported(song) => silenced \subseteq {2, 3}
=============================================================================
