# A verification project for timidity-utauloid

TLA+ models of the program's concurrent and stateful core, the TLC runs that
check them on small instances, and TLAPS proofs of the most important
properties for every instance. Line numbers refer to `src/`; `playmidi.c`,
`mix.c`, `aq.c`, `jack_a.c`, `miditrace.c`, `recache.c`, `utau.c`, `instrum.c`
and `readmidi.c` are in
`src/timidity-2.13.2/timidity/`, `smf*.c` in `src/libsmf-1.3-vocaoke/src/`.

    tlc -workers 2 -config voices_play.cfg MCVoices.tla
    tlc -workers 2 -config player.cfg MCPlayer.tla
    tlapm PlayerProofs.tla

`PROJECT.json` lists the components, the runs, the line range each definition
translates, the hazards of the code with the properties that cover them, and
the findings.

## 1. Inventory

timidity-utauloid is TiMidity++ 2.13.2 with a singing synthesizer (UTAU voice
banks) built into its instrument loader, a library for standard MIDI files
(libsmf) and several score converters. One thread plays: it takes MIDI events
one by one, changes the voice table, mixes the voices, and hands the samples to
the audio queue, which hands them to an output device. Only the output device
runs beside it, in the kernel or, with JACK, in a thread that calls back into
the program.

| Component | State | Operations | What is hard | What makes it correct |
|---|---|---|---|---|
| voice allocator (`playmidi.c`, `mix.c`) | `voice[]`, `upper_voices`, `voices`, the vid queues, pedals and modes per channel | note on/off, controllers, mixing, kills, resets, end of tune, polyphony changes | stealing at full polyphony, chorus pairs, one status for three pedals, a table that shrinks while notes sound | no voice out of reach of the loops, no stuck notes, links in pairs, pedals let go, exclusive and limited notes, the order of stealing |
| soft audio queue (`aq.c`) | buckets on two lists, filling state, play counters | `aq_add`, filling, soft flush, flush, discard, position | real-time device, blocking, an estimated position, restarts in mid-flush | samples in order, none lost or doubled, flush plays out, position moves forward, no call waits for ever |
| JACK ring (`jack_a.c`) | two free-running pointers, `running`, a condition variable | open, write, flush, discard, close, the process and shutdown callbacks | two threads without a lock, a server that goes away | nothing overwritten before it is read, room never overestimated, wake-ups not lost, no call waits for ever |
| play control (`playmidi.c`) | place in the event list, sample count, half-filled buffer, pause and jump flags | the loop of `play_midi`, `compute_data`, `apply_controls`, `skip_to`, end of song | a command is obeyed inside `compute_data` inside `play_event`, which then must know what became of the event it was at | every event once and in order, controllers as if played from the start, one position, the song ends |
| trace queue (`miditrace.c`) | list of timed display events, an offset | push, `trace_loop`, flush | events due at a position that is an estimate and is reset by seeks | sorted, nothing held back, not ahead of the sound |
| resample cache (`recache.c`) | reference counts, a fixed arena | refer on/off in the prescan, create, fetch | counts over the whole tune, a guard sample past the end | counts are what sounds, what is kept fits |
| UTAU singer (`utau.c`) | lyric and note counts, setup note, word to sing; all static | prescan, playback | the n-th lyric belongs to the n-th note; nothing is cleared between songs | a note is sung with its word by a prepared sample |
| libsmf (`smf*.c`) | tracks, events, tempo map, cursors | add, remove, seek, load, save | derived times and numbers kept through every edit | numbering, seconds, reading order, save and load agree |
| MIDI file reader (`readmidi.c`) | event list | parse, insert, groom | conversion of data | times in order, one end event |
| instrument banks (`instrum.c`, `play_midi_load_instrument`) | elements of banks, a cache of patches, the default instrument | mark, load before and during play, free between songs and on a change of output | one instrument under several pointers, some of which own it; two ways to load | freed once, never while heard, loaded before it is played, the same sound in every song |
| server and sequencer interfaces | connections | receive, play in real time | socket and device I/O | events reach the same handlers |

How they interact: handlers change the voice table; `compute_data` mixes it and
calls `aq_add`; `aq_add` calls `trace_loop`, which asks `aq_samples` for the
position; `aq_fill_nonblocking` writes to the device (`write_jack`); a user
control (`RC_...`) reaches the player through `check_apply_control`, which
`aq_soft_flush` and `aq_flush` also call; `compute_data` reads `aq_filled` to
decide whether to lower the polyphony. Before a song is played,
`play_midi_prescan` reads it for the singer and for the resample cache;
`find_samples` uses what it left for every note. `groom_list` marks the
instruments a song needs, `load_missing_instruments` loads them, `find_samples`
loads what is still missing, and `play_midi_file` frees them at the end. A seek
resets the voices, the trace queue and the device together. libsmf stands apart: the converters and the
shell `smfsh` use it, the player does not.

## 2. Modules

| Module | Models | Kind |
|---|---|---|
| `Voices` | the voice allocator | state machine |
| `MCVoices` | constants for its runs | instance for TLC |
| `VoicesProofs` | `TypeCorrect`, `Reach`, `Releasable`, `Exclusive`, `AssignBound`, `SingleInstance`, `HeldByPedal`, `Linked`, `StealsInOrder` | proofs |
| `JackRingProofs` | `EndsNeverCross`, `FlushPlaysAll` | proofs |
| `AudioQueueProofs` | `PlaysInOrder` (refinement), `QueueStaysWhole`, `FlushWaits`, `StartsLate`, `ClockRuns` | proofs |
| `PlayerProofs` | `PlaysInOrder`, `AllNotesPlayed`, `ChannelsRight`, `PositionStaysRight`, `TraceStaysSorted` | proofs |
| `InstrumentsProofs` | `OwnedOnce`, `SoundsAlike`, `SongsReady` | proofs |
| `PrescanProofs` | `WordsSung`, `CacheFilled` | proofs |
| `SmfTracksProofs` | `SongTypes`, `SongNumbered`, `SongNothingSkipped`, `SongSecondsRight`, `SongSavedIdentical` | proofs |
| `NumberLemmas` | induction, least and greatest of a set, for `PlayerProofs`, `PrescanProofs` and `SmfTracksProofs` | lemmas |
| `AudioStream` | what the audio queue promises | abstract specification |
| `AudioQueue` | the soft audio queue, implements `AudioStream` | state machine, refinement |
| `JackRing` | the JACK output driver | state machine of two threads and the server |
| `Instruments`, `MCInstruments` | the instruments of the tone banks over several songs | state machine |
| `Player`, `MCPlayer` | one song being played under the user's commands, the trace queue | state machine of player, user and device |
| `Prescan`, `MCPrescan` | the prescan, the UTAU singer and the resample cache over several songs | state machine |
| `SmfTracks` | libsmf's song editor | state machine, one action per call |

### Voices

A slot of `voice[]` is an index in `V`; the fields of `struct Voice` that
decide control are functions on `V` (`status`, `chan`, `key`, `vid`, `prox`,
`link`). Handlers run to completion, so a handler starts only when `op` is
`"idle"`; a handler with a loop over the voices is unrolled into steps
(`SelectSample`, `StartSample`, `SweepVoice`, `ShedVoice`, `ConserveVoice`) so
that each step is one iteration. The seven loops that visit every voice below
`upper_voices` and may let some of them go (`note_off`, `all_notes_off`,
`drop_sustain`, the redamper and sostenuto updates, the amplitude changes,
the finish of `midi_play_end`, and `compute_data`) share `SweepVoice`; `Matches`
and `Outcomes` hold what distinguishes them.

`reduce_voice` looks for the quietest voice of one class, then of the next.
Loudness is not modelled: `Victims` is the whole first class that has a member,
so what holds in the model holds whichever voice is quietest. In the same way
an envelope may run out wherever the code lets it (`Finished`, `Outcomes`), and
`MaxSamples` bounds the samples an instrument plays for one note.

The vid counters have `VidMod` values instead of 256. `WrapAllowed = FALSE`
keeps a key from collecting `VidMod` outstanding note-ons; with `TRUE` the
finding on `last_vidq` appears. `OverlapAllow`, `SurroundChorus`, `InstantDeath`,
`Resize` and `ControllerResets` turn on options of the program, or parts of it,
so that each run can spend its states on one question.

`phase` says how far `midi_play_end` has got: letting the tune ring (`tail`),
fading (`fade`), everything killed (`killed`), mixing the killed voices out
(`dying`). Its `compute_data` calls obey the user and may reduce the polyphony,
so `Restart`, `VoiceIncrement`, `VoiceDecrement` and `AutoReduce` fall in
between, as they do while the tune plays.

### AudioQueue and AudioStream

A linked list of buckets is a sequence of bucket numbers; `store` has each
bucket's data. A sample is its number since the last flush, which makes loss,
repetition and reordering visible. The player's thread is one call at a time
(`pc`); `Tick` is the device playing a sample and time passing. `reports` and
`tracing` are the kind of device and of interface; `buckets`, chosen at the
start, includes 0 (no soft queue). The output device blocks a writer until it
has room.

`AudioStream` is the promise: a line of samples taken and not yet played, which
grows by the next numbers, is padded with less than a bucket of silence, is
played from its front, and is cleared only as a whole. `InOrder` is the
refinement: `line` is what is in the device followed by what waits in the
buckets, `accepted` and `heard` the last sample taken and played.

### JackRing

The player's thread and JACK's thread run access by access. Loads and stores
take effect in program order; the ring's pointers, its contents, `running` and
the wake-up are what the threads share. `pthread_cond_wait` is called with a
mutex that is never locked: the model gives it no mutual exclusion and lets it
return spuriously. `raced` is a history variable: a clear has fallen within a
callback. `open_jack` clears everything with one `memset`, so an opened ring
owes nothing to the one before, and `raced` starts again; it may fail, in two
places after the client has been made. `close_jack` is a step per statement the
callback can see; its two `sleep(2)` stand for nothing: `jack_client_close`
itself waits for JACK's thread. When the server goes away its callbacks stop, and
the shutdown callback ends the program unless the client is being closed.

### Instruments

An element of a bank holds `None`, a magic value or an instrument; an
instrument is a number, `live` those that are allocated, `source` what each was
made of (a preset of a sound font, a patch, or the default instrument's patch,
which is read without a bank's parameters), `cache` what was read from patch
files. Nothing is loaded when all of `Ids` are allocated; the run's six never are. `config` is how the program was set up, chosen
at the start: names of `timidity.cfg`, presets of sound fonts, the default
instrument, `--force-program`, options, and the songs there are. `ReadSong` is
what `groom_list` does to the banks; `PassOver`, `FillUnnamed` and `FillNamed`
are one element each of `load_missing_instruments`, since the user may be asked
in between; `NoteOn` is `find_samples`. `voices` is the set of instruments the
voice table refers to. `twice`, `bare`, `late` and `sound` are history variables.

`Owned` says that what is allocated is exactly what something points to, that
nothing was freed twice, and that no voice is mixed whose instrument is gone;
`SoundsSame` compares the loading ahead with the loading on demand and one song
with the next. `Tidy` says of a configuration what `Owned` and `Ready` need, `OneSound` what
`SoundsSame` needs besides. All 24 of the run have both (`TidyConfigs`, which TLC
evaluates); for each way to lack one, and for what `late` excludes, there is a
configuration in which the code goes wrong (section 3).

### Player

`pc` is where the player's thread is: `play_midi`'s loop (`play`, `execute`,
`next`), `compute_data`'s (`compute`, `controls`, `write`), `midi_play_end`
(`ending`, `flush`). `tail` counts the `compute_data` calls the end of the song
still makes, so one loop serves both callers, as in the code. One action per
command of `apply_controls`; commands with the same effect on this state are one
action, named in its comment. The device is two counters (`written`, `heard`):
how samples travel between them is `AudioQueue`'s subject; `can_trace` is whether
it tells its position. Volume, speed and key commands change no variable here
except through `sync_restart`. Two things one would not guess are as in the code:
`RC_PREVIOUS` beyond the first two seconds returns `RC_RESTART` to its caller and
leaves the song or, while the song fades, is ignored after its flush; and
`play_pause_flag` is kept from one song to the next.

`from`, `played` and `strayed` are history variables. `played` is compared with
the event list from the place last sought (`InOrder`). Two edges are the code's
and are allowed there: the first event of the song may be missing (the finding
`player_first`), and after a reload the last event before the place may be
played again, because `seek_forward` steps back one event for a loop that steps
forward, and `play_midi` enters its loop without that step. `strayed`
excludes what no document settles: a command obeyed while the song is fading, a
seek that does not set `jump_flag` (`Effect`), `RC_SYNC_RESTART` with 1 on a
device without a position, and `RC_CHANGE_RATE` to the rate in use, which
returns `RC_NONE` whatever was done before.

Place `lost` is `play_midi` behind the end of its event list, where the code reads
on in whatever memory follows: after a seek that lands beyond the last
event, `skip_to` stands on `ME_EOT`, and the loop's `current_event++` steps over
it. Such a seek takes a place beyond the end (`Here` counts what is in the
buffer and the device), so more commands than the run's three; the theorems hold
for any number, and that is how this state was found (section 4).

`play_midi` of `RC_RELOAD` starts with `skip_to`; reading the file again gives
the same event list. `IsSong` is what `groom_list` guarantees.

### Prescan

Five songs of up to ten events, loaded in any order; the singer's variables are
static in the code and are never cleared, so they are not cleared by `LoadFile`.
A pointer into the song before is `Stale`, a text of it `Gone`; a step of the
code through such a pointer (or through NULL) leads to `exit`, a word read
through one is any word. A note's place in the song stands for its start time.
`Orders` is every order `qsort_cache_array` may leave, ties included. With a
cache size of 0 (`-S 0`) the program skips the prescan altogether
(playmidi.c:8263), so that no sample of the singer is prepared; the assumption
`CacheLen # 0` names that. The sum that `resamp_cache_create` compares with
`CACHE_DATA_LEN` (recache.c:244) is one of time counts while lengths fill the
cache; the model keeps it so.

### SmfTracks

The library is sequential: each call is one action, and what it does is an
operator from songs to songs, since calls are built from one another (a removal
may rebuild the tempo map, which rewinds and reads the song). Seconds are whole
units, of which a pulse takes `rate`; `Slack` is the tolerance of `smf_save`'s own
assertion (0.01 s, smf_save.c:563). Rounding of doubles is left out. `aborted`
stands for a failed `assert`, after which the program is started again. A save
leaves every track read to its end and the last seek at 0: `smf_rewind` comes
first, `write_track` reads the tracks, and nothing rewinds them again
(`Written`).

`SecondsRight` and `SavedIdentical` hold on two conditions that the code does not
ask for:

- `SharedTempo = FALSE`: no two tempo changes are at one pulse. The library's
  comment admits problems there (smf.c:627); with `TRUE` and `MaxPulses = 3`
  the run finds both properties violated. Time signatures, which are not
  modelled, fall under the same condition: they use the same entries of the
  tempo map (`new_tempo`, smf_tempo.c:49), so a time signature and a tempo
  change at one pulse share one entry, and removing either as the last event
  (smf.c:629) drops both.
- `PulsesShort`: no pulse is longer than the tolerance. `pulses_from_seconds`
  rounds down, so an event added by its seconds may be off by up to a pulse; at
  the default 120 pulses per quarter note a pulse passes 0.01 s below 50 BPM, and
  the event comes back from the file further off than the assertion allows
  (`smf_slow.cfg`).

## 3. Runs

| Run | Bounds | Shows |
|---|---|---|
| `voices_play` | a melodic and a drum channel, one note each, 3 slots, chorus on, vids mod 2 | type, `NotesReleasable`, `LinksDoubled`, `StealOrder` at fixed polyphony |
| `voices_resize` | one key, 3 slots, two samples a note, notes that end while they start | `SoundingBelowUpper` while the polyphony goes up and down |
| `voices_assign` | one key, 3 slots, two samples a note, limited multi mode | `AssignLimit` |
| `voices_drums` | two drum notes of one group, 2 slots, two samples, chorus | `ExclusiveNotes` |
| `voices_pedals` | two notes, half pedal, sostenuto, mono, no overlap, fair | `SustainedHeld`, `OneInstance`, and `DyingLeave` (liveness) |
| `audio_queue` | up to 2 buckets of 2, device of 4, five samples a stretch, fair | `QueueKept` and everything else about the queue, `InOrder` by refinement, `CallsReturn` (liveness) |
| `jack_ring` | ring of 3, period of 2, writes of up to 5, nine samples between clears, opened and closed any number of times, fair | `RingRight`, `FlushWaits`, `CallsReturn` (liveness) |
| `player` | two songs of six events, buffer of 2, device of 3, three commands of ten kinds, fair | `InOrder`, `NotesPlayed`, `ChannelRight`, `PositionKept`, `TraceSorted`, and `Ends` (liveness) |
| `prescan` | five songs, a bank of two words, three keys, a cache of 6, four loads | `SungRight`, `CacheRight` |
| `smf_tracks` | two tracks, three events and those a call adds, three pulses, two tempos | `Numbered`, `SecondsRight`, `NothingSkipped`, `SavedIdentical` |
| `instruments` | two banks of two programs, three songs, two commands, 24 configurations | `Owned`, `SoundsSame`, `Ready` |
| `player_first` | as `player`, one command | finding: a seek to 0 loses the first event |

Sixteen more configurations are counterexamples to run by hand, each with one
property that the code violates:

| Configuration | Module | Shows |
|---|---|---|
| `voices_vid_wrap.cfg` | `MCVoices` | `AlreadyOff`: as many note-ons of a key as a vid counter has values, without a note off, and its voices count as released; the counters are `uint8` (playmidi.c:140, 441) and nothing bounds the outstanding note-ons |
| `voices_moved_link.cfg` | `MCVoices` | `LinksDoubled`: `voice_decrement` moves or drops a voice (playmidi.c:6208, 6236, 6239) and its partner's `chorus_link` keeps the old slot |
| `voices_slot_twice.cfg` | `MCVoices` | `LinksDoubled`: `find_voice` (playmidi.c:2116-2167) takes a slot just found for an earlier sample of the note for the voice it held before, kills it and finds it again; it is started twice, and the partner of the first start keeps its link |
| `audio_position.cfg` | `AudioQueue` | `ReallyPlayed`: on a device that does not report, `aq_samples` counts what has just been written to an idle device as played (aq.c:284, 449-463; aq.h:50 says "really played out") |
| `jack_discard.cfg` | `JackRing` | `SpacesEmpty`: a discard or flush clears both pointers within a callback (jack_a.c:512-513), which leaves the read pointer beyond the write pointer |
| `smf_seek.cfg` | `SmfTracks` | `SeekFinds`: `smf_seek_to_seconds` does nothing when the last seek went to the same place (smf.c:986), although the song was edited since, or was saved: after `smf_save` every track is at its end (smf_save.c:381) and a seek to 0 leaves it there, with nothing to read (the shortest trace) |
| `smf_slow.cfg` | `SmfTracks` | `SavedIdentical`: where a pulse is longer than the tolerance, an event added by its seconds fails the assertion of smf_save.c:563 when the song is saved |
| `smf_abort.cfg` | `SmfTracks` | `AssertsHold`: a tempo change at pulse 0, added as the last event, takes over the default tempo (smf_tempo.c:57); its removal frees it (smf_tempo.c:190) and the next call fails `assert(tempo)` (smf_tempo.c:203) |
| `utau_first.cfg` | `MCPrescan` | `FirstNoteSung`: in a song whose first note starts at 0 the prescan takes that note for the setup note (utau.c:400, 434) and silences it instead |
| `instruments_renew.cfg` | `MCInstruments` | `Owned`: `free_instruments(1)` frees the default instrument with the cache (instrum.c:1515) and once more in `set_default_instrument` (instrum.c:1582) |
| `instruments_fade.cfg` | `MCInstruments` | `VoicesLive`: a change of rate or output while a song fades frees the instruments of the voices that `midi_play_end` goes on to mix (playmidi.c:7112, 6115) |
| `instruments_preset.cfg` | `MCInstruments` | `Owned`: a preset of bank 1 without a name is loaded, and its pointer overwritten by the first note (playmidi.c:1336-1344) |
| `instruments_both.cfg` | `MCInstruments` | `SoundsSame`: a place of bank 0 with a name and a preset; the name copied to bank 1 (playmidi.c:1343) loads the patch there in the next song |
| `instruments_force.cfg` | `MCInstruments` | `Owned`: `--force-program` with a preset (timidity.c:3208): the default instrument is freed with its bank after the first song |
| `instruments_replaced.cfg` | `MCInstruments` | `Owned`: `--force-program` with a default instrument (timidity.c:5420-5422): `set_default_instrument` frees the forced one (instrum.c:1582), which its bank and the cache go on pointing to |
| `instruments_changed.cfg` | `MCInstruments` | `Owned`: `--force-program` and a change of rate: `free_instruments(1)` frees the forced instrument with the cache and `default_instrument` goes on pointing to it |

Why the bounds are enough. Three slots hold a chorus pair and another voice, so
a pair can be broken from either end and a third voice can be stolen, moved or
renamed; a note can need more slots than there are; the last slot can be free,
in use or given up while the others are either. A vid counter of two values has
one outstanding note-on, of three or four more than one; the code tests the counters
only for equality. Two buckets make head and tail differ and be the same; a
device of two buckets is the least the queue accepts (`aq.c:149`); `StartCount`
of 3 lies within the second bucket. A ring of 3 with a period of 2 makes every
remainder occur at the wrap, and a write of 5 needs more than one turn.
Three commands are enough for a pause, a seek in the pause and a resume, or for a
seek that is followed by another before the first returns; a buffer of 2 is
shorter than a gap of a song and longer than another, so a command falls before,
in and after a half-filled buffer; `Presearch` 3 reaches past the last note.
Four loads let a song be reloaded and a song with a setup note follow one
without, and the other way round. Two banks let an instrument stand in one, in
both or in the cache besides; two programs let them differ while another is loaded; two commands let a song be
reloaded and then skipped; six instruments are enough, since they are never
all allocated. Three events in two tracks make an event
the last of its track, of the song, or neither, on either side of a tempo change.
Everything is explored to the end: no run has a state constraint beyond the
bounds named in `CONSTANTS`, and deadlock is checked in all of them.

`RingRight` and `FlushWaits` are conditional on
`~raced`; `jack_discard.cfg` drops the condition and shows why it is there.
`OneInstance` is checked with `OverlapAllow = FALSE`: with the default, two
strikes of a key may sound together and the comment above `find_voice` does not
hold. `LinksDoubled` is checked with `Resize` and `InstantDeath` off and one
sample per note, since moved voices break it (`voices_moved_link.cfg`), a voice
that dies as it starts keeps its link while free, and with two samples a slot can
be started twice (`voices_slot_twice.cfg`).

### Fairness

`voices_pedals`: a handler that has begun runs to its end (weak fairness of its
steps), and the player mixes between handlers however many events arrive
(strong fairness of `Compute`: `play_event` calls `compute_data` for the time
between two events, and a handler disables `Compute` while it runs).
`audio_queue`: the call in progress goes on, and the device plays what it has,
one sample per period. Nothing is assumed about when the mixer adds or the user
asks. `jack_ring`: both threads run, and JACK calls the process callback every
period while there is a client and a server; that a sleeping write wakes up, or
that the program ends when the server has gone, is a result, not an assumption.

`player`: the player's own steps go on (one weak fairness condition: it is one
thread, and between commands it always has a step) and the device plays what it
has been given. Nothing is assumed of the user, who may also leave the song
paused for ever, which `Ends` allows.

## 4. Proofs

Every theorem is for every value of the constants that its module's assumption
allows: no bound of section 3 enters. Each module starts with its inductive
invariant, goes on with lemmas about the model's operators, then has one lemma
for each part of the invariant with one step per action of `Next`, and ends with
the theorems. Where a part needs only what an operation shares with others, the
actions are taken together by what they leave unchanged.

### Voices (`VoicesProofs`)

From `ConstantsAssumption`: any polyphony up to 256 (a chorus link is a byte),
any set of channels and notes, any number of samples per note, any mix of options.

- `TypeCorrect`: `Spec => []TypeOK`. `TypeOK` is not inductive: the handler's
  loop index and argument must be tied to the handler. `TypeInv` adds them.
- `Reach`: `Spec => []SoundingBelowUpper`. Inductive invariant `UpperInv`:
  besides the property, the voices found for a note and not yet started are
  below `upper_voices` (`PendingBelow`); the end of a tune only runs the
  handlers it starts (`PlayEndOps`); once everything has been killed, the mixing
  pass that follows leaves nothing in use behind its index (`DyingSwept`), which
  is what allows `midi_play_end` to set `upper_voices` to 0, also when the
  polyphony changes in between (`GiveUpKeeps`); and the
  conservative reduction never lowers the polyphony under its goal
  (`Conserving`), so that the slots it moves voices to are in reach.
- `Releasable`: `Spec => []NotesReleasable` when `~WrapAllowed`. Inductive
  invariant `NotesInv`: in addition, the voices of the note being started carry
  its vid or are still pending (`Started`, `StartVid`), there is room for its
  vid in the queue (`SelectRoom`), and `all_notes_off` has left no voice ON
  behind its index (`AllOffProgress`), so that zeroing the counters loses none.
  The arithmetic of a queue modulo `VidMod` is in two lemmas: `DrawVid` (a new
  vid joins the outstanding ones) and `ConsumeVid` (only the oldest leaves). The runs check
  it at fixed polyphony; the theorem covers the polyphony changes as well.
- `StealsInOrder`: `Spec => StealOrder`. From `TypeInv`, and lemma `FirstClass`:
  a victim of a later class means that the earlier classes are empty.

The other theorems say which voices are heard together. They share two lemmas
about any step: a voice heard after it was heard before, possibly in another slot
when the polyphony went down, and `find_voice` let it live if it was its step, or
it is of the note being started (`NextSource`); and the slots found for that note
are the ones placed (`NextPlacing`). Each then needs only what `find_voice` has cleared.

- `Exclusive`: `Spec => []ExclusiveNotes`. While a note is being started, none of
  the rest of its alternate-assign group is heard (`GroupCleared`); besides it, all
  that are heard are of one note of the group (`OneOfGroup`).
- `AssignBound`: `Spec => []AssignLimit`. The same for the vids of a key: in mode 0 the
  key is cleared, in mode 1 one earlier vid may be left (`KeyCleared`), counted
  with `AtMostOne` and `AtMostTwo`.
- `SingleInstance`: `Spec => []OneInstance` when `~OverlapAllow`: every voice heard has
  `proximate_flag` set, between the samples of one note as well.
- `HeldByPedal`: `Spec => []SustainedHeld` when `~ControllerResets`. While a pedal's
  handler runs, the sustained voices behind its index are those another pedal holds
  (`HeldOrDropped`).
- `Linked`: `Spec => []LinksDoubled` when `MaxSamples = 1`, `~Resize` and
  `~InstantDeath` (section 3). A link is mutual or to oneself, and the slot found
  for a note has none (`LinksOK`); to unlink a voice leaves every other link
  mutual (`UnlinkMutual`).

The runs check the first four at fixed polyphony; the theorems cover its changes.
The attempt to prove `LinksDoubled` for any number of samples failed where a slot
found for one sample is found again for the next, which TLC then confirmed
(`voices_slot_twice.cfg`).

### JackRing (`JackRingProofs`)

From `RingAssumption`: any ring, period and write of at least one sample, in any
proportion. All three safety properties of the run are theorems:
`TypeCorrect`, `EndsNeverCross` (`RingRight`) and `FlushPlaysAll` (`FlushWaits`).

`RingRight` speaks of the moment of a copy and is far from inductive. The
invariant says what each thread may rely on while the other runs: when callbacks
can be at work at all (`Living`), that the room `write_jack` saw is still there
because only it fills the ring (`Sized`), that what the callback saw is still
there because only it empties it (`Loaded`, `Ordered`), that each slot between
the ends holds the sample of its position, those copied and not yet
counted in included (`Kept`), and that a flush that found the ring empty leaves
it so (`Drained`). All but the first three hold until a clear falls within a
callback (`raced`). The arithmetic is that of free-running pointers: `SlotsDiffer`
(positions less than a ring apart are in different slots) is why a copy
overwrites nothing.

### AudioQueue (`AudioQueueProofs`)

From `QueueAssumption`: any number and size of buckets including none, any
device of at least two buckets (`aq.c:149`), any length of `aq_add` up to the
device's size. All six safety properties of the run are theorems: `TypeCorrect`,
`QueueStaysWhole` (`QueueKept`), `FlushWaits` (`FlushPlaysOut`), `StartsLate`
(`StartsFilled`), `ClockRuns` (`ClockForward`) and `PlaysInOrder`, the refinement
of `AudioStream`.

The invariant adds to `QueueKept` what is left of the call in progress
(`CallOK`), the device's limit (`DeviceOK`), that `aq_add_count` never runs
ahead (`Counted`) and why filling has stopped (`Started`). The heart is
`Ordered`: on the line from the device's next sample to the tail bucket's last,
silence aside, each sample is the one after the one before it, the first the one
after the last played, the last the last added. `Waiting` reads the line out of the buckets by
division and remainder; lemmas `Take`, `Add` and `Extend` prove that taking
the head bucket, filling the tail bucket and linking a new one are taking from
the front and adding at the end of that line. With this each step of the queue
is `Accept`, `Pad`, `Play`, `Clear` or nothing for `AudioStream` (`LineSteps`).

### Player (`PlayerProofs`)

From `PlayerAssumption`: any songs that `IsSong` admits, any controllers, buffer, device of at
least one buffer, search depth, and any number of commands in any order. All
safety properties of the run `player` are theorems: `TypeCorrect`, `PlaysInOrder` (`InOrder`),
`AllNotesPlayed` (`NotesPlayed`), `ChannelsRight` (`ChannelRight`),
`PositionStaysRight` (`PositionKept`) and `TraceStaysSorted` (`TraceSorted`).

`PositionKept` and `TraceSorted` are inductive with `Waits`, by which a paused
player holds nothing in the device. For the others the invariant says what has
been played at each place of the player's loop (`Place`): at `play` the events
from the place sought up to the next one (`InLine`) with the controllers they
leave (`InTune`); on the way through `compute_data` the same, with that event
still in hand; after a seek that was heeded, nothing, with the generator one event short
of the place sought if it was not the first (`Sought`), so that the loop's step
puts it there. `SkipTo` establishes it (`Skips`): what `seek_forward`
leaves is where the next event belongs. `AllPlayed` says that once the song fades
every note from the place sought on is among those played. Lemma `CommandSteps`
sorts the commands into those that leave the song, move it, pause, resume or let
it render, so that each part of the invariant is shown once per kind.

The attempt to prove `TypeOK` failed at the loop's `current_event++`, and
rightly: a seek may land beyond the last event, where the model then had no next state. The
state `lost` (section 2) was added, and `InOrder` says what leads to it.

### Instruments (`InstrumentsProofs`)

From `InstrumentsAssumption`: any number of banks, programs, instruments and
commands, any songs, names, patches and presets. All properties of the run are theorems:
`TypeCorrect`, `OwnedOnce` (`Owned`) and `SongsReady` (`Ready`) where every configuration
is `Tidy`, `SoundsAlike` (`SoundsSame`) where it is `OneSound` too. These are conditions on
`timidity.cfg` and the options, not on the run of the program: clauses of `Tidy` are
the defects of section 3.

`HeapOK` is what makes sharing safe: what a bank or the cache points to is
allocated, and what is allocated is in the cache or, if a sound font's, at the
place it was read for (`Home`), to which other banks point only through
bank 0. So `free_instruments`, which goes by places for sound fonts and by
the cache for patches, frees each once: a place that frees is the home (`FontFreed`),
and an instrument has a home or an entry, never two (`FreedOnce`).
`LinksOK` (a place without a name has nothing but bank 0's instrument) and `NamesOK`
(a name is the configuration's or bank 0's) carry it through playing. The loading of `fill_bank`
and of `play_midi_load_instrument` are one operation, `Puts`, for the proof.

`SoundOK` says that what a place points to was made of what the configuration
lets one expect (`Expected`), and that an error mark stands only where there
is nothing to expect; a name copied from bank 0 means the same there
(`FoundExpected`), for which `OneSound` is needed. `SongReady` says that for each note
of the song the instrument is there, or there is none, or its mark is still
ahead of `load_missing_instruments` (`Coming`): a place without a name may pass
its mark on to bank 0, which is read last, hence the order of the banks (`AheadKept`).

The attempt to prove `Owned` showed that the hypotheses were hidden in the choice
of configurations: `Tidy` names them, and two of its clauses
(`instruments_replaced.cfg`, `instruments_changed.cfg`) were not known before.

### Prescan (`PrescanProofs`, `NumberLemmas`)

From `PrescanAssumption`: any songs as `groom_list` makes them (`IsSong`), any bank, any
finite set of notes, any cache size but 0, any number of songs loaded. All
properties of the run are theorems: `TypeCorrect`, `WordsSung` (`SungRight`) and
`CacheFilled` (`CacheRight`).

`CacheRight` compares counts taken event by event with a sum over the song. `TableOK` says
which note each entry of `channel_note_table` is and that nothing has ended it; then `CountOK`
is the sum so far: what is counted for a key, and what its sounding note
will be counted for (`Open`), is what the events read so far sound. `TableStep` adds one event to
both sides. That what is kept fits (`KeptRight`) is an induction over the
keys kept. Both need induction over data, which the library states for operators the
provers cannot take; `NumberLemmas` states it for sets (`Induction`) and
derives it from the well-foundedness of `<`, and the recursive functions `Sum` and `Kept` are
shown to exist (`SumExists`, `KeptExists`) before anything is said of them.

`SungRight` needs that the samples of the words read so far are prepared
(`ReadyOK`), that a word just played is the one to sing (`TextOK`), which is what makes the stale
`utau_text` harmless, and how far the prescan has got with the setup note (`SilenceOK`). The last
showed that a song with a setup note and no other has nothing silenced: `Exported` now
asks for a note off after it.

### Song editor (`SmfTracksProofs`, `NumberLemmas`)

From `SongAssumption`: any kinds of event, any rates of tempo, any number of
tracks and events, any pulses and seconds. Only the last two theorems ask for
more, `SharedTempo = FALSE` and `PulsesShort` (section 2, `SmfTracks`).

`SongTypes` (`TypeOK`), `SongNumbered` (`Numbered`) and `SongNothingSkipped`
(`NothingSkipped`) share the invariant `EditorInv`. Its first part, `SongOK`, is one lemma
for each operation (`RemovedOK`, `AddedOK`, `TrackDeletedOK`, `CompletedOK` ...): that
distances stay at least 0 needs that an event goes before the first one that is
not earlier (`PlaceAtIs`) and that the one after it gives up what it takes
(`PlacedBefore`), or gets it back (`WithoutOneOK`); that seconds stay at least 0
needs that a tempo map, unless it is empty, starts at pulse 0 (`Tempos`). Its
second part is about a cursor in every track: after a seek or a save they are a cut of the
order of play (`InOrder`) and each carries the time of its event (`CursorsOK`),
without which `smf_find_track_with_next_event` would not take the least event
(`NearestFirst`), and reading on would not keep the cut (`ReadSeated`). `InOrder` is
`NothingSkipped` without `CursorsOK` and is not inductive.

`SongSecondsRight` (`SecondsRight`) holds where no two tempo changes share a pulse
(`SharedTempo = FALSE`) and no pulse is longer than the tolerance (`PulsesShort`). The code keeps seconds in four ways: an event is given
them by the map, the map is extended when a tempo change is the last event,
shortened when the last one is removed, and rebuilt from all events otherwise;
`Due` knows nothing of a map. Invariant `SongRight`: the map is the one of the song's tempo
changes (`MapOK`; an empty map only without changes), the changes are `Single`, and every event has the
seconds that are due. `MapFor` says of a map which changes it holds, and
lemma `SecondsDue` that it then gives what is due, by induction over the pulses; that it
holds for what `TempoMap` builds in the order of play is `TempoMapRight`, an
induction over `PlayOrder`, which is first shown to list the events in that
order (`PlayOrderIs`, `RankedOfOrder`: ranks in a finite strict order). `Part` relates a song to the one after an
edit, event by event whatever their numbers became, so that what an edit does to the tempo
changes is said once (`PartLess`, `PartMore`). An event added by its seconds may be off
by less than a pulse, because `pulses_from_seconds` rounds down (`PulsesEarly`);
`PulsesShort` is needed there and nowhere else.

`SongSavedIdentical` (`SavedIdentical`, on the same two conditions) compares the
song that was edited with the one that is built from its file. Invariant `Whole` adds to
`SongRight` that nothing comes after a track's End Of Track event (`EotLast`), because
`parse_mtrk_chunk` reads a track up to its first one: what is saved is then all
of the track (`StoredWhole`). That the addition of an event keeps `EotLast` takes both its guards,
`remove_eot_if_before_pulses` (`AddedEot`) and, for an End Of Track event placed
by its seconds, that the pulse found for them is the last that is not later (`PulsesLatest`,
`EotSeconds`). What is read is followed event by event (`EventReadNext`) and track by
track (`TrackReadNext`): the song read so far is `SongRight` itself and has the kinds and pulses
of the events that were stored (`EventsRead`, `TracksRead`), so that a tempo
change that is read meets no other at its pulse (`ReadSingle`). At the end
both songs have the same changes, so the same seconds are due (`DueEqual`), and
each is within the tolerance of them.

### What stays with TLC

Liveness (`DyingLeave`, both `CallsReturn`, `Ends`), which is out of the prover's
reach.

## 5. Findings

1. `playmidi.c:8289`: the loop of `play_midi` keeps the first event after a seek to
   0 only if the command cleared `midi_restart_time`; `RC_JUMP` to 0 and
   `sync_restart` at 0 do not, and the song is played without its first event
   (`player_first`).

The sixteen configurations listed after the runs show further states the code can
reach and that it does not seem to be meant to.

## 6. What is abstracted or left out

- Loudness, pitch, panning and envelopes, except that an envelope may end.
- The wording of conditions that depend on an instrument's content: any note may
  play any number of samples up to `MaxSamples`; all samples of a drum channel
  in `DrumChannels` have `note_to_use` set.
- Note and velocity limits, key offsets and set-up messages of a channel.
- In `Voices`, the prescan pass (see `Prescan`); `new_chorus_voice` and `new_delay_voice`, which only builds
  without `USE_DSP_EFFECT` call.
- In `AudioQueue`: devices without a queue size, a change of rate or bucket size
  while the device is open, failed writes and discards. Effects keep the number
  of samples. The wait of `aq_flush` by its own clock (aq.c:596-620) is passed
  over: a flush ends by `PM_REQ_FLUSH`, so how early the clock stops is not checked.
- In `JackRing`: the conversion of samples, `detect`, and reordering by the
  processor or the compiler. The look at the ring is one step, since only a
  clear changes both pointers.
- In `Player`: speed and volume commands, real-time and pcm-file playing, the play
  list, the choice of which song follows, time stamps and WRD events among the
  traced ones, devices that refuse to discard, `intr`. Voices are not modelled
  there: `midi_play_end` may or may not have any to fade, and the early end may
  or may not find them gone.
- In `Prescan`: channel layers and several channels, samples per note, the contents of
  samples, the reading of the voice bank, the xml output.
- In `Instruments`: drum sets (the same code), `%font` and `%sample` elements, GS
  user instruments and instrument maps, special patches, resets by streaming
  interfaces, the loads of the prescan (it asks for the same notes), the parameters in a
  cache key, and the search of the cache that gives up at the first other name of its bucket
  (instrum.c:266: an instrument is then read twice, once per name).
- In `SmfTracks`: time signatures (section 2 says what they share), tempo 0, which is
  ignored by the code, format and resolution, the bytes of a file. After a removal
  a cursor may point past the end of its track and reading fails an
  assertion (`SmfGetNextEvent`); `NothingSkipped` is stated between a seek or
  a save and the next edit.
- Data conversion, drivers, user interfaces, converters and voice data: see the
  components in `PROJECT.json`, each with its reason. The repository is mostly
  these: the event loops, voice table, queues, caches and song editor that keep
  state are a small share of its lines. Of what is left, the play list and the
  server's event queue are the parts with state worth a model of their own.

## 7. Plan

The modules of the plan are written and all safety properties of the runs are
proved, save those the code does not meet (section 5). What is left is breadth:
the play list and the server's event queue have state worth a model.
