------------------------------- MODULE Player -------------------------------
(***************************************************************************)
(* Playing one song: play_midi's loop over the event list, compute_data    *)
(* that renders up to the next event one buffer at a time, apply_controls  *)
(* that obeys the user between two buffers, skip_to and seek_forward that  *)
(* move in the song, and miditrace.c's queue of things to show when the    *)
(* sound they belong to is heard.                                          *)
(*                                                                         *)
(* The sound device is the external part: it has been given `written`      *)
(* samples since the last discard and has played `heard` of them; how they *)
(* get there is AudioQueue's subject.  Samples are counted in units of the *)
(* songs' times.  Left out: the speed commands, volume, real-time and      *)
(* pcm-file playing, time stamps and WRD among the traced events, devices  *)
(* that refuse to discard.                                                 *)
(***************************************************************************)
EXTENDS Integers, Sequences, FiniteSets, FiniteSetsExt, SequencesExt

CONSTANTS
  Songs,        \* event lists, as groom_list makes them
  Controllers,  \* what a control event may set
  Unsought,     \* of them, those seek_forward has no case for
  Unreset,      \* of them, those reset_midi leaves alone
  Buffer,       \* audio_buffer_size
  Capacity,     \* what the device and the soft queue hold
  Presearch,    \* EOT_PRESEARCH_LEN
  Commands,     \* kinds of command the user gives
  Step,         \* how far RC_FORWARD and RC_BACK move
  MaxCommands   \* bound on their number

AllCommands == {"skip", "restart", "jump", "forward", "back", "pause",
                "sync", "effect", "reload", "samerate"}

(***************************************************************************)
(* Times are ordered and start at 0, since groom_list strips the silence   *)
(* before the first note; the list ends with the only ME_EOT.              *)
(***************************************************************************)
IsSong(s) ==
  /\ s \in Seq([time : Nat, what : Controllers \cup {"note", "eot"}])
  /\ Len(s) > 1
  /\ s[1].time = 0
  /\ \A i \in 1 .. Len(s) :
       /\ (s[i].what = "eot") <=> (i = Len(s))
       /\ i < Len(s) => s[i].time <= s[i + 1].time

ASSUME PlayerAssumption ==
  /\ \A s \in Songs : IsSong(s)
  /\ Unsought \subseteq Controllers /\ Unreset \subseteq Controllers
  /\ Buffer \in Nat \ {0} /\ Presearch \in Nat \ {0}
  /\ Capacity \in Nat /\ Capacity >= Buffer
  /\ Commands \subseteq AllCommands
  /\ Step \in Nat \ {0} /\ MaxCommands \in Nat

VARIABLES
  song, can_trace,                       \* event_list, PF_CAN_TRACE
  current_sample, current_event,         \* where the generator is
  ev, count, buffered_count,             \* play_event's event, compute_data's work
  midi_restart_time, play_pause_flag, jump_flag,
  channel,                               \* the event that set each controller, 0 if reset
  trace, lasttime, offset,               \* midi_trace: start times of the queue, offset
  written, heard,                        \* the device
  tail,                                  \* midi_play_end's compute_data calls to come, 0 outside
  pc, commands,
  from, played, strayed                  \* history: last place sought, events since,
                                         \* and whether a command moved the song unheeded

userVars    == <<commands, midi_restart_time, play_pause_flag, jump_flag>>
deviceVars  == <<written, heard>>
seekVars    == <<current_sample, current_event, buffered_count, channel, trace,
                 offset, from, played>>
vars == <<song, can_trace, seekVars, ev, count, userVars, lasttime, deviceVars,
          tail, pc, strayed>>

Time(i)      == song[i].time
Eot         == Len(song)
sample_count == Time(Eot)

\* aq_samples plus the offset; -1 if the device cannot tell.
current_trace_samples == IF can_trace THEN offset + heard ELSE -1

Here == IF can_trace THEN current_trace_samples ELSE current_sample

(***************************************************************************)
(* skip_to.                                                                *)
(***************************************************************************)
\* The events seek_forward runs over: it stops at ME_EOT.
Passed(until) == IF until = 0 THEN {} ELSE {i \in 1 .. Eot - 1 : Time(i) < until}

\* Mutant: without the step back.
BadSoughtEvent(until) ==
  IF until > sample_count THEN Eot ELSE 1 + Cardinality(Passed(until))

\* seek_forward steps back one event, its caller's loop will step forward.
SoughtEvent(until) ==
  IF until > sample_count THEN Eot ELSE Max({1} \cup Passed(until))

\* Mutant: skip_to(0) leaves the generator where it was.
BadSoughtSample(until) ==
  IF until = 0 THEN current_sample ELSE Min({until, sample_count})

SoughtSample(until) ==
  IF until = 0 THEN IF current_sample > until THEN 0 ELSE current_sample
               ELSE Min({until, sample_count})

\* Mutant: without reset_midi.
BadSoughtChannel(until) ==
  [c \in Controllers |->
     LET set == {i \in Passed(until) : song[i].what = c /\ c \notin Unsought}
     IN  IF set = {} THEN channel[c] ELSE Max(set)]

SoughtChannel(until) ==
  [c \in Controllers |->
     LET reset == IF c \in Unreset THEN channel[c] ELSE 0
         set   == {i \in Passed(until) : song[i].what = c /\ c \notin Unsought}
     IN  IF set = {} THEN reset ELSE Max(set)]

\* Mutant: the trace queue survives the seek.
BadSkipTo(until) ==
  /\ trace' = trace
  /\ current_event' = SoughtEvent(until)
  /\ current_sample' = SoughtSample(until)
  /\ channel' = SoughtChannel(until)
  /\ buffered_count' = 0
  /\ offset' = until
  /\ from' = until /\ played' = <<>>

SkipTo(until) ==
  /\ trace' = <<>>
  /\ current_event' = SoughtEvent(until)
  /\ current_sample' = SoughtSample(until)
  /\ channel' = SoughtChannel(until)
  /\ buffered_count' = 0
  /\ offset' = until
  /\ from' = until /\ played' = <<>>

\* aq_flush(1): the device and the trace queue are emptied.
Discard == written' = 0 /\ heard' = 0

Init ==
  /\ song \in Songs /\ can_trace \in BOOLEAN
  /\ current_sample = 0 /\ current_event = 1 /\ buffered_count = 0
  /\ channel = [c \in Controllers |-> 0]
  /\ ev = 1 /\ count = 0
  /\ midi_restart_time = 0
  /\ play_pause_flag \in BOOLEAN      \* kept from the song before
  /\ jump_flag = FALSE
  /\ trace = <<>> /\ lasttime = -1 /\ offset = 0
  /\ written = 0 /\ heard = 0
  /\ tail = 0 /\ pc = "play" /\ commands = 0
  /\ from = 0 /\ played = <<>> /\ strayed = FALSE

(***************************************************************************)
(* play_midi's loop and play_event.                                        *)
(***************************************************************************)
PlayEvent ==
  /\ pc = "play"
  /\ midi_restart_time' = 1
  /\ ev' = current_event
  /\ \/ /\ Time(current_event) > current_sample
        /\ count' = Time(current_event) - current_sample
        /\ pc' = "compute"
     \/ /\ Time(current_event) <= current_sample
        /\ count' = count
        /\ pc' = "execute"
  /\ UNCHANGED <<song, can_trace, seekVars, commands, play_pause_flag, jump_flag,
                 lasttime, deviceVars, tail, strayed>>

\* push_midi_trace: shown at once when the device cannot tell the time.
Pushed == IF can_trace THEN Append(trace, current_sample) ELSE trace

Execute ==
  /\ pc = "execute"
  /\ \/ /\ song[ev].what # "eot"
        /\ played' = Append(played, ev)
        /\ channel' = [c \in Controllers |-> IF song[ev].what = c THEN ev ELSE channel[c]]
        /\ trace' = Pushed
        /\ pc' = "next"
        /\ UNCHANGED <<count, tail>>
     \/ /\ song[ev].what = "eot"          \* midi_play_end: with voices to fade, or not
        /\ tail' \in {1, 2}
        /\ count' = Buffer
        /\ pc' = "compute"
        /\ UNCHANGED <<played, channel, trace>>
  /\ UNCHANGED <<song, can_trace, current_sample, current_event, buffered_count, offset,
                 from, ev, userVars, lasttime, deviceVars, strayed>>

\* "don't skip the first event if == 0"
\* Past ME_EOT play_event reads what lies behind the list; that is not followed.
NextEvent ==
  /\ pc = "next"
  /\ current_event' = IF midi_restart_time # 0 THEN current_event + 1 ELSE current_event
  /\ pc' = IF current_event' > Eot THEN "lost" ELSE "play"
  /\ UNCHANGED <<song, can_trace, current_sample, buffered_count, channel, trace, offset,
                 from, played, ev, count, userVars, lasttime, deviceVars, tail, strayed>>

(***************************************************************************)
(* trace_loop: show what is due; when nothing is, twice at one position,   *)
(* the head is brought forward "to avoid infinite loop".                   *)
(***************************************************************************)
DueCount(q, cur) ==
  Max({0} \cup {n \in 1 .. Len(q) : cur > 0 /\ \A i \in 1 .. n : cur >= q[i]})

trace_loop ==
  LET cur  == current_trace_samples
      n    == DueCount(trace, cur)
      idle == trace # <<>> /\ n = 0
  IN  /\ trace' = IF ~idle THEN SubSeq(trace, n + 1, Len(trace))
                   ELSE IF lasttime = cur /\ trace[1] >= 0 THEN [trace EXCEPT ![1] = @ - 1]
                   ELSE trace
      /\ lasttime' = IF idle THEN cur ELSE lasttime

(***************************************************************************)
(* compute_data.                                                           *)
(***************************************************************************)
StartBuffer ==
  /\ pc = "compute"
  /\ count + buffered_count >= Buffer
  /\ jump_flag' = FALSE
  /\ pc' = "controls"
  /\ UNCHANGED <<song, can_trace, seekVars, ev, count, commands, midi_restart_time,
                 play_pause_flag, lasttime, deviceVars, tail, strayed>>

\* Mutant: a negative count is rendered too.
BadLeftover ==
  /\ pc = "compute"
  /\ count + buffered_count < Buffer
  /\ current_sample' = current_sample + count
  /\ buffered_count' = buffered_count + count
  /\ count' = 0
  /\ pc' = IF tail = 0 THEN "execute" ELSE "ending"
  /\ UNCHANGED <<song, can_trace, current_event, channel, trace, offset, from, played, ev,
                 userVars, lasttime, deviceVars, tail, strayed>>

\* Mutant: compute_data does not return when nothing is left.
EndlessLeftover ==
  /\ pc = "compute"
  /\ count + buffered_count < Buffer
  /\ current_sample' = current_sample + Max({count, 0})
  /\ buffered_count' = buffered_count + Max({count, 0})
  /\ count' = 0
  /\ pc' = IF count > 0 THEN IF tail = 0 THEN "execute" ELSE "ending" ELSE "compute"
  /\ UNCHANGED <<song, can_trace, current_event, channel, trace, offset, from, played, ev,
                 userVars, lasttime, deviceVars, tail, strayed>>

Leftover ==
  /\ pc = "compute"
  /\ count + buffered_count < Buffer
  /\ current_sample' = current_sample + Max({count, 0})    \* "if (count>0)"
  /\ buffered_count' = buffered_count + Max({count, 0})
  /\ count' = 0
  /\ pc' = IF tail = 0 THEN "execute" ELSE "ending"
  /\ UNCHANGED <<song, can_trace, current_event, channel, trace, offset, from, played, ev,
                 userVars, lasttime, deviceVars, tail, strayed>>

\* apply_controls said RC_NONE: fill the buffer, start giving it to aq_add.
Render ==
  /\ current_sample' = current_sample + Buffer - buffered_count
  /\ count' = count - (Buffer - buffered_count)
  /\ buffered_count' = Buffer
  /\ trace_loop
  /\ pc' = "write"
  /\ UNCHANGED <<current_event, channel, offset, from, played, deviceVars, tail>>

\* aq_add waits for room in the queue.
WaitForRoom ==
  /\ pc = "write" /\ written + Buffer - heard > Capacity
  /\ trace_loop
  /\ UNCHANGED <<song, can_trace, current_sample, current_event, buffered_count, channel,
                 offset, from, played, ev, count, userVars, deviceVars, tail, pc, strayed>>

\* Mutant: the search starts after the event that is waiting.
BadNearEnd ==
  /\ Eot < current_event + Presearch
  /\ \A i \in current_event + 1 .. Eot : song[i].what # "note"

\* check_midi_play_end: ME_EOT is near and no note before it.
NearEnd ==
  /\ Eot < current_event + Presearch
  /\ \A i \in current_event .. Eot : song[i].what # "note"

Write ==
  /\ pc = "write" /\ written + Buffer - heard <= Capacity
  /\ written' = written + Buffer
  /\ buffered_count' = 0
  /\ pc' = "compute"
  /\ \/ UNCHANGED <<count, tail>>
     \/ /\ tail = 0 /\ NearEnd           \* and upper_voices = 0
        /\ tail' = 1
        /\ count' = Buffer
  /\ UNCHANGED <<song, can_trace, current_sample, current_event, channel, trace, offset,
                 from, played, ev, userVars, lasttime, heard, strayed>>

(***************************************************************************)
(* midi_play_end, which goes on after RC_JUMP and RC_RELOAD.               *)
(***************************************************************************)
FadeOut ==
  /\ pc = "ending"
  /\ \/ /\ tail > 1
        /\ tail' = tail - 1
        /\ count' = Buffer
        /\ pc' = "compute"
        /\ UNCHANGED <<written, buffered_count>>
     \/ /\ tail = 1
        /\ written' = written + buffered_count    \* compute_data(0)
        /\ buffered_count' = 0
        /\ pc' = "flush"
        /\ UNCHANGED <<tail, count>>
  /\ UNCHANGED <<song, can_trace, current_sample, current_event, channel, trace, offset,
                 from, played, ev, userVars, lasttime, heard, strayed>>

\* aq_flush(0): show and wait, until all is heard or the time is up.
ShowRest ==
  /\ pc = "flush" /\ trace # <<>>
  /\ trace_loop
  /\ UNCHANGED <<song, can_trace, current_sample, current_event, buffered_count, channel,
                 offset, from, played, ev, count, userVars, deviceVars, tail, pc, strayed>>

Finish ==
  /\ pc = "flush"
  /\ trace' = <<>>
  /\ Discard
  /\ pc' = "done"
  /\ UNCHANGED <<song, can_trace, current_sample, current_event, buffered_count, channel,
                 offset, from, played, ev, count, userVars, lasttime, tail, strayed>>

(***************************************************************************)
(* apply_controls: one action per command; ctl->read gives one at a time.  *)
(***************************************************************************)
Told(c) ==
  /\ pc = "controls" \/ (pc = "flush" /\ c = "skip")    \* check_apply_control
  /\ c \in Commands
  /\ commands < MaxCommands /\ commands' = commands + 1
  /\ UNCHANGED <<song, can_trace, ev>>

Stay == pc' = pc /\ UNCHANGED <<count, tail, strayed>>

NoSeek == UNCHANGED <<seekVars, deviceVars>>

\* compute_data returns RC_JUMP: play_event returns, midi_play_end goes on.
ReturnJump ==
  /\ pc' = IF tail = 0 THEN "next" ELSE "ending"
  /\ UNCHANGED <<count, tail>>

\* History: a seek is heeded unless midi_play_end is running.
Heeded == strayed' = (tail # 0)

\* The song is over for play_midi_file: RC_IS_SKIP_FILE.
SkipFile ==
  /\ pc' = "done"
  /\ trace' = <<>>
  /\ Discard
  /\ UNCHANGED <<current_sample, current_event, buffered_count, channel, offset, from,
                 played, count, tail, strayed>>

\* RC_STOP, RC_QUIT, RC_LOAD_FILE, RC_NEXT, RC_REALLY_PREVIOUS, RC_PREVIOUS, RC_TUNE_END
Skip ==
  /\ Told("skip")
  /\ \/ SkipFile
     \/ /\ tail # 0 /\ pc = "controls"    \* RC_PREVIOUS gives RC_RESTART: not a skip
        /\ Discard /\ trace' = <<>>
        /\ pc' = "ending" /\ strayed' = TRUE
        /\ UNCHANGED <<current_sample, current_event, buffered_count, channel, offset,
                       from, played, count, tail>>
  /\ UNCHANGED <<lasttime, midi_restart_time, play_pause_flag, jump_flag>>

Restart ==
  /\ Told("restart")
  /\ midi_restart_time' = 0
  /\ \/ play_pause_flag /\ NoSeek /\ Stay /\ jump_flag' = jump_flag
     \/ /\ ~play_pause_flag
        /\ Discard /\ SkipTo(0)
        /\ jump_flag' = TRUE
        /\ Heeded
        /\ UNCHANGED <<pc, count, tail>>
  /\ UNCHANGED <<lasttime, play_pause_flag>>

Jump ==
  /\ Told("jump")
  /\ \E val \in 0 .. sample_count :
       \/ /\ play_pause_flag
          /\ midi_restart_time' = val
          /\ NoSeek /\ Stay
       \/ /\ ~play_pause_flag
          /\ midi_restart_time' = midi_restart_time
          /\ \/ val >= sample_count /\ SkipFile
             \/ val < sample_count /\ Discard /\ SkipTo(val) /\ Heeded /\ ReturnJump
  /\ UNCHANGED <<lasttime, play_pause_flag, jump_flag>>

Forward ==
  /\ Told("forward")
  /\ \/ /\ play_pause_flag
        /\ midi_restart_time' = Min({midi_restart_time + Step, sample_count})
        /\ NoSeek /\ Stay
     \/ /\ ~play_pause_flag
        /\ midi_restart_time' = midi_restart_time
        /\ \/ Here + Step >= sample_count /\ SkipFile
           \/ /\ Here + Step < sample_count
              /\ Discard /\ SkipTo(Here + Step) /\ Heeded /\ ReturnJump
  /\ UNCHANGED <<lasttime, play_pause_flag, jump_flag>>

Back ==
  /\ Told("back")
  /\ \/ /\ play_pause_flag
        /\ midi_restart_time' = Max({midi_restart_time - Step, 0})
        /\ NoSeek /\ Stay
     \/ /\ ~play_pause_flag
        /\ Discard /\ Heeded /\ ReturnJump
        /\ \/ Here > Step /\ SkipTo(Here - Step) /\ midi_restart_time' = midi_restart_time
           \/ Here <= Step /\ SkipTo(0) /\ midi_restart_time' = 0
  /\ UNCHANGED <<lasttime, play_pause_flag, jump_flag>>

Pause ==
  /\ Told("pause") /\ ~play_pause_flag
  /\ midi_restart_time' = Here
  /\ Discard
  /\ trace' = <<>>
  /\ play_pause_flag' = TRUE /\ jump_flag' = TRUE
  /\ strayed' = (strayed \/ tail # 0)
  /\ UNCHANGED <<pc, current_sample, current_event, buffered_count, channel, offset, from,
                 played, count, tail, lasttime>>

Resume ==
  /\ Told("pause") /\ play_pause_flag
  /\ SkipTo(midi_restart_time)
  /\ play_pause_flag' = FALSE /\ jump_flag' = TRUE
  /\ strayed' = (strayed \/ tail # 0)
  /\ UNCHANGED <<pc, count, tail, deviceVars, lasttime, midi_restart_time>>

\* sync_restart(0): play again from where the listener is.
sync_restart == Discard /\ SkipTo(Here)

\* RC_KEYUP, RC_KEYDOWN, RC_VOICEINCR, RC_VOICEDECR; RC_TOGGLE_MUTE, RC_SOLO_PLAY,
\* RC_MUTE_CLEAR, RC_SYNC_RESTART.  The first four, and the last sent with 1, ask for
\* a device that tells the time.
Sync ==
  /\ Told("sync")
  /\ \/ sync_restart /\ Heeded /\ jump_flag' = TRUE
     \/ /\ ~can_trace                 \* sync_restart(1): nothing is done, and then ...
        /\ NoSeek
        /\ \/ UNCHANGED <<strayed, jump_flag>>
           \/ strayed' = TRUE /\ jump_flag' = TRUE    \* ... RC_SYNC_RESTART jumps, over ev
  /\ pc' = pc
  /\ UNCHANGED <<count, tail, lasttime, midi_restart_time, play_pause_flag>>

\* RC_CHANGE_REV_EFFB, RC_CHANGE_REV_TIME, RC_TOGGLE_SNDSPEC: without jump_flag.
Effect ==
  /\ Told("effect")
  /\ sync_restart
  /\ pc' = pc /\ strayed' = (~jump_flag \/ tail # 0)
  /\ UNCHANGED <<count, tail, lasttime, midi_restart_time, play_pause_flag, jump_flag>>

\* RC_RELOAD, RC_TOGGLE_DRUMCHAN, RC_CHANGE_RATE, RC_OUTPUT_CHANGED: play_midi_file
\* reads the song again and play_midi starts with skip_to(midi_restart_time).
Reload ==
  /\ Told("reload")
  /\ midi_restart_time' = Here
  /\ Discard
  /\ \/ tail = 0 /\ SkipTo(Here) /\ pc' = "play" /\ Heeded
     \/ /\ tail # 0 /\ pc' = "ending" /\ strayed' = TRUE
        /\ trace' = <<>>
        /\ UNCHANGED <<current_sample, current_event, buffered_count, channel, offset,
                       from, played>>
  /\ UNCHANGED <<count, tail, lasttime, play_pause_flag, jump_flag>>

\* RC_CHANGE_RATE to the same rate: "return RC_NONE", whatever went before.
SameRate ==
  /\ Told("samerate")
  /\ Render
  /\ strayed' = (strayed \/ jump_flag \/ play_pause_flag)
  /\ UNCHANGED <<midi_restart_time, play_pause_flag, jump_flag>>

NoCommand ==
  /\ pc = "controls" /\ ~play_pause_flag
  /\ \/ jump_flag /\ ReturnJump /\ NoSeek /\ lasttime' = lasttime
     \/ ~jump_flag /\ Render
  /\ strayed' = strayed
  /\ UNCHANGED <<song, can_trace, ev, userVars>>

\* usleep(300000) and read again.
StayPaused == pc = "controls" /\ play_pause_flag /\ UNCHANGED vars

\* The device plays on.
Sound ==
  /\ heard < written
  /\ heard' = heard + 1
  /\ UNCHANGED <<song, can_trace, seekVars, ev, count, userVars, lasttime, written, tail,
                 pc, strayed>>

Done == pc \in {"done", "lost"} /\ UNCHANGED vars

Seek == Restart \/ Jump \/ Forward \/ Back \/ Pause \/ Resume \/ Sync \/ Effect

Obey == Skip \/ Seek \/ Reload \/ SameRate

Play ==
  \/ PlayEvent \/ Execute \/ NextEvent
  \/ StartBuffer \/ Leftover \/ WaitForRoom \/ Write
  \/ FadeOut \/ ShowRest \/ Finish \/ NoCommand

Next == Obey \/ Play \/ Sound \/ StayPaused \/ Done

Spec == Init /\ [][Next]_vars

\* The player runs on by itself and the device plays what it is given.
FairSpec ==
  Spec /\ WF_vars(PlayEvent \/ Execute \/ NextEvent \/ StartBuffer \/ Leftover
                  \/ Write \/ FadeOut \/ Finish \/ NoCommand)
       /\ WF_vars(Sound)

(***************************************************************************)
(* Properties.                                                             *)
(***************************************************************************)
\* Every variable has a value of its type: places are never negative, the buffer
\* never overflows and the list is left only where play_event is lost.
TypeOK ==
  /\ song \in Songs /\ can_trace \in BOOLEAN
  /\ current_sample \in Nat /\ ev \in 1 .. Eot
  /\ current_event \in 1 .. Eot + 1 /\ (current_event > Eot => pc = "lost")
  /\ count \in Int /\ count >= -Buffer /\ buffered_count \in 0 .. Buffer
  /\ midi_restart_time \in Nat
  /\ play_pause_flag \in BOOLEAN /\ jump_flag \in BOOLEAN
  /\ channel \in [Controllers -> 0 .. Eot]
  /\ trace \in Seq(Nat \cup {-1})
  /\ lasttime \in Nat \cup {-1} /\ offset \in Nat
  /\ written \in Nat /\ heard \in 0 .. written
  /\ tail \in 0 .. 2 /\ commands \in 0 .. MaxCommands
  /\ pc \in {"play", "execute", "next", "compute", "controls", "write", "ending",
              "flush", "done", "lost"}
  /\ from \in Nat /\ played \in Seq(1 .. Eot) /\ strayed \in BOOLEAN

\* The first event at or after the place last sought.
First == Min({i \in 1 .. Eot : Time(i) >= from \/ i = Eot})

Run(a) == [k \in 1 .. current_event - a |-> a + k - 1]

(***************************************************************************)
(* After any sequence of commands the events played since the last seek    *)
(* are those from the place sought on, in order, none skipped and none     *)
(* twice (play_midi, play_event, skip_to).  Two edges, both the code's:    *)
(* the first event of the song may be missing, and the last one before     *)
(* the place may be played again.  The list is left behind only where the  *)
(* place sought was beyond its end.                                        *)
(***************************************************************************)
InOrder ==
  ~strayed =>
    /\ pc = "play" => \/ played = Run(First)
                      \/ First = 1 /\ played = Run(2)
                      \/ First > 1 /\ played = Run(First - 1)
    /\ pc = "lost" => from > sample_count

(***************************************************************************)
(* When the song has been played to its end, no note was left out by       *)
(* check_midi_play_end's early end, unless a command moved the song while  *)
(* it was already fading.                                                  *)
(***************************************************************************)
NotesPlayed ==
  pc = "flush" /\ ~strayed =>
    \A i \in Max({First, 2}) .. Eot : song[i].what = "note" => i \in ToSet(played)

(***************************************************************************)
(* Wherever the song is joined, each controller has the value that playing *)
(* from the beginning would have given it (seek_forward against            *)
(* play_event), the first event again excepted; it is not so for what      *)
(* seek_forward does not handle or reset_midi does not reset.              *)
(***************************************************************************)
ChannelRight ==
  pc = "play" /\ ~strayed =>
    \A c \in Controllers \ (Unsought \cup Unreset) :
      LET before == {i \in 1 .. Max({First, current_event}) - 1 : song[i].what = c}
      IN  \/ channel[c] = Max({0} \cup before)
          \/ from = 0 /\ before = {1} /\ channel[c] = 0

(***************************************************************************)
(* The listener's place and the generator's agree: what the trace offset,  *)
(* the device and the half-filled buffer account for is exactly what has   *)
(* been generated, so a position shown or sought from is never wrong       *)
(* (a place sought beyond the end counts as the end).                      *)
(***************************************************************************)
PositionKept ==
  ~play_pause_flag /\ ~strayed /\ pc # "done" =>
    Min({offset, sample_count}) + written + buffered_count = current_sample

(***************************************************************************)
(* The trace queue is sorted and not ahead of the generator: trace_loop,   *)
(* which looks at the head only, holds back nothing that is due.           *)
(***************************************************************************)
TraceSorted ==
  /\ \A i \in 1 .. Len(trace) - 1 : trace[i] <= trace[i + 1]
  /\ trace # <<>> => trace[Len(trace)] <= current_sample

(***************************************************************************)
(* Left alone, the song ends: no command leaves the player in a loop or    *)
(* waiting for a device that waits for it.                                 *)
(***************************************************************************)
Ends == <>(pc \in {"done", "lost"}) \/ <>[]play_pause_flag

(***************************************************************************)
(* play_midi, playmidi.c:8289: "don't skip the first event if == 0".  From *)
(* the beginning of the song its first event is played.                    *)
(***************************************************************************)
FirstEventKept ==
  pc = "play" /\ from = 0 /\ current_event > 1 => 1 \in ToSet(played)
=============================================================================
