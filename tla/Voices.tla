------------------------------- MODULE Voices -------------------------------
(***************************************************************************)
(* The voice allocator of TiMidity++ (timidity/playmidi.c, timidity/mix.c):*)
(* the fixed array voice[0 .. max_voices-1] in which every sounding note,  *)
(* and every chorus double of one, occupies a slot.                        *)
(*                                                                         *)
(* MIDI handlers run to completion on the player's thread.  The loops in   *)
(* them are unrolled into steps of the handler in progress (variable op),  *)
(* so a handler starts only when op = "idle".                              *)
(*                                                                         *)
(* Loudness (left_mix, right_mix) is abstracted: wherever the code takes   *)
(* the quietest voice of a class, any voice of the class may be taken, and *)
(* an envelope may run out whenever the code lets it.                      *)
(***************************************************************************)
EXTENDS Integers, Sequences, FiniteSets

CONSTANTS
  Channels,         \* MIDI channels
  Notes,            \* note numbers, after MIDI_EVENT_NOTE's key offsets
  None,             \* "no channel", "no note": no handler argument
  MaxVoices,        \* max_voices, the length of the voice array
  MaxSamples,       \* samples one note may play (stereo pairs, layers)
  VidMod,           \* values of a uint8 vidq counter (256 in the code)
  DrumChannels,     \* drum channels whose samples have note_to_use set
  DamperChannels,   \* channels with damper_mode (half pedal allowed)
  PedalMoves,       \* [Channels -> SUBSET Pedal]: ME_SUSTAIN values sent
  SostenutoChannels,\* channels on which ME_SOSTENUTO is sent
  MonoChannels,     \* channels on which ME_MONO is sent
  AltAssign,        \* [Channels -> SUBSET Notes]: mutually exclusive notes
  AssignMode,       \* [Channels -> 0..2]: channel[ch].assign_mode
  OverlapAllow,     \* opt_overlap_voice_allow
  SurroundChorus,   \* opt_surround_chorus
  InstantDeath,     \* some sample may end inside start_note
  Resize,           \* the polyphony is changed while playing
  ControllerResets, \* ME_RESET_CONTROLLERS may be sent
  WrapAllowed       \* a key may collect VidMod outstanding note-ons

\* voice[v].chorus_link is a uint8: it can name the first 256 slots only.
ASSUME ConstantsAssumption ==
  /\ MaxVoices \in Nat \ {0} /\ MaxVoices <= 256
  /\ MaxSamples \in Nat \ {0}
  /\ VidMod \in Nat /\ VidMod >= 2
  /\ None \notin Channels /\ None \notin Notes
  /\ DrumChannels \subseteq Channels
  /\ DamperChannels \subseteq Channels
  /\ PedalMoves \in [Channels -> SUBSET {"up", "half", "down"}]
  /\ SostenutoChannels \subseteq Channels
  /\ MonoChannels \subseteq Channels
  /\ AltAssign \in [Channels -> SUBSET Notes]
  /\ AssignMode \in [Channels -> 0 .. 2]
  /\ OverlapAllow \in BOOLEAN /\ SurroundChorus \in BOOLEAN
  /\ InstantDeath \in BOOLEAN /\ Resize \in BOOLEAN
  /\ ControllerResets \in BOOLEAN /\ WrapAllowed \in BOOLEAN

VARIABLES
  status,    \* voice[v].status
  chan,      \* voice[v].channel
  key,       \* voice[v].note
  vid,       \* voice[v].vid
  prox,      \* voice[v].proximate_flag
  link,      \* voice[v].chorus_link
  upper,     \* upper_voices: one past the last slot the sweeps visit
  voices,    \* voices: the current polyphony
  head,      \* vidq_head: vid of the next note-on of a key
  tail,      \* vidq_tail: vid of the next note-off of a key
  sustain,   \* channel[c].sustain
  sostenuto, \* channel[c].sostenuto
  mono,      \* channel[c].mono
  phase,     \* how far midi_play_end has got
  op,        \* the handler in progress
  evCh,      \* its channel
  evKey,     \* its note
  evVid,     \* its vid
  at,        \* its loop index
  todo,      \* iterations it still has to make
  list       \* vlist: voices found for the note and not yet started

voiceVars   == <<status, chan, key, vid, prox, link>>
channelVars == <<sustain, sostenuto, mono>>
callVars    == <<op, evCh, evKey, evVid, at, todo, list>>
vars == <<voiceVars, upper, voices, head, tail, channelVars, phase, callVars>>

V        == 0 .. MaxVoices - 1
Keys     == Channels \X Notes
Vids     == 0 .. VidMod - 1
Status   == {"FREE", "ON", "SUSTAINED", "OFF", "DIE"}
Pedal    == {"up", "half", "down"}
SweepOps == {"note_off", "all_notes_off", "drop_sustain", "hold",
             "adjust", "finish_all", "compute"}
Ops      == {"idle", "select", "start", "shed", "conserve"} \cup SweepOps
Phases   == {"play", "tail", "fade", "killed", "dying", "over"}

IsFirst(v, S) == v \in S /\ \A w \in S : v <= w
Below(n)      == {v \in V : v < n}
BadInc(x)     == x + 1
Inc(x)        == IF x = VidMod - 1 THEN 0 ELSE x + 1
Protected(v)  == chan[v] \in DrumChannels
Idle          == op = "idle"

Init ==
  /\ status = [v \in V |-> "FREE"]
  /\ chan \in [V -> {None}] /\ key \in [V -> {None}]
  /\ vid = [v \in V |-> 0]
  /\ prox = [v \in V |-> FALSE]
  /\ link = [v \in V |-> v]
  /\ upper = 0
  /\ voices = MaxVoices
  /\ head = [k \in Keys |-> 0] /\ tail = [k \in Keys |-> 0]
  /\ sustain = [c \in Channels |-> "up"]
  /\ sostenuto = [c \in Channels |-> FALSE]
  /\ mono = [c \in Channels |-> FALSE]
  /\ phase = "play"
  /\ op = "idle" /\ evCh = None /\ evKey = None
  /\ evVid = 0 /\ at = 0 /\ todo = 0 /\ list = <<>>

(***************************************************************************)
(* Handlers: how one begins and ends.                                      *)
(***************************************************************************)
Begin(o, c, n, x, k) ==
  /\ Idle
  /\ op' = o /\ evCh' = c /\ evKey' = n /\ evVid' = x /\ todo' = k
  /\ at' = 0 /\ list' = <<>>

Finish ==
  /\ op' = "idle" /\ evCh' = None /\ evKey' = None
  /\ evVid' = 0 /\ at' = 0 /\ todo' = 0 /\ list' = <<>>

BadTrim(st, u) ==
  /\ upper' \in 0 .. u
  /\ \A v \in V : v >= upper' /\ v < u => st[v] # "ON"
  /\ \A v \in V : v = upper' - 1 => st[v] = "ON"

\* upper_voices after the loop that drops the free slots at its end.
Trim(st, u) ==
  /\ upper' \in 0 .. u
  /\ \A v \in V : v >= upper' /\ v < u => st[v] = "FREE"
  /\ \A v \in V : v = upper' - 1 => st[v] # "FREE"

(***************************************************************************)
(* Freeing and stealing.                                                   *)
(***************************************************************************)
BadUnlink(lk, v) == [lk EXCEPT ![v] = v]

\* free_voice(v): the chorus link is cut at both ends.
Unlink(lk, v) == [lk EXCEPT ![lk[v]] = lk[v], ![v] = v]

\* The order in which reduce_voice gives voices up: released (not drums),
\* dying, sustained, the second voice of a chorus pair, melodic, any.
StealClass(st) ==
  LET used == {v \in Below(upper) : st[v] # "FREE"}
  IN << {v \in used : st[v] = "OFF" /\ ~Protected(v)},
        {v \in used : st[v] = "DIE"},
        {v \in used : st[v] = "SUSTAINED"},
        {v \in used : link[v] < v},
        {v \in used : ~Protected(v)},
        used >>

BadVictims(st) ==
  LET used == StealClass(st)[6]
  IN IF used = {} THEN {0} ELSE used

\* The voices reduce_voice may pick: those of the first class with a member,
\* and voice 0 when no voice is in use.
Victims(st) ==
  LET class == StealClass(st)
      picked == UNION {class[k] : k \in
                  {i \in 1 .. 6 : \A j \in 1 .. 6 : j < i => class[j] = {}}}
  IN IF picked = {} THEN {0} ELSE picked

\* Taking the second voice of a chorus pair recomputes the partner's
\* amplitude, which frees the partner if it is released and silent.
Casualties(st, v) ==
  IF /\ \A k \in 1 .. 3 : StealClass(st)[k] = {}
     /\ v \in StealClass(st)[4]
     /\ st[link[v]] \in {"OFF", "SUSTAINED"}
  THEN {{}, {link[v]}}
  ELSE {{}}

AfterSteal(st, v, dead) ==
  [w \in V |-> IF w = v \/ w \in dead THEN "FREE" ELSE st[w]]

LinkAfterSteal(v, dead) ==
  IF dead = {} THEN Unlink(link, v) ELSE Unlink(Unlink(link, link[v]), v)

(***************************************************************************)
(* Note on: find_samples calls find_voice once per sample ("select"), then *)
(* note_on starts the voices found ("start").                              *)
(***************************************************************************)
\* A key with VidMod - 1 outstanding note-ons: one more makes head = tail.
VidqFull(c, n) == Inc(head[<<c, n>>]) = tail[<<c, n>>]

NoteOn(c, n) ==
  /\ phase = "play"
  /\ WrapAllowed \/ ~VidqFull(c, n)
  /\ \E k \in 1 .. MaxSamples : Begin("select", c, n, 0, k)
  /\ UNCHANGED <<voiceVars, upper, voices, head, tail, channelVars, phase>>

\* Why find_voice kills voice v: it plays the note already, the channel is
\* mono, the two notes exclude each other, or the assign mode (0 single,
\* 1 limited, 2 full multi) leaves no room for it.
BadPlaysAlready(v, n) == key[v] = n /\ status[v] \in {"OFF", "SUSTAINED"}

PlaysAlready(v, n) ==
  key[v] = n /\ (status[v] \in {"OFF", "SUSTAINED"} \/ ~OverlapAllow)

BadExcluded(v, c, n) == mono[c]

Excluded(v, c, n) == mono[c] \/ (n \in AltAssign[c] /\ key[v] \in AltAssign[c])

BadOverAssigned(v, c, n) == key[v] = n /\ AssignMode[c] = 0

OverAssigned(v, c, n) ==
  key[v] = n /\ (AssignMode[c] = 0 \/ (AssignMode[c] = 1 /\ ~prox[v]))

\* The voices find_voice kills before it looks for a slot.
Killed(c, n) ==
  {v \in Below(upper) :
     /\ status[v] # "FREE" /\ chan[v] = c
     /\ PlaysAlready(v, n) \/ Excluded(v, c, n) \/ OverAssigned(v, c, n)}

\* Slot v is found for the sample; the last one also draws the note's vid.
Take(v, st, lk) ==
  /\ status' = [st EXCEPT ![v] = "ON"]
  /\ link' = lk
  /\ list' = Append(list, v)
  /\ todo' = todo - 1
  /\ IF todo = 1
     THEN /\ op' = "start"
          /\ evVid' = IF OverlapAllow THEN head[<<evCh, evKey>>] ELSE 0
          /\ head' = IF OverlapAllow
                     THEN [head EXCEPT ![<<evCh, evKey>>] = Inc(@)] ELSE head
     ELSE UNCHANGED <<op, evVid, head>>

SelectSample ==
  /\ op = "select"
  /\ prox' = [v \in V |-> IF v < upper /\ chan[v] = evCh /\ key[v] = evKey
                          THEN FALSE ELSE prox[v]]
  /\ LET free == {v \in Below(upper) : status[v] = "FREE"}
         killed == Killed(evCh, evKey)
         st == [v \in V |-> IF v \in killed THEN "DIE" ELSE status[v]]
     IN \/ \E v \in V : /\ IsFirst(v, free)
                        /\ Take(v, st, link)
                        /\ upper' = upper
        \/ /\ free = {} /\ upper < voices
           /\ Take(upper, st, link)
           /\ upper' = upper + 1
        \/ /\ free = {} /\ upper >= voices
           /\ \E v \in Victims(st) : \E dead \in Casualties(st, v) :
                Take(v, AfterSteal(st, v, dead), LinkAfterSteal(v, dead))
           /\ upper' = upper
  /\ UNCHANGED <<chan, key, vid, voices, tail, channelVars, phase,
                 evCh, evKey, at>>

\* upper_voices once find_free_voice has given out slot w.
BadRaised(w) == IF upper < w THEN w + 1 ELSE upper
Raised(w) == IF upper <= w THEN w + 1 ELSE upper

\* new_chorus_voice_alternate(v): voice w becomes a copy of v, linked to it.
Double(v, w, st, lk) ==
  /\ status' = [st EXCEPT ![v] = st[v], ![w] = st[v]]
  /\ chan' = [chan EXCEPT ![v] = evCh, ![w] = evCh]
  /\ key' = [key EXCEPT ![v] = evKey, ![w] = evKey]
  /\ vid' = [vid EXCEPT ![v] = evVid, ![w] = evVid]
  /\ prox' = [prox EXCEPT ![v] = TRUE, ![w] = TRUE]
  /\ link' = [lk EXCEPT ![v] = w, ![w] = v]

StartSample ==
  /\ op = "start"
  /\ \E born \in {"ON"} \cup (IF InstantDeath THEN {"FREE"} ELSE {}) :
       LET v == Head(list)
           st == [status EXCEPT ![v] = born]
           lk == [link EXCEPT ![v] = v]
           free == {w \in Below(voices) : st[w] = "FREE"}
           quiet == {w \in Below(voices) :
                       st[w] \in {"OFF", "SUSTAINED"} /\ ~Protected(w)}
       IN \/ ~SurroundChorus /\ Double(v, v, st, lk) /\ upper' = upper
          \/ /\ SurroundChorus
             /\ \E w \in V : /\ IsFirst(w, free)
                             /\ Double(v, w, st, lk)
                             /\ upper' = Raised(w)
          \/ /\ SurroundChorus /\ free = {}
             /\ \E w \in quiet : Double(v, w, st, Unlink(lk, w))
             /\ upper' = voices
          \/ /\ SurroundChorus /\ free = {} /\ quiet = {}
             /\ Double(v, v, st, lk)
             /\ upper' = voices
  /\ IF Len(list) = 1
     THEN Finish
     ELSE list' = Tail(list) /\ UNCHANGED <<op, evCh, evKey, evVid, at, todo>>
  /\ UNCHANGED <<voices, head, tail, channelVars, phase>>

(***************************************************************************)
(* Handlers that sweep the voices below upper_voices, one voice per step.  *)
(***************************************************************************)
\* note_off: the oldest outstanding vid of the key is released, or, with the
\* pedal down, kept sounding.
NoteOff(c, n) ==
  /\ phase = "play"
  /\ OverlapAllow => head[<<c, n>>] # tail[<<c, n>>]
  /\ Begin("note_off", c, n, IF OverlapAllow THEN tail[<<c, n>>] ELSE 0, 0)
  /\ tail' = IF OverlapAllow THEN [tail EXCEPT ![<<c, n>>] = Inc(@)] ELSE tail
  /\ UNCHANGED <<voiceVars, upper, voices, head, channelVars, phase>>

\* ME_ALL_NOTES_OFF, and ME_MONO and ME_POLY, which end in it.
AllNotesOff(c) ==
  /\ phase = "play"
  /\ Begin("all_notes_off", c, None, 0, 0)
  /\ \E m \in {mono[c], FALSE} \cup (IF c \in MonoChannels THEN {TRUE} ELSE {}) :
       mono' = [mono EXCEPT ![c] = m]
  /\ UNCHANGED <<voiceVars, upper, voices, head, tail, sustain, sostenuto, phase>>

\* What pedal value a leaves channel c with.
Pressed(c, a) ==
  IF c \in DamperChannels THEN a ELSE IF a = "down" THEN "down" ELSE "up"

\* ME_SUSTAIN: release both pedals and the sustained voices are let go;
\* press a damper and every voice of the channel is held.
Sustain(c, a) ==
  LET s == Pressed(c, a)
      regrab == /\ sustain[c] = "up" /\ a = "down"
                /\ c \in DamperChannels \ DrumChannels
      o == CASE s = "up" /\ ~sostenuto[c] -> "drop_sustain"
             [] regrab -> "hold"
             [] OTHER -> "idle"
  IN /\ phase = "play"
     /\ a \in PedalMoves[c]
     /\ Begin(o, IF o = "idle" THEN None ELSE c, None, 0, 0)
     /\ sustain' = [sustain EXCEPT ![c] = s]
     /\ UNCHANGED <<voiceVars, upper, voices, head, tail, sostenuto, mono, phase>>

\* ME_SOSTENUTO.
Sostenuto(c, on) ==
  LET o == CASE sustain[c] = "up" /\ ~on -> "drop_sustain"
             [] on /\ c \notin DrumChannels -> "hold"
             [] OTHER -> "idle"
  IN /\ phase = "play"
     /\ c \in SostenutoChannels
     /\ Begin(o, IF o = "idle" THEN None ELSE c, None, 0, 0)
     /\ sostenuto' = [sostenuto EXCEPT ![c] = on]
     /\ UNCHANGED <<voiceVars, upper, voices, head, tail, sustain, mono, phase>>

\* Volume, panning and modulation changes of a channel or, for the master
\* volume, of every channel: the amplitude of its voices is recomputed.
Adjust(c) ==
  /\ phase = "play"
  /\ Begin("adjust", c, None, 0, 0)
  /\ UNCHANGED <<voiceVars, upper, voices, head, tail, channelVars, phase>>

\* compute_data: a stretch of audio is mixed.
Compute ==
  /\ phase = "play"
  /\ Begin("compute", None, None, 0, 0)
  /\ UNCHANGED <<voiceVars, upper, voices, head, tail, channelVars, phase>>

\* finish_note: the voice enters its release, or is gone at once.
Finished == {"OFF", "FREE"}

Matches(v) ==
  CASE op = "note_off" ->
         /\ status[v] = "ON" /\ chan[v] = evCh
         /\ key[v] = evKey /\ vid[v] = evVid
    [] op = "all_notes_off" -> status[v] = "ON" /\ chan[v] = evCh
    [] op = "drop_sustain" -> status[v] = "SUSTAINED" /\ chan[v] = evCh
    [] op = "hold" -> status[v] \in {"ON", "OFF"} /\ chan[v] = evCh
    [] op = "adjust" -> status[v] # "FREE" /\ evCh \in {chan[v], None}
    [] op = "finish_all" -> status[v] \in {"ON", "SUSTAINED"}
    [] OTHER -> status[v] # "FREE"

BadOutcomes(v) ==
  CASE op \in {"note_off", "all_notes_off"} ->
         IF sustain[evCh] # "up" THEN {"SUSTAINED"} ELSE Finished
    [] op \in {"drop_sustain", "finish_all"} -> Finished
    [] OTHER -> {status[v], "FREE"}

\* The statuses a matching voice may have after the sweep has visited it.
Outcomes(v) ==
  CASE op \in {"note_off", "all_notes_off"} ->
         IF sustain[evCh] # "up" THEN {"SUSTAINED"} ELSE Finished
    [] op \in {"drop_sustain", "finish_all"} -> Finished
    [] op = "hold" -> {"SUSTAINED", "FREE"}
    [] op = "adjust" ->
         IF status[v] \in {"OFF", "SUSTAINED"} THEN {status[v], "FREE"} ELSE {status[v]}
    [] OTHER -> IF status[v] = "DIE" THEN {"FREE"} ELSE {status[v], "FREE"}

SweepVoice ==
  /\ op \in SweepOps
  /\ at < upper
  /\ IF Matches(at)
     THEN \E s \in Outcomes(at) :
            /\ status' = [status EXCEPT ![at] = s]
            /\ link' = IF s = "FREE" THEN Unlink(link, at) ELSE link
     ELSE UNCHANGED <<status, link>>
  /\ at' = at + 1
  /\ UNCHANGED <<chan, key, vid, prox, upper, voices, head, tail, channelVars,
                 phase, op, evCh, evKey, evVid, todo, list>>

BadCleared(q, c) == [k \in Keys |-> 0]

\* The channel's vidq counters are zeroed.
Cleared(q, c) == [k \in Keys |-> IF k[1] = c THEN 0 ELSE q[k]]

SweepEnd ==
  /\ op \in SweepOps
  /\ at >= upper
  /\ IF op = "compute" THEN Trim(status, upper) ELSE upper' = upper
  /\ IF op = "all_notes_off"
     THEN head' = Cleared(head, evCh) /\ tail' = Cleared(tail, evCh)
     ELSE UNCHANGED <<head, tail>>
  /\ Finish
  /\ UNCHANGED <<voiceVars, voices, channelVars, phase>>

(***************************************************************************)
(* Handlers that kill voices, and resets.                                  *)
(***************************************************************************)
BadKill(S) ==
  [v \in V |-> IF v \in S /\ status[v] \in {"ON", "OFF"} THEN "DIE" ELSE status[v]]

Kill(S) == [v \in V |-> IF v \in S /\ status[v] # "FREE" THEN "DIE" ELSE status[v]]

\* ME_ALL_SOUNDS_OFF; ME_KEYSHIFT does the same before the key changes.
AllSoundsOff(c) ==
  /\ Idle /\ phase = "play"
  /\ status' = Kill({v \in Below(upper) : chan[v] = c})
  /\ head' = Cleared(head, c) /\ tail' = Cleared(tail, c)
  /\ UNCHANGED <<chan, key, vid, prox, link, upper, voices, channelVars, phase,
                 callVars>>

KillAll ==
  /\ status' = Kill(Below(upper))
  /\ head' = [k \in Keys |-> 0] /\ tail' = [k \in Keys |-> 0]
  /\ UNCHANGED <<chan, key, vid, prox, link>>

NoControllers ==
  /\ sustain' = [c \in Channels |-> "up"]
  /\ sostenuto' = [c \in Channels |-> FALSE]
  /\ mono' = [c \in Channels |-> FALSE]

\* ME_RESET (reset_midi(1)).
SystemReset ==
  /\ Idle /\ phase = "play"
  /\ KillAll /\ NoControllers
  /\ UNCHANGED <<upper, voices, phase, callVars>>

\* kill_all_voices for a forced key signature or a late stream.
Discard ==
  /\ Idle /\ phase = "play"
  /\ KillAll
  /\ UNCHANGED <<upper, voices, channelVars, phase, callVars>>

\* ME_RESET_CONTROLLERS: pedals up and poly, with no voice touched.
ResetControllers(c) ==
  /\ ControllerResets
  /\ Idle /\ phase = "play"
  /\ sustain' = [sustain EXCEPT ![c] = "up"]
  /\ sostenuto' = [sostenuto EXCEPT ![c] = FALSE]
  /\ mono' = [mono EXCEPT ![c] = FALSE]
  /\ UNCHANGED <<voiceVars, upper, voices, head, tail, phase, callVars>>

\* reset_midi(0) of skip_to: a jump in the tune, or the next tune.  The
\* control RC_VOICEDECR lowers the polyphony here.  Within midi_play_end a
\* jump does not leave the function.
Restart ==
  /\ Idle
  /\ status' = [v \in V |-> "FREE"]
  /\ link' = [v \in V |-> v]
  /\ upper' = 0
  /\ head' = [k \in Keys |-> 0] /\ tail' = [k \in Keys |-> 0]
  /\ NoControllers
  /\ voices' \in IF Resize THEN 0 .. voices ELSE {voices}
  /\ phase' = IF phase = "over" THEN "play" ELSE phase
  /\ UNCHANGED <<chan, key, vid, prox, callVars>>

(***************************************************************************)
(* midi_play_end: let the tune ring (tail), finish every note and fade,    *)
(* kill what is left and mix it out (dying).  Any of its compute_data      *)
(* calls may return a code that skips the rest.                            *)
(***************************************************************************)
PlayEnd ==
  /\ phase = "play"
  /\ \/ /\ upper > 0
        /\ Begin("compute", None, None, 0, 0)
        /\ phase' = "tail"
     \/ /\ upper = 0 /\ Idle
        /\ phase' = "over"
        /\ UNCHANGED callVars
  /\ UNCHANGED <<voiceVars, upper, voices, head, tail, channelVars>>

PlayEndFinish ==
  /\ phase = "tail"
  /\ Begin("finish_all", None, None, 0, 0)
  /\ phase' = "fade"
  /\ UNCHANGED <<voiceVars, upper, voices, head, tail, channelVars>>

PlayEndFade ==
  /\ phase = "fade" /\ upper > 0
  /\ Begin("compute", None, None, 0, 0)
  /\ UNCHANGED <<voiceVars, upper, voices, head, tail, channelVars, phase>>

PlayEndKill ==
  /\ Idle /\ phase = "fade"
  /\ KillAll
  /\ phase' = "killed"
  /\ UNCHANGED <<upper, voices, channelVars, callVars>>

PlayEndMix ==
  /\ phase = "killed"
  /\ Begin("compute", None, None, 0, 0)
  /\ phase' = "dying"
  /\ UNCHANGED <<voiceVars, upper, voices, head, tail, channelVars>>

PlayEndOver ==
  /\ Idle /\ phase = "dying"
  /\ upper' = 0
  /\ phase' = "over"
  /\ UNCHANGED <<voiceVars, voices, head, tail, channelVars, callVars>>

PlayEndSkip ==
  /\ Idle /\ phase \in {"tail", "fade", "killed", "dying"}
  /\ phase' = "over"
  /\ UNCHANGED <<voiceVars, upper, voices, head, tail, channelVars, callVars>>

(***************************************************************************)
(* Changing the polyphony while voices sound: by the controls RC_VOICEINCR *)
(* and RC_VOICEDECR, by compute_data, and between two tunes.               *)
(***************************************************************************)
VoiceIncrement ==
  /\ Resize /\ Idle
  /\ voices < MaxVoices
  /\ status' = [status EXCEPT ![voices] = "FREE"]
  /\ link' = [link EXCEPT ![voices] = voices]
  /\ voices' = voices + 1
  /\ UNCHANGED <<chan, key, vid, prox, upper, head, tail, channelVars, phase,
                 callVars>>

BadMove(k, j, st, lk) ==
  /\ status' = [st EXCEPT ![j] = st[k]]
  /\ link' = [lk EXCEPT ![j] = lk[k]]
  /\ chan' = [chan EXCEPT ![j] = chan[k]]
  /\ key' = [key EXCEPT ![j] = key[k]]
  /\ UNCHANGED <<vid, prox>>

\* voice[j] = voice[k], after the changes st and lk.  The partner of k still
\* names k.
Move(k, j, st, lk) ==
  /\ status' = [st EXCEPT ![j] = st[k]]
  /\ link' = [lk EXCEPT ![j] = lk[k]]
  /\ chan' = [chan EXCEPT ![j] = chan[k]]
  /\ key' = [key EXCEPT ![j] = key[k]]
  /\ vid' = [vid EXCEPT ![j] = vid[k]]
  /\ prox' = [prox EXCEPT ![j] = prox[k]]

\* Slot k is given up: nothing was in it, its voice moves to the first free
\* slot, or to the slot of a released voice.
GiveUp(k, free, quiet) ==
  \/ status[k] = "FREE" /\ UNCHANGED voiceVars
  \/ /\ status[k] # "FREE"
     /\ \E j \in V : IsFirst(j, free) /\ Move(k, j, status, link)
  \/ /\ status[k] # "FREE" /\ free = {}
     /\ \E j \in quiet :
          Move(k, j, [status EXCEPT ![j] = "FREE"], Unlink(link, j))

\* voice_decrement, one voice: with nothing to give up, slot k's note is lost.
VoiceDecrement ==
  /\ Resize /\ Idle
  /\ voices > 0
  /\ LET k == voices - 1
         free == {v \in Below(k) : status[v] = "FREE"}
         quiet == {v \in Below(voices) : status[v] \in {"OFF", "SUSTAINED"}}
     IN /\ \/ GiveUp(k, free, quiet)
           \/ /\ status[k] # "FREE" /\ free = {} /\ quiet = {}
              /\ UNCHANGED voiceVars
        /\ voices' = k
        /\ upper' = IF upper > k THEN k ELSE upper
  /\ UNCHANGED <<head, tail, channelVars, phase, callVars>>

\* compute_data's automatic reduction: some voices are stolen ("shed"), then
\* the polyphony is lowered while that costs no sounding note ("conserve").
AutoReduce ==
  /\ Resize /\ phase # "killed"
  /\ \E k \in 0 .. Cardinality({v \in Below(upper) : status[v] # "FREE"}) :
       Begin("shed", None, None, 0, k)
  /\ UNCHANGED <<voiceVars, upper, voices, head, tail, channelVars, phase>>

ShedVoice ==
  /\ op = "shed" /\ todo > 0
  /\ \E v \in Victims(status) : \E dead \in Casualties(status, v) :
       /\ status' = AfterSteal(status, v, dead)
       /\ link' = LinkAfterSteal(v, dead)
  /\ todo' = todo - 1
  /\ UNCHANGED <<chan, key, vid, prox, upper, voices, head, tail, channelVars,
                 phase, op, evCh, evKey, evVid, at, list>>

\* at is finalnv, todo the iterations left of voice_decrement_conservative.
ShedDone ==
  /\ op = "shed" /\ todo = 0
  /\ \E n \in 0 .. voices : todo' = n /\ at' = voices - n
  /\ op' = "conserve"
  /\ UNCHANGED <<voiceVars, upper, voices, head, tail, channelVars, phase,
                 evCh, evKey, evVid, list>>

ConserveVoice ==
  /\ op = "conserve" /\ todo > 0
  /\ LET k == voices - 1
         free == {v \in Below(at) : status[v] = "FREE"}
         quiet == {v \in Below(voices) :
                     status[v] \in {"OFF", "SUSTAINED"} /\ ~Protected(v)}
     IN \/ /\ GiveUp(k, free, quiet)
           /\ voices' = k
           /\ todo' = todo - 1
        \/ /\ status[k] # "FREE" /\ free = {} /\ quiet = {}
           /\ todo' = 0
           /\ UNCHANGED <<voiceVars, voices>>
  /\ UNCHANGED <<upper, head, tail, channelVars, phase, op, evCh, evKey, evVid,
                 at, list>>

ConserveEnd ==
  /\ op = "conserve" /\ todo = 0
  /\ Trim(status, IF upper > voices THEN voices ELSE upper)
  /\ Finish
  /\ UNCHANGED <<voiceVars, voices, head, tail, channelVars, phase>>

-----------------------------------------------------------------------------
Next ==
  \/ \E c \in Channels, n \in Notes : NoteOn(c, n) \/ NoteOff(c, n)
  \/ SelectSample \/ StartSample \/ SweepVoice \/ SweepEnd \/ Compute
  \/ \E c \in Channels \cup {None} : Adjust(c)
  \/ \E c \in Channels : \/ AllNotesOff(c) \/ AllSoundsOff(c)
                         \/ ResetControllers(c)
                         \/ \E a \in Pedal : Sustain(c, a)
                         \/ \E on \in BOOLEAN : Sostenuto(c, on)
  \/ SystemReset \/ Discard \/ Restart
  \/ PlayEnd \/ PlayEndFinish \/ PlayEndFade \/ PlayEndKill \/ PlayEndMix
  \/ PlayEndOver \/ PlayEndSkip
  \/ VoiceIncrement \/ VoiceDecrement
  \/ AutoReduce \/ ShedVoice \/ ShedDone \/ ConserveVoice \/ ConserveEnd

Spec == Init /\ [][Next]_vars

\* A handler that has begun runs to its end, and the player mixes audio
\* again and again, whatever the tune sends in between.
Fairness ==
  /\ WF_vars(SelectSample) /\ WF_vars(StartSample)
  /\ WF_vars(SweepVoice) /\ WF_vars(SweepEnd)
  /\ WF_vars(ShedVoice) /\ WF_vars(ShedDone)
  /\ WF_vars(ConserveVoice) /\ WF_vars(ConserveEnd)
  /\ SF_vars(Compute)

FairSpec == Spec /\ Fairness
-----------------------------------------------------------------------------
(***************************************************************************)
(* Properties.                                                             *)
(***************************************************************************)
\* Every field of the voice table, the channels and the handler in progress
\* (timidity/playmidi.h, struct Voice) has a value of its type.
TypeOK ==
  /\ status \in [V -> Status]
  /\ chan \in [V -> Channels \cup {None}]
  /\ key \in [V -> Notes \cup {None}]
  /\ vid \in [V -> Vids]
  /\ prox \in [V -> BOOLEAN]
  /\ link \in [V -> V]
  /\ upper \in 0 .. MaxVoices /\ voices \in 0 .. MaxVoices
  /\ head \in [Keys -> Vids] /\ tail \in [Keys -> Vids]
  /\ sustain \in [Channels -> Pedal]
  /\ sostenuto \in [Channels -> BOOLEAN]
  /\ mono \in [Channels -> BOOLEAN]
  /\ phase \in Phases
  /\ op \in Ops
  /\ evCh \in Channels \cup {None} /\ evKey \in Notes \cup {None}
  /\ evVid \in Vids
  /\ at \in Nat /\ todo \in Nat
  /\ list \in Seq(V)

\* Voices found for the note being started and not started yet: their fields
\* are still those of the slot's previous note.
Pending == {list[i] : i \in 1 .. Len(list)}

\* upper_voices bounds every loop over the voices (mixing, note off, pedals):
\* a voice in use within the polyphony is never beyond it, so that no note is
\* left sounding or silent where no loop can reach it.
SoundingBelowUpper ==
  /\ op # "conserve" => upper <= voices
  /\ \A v \in V : v < voices /\ status[v] # "FREE" => v < upper

\* x has been drawn for the key (new_vidq) and not consumed (last_vidq).
Outstanding(c, n, x) ==
  LET h == head[<<c, n>>]
      t == tail[<<c, n>>]
  IN IF t <= h THEN t <= x /\ x < h ELSE x >= t \/ x < h

\* The note_off in progress has yet to reach voice v, whose vid it holds.
ReleaseDue(v) ==
  op = "note_off" /\ at <= v /\ chan[v] = evCh /\ key[v] = evKey /\ vid[v] = evVid

\* No stuck notes: the vid of a voice that is ON is still in its key's queue,
\* so a coming note off (last_vidq) will hand it out and note_off will find
\* the voice.
NotesReleasable ==
  OverlapAllow =>
    \A v \in V : v < voices /\ status[v] = "ON" /\ v \notin Pending =>
      ReleaseDue(v) \/ Outstanding(chan[v], key[v], vid[v])

\* last_vidq's message "Voice is already OFF" is true when it is printed: a
\* key whose queue is empty has no voice ON.
AlreadyOff ==
  Idle /\ OverlapAllow =>
    \A v \in V : v < voices /\ status[v] = "ON" => head[<<chan[v], key[v]>>] # tail[<<chan[v], key[v]>>]

\* A chorus link is doubled ("Make doubled link v1 and v2"): the voice a
\* sounding voice names as its partner sounds and names it back.
LinksDoubled ==
  \A v \in V : v < voices /\ status[v] # "FREE" /\ v \notin Pending =>
    \/ link[v] = v
    \/ status[link[v]] # "FREE" /\ link[link[v]] = v

\* While no handler runs, a voice is SUSTAINED only where a pedal holds it:
\* whatever the order of pedal moves, notes and steals, the pedal that goes up
\* last lets go of every voice.
SustainedHeld ==
  Idle => \A v \in V : (v < voices /\ status[v] = "SUSTAINED") =>
            (sustain[chan[v]] # "up" \/ sostenuto[chan[v]])

\* find_voice's comment "Only one instance of a note can be playing on a
\* single channel": the voices ON for one key were all started by the same
\* note on, the one after which proximate_flag is set.
OneInstance ==
  Idle => \A v, w \in V :
    /\ v < voices /\ w < voices
    /\ status[v] = "ON" /\ status[w] = "ON"
    /\ chan[v] = chan[w] /\ key[v] = key[w]
    => prox[v] = prox[w]

\* Two notes of one alternate-assign group (open and closed hi-hat) are never
\* ON together once the note on that excludes the other has run.
ExclusiveNotes ==
  Idle => \A v, w \in V :
    /\ v < voices /\ w < voices
    /\ status[v] = "ON" /\ status[w] = "ON" /\ chan[v] = chan[w]
    /\ {key[v], key[w]} \subseteq AltAssign[chan[v]]
    => key[v] = key[w]

\* The assign mode bounds the note-ons of one key that are ON together: one in
\* mode 0 (single), two in mode 1 (limited multi), however many samples and
\* chorus doubles each of them plays.
AssignLimit ==
  Idle => \A c \in Channels, n \in Notes :
    LET on == {v \in V : v < voices /\ status[v] = "ON" /\ chan[v] = c /\ key[v] = n}
    IN AssignMode[c] < 2 => Cardinality({vid[v] : v \in on}) <= AssignMode[c] + 1

\* What a note on that takes voice v, ON and of another channel, has found.
LastResort(v) ==
  op = "select" /\ list' = Append(list, v) /\ status[v] = "ON" /\ chan[v] # evCh
  => /\ upper >= voices
     /\ \A w \in V : w < upper =>
          status[w] = "ON" \/ (status[w] = "OFF" /\ Protected(w))

\* A note on takes a voice that is ON, on another channel, only at full
\* polyphony and when every other voice is ON or a protected drum decay
\* (reduce_voice gives up released, dying and sustained voices first).
StealOrder == [][\A v \in V : LastResort(v)]_vars

\* While a tune plays, a killed voice (kill_note) is ramped out and its slot
\* comes free, or is taken: no slot stays DIE for ever.
DyingLeave ==
  \A v \in V : (v < voices /\ status[v] = "DIE")
                 ~> (v >= voices \/ status[v] # "DIE" \/ phase # "play")
=============================================================================
