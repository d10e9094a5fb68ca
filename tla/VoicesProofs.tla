----------------------------- MODULE VoicesProofs -----------------------------
(***************************************************************************)
(* Theorems about the voice allocator, for every number of voices,         *)
(* channels, notes and samples: its types, that upper_voices bounds the    *)
(* loops over the voices, that every note can be released, and which       *)
(* voices may sound together.                                              *)
(***************************************************************************)
EXTENDS Voices, FiniteSetTheorems, TLAPS

\* What the handler in progress has been given: a note, a channel, samples
\* still to place, voices still to start.
CallOK ==
  /\ op \in {"select", "start", "note_off"} => evCh \in Channels /\ evKey \in Notes
  /\ op \in {"all_notes_off", "drop_sustain", "hold"} => evCh \in Channels
  /\ op = "select" => todo > 0
  /\ op = "start" => Len(list) > 0
  /\ op \notin {"select", "start"} => list = <<>>
  /\ op = "conserve" => todo <= voices

TypeInv == TypeOK /\ CallOK

-------------------------------------------------------------------------------
LEMMA UnlinkType ==
  ASSUME NEW lk \in [V -> V], NEW v \in V
  PROVE  Unlink(lk, v) \in [V -> V]
  BY DEF Unlink

LEMMA IncType == \A x \in Vids : Inc(x) \in Vids
  BY ConstantsAssumption DEF Inc, Vids

LEMMA VictimsType ==
  ASSUME TypeOK, NEW st \in [V -> Status]
  PROVE  Victims(st) \subseteq V
<1>1. \A k \in 1 .. 6 : StealClass(st)[k] \subseteq V
  BY DEF StealClass, Below
<1>2. 0 \in V
  BY ConstantsAssumption DEF V
<1> QED BY <1>1, <1>2 DEF Victims

LEMMA StealType ==
  ASSUME TypeOK, NEW st \in [V -> Status], NEW v \in Victims(st),
         NEW dead \in Casualties(st, v)
  PROVE  /\ v \in V
         /\ AfterSteal(st, v, dead) \in [V -> Status]
         /\ LinkAfterSteal(v, dead) \in [V -> V]
<1>1. v \in V
  BY VictimsType
<1>2. AfterSteal(st, v, dead) \in [V -> Status]
  BY DEF AfterSteal, Status
<1>3. link \in [V -> V]
  BY DEF TypeOK
<1>4. Unlink(link, v) \in [V -> V] /\ Unlink(link, link[v]) \in [V -> V]
  BY <1>1, <1>3, UnlinkType
<1>5. LinkAfterSteal(v, dead) \in [V -> V]
  BY <1>1, <1>4, UnlinkType DEF LinkAfterSteal
<1> QED BY <1>1, <1>2, <1>5

-------------------------------------------------------------------------------
LEMMA InitType == Init => TypeInv
  BY ConstantsAssumption
  DEF Init, TypeInv, TypeOK, CallOK, V, Keys, Vids, Status, Pedal, Phases, Ops

LEMMA BeginType ==
  ASSUME TypeInv, NEW o \in Ops, NEW c \in Channels \cup {None},
         NEW n \in Notes \cup {None}, NEW x \in Vids, NEW k \in Nat,
         o \in {"select", "note_off"} => c \in Channels /\ n \in Notes,
         o \in {"all_notes_off", "drop_sustain", "hold"} => c \in Channels,
         o = "select" => k > 0,
         o \notin {"start", "conserve"},
         Begin(o, c, n, x, k)
  PROVE  /\ op' \in Ops /\ evCh' \in Channels \cup {None}
         /\ evKey' \in Notes \cup {None} /\ evVid' \in Vids
         /\ at' \in Nat /\ todo' \in Nat /\ list' \in Seq(V)
         /\ CallOK'
  BY DEF Begin, CallOK

LEMMA KillType == TypeOK => \A S \in SUBSET V : Kill(S) \in [V -> Status]
  BY DEF TypeOK, Kill, Status

LEMMA ClearedType ==
  ASSUME NEW q \in [Keys -> Vids], NEW c
  PROVE  Cleared(q, c) \in [Keys -> Vids]
  BY ConstantsAssumption DEF Cleared, Vids

LEMMA VoiceVarsType ==
  ASSUME TypeOK, UNCHANGED voiceVars
  PROVE  /\ status' \in [V -> Status] /\ link' \in [V -> V]
         /\ chan' \in [V -> Channels \cup {None}]
         /\ key' \in [V -> Notes \cup {None}]
         /\ vid' \in [V -> Vids] /\ prox' \in [V -> BOOLEAN]
  BY DEF TypeOK, voiceVars

LEMMA MoveType ==
  ASSUME TypeOK, NEW k \in V, NEW j \in V, NEW st \in [V -> Status],
         NEW lk \in [V -> V], Move(k, j, st, lk)
  PROVE  /\ status' \in [V -> Status] /\ link' \in [V -> V]
         /\ chan' \in [V -> Channels \cup {None}]
         /\ key' \in [V -> Notes \cup {None}]
         /\ vid' \in [V -> Vids] /\ prox' \in [V -> BOOLEAN]
  BY DEF TypeOK, Move

LEMMA GiveUpType ==
  ASSUME TypeOK, NEW k \in V, NEW free \in SUBSET V, NEW quiet \in SUBSET V,
         GiveUp(k, free, quiet)
  PROVE  /\ status' \in [V -> Status] /\ link' \in [V -> V]
         /\ chan' \in [V -> Channels \cup {None}]
         /\ key' \in [V -> Notes \cup {None}]
         /\ vid' \in [V -> Vids] /\ prox' \in [V -> BOOLEAN]
<1>1. CASE status[k] = "FREE" /\ UNCHANGED voiceVars
  BY <1>1, VoiceVarsType
<1>2. CASE \E j \in V : IsFirst(j, free) /\ Move(k, j, status, link)
  BY <1>2, MoveType DEF TypeOK
<1>3. CASE \E j \in quiet :
             Move(k, j, [status EXCEPT ![j] = "FREE"], Unlink(link, j))
  <2> PICK j \in quiet :
             Move(k, j, [status EXCEPT ![j] = "FREE"], Unlink(link, j))
    BY <1>3
  <2>1. [status EXCEPT ![j] = "FREE"] \in [V -> Status]
    BY DEF TypeOK, Status
  <2>2. Unlink(link, j) \in [V -> V]
    BY UnlinkType DEF TypeOK
  <2> QED BY <2>1, <2>2, MoveType
<1> QED BY <1>1, <1>2, <1>3 DEF GiveUp

LEMMA DoubleType ==
  ASSUME TypeOK, evCh \in Channels, evKey \in Notes, NEW v \in V, NEW w \in V,
         NEW st \in [V -> Status], NEW lk \in [V -> V], Double(v, w, st, lk)
  PROVE  /\ status' \in [V -> Status] /\ link' \in [V -> V]
         /\ chan' \in [V -> Channels \cup {None}]
         /\ key' \in [V -> Notes \cup {None}]
         /\ vid' \in [V -> Vids] /\ prox' \in [V -> BOOLEAN]
  BY DEF TypeOK, Double

LEMMA TakeType ==
  ASSUME TypeInv, op = "select", NEW v \in V, NEW st \in [V -> Status],
         NEW lk \in [V -> V], Take(v, st, lk)
  PROVE  /\ status' \in [V -> Status] /\ link' \in [V -> V]
         /\ head' \in [Keys -> Vids] /\ evVid' \in Vids
         /\ list' \in Seq(V) /\ Len(list') > 0 /\ todo' \in Nat
         /\ op' \in {"select", "start"} /\ (op' = "select" => todo' > 0)
<1>1. <<evCh, evKey>> \in Keys
  BY DEF TypeInv, CallOK, Keys
<1>2. status' \in [V -> Status] /\ link' \in [V -> V]
  BY DEF Take, Status
<1>3. head' \in [Keys -> Vids] /\ evVid' \in Vids
  <2>1. head \in [Keys -> Vids] /\ evVid \in Vids /\ 0 \in Vids
    BY ConstantsAssumption DEF TypeInv, TypeOK, Vids
  <2>2. head[<<evCh, evKey>>] \in Vids /\ Inc(head[<<evCh, evKey>>]) \in Vids
    BY <1>1, <2>1, IncType
  <2>3. CASE todo = 1 /\ OverlapAllow
    BY <1>1, <2>1, <2>2, <2>3 DEF Take
  <2>4. CASE ~(todo = 1 /\ OverlapAllow)
    BY <2>1, <2>4 DEF Take
  <2> QED BY <2>3, <2>4
<1>4. list' \in Seq(V) /\ Len(list') > 0
  BY DEF Take, TypeInv, TypeOK
<1>5. todo' \in Nat /\ op' \in {"select", "start"} /\ (op' = "select" => todo' > 0)
  BY DEF Take, TypeInv, TypeOK, CallOK
<1> QED BY <1>2, <1>3, <1>4, <1>5

-------------------------------------------------------------------------------
LEMMA SelectSampleType == TypeInv /\ SelectSample => TypeInv'
<1> SUFFICES ASSUME TypeInv, SelectSample PROVE TypeInv'
  OBVIOUS
<1> DEFINE free == {v \in Below(upper) : status[v] = "FREE"}
           killed == Killed(evCh, evKey)
           st == [v \in V |-> IF v \in killed THEN "DIE" ELSE status[v]]
<1>1. st \in [V -> Status] /\ link \in [V -> V]
  BY DEF TypeInv, TypeOK, Status
<1>2. /\ \E v \in V, s \in [V -> Status], lk \in [V -> V] : Take(v, s, lk)
      /\ upper' \in 0 .. MaxVoices
  <2>1. CASE \E v \in V : IsFirst(v, free) /\ Take(v, st, link) /\ upper' = upper
    BY <2>1, <1>1 DEF TypeInv, TypeOK
  <2>2. CASE upper < voices /\ Take(upper, st, link) /\ upper' = upper + 1
    <3>1. upper \in V /\ upper' \in 0 .. MaxVoices
      BY <2>2, ConstantsAssumption DEF TypeInv, TypeOK, V
    <3> QED BY <3>1, <2>2, <1>1
  <2>3. CASE /\ \E v \in Victims(st) : \E dead \in Casualties(st, v) :
                  Take(v, AfterSteal(st, v, dead), LinkAfterSteal(v, dead))
             /\ upper' = upper
    <3> PICK v \in Victims(st) : \E dead \in Casualties(st, v) :
          Take(v, AfterSteal(st, v, dead), LinkAfterSteal(v, dead))
      BY <2>3
    <3> PICK dead \in Casualties(st, v) :
          Take(v, AfterSteal(st, v, dead), LinkAfterSteal(v, dead))
      OBVIOUS
    <3>1. /\ v \in V
          /\ AfterSteal(st, v, dead) \in [V -> Status]
          /\ LinkAfterSteal(v, dead) \in [V -> V]
      BY <1>1, StealType DEF TypeInv
    <3> QED BY <3>1, <2>3 DEF TypeInv, TypeOK
  <2> QED BY <2>1, <2>2, <2>3 DEF SelectSample
<1>3. op = "select"
  BY DEF SelectSample
<1>4. PICK v \in V, s \in [V -> Status], lk \in [V -> V] : Take(v, s, lk)
  BY <1>2
<1>5. /\ status' \in [V -> Status] /\ link' \in [V -> V]
      /\ head' \in [Keys -> Vids] /\ evVid' \in Vids
      /\ list' \in Seq(V) /\ Len(list') > 0 /\ todo' \in Nat
      /\ op' \in {"select", "start"} /\ (op' = "select" => todo' > 0)
  BY <1>3, <1>4, TakeType
<1>6. prox' \in [V -> BOOLEAN]
  BY DEF SelectSample, TypeInv, TypeOK
<1>7. UNCHANGED <<chan, key, vid, voices, tail, sustain, sostenuto, mono, phase,
                  evCh, evKey, at>>
  BY DEF SelectSample, channelVars
<1>8. TypeOK'
  BY <1>2, <1>5, <1>6, <1>7 DEF TypeInv, TypeOK, Ops
<1>9. CallOK'
  BY <1>3, <1>5, <1>7 DEF TypeInv, CallOK
<1> QED BY <1>8, <1>9 DEF TypeInv

LEMMA FinishType ==
  ASSUME Finish
  PROVE  /\ op' \in Ops /\ evCh' \in Channels \cup {None}
         /\ evKey' \in Notes \cup {None} /\ evVid' \in Vids
         /\ at' \in Nat /\ todo' \in Nat /\ list' \in Seq(V)
         /\ CallOK'
  BY ConstantsAssumption DEF Finish, CallOK, Ops, Vids

LEMMA LongTail ==
  ASSUME NEW S, NEW s \in Seq(S), Len(s) > 0, Len(s) # 1
  PROVE  Tail(s) \in Seq(S) /\ Len(Tail(s)) > 0
  OBVIOUS

LEMMA StartSampleType == TypeInv /\ StartSample => TypeInv'
<1> SUFFICES ASSUME TypeInv, StartSample PROVE TypeInv'
  OBVIOUS
<1>1. op = "start" /\ evCh \in Channels /\ evKey \in Notes /\ Len(list) > 0
  BY DEF StartSample, TypeInv, CallOK
<1>2. Head(list) \in V
  BY <1>1 DEF TypeInv, TypeOK
<1>3. /\ \E w \in V, s \in [V -> Status], lk \in [V -> V] :
           Double(Head(list), w, s, lk)
      /\ upper' \in 0 .. MaxVoices
  <2> PICK born \in {"ON"} \cup (IF InstantDeath THEN {"FREE"} ELSE {}) :
       LET v == Head(list)
           st == [status EXCEPT ![v] = born]
           lk == [link EXCEPT ![v] = v]
           free == {w \in Below(voices) : st[w] = "FREE"}
           quiet == {w \in Below(voices) :
                       st[w] \in {"OFF", "SUSTAINED"} /\ ~Protected(w)}
       IN \/ ~SurroundChorus /\ Double(v, v, st, lk) /\ upper' = upper
          \/ /\ SurroundChorus
             /\ \E w \in V : /\ IsFirst(w, free)
                             /\ Double(v, w, st, lk)
                             /\ upper' = Raised(w)
          \/ /\ SurroundChorus /\ free = {}
             /\ \E w \in quiet : Double(v, w, st, Unlink(lk, w))
             /\ upper' = voices
          \/ /\ SurroundChorus /\ free = {} /\ quiet = {}
             /\ Double(v, v, st, lk)
             /\ upper' = voices
    BY DEF StartSample
  <2> DEFINE v == Head(list)
             st == [status EXCEPT ![v] = born]
             lk == [link EXCEPT ![v] = v]
  <2>1. st \in [V -> Status] /\ lk \in [V -> V]
    BY <1>2 DEF TypeInv, TypeOK, Status
  <2>2. CASE Double(v, v, st, lk) /\ upper' \in {upper, voices}
    BY <2>1, <2>2, <1>2 DEF TypeInv, TypeOK
  <2>3. CASE \E w \in V : /\ Double(v, w, st, lk)
                          /\ upper' = Raised(w)
    <3> PICK w \in V : /\ Double(v, w, st, lk)
                       /\ upper' = Raised(w)
      BY <2>3
    <3>1. upper' \in 0 .. MaxVoices
      BY ConstantsAssumption DEF Raised, V, TypeInv, TypeOK
    <3> QED BY <3>1, <2>1
  <2>4. CASE /\ \E w \in V : Double(v, w, st, Unlink(lk, w))
             /\ upper' = voices
    BY <2>1, <2>4, UnlinkType DEF TypeInv, TypeOK
  <2> QED BY <2>2, <2>3, <2>4 DEF Below
<1>4. /\ status' \in [V -> Status] /\ link' \in [V -> V]
      /\ chan' \in [V -> Channels \cup {None}]
      /\ key' \in [V -> Notes \cup {None}]
      /\ vid' \in [V -> Vids] /\ prox' \in [V -> BOOLEAN]
  BY <1>1, <1>2, <1>3, DoubleType DEF TypeInv
<1>5. UNCHANGED <<voices, head, tail, sustain, sostenuto, mono, phase>>
  BY DEF StartSample, channelVars
<1>6. /\ op' \in Ops /\ evCh' \in Channels \cup {None}
      /\ evKey' \in Notes \cup {None} /\ evVid' \in Vids
      /\ at' \in Nat /\ todo' \in Nat /\ list' \in Seq(V)
      /\ CallOK'
  <2>1. CASE Len(list) = 1
    BY <2>1, FinishType DEF StartSample
  <2>2. CASE Len(list) # 1
    <3>1. /\ list' = Tail(list)
          /\ UNCHANGED <<op, evCh, evKey, evVid, at, todo>>
      BY <2>2 DEF StartSample
    <3>2. list' \in Seq(V) /\ Len(list') > 0
      BY <3>1, <2>2, <1>1, LongTail DEF TypeInv, TypeOK
    <3> QED BY <3>1, <3>2, <1>5, <1>1 DEF TypeInv, TypeOK, CallOK
  <2> QED BY <2>1, <2>2
<1>7. TypeOK'
  BY <1>3, <1>4, <1>5, <1>6 DEF TypeInv, TypeOK
<1> QED BY <1>6, <1>7 DEF TypeInv

\* The actions that begin a handler and change no voice.
LEMMA BeginActionsType ==
  ASSUME TypeInv,
         \/ \E c \in Channels, n \in Notes : NoteOn(c, n) \/ NoteOff(c, n)
         \/ \E c \in Channels : \/ AllNotesOff(c)
                                \/ \E a \in Pedal : Sustain(c, a)
                                \/ \E on \in BOOLEAN : Sostenuto(c, on)
         \/ \E c \in Channels \cup {None} : Adjust(c)
         \/ Compute \/ AutoReduce \/ PlayEnd \/ PlayEndFinish \/ PlayEndFade
         \/ PlayEndMix
  PROVE  TypeInv'
<1> DEFINE CallType ==
      /\ op' \in Ops /\ evCh' \in Channels \cup {None}
      /\ evKey' \in Notes \cup {None} /\ evVid' \in Vids
      /\ at' \in Nat /\ todo' \in Nat /\ list' \in Seq(V)
      /\ CallOK'
<1>0. /\ 0 \in Vids /\ tail \in [Keys -> Vids]
      /\ \A c \in Channels, n \in Notes : tail[<<c, n>>] \in Vids
  BY ConstantsAssumption DEF TypeInv, TypeOK, Vids, Keys
<1>1. ASSUME NEW c \in Channels, NEW n \in Notes, NoteOn(c, n)
      PROVE  TypeInv'
  <2>1. CallType
    BY <1>0, <1>1, BeginType, ConstantsAssumption DEF NoteOn, Ops
  <2> QED BY <2>1, <1>1 DEF NoteOn, TypeInv, TypeOK, voiceVars, channelVars
<1>2. ASSUME NEW c \in Channels, NEW n \in Notes, NoteOff(c, n)
      PROVE  TypeInv'
  <2>1. CallType
    BY <1>0, <1>2, BeginType DEF NoteOff, Ops, SweepOps
  <2>2. tail' \in [Keys -> Vids]
    <3>1. <<c, n>> \in Keys /\ Inc(tail[<<c, n>>]) \in Vids
      BY <1>0, IncType DEF Keys
    <3> QED BY <1>0, <1>2, <3>1 DEF NoteOff
  <2> QED BY <2>1, <2>2, <1>2 DEF NoteOff, TypeInv, TypeOK, voiceVars, channelVars
<1>3. ASSUME NEW c \in Channels, AllNotesOff(c)
      PROVE  TypeInv'
  <2>1. CallType
    BY <1>0, <1>3, BeginType DEF AllNotesOff, Ops, SweepOps
  <2>2. mono' \in [Channels -> BOOLEAN]
    BY <1>3 DEF AllNotesOff, TypeInv, TypeOK
  <2> QED BY <2>1, <2>2, <1>3 DEF AllNotesOff, TypeInv, TypeOK, voiceVars
<1>4. ASSUME NEW c \in Channels, NEW a \in Pedal, Sustain(c, a)
      PROVE  TypeInv'
  <2>1. CallType
    BY <1>0, <1>4, BeginType DEF Sustain, Ops, SweepOps
  <2>2. sustain' \in [Channels -> Pedal]
    BY <1>4 DEF Sustain, Pressed, Pedal, TypeInv, TypeOK
  <2> QED BY <2>1, <2>2, <1>4 DEF Sustain, TypeInv, TypeOK, voiceVars
<1>5. ASSUME NEW c \in Channels, NEW on \in BOOLEAN, Sostenuto(c, on)
      PROVE  TypeInv'
  <2>1. CallType
    BY <1>0, <1>5, BeginType DEF Sostenuto, Ops, SweepOps
  <2>2. sostenuto' \in [Channels -> BOOLEAN]
    BY <1>5 DEF Sostenuto, TypeInv, TypeOK
  <2> QED BY <2>1, <2>2, <1>5 DEF Sostenuto, TypeInv, TypeOK, voiceVars
<1>6. CASE Compute
  <2>1. CallType
    BY <1>0, <1>6, BeginType DEF Compute, Ops, SweepOps
  <2> QED BY <2>1, <1>6 DEF Compute, TypeInv, TypeOK, voiceVars, channelVars
<1>7. CASE AutoReduce
  <2>1. CallType
    <3>1. IsFiniteSet(V)
      BY ConstantsAssumption, FS_Interval DEF V
    <3>2. IsFiniteSet({v \in Below(upper) : status[v] # "FREE"})
      BY <3>1, FS_Subset DEF Below
    <3>3. Cardinality({v \in Below(upper) : status[v] # "FREE"}) \in Nat
      BY <3>2, FS_CardinalityType
    <3>4. PICK k \in Nat : Begin("shed", None, None, 0, k)
      BY <1>7, <3>3 DEF AutoReduce
    <3> QED BY <1>0, <3>4, BeginType DEF Ops, SweepOps
  <2> QED BY <2>1, <1>7 DEF AutoReduce, TypeInv, TypeOK, voiceVars, channelVars
<1>8. CASE PlayEnd
  <2>1. CASE upper > 0 /\ Begin("compute", None, None, 0, 0) /\ phase' = "tail"
    <3>1. CallType
      BY <1>0, <2>1, BeginType DEF Ops, SweepOps
    <3> QED BY <3>1, <2>1, <1>8
        DEF PlayEnd, TypeInv, TypeOK, voiceVars, channelVars, Phases
  <2>2. CASE phase' = "over" /\ UNCHANGED callVars
    BY <2>2, <1>8 DEF PlayEnd, TypeInv, TypeOK, CallOK, voiceVars, channelVars,
                      callVars, Phases
  <2> QED BY <2>1, <2>2, <1>8 DEF PlayEnd
<1>9. CASE PlayEndFinish
  <2>1. CallType
    BY <1>0, <1>9, BeginType DEF PlayEndFinish, Ops, SweepOps
  <2> QED BY <2>1, <1>9
      DEF PlayEndFinish, TypeInv, TypeOK, voiceVars, channelVars, Phases
<1>10. CASE PlayEndFade
  <2>1. CallType
    BY <1>0, <1>10, BeginType DEF PlayEndFade, Ops, SweepOps
  <2> QED BY <2>1, <1>10 DEF PlayEndFade, TypeInv, TypeOK, voiceVars, channelVars
<1>11. ASSUME NEW c \in Channels \cup {None}, Adjust(c)
       PROVE  TypeInv'
  <2>1. CallType
    BY <1>0, <1>11, BeginType DEF Adjust, Ops, SweepOps
  <2> QED BY <2>1, <1>11 DEF Adjust, TypeInv, TypeOK, voiceVars, channelVars
<1>12. CASE PlayEndMix
  <2>1. CallType
    BY <1>0, <1>12, BeginType DEF PlayEndMix, Ops, SweepOps
  <2> QED BY <2>1, <1>12
      DEF PlayEndMix, TypeInv, TypeOK, voiceVars, channelVars, Phases
<1> QED BY <1>1, <1>2, <1>3, <1>4, <1>5, <1>6, <1>7, <1>8, <1>9, <1>10, <1>11,
           <1>12

\* The loops over the voices.
LEMMA SweepType == TypeInv /\ (SweepVoice \/ SweepEnd) => TypeInv'
<1> SUFFICES ASSUME TypeInv, SweepVoice \/ SweepEnd PROVE TypeInv'
  OBVIOUS
<1>1. CASE SweepVoice
  <2>1. status' \in [V -> Status] /\ link' \in [V -> V]
    <3>1. at \in V
      <4>1. at \in Nat /\ at < upper /\ upper \in 0 .. MaxVoices
        BY <1>1 DEF SweepVoice, TypeInv, TypeOK
      <4> QED BY <4>1, ConstantsAssumption DEF V
    <3>2. CASE ~Matches(at)
      BY <1>1, <3>2 DEF SweepVoice, TypeInv, TypeOK
    <3>3. CASE Matches(at)
      <4> PICK s \in Outcomes(at) :
            /\ status' = [status EXCEPT ![at] = s]
            /\ link' = IF s = "FREE" THEN Unlink(link, at) ELSE link
        BY <1>1, <3>3 DEF SweepVoice
      <4>1. s \in Status
        BY <3>1 DEF Outcomes, Finished, Status, TypeInv, TypeOK
      <4> QED BY <3>1, <4>1, UnlinkType DEF TypeInv, TypeOK
    <3> QED BY <3>2, <3>3
  <2>2. TypeOK'
    BY <1>1, <2>1 DEF SweepVoice, TypeInv, TypeOK, channelVars
  <2>3. CallOK'
    BY <1>1 DEF SweepVoice, TypeInv, CallOK, SweepOps
  <2> QED BY <2>2, <2>3 DEF TypeInv
<1>2. CASE SweepEnd
  <2>1. upper' \in 0 .. MaxVoices
    <3>1. upper' \in 0 .. upper \/ upper' = upper
      BY <1>2 DEF SweepEnd, Trim
    <3> QED BY <3>1, ConstantsAssumption DEF TypeInv, TypeOK
  <2>2. head' \in [Keys -> Vids] /\ tail' \in [Keys -> Vids]
    BY <1>2, ClearedType DEF SweepEnd, TypeInv, TypeOK
  <2>3. Finish /\ UNCHANGED <<status, chan, key, vid, prox, link, voices,
                              sustain, sostenuto, mono, phase>>
    BY <1>2 DEF SweepEnd, voiceVars, channelVars
  <2> QED BY <2>1, <2>2, <2>3, FinishType DEF TypeInv, TypeOK
<1> QED BY <1>1, <1>2

\* The handlers that kill voices or reset the player.
LEMMA KillActionsType ==
  ASSUME TypeInv,
         \/ \E c \in Channels : AllSoundsOff(c) \/ ResetControllers(c)
         \/ SystemReset \/ Discard \/ Restart \/ PlayEndKill \/ PlayEndOver \/ PlayEndSkip
  PROVE  TypeInv'
<1>1. 0 \in Vids /\ "up" \in Pedal
  BY ConstantsAssumption DEF Vids, Pedal
<1>2. /\ \A c \in Channels : Kill({v \in Below(upper) : chan[v] = c}) \in [V -> Status]
      /\ Kill(Below(upper)) \in [V -> Status]
  BY KillType DEF TypeInv, Below
<1>3. ASSUME NEW c \in Channels, AllSoundsOff(c)
      PROVE  TypeInv'
  <2>1. head' \in [Keys -> Vids] /\ tail' \in [Keys -> Vids]
    BY <1>3, ClearedType DEF AllSoundsOff, TypeInv, TypeOK
  <2> QED BY <1>2, <1>3, <2>1
      DEF AllSoundsOff, TypeInv, TypeOK, CallOK, callVars, channelVars
<1>4. CASE SystemReset
  BY <1>1, <1>2, <1>4
  DEF SystemReset, KillAll, NoControllers, TypeInv, TypeOK, CallOK, callVars
<1>5. CASE Discard
  BY <1>1, <1>2, <1>5
  DEF Discard, KillAll, TypeInv, TypeOK, CallOK, callVars, channelVars
<1>6. ASSUME NEW c \in Channels, ResetControllers(c)
      PROVE  TypeInv'
  BY <1>1, <1>6
  DEF ResetControllers, TypeInv, TypeOK, CallOK, callVars, voiceVars
<1>7. CASE Restart
  <2>1. voices' \in 0 .. MaxVoices /\ upper' \in 0 .. MaxVoices /\ phase' \in Phases
    BY <1>7, ConstantsAssumption DEF Restart, TypeInv, TypeOK, Phases
  <2>2. /\ status' \in [V -> Status] /\ link' \in [V -> V]
        /\ head' \in [Keys -> Vids] /\ tail' \in [Keys -> Vids]
        /\ sustain' \in [Channels -> Pedal]
        /\ sostenuto' \in [Channels -> BOOLEAN] /\ mono' \in [Channels -> BOOLEAN]
    BY <1>1, <1>7 DEF Restart, NoControllers, Status
  <2>3. UNCHANGED <<chan, key, vid, prox, op, evCh, evKey, evVid, at, todo, list>>
        /\ op = "idle"
    BY <1>7 DEF Restart, callVars, Idle
  <2> QED BY <2>1, <2>2, <2>3 DEF TypeInv, TypeOK, CallOK
<1>8. CASE PlayEndKill
  BY <1>1, <1>2, <1>8
  DEF PlayEndKill, KillAll, TypeInv, TypeOK, CallOK, callVars, channelVars, Phases
<1>9. CASE PlayEndOver
  BY <1>9, ConstantsAssumption
  DEF PlayEndOver, TypeInv, TypeOK, CallOK, callVars, voiceVars, channelVars, Phases
<1>10. CASE PlayEndSkip
  BY <1>10
  DEF PlayEndSkip, TypeInv, TypeOK, CallOK, callVars, voiceVars, channelVars, Phases
<1> QED BY <1>3, <1>4, <1>5, <1>6, <1>7, <1>8, <1>9, <1>10

\* Changes of the polyphony.
LEMMA PolyphonyType ==
  ASSUME TypeInv,
         \/ VoiceIncrement \/ VoiceDecrement \/ ShedVoice \/ ShedDone
         \/ ConserveVoice \/ ConserveEnd
  PROVE  TypeInv'
<1>0. voices \in Nat /\ voices <= MaxVoices /\ upper \in Nat /\ upper <= MaxVoices
  BY ConstantsAssumption DEF TypeInv, TypeOK
<1>1. CASE VoiceIncrement
  <2>1. /\ status' \in [V -> Status] /\ link' \in [V -> V]
        /\ voices' \in 0 .. MaxVoices
    BY <1>0, <1>1, ConstantsAssumption
    DEF VoiceIncrement, TypeInv, TypeOK, V, Status
  <2>2. UNCHANGED <<chan, key, vid, prox, upper, head, tail, channelVars, phase,
                    callVars>> /\ op = "idle"
    BY <1>1 DEF VoiceIncrement, Idle
  <2> QED BY <2>1, <2>2 DEF TypeInv, TypeOK, CallOK, channelVars, callVars
<1>2. CASE VoiceDecrement
  <2> DEFINE k == voices - 1
             free == {v \in Below(k) : status[v] = "FREE"}
             quiet == {v \in Below(voices) : status[v] \in {"OFF", "SUSTAINED"}}
  <2>1. voices > 0 /\ op = "idle" /\ voices' = k
        /\ upper' \in {upper, k}
        /\ UNCHANGED <<head, tail, channelVars, phase, callVars>>
        /\ (GiveUp(k, free, quiet) \/ UNCHANGED voiceVars)
    BY <1>2 DEF VoiceDecrement, Idle
  <2>2. k \in V
    BY <1>0, <2>1, ConstantsAssumption DEF V
  <2>3. voices' \in 0 .. MaxVoices /\ upper' \in 0 .. MaxVoices
    BY <1>0, <2>1, ConstantsAssumption
  <2>4. /\ status' \in [V -> Status] /\ link' \in [V -> V]
        /\ chan' \in [V -> Channels \cup {None}]
        /\ key' \in [V -> Notes \cup {None}]
        /\ vid' \in [V -> Vids] /\ prox' \in [V -> BOOLEAN]
    <3>1. free \in SUBSET V /\ quiet \in SUBSET V
      BY DEF Below
    <3>2. CASE UNCHANGED voiceVars
      BY <3>2, VoiceVarsType DEF TypeInv
    <3>3. CASE GiveUp(k, free, quiet)
      BY <2>2, <3>1, <3>3, GiveUpType DEF TypeInv
    <3> QED BY <2>1, <3>2, <3>3
  <2> QED BY <2>1, <2>3, <2>4 DEF TypeInv, TypeOK, CallOK, channelVars, callVars
<1>3. CASE ShedVoice
  <2>1. status' \in [V -> Status] /\ link' \in [V -> V]
    BY <1>3, StealType DEF ShedVoice, TypeInv, TypeOK
  <2>2. todo' \in Nat /\ op = "shed"
    BY <1>3 DEF ShedVoice, TypeInv, TypeOK
  <2>3. UNCHANGED <<chan, key, vid, prox, upper, voices, head, tail, sustain,
                    sostenuto, mono, phase, op, evCh, evKey, evVid, at, list>>
    BY <1>3 DEF ShedVoice, channelVars
  <2> QED BY <2>1, <2>2, <2>3 DEF TypeInv, TypeOK, CallOK
<1>4. CASE ShedDone
  <2>1. todo' \in Nat /\ todo' <= voices /\ at' \in Nat
        /\ op = "shed" /\ op' = "conserve"
    BY <1>0, <1>4 DEF ShedDone
  <2>2. UNCHANGED <<status, chan, key, vid, prox, link, upper, voices, head,
                    tail, sustain, sostenuto, mono, phase, evCh, evKey, evVid,
                    list>>
    BY <1>4 DEF ShedDone, channelVars, voiceVars
  <2> QED BY <2>1, <2>2 DEF TypeInv, TypeOK, CallOK, Ops
<1>5. CASE ConserveVoice
  <2> DEFINE k == voices - 1
             free == {v \in Below(at) : status[v] = "FREE"}
             quiet == {v \in Below(voices) :
                         status[v] \in {"OFF", "SUSTAINED"} /\ ~Protected(v)}
  <2>1. op = "conserve" /\ todo > 0 /\ todo <= voices /\ todo \in Nat
    BY <1>5 DEF ConserveVoice, TypeInv, TypeOK, CallOK
  <2>2. UNCHANGED <<upper, head, tail, sustain, sostenuto, mono, phase, op,
                    evCh, evKey, evVid, at, list>>
    BY <1>5 DEF ConserveVoice, channelVars
  <2>3. \/ GiveUp(k, free, quiet) /\ voices' = k /\ todo' = todo - 1
        \/ todo' = 0 /\ UNCHANGED voiceVars /\ voices' = voices
    BY <1>5 DEF ConserveVoice
  <2>4. k \in V
    BY <1>0, <2>1, ConstantsAssumption DEF V
  <2>5. voices' \in 0 .. MaxVoices /\ todo' \in Nat /\ todo' <= voices'
    BY <1>0, <2>1, <2>3, ConstantsAssumption
  <2>6. /\ status' \in [V -> Status] /\ link' \in [V -> V]
        /\ chan' \in [V -> Channels \cup {None}]
        /\ key' \in [V -> Notes \cup {None}]
        /\ vid' \in [V -> Vids] /\ prox' \in [V -> BOOLEAN]
    <3>1. free \in SUBSET V /\ quiet \in SUBSET V
      BY DEF Below
    <3>2. CASE UNCHANGED voiceVars
      BY <3>2, VoiceVarsType DEF TypeInv
    <3>3. CASE GiveUp(k, free, quiet)
      BY <2>4, <3>1, <3>3, GiveUpType DEF TypeInv
    <3> QED BY <2>3, <3>2, <3>3
  <2> QED BY <2>1, <2>2, <2>5, <2>6 DEF TypeInv, TypeOK, CallOK
<1>6. CASE ConserveEnd
  <2>1. upper' \in 0 .. MaxVoices
    <3>1. upper' \in 0 .. (IF upper > voices THEN voices ELSE upper)
      BY <1>6 DEF ConserveEnd, Trim
    <3> QED BY <1>0, <3>1, ConstantsAssumption
  <2>2. Finish /\ UNCHANGED <<status, chan, key, vid, prox, link, voices, head,
                              tail, sustain, sostenuto, mono, phase>>
    BY <1>6 DEF ConserveEnd, voiceVars, channelVars
  <2> QED BY <2>1, <2>2, FinishType DEF TypeInv, TypeOK
<1> QED BY <1>1, <1>2, <1>3, <1>4, <1>5, <1>6

LEMMA StutterType == TypeInv /\ UNCHANGED vars => TypeInv'
  BY DEF TypeInv, TypeOK, CallOK, vars, voiceVars, channelVars, callVars

LEMMA NextType == TypeInv /\ [Next]_vars => TypeInv'
<1> SUFFICES ASSUME TypeInv, [Next]_vars PROVE TypeInv'
  OBVIOUS
<1>1. CASE \/ \E c \in Channels, n \in Notes : NoteOn(c, n) \/ NoteOff(c, n)
           \/ \E c \in Channels : \/ AllNotesOff(c)
                                  \/ \E a \in Pedal : Sustain(c, a)
                                  \/ \E on \in BOOLEAN : Sostenuto(c, on)
           \/ \E c \in Channels \cup {None} : Adjust(c)
           \/ Compute \/ AutoReduce \/ PlayEnd \/ PlayEndFinish \/ PlayEndFade
           \/ PlayEndMix
  BY <1>1, BeginActionsType
<1>2. CASE \/ \E c \in Channels : AllSoundsOff(c) \/ ResetControllers(c)
           \/ SystemReset \/ Discard \/ Restart \/ PlayEndKill \/ PlayEndOver
           \/ PlayEndSkip
  BY <1>2, KillActionsType
<1>3. CASE \/ VoiceIncrement \/ VoiceDecrement \/ ShedVoice \/ ShedDone
           \/ ConserveVoice \/ ConserveEnd
  BY <1>3, PolyphonyType
<1>4. CASE SelectSample \/ StartSample \/ SweepVoice \/ SweepEnd
  BY <1>4, SelectSampleType, StartSampleType, SweepType
<1>5. CASE UNCHANGED vars
  BY <1>5, StutterType
<1> QED BY <1>1, <1>2, <1>3, <1>4, <1>5 DEF Next

\* Every variable keeps its type: the voice table, the counters of a key and
\* the handler in progress (timidity/playmidi.h, struct Voice).
THEOREM TypeCorrect == Spec => []TypeOK
<1>1. Init => TypeInv
  BY InitType
<1>2. TypeInv /\ [Next]_vars => TypeInv'
  BY NextType
<1>3. TypeInv => TypeOK
  BY DEF TypeInv
<1> QED BY <1>1, <1>2, <1>3, PTL DEF Spec

-------------------------------------------------------------------------------
(***************************************************************************)
(* upper_voices bounds the loops over the voices, whatever the order of    *)
(* handlers, steals, changes of the polyphony and restarts: the theorem    *)
(* Reach.  The invariant that makes it inductive says how far each handler *)
(* in progress has got.                                                    *)
(***************************************************************************)

\* The voices a loop must reach.
Sounding(v) == v \in V /\ v < voices /\ status[v] # "FREE"

\* A slot found for a note and not started is below upper_voices, so that a
\* start_note that revives it needs no change of upper_voices.
PendingBelow ==
  \A i \in 1 .. Len(list) : list[i] < voices => list[i] < upper

\* midi_play_end calls finish_note and compute_data only, and compute_data may
\* reduce the polyphony.
PlayEndOps ==
  /\ phase # "play" => op \in {"idle", "compute", "finish_all", "shed", "conserve"}
  /\ phase = "killed" => op = "idle"
  /\ phase = "dying" => op # "finish_all"

\* Once midi_play_end has killed every voice, the sweep that mixes them out
\* leaves none behind.
DyingSwept ==
  /\ phase = "killed" => \A v \in V : Sounding(v) => status[v] = "DIE"
  /\ phase = "dying" =>
       \A v \in V : Sounding(v) => op = "compute" /\ at <= v /\ status[v] = "DIE"

\* voice_decrement_conservative never lowers the polyphony below finalnv.
Conserving == op = "conserve" => at + todo <= voices

UpperInv ==
  /\ TypeInv
  /\ SoundingBelowUpper
  /\ PendingBelow
  /\ PlayEndOps
  /\ DyingSwept
  /\ Conserving

-------------------------------------------------------------------------------
LEMMA InitUpper == Init => UpperInv
<1> SUFFICES ASSUME Init PROVE UpperInv
  OBVIOUS
<1>1. TypeInv
  BY InitType
<1>2. voices \in Nat
  BY ConstantsAssumption DEF Init
<1> QED BY <1>1, <1>2
    DEF Init, UpperInv, SoundingBelowUpper, PendingBelow, PlayEndOps, DyingSwept,
        Conserving, V

\* A step that neither starts nor finds a voice, and leaves upper_voices and
\* the polyphony alone, need only be looked at for midi_play_end.
LEMMA FrameUpper ==
  ASSUME UpperInv, TypeInv',
         upper' = upper, voices' = voices, list' = <<>>,
         op # "conserve", op' # "conserve",
         \A v \in V : status[v] = "FREE" => status'[v] = "FREE"
  PROVE  SoundingBelowUpper' /\ PendingBelow' /\ Conserving'
  BY DEF UpperInv, SoundingBelowUpper, PendingBelow, Conserving

LEMMA BeginUpper ==
  ASSUME UpperInv, TypeInv',
         \/ \E c \in Channels, n \in Notes : NoteOn(c, n) \/ NoteOff(c, n)
         \/ \E c \in Channels : \/ AllNotesOff(c)
                                \/ \E a \in Pedal : Sustain(c, a)
                                \/ \E on \in BOOLEAN : Sostenuto(c, on)
         \/ \E c \in Channels \cup {None} : Adjust(c)
         \/ Compute \/ AutoReduce \/ PlayEnd \/ PlayEndFinish \/ PlayEndFade
         \/ PlayEndMix
  PROVE  UpperInv'
<1>0. /\ op = "idle" /\ UNCHANGED <<status, upper, voices>>
      /\ \/ op' # "conserve" /\ list' = <<>>
         \/ UNCHANGED callVars
  <2>1. CASE \E c \in Channels, n \in Notes : NoteOn(c, n) \/ NoteOff(c, n)
    BY <2>1 DEF NoteOn, NoteOff, Begin, Idle, voiceVars
  <2>2. CASE \E c \in Channels : \/ AllNotesOff(c)
                                 \/ \E a \in Pedal : Sustain(c, a)
                                 \/ \E on \in BOOLEAN : Sostenuto(c, on)
    BY <2>2 DEF AllNotesOff, Sustain, Sostenuto, Begin, Idle, voiceVars
  <2>3. CASE (\E c \in Channels \cup {None} : Adjust(c)) \/ Compute \/ AutoReduce
    BY <2>3 DEF Adjust, Compute, AutoReduce, Begin, Idle, voiceVars
  <2>4. CASE PlayEnd \/ PlayEndFinish \/ PlayEndFade \/ PlayEndMix
    BY <2>4 DEF PlayEnd, PlayEndFinish, PlayEndFade, PlayEndMix, Begin, Idle,
                voiceVars
  <2> QED BY <2>1, <2>2, <2>3, <2>4
<1>1. /\ op = "idle" /\ op' # "conserve" /\ list' = <<>>
      /\ UNCHANGED <<status, upper, voices>>
  <2>1. list = <<>>
    BY <1>0 DEF UpperInv, TypeInv, CallOK
  <2> QED BY <1>0, <2>1 DEF Begin, callVars
<1>2. SoundingBelowUpper' /\ PendingBelow' /\ Conserving'
  BY <1>1, FrameUpper
<1>3. CASE PlayEndMix
  <2>1. phase = "killed" /\ phase' = "dying" /\ op' = "compute" /\ at' = 0
    BY <1>3 DEF PlayEndMix, Begin
  <2>2. DyingSwept'
    BY <1>1, <2>1 DEF UpperInv, DyingSwept, Sounding, V
  <2> QED BY <1>2, <2>1, <2>2 DEF UpperInv, PlayEndOps
<1>4. CASE AutoReduce
  <2>1. phase' = phase /\ phase # "killed" /\ op' = "shed"
    BY <1>4 DEF AutoReduce, Begin
  <2>2. DyingSwept'
    BY <1>1, <2>1 DEF UpperInv, DyingSwept, Sounding
  <2> QED BY <1>2, <2>1, <2>2 DEF UpperInv, PlayEndOps
<1>5. CASE ~PlayEndMix /\ ~AutoReduce
  <2>1. /\ phase' \notin {"killed", "dying"}
        /\ phase' # "play" => op' \in {"idle", "compute", "finish_all"}
    BY <1>5 DEF NoteOn, NoteOff, AllNotesOff, Sustain, Sostenuto, Adjust, Compute,
                PlayEnd, PlayEndFinish, PlayEndFade, Begin, Idle, callVars
  <2> QED BY <1>2, <2>1 DEF UpperInv, PlayEndOps, DyingSwept
<1> QED BY <1>3, <1>4, <1>5

LEMMA SelectUpper == UpperInv /\ TypeInv' /\ SelectSample => UpperInv'
<1> SUFFICES ASSUME UpperInv, TypeInv', SelectSample PROVE UpperInv'
  OBVIOUS
<1> DEFINE free == {v \in Below(upper) : status[v] = "FREE"}
           killed == Killed(evCh, evKey)
           st == [v \in V |-> IF v \in killed THEN "DIE" ELSE status[v]]
<1>1. /\ op = "select" /\ phase = "play"
      /\ upper \in Nat /\ voices \in Nat /\ upper <= voices
      /\ list \in Seq(V) /\ status \in [V -> Status] /\ voices <= MaxVoices
  BY ConstantsAssumption DEF SelectSample, UpperInv, TypeInv, TypeOK, PlayEndOps,
                             SoundingBelowUpper
<1>2. \A v \in V : st[v] # "FREE" => status[v] # "FREE"
  BY <1>1 DEF Killed
\* The slot taken, and what became of the others.
<1>3. \E v \in V, s \in [V -> Status], lk \in [V -> V] :
        /\ Take(v, s, lk)
        /\ \A w \in V : s[w] # "FREE" => status[w] # "FREE"
        /\ upper' >= upper /\ upper' <= voices /\ upper' \in Nat
        /\ v < voices => v < upper'
  <2>1. st \in [V -> Status] /\ link \in [V -> V]
    BY <1>1 DEF UpperInv, TypeInv, TypeOK, Status
  <2>2. CASE \E v \in V : IsFirst(v, free) /\ Take(v, st, link) /\ upper' = upper
    BY <1>1, <1>2, <2>1, <2>2 DEF IsFirst, Below
  <2>3. CASE upper < voices /\ Take(upper, st, link) /\ upper' = upper + 1
    <3>1. upper \in V
      BY <1>1, <2>3, ConstantsAssumption DEF V
    <3> QED BY <1>1, <1>2, <2>1, <2>3, <3>1
  <2>4. CASE /\ free = {} /\ upper >= voices
             /\ \E v \in Victims(st) : \E dead \in Casualties(st, v) :
                  Take(v, AfterSteal(st, v, dead), LinkAfterSteal(v, dead))
             /\ upper' = upper
    <3> PICK v \in Victims(st) : \E dead \in Casualties(st, v) :
          Take(v, AfterSteal(st, v, dead), LinkAfterSteal(v, dead))
      BY <2>4
    <3> PICK dead \in Casualties(st, v) :
          Take(v, AfterSteal(st, v, dead), LinkAfterSteal(v, dead))
      OBVIOUS
    <3>1. /\ v \in V
          /\ AfterSteal(st, v, dead) \in [V -> Status]
          /\ LinkAfterSteal(v, dead) \in [V -> V]
      BY <2>1, StealType DEF UpperInv, TypeInv
    <3>2. \A w \in V : AfterSteal(st, v, dead)[w] # "FREE" => status[w] # "FREE"
      BY <1>2, <2>1 DEF AfterSteal
    <3>3. v < voices => v < upper'
      BY <1>1, <2>4, <3>1 DEF V
    <3> QED BY <1>1, <2>4, <3>1, <3>2, <3>3
  <2> QED BY <2>2, <2>3, <2>4 DEF SelectSample
<1>4. PICK v \in V, s \in [V -> Status], lk \in [V -> V] :
        /\ Take(v, s, lk)
        /\ \A w \in V : s[w] # "FREE" => status[w] # "FREE"
        /\ upper' >= upper /\ upper' <= voices /\ upper' \in Nat
        /\ v < voices => v < upper'
  BY <1>3
<1>5. /\ status' = [s EXCEPT ![v] = "ON"] /\ list' = Append(list, v)
      /\ op' \in {"select", "start"}
  BY <1>1, <1>4 DEF Take
<1>6. voices' = voices /\ phase' = phase
  BY DEF SelectSample
<1>7. SoundingBelowUpper'
  <2> SUFFICES ASSUME NEW w \in V, w < voices, status'[w] # "FREE"
               PROVE  w < upper'
    BY <1>4, <1>5, <1>6 DEF SoundingBelowUpper
  <2>1. CASE w = v
    BY <2>1, <1>4
  <2>2. CASE w # v
    <3>1. w < upper
      BY <2>2, <1>4, <1>5 DEF UpperInv, SoundingBelowUpper
    <3> QED BY <3>1, <1>1, <1>4 DEF V
  <2> QED BY <2>1, <2>2
<1>8. PendingBelow'
  <2> SUFFICES ASSUME NEW i \in 1 .. Len(list'), list'[i] < voices
               PROVE  list'[i] < upper'
    BY <1>6 DEF PendingBelow
  <2>1. CASE i <= Len(list)
    <3>1. list'[i] = list[i] /\ i \in 1 .. Len(list) /\ list[i] \in V
      BY <2>1, <1>1, <1>5
    <3>2. list[i] < upper
      BY <3>1 DEF UpperInv, PendingBelow
    <3> QED BY <3>1, <3>2, <1>1, <1>4 DEF V
  <2>2. CASE i > Len(list)
    <3>1. list'[i] = v
      BY <2>2, <1>1, <1>5
    <3> QED BY <3>1, <1>4
  <2> QED BY <2>1, <2>2, <1>1
<1> QED BY <1>1, <1>5, <1>6, <1>7, <1>8
    DEF UpperInv, PlayEndOps, DyingSwept, Conserving

LEMMA StartUpper == UpperInv /\ TypeInv' /\ StartSample => UpperInv'
<1> SUFFICES ASSUME UpperInv, TypeInv', StartSample PROVE UpperInv'
  OBVIOUS
<1> DEFINE v == Head(list)
<1>1. /\ op = "start" /\ phase = "play"
      /\ upper \in Nat /\ voices \in Nat /\ upper <= voices /\ voices <= MaxVoices
      /\ list \in Seq(V) /\ Len(list) > 0 /\ status \in [V -> Status]
  BY ConstantsAssumption DEF StartSample, UpperInv, TypeInv, TypeOK, CallOK,
                             PlayEndOps, SoundingBelowUpper
<1>2. v \in V /\ (v < voices => v < upper)
  BY <1>1 DEF UpperInv, PendingBelow
<1>3. \E w \in V, s \in [V -> Status], lk \in [V -> V] :
        /\ Double(v, w, s, lk)
        /\ \A x \in V : x # v /\ s[x] # "FREE" => status[x] # "FREE"
        /\ upper' >= upper /\ upper' <= voices /\ upper' \in Nat
        /\ w < voices => w < upper'
  <2> PICK born \in {"ON"} \cup (IF InstantDeath THEN {"FREE"} ELSE {}) :
       LET st == [status EXCEPT ![v] = born]
           lk == [link EXCEPT ![v] = v]
           free == {w \in Below(voices) : st[w] = "FREE"}
           quiet == {w \in Below(voices) :
                       st[w] \in {"OFF", "SUSTAINED"} /\ ~Protected(w)}
       IN \/ ~SurroundChorus /\ Double(v, v, st, lk) /\ upper' = upper
          \/ /\ SurroundChorus
             /\ \E w \in V : /\ IsFirst(w, free)
                             /\ Double(v, w, st, lk)
                             /\ upper' = Raised(w)
          \/ /\ SurroundChorus /\ free = {}
             /\ \E w \in quiet : Double(v, w, st, Unlink(lk, w))
             /\ upper' = voices
          \/ /\ SurroundChorus /\ free = {} /\ quiet = {}
             /\ Double(v, v, st, lk)
             /\ upper' = voices
    BY DEF StartSample
  <2> DEFINE st == [status EXCEPT ![v] = born]
             lk == [link EXCEPT ![v] = v]
  <2>1. /\ st \in [V -> Status] /\ lk \in [V -> V]
        /\ \A x \in V : x # v => st[x] = status[x]
    BY <1>1, <1>2 DEF UpperInv, TypeInv, TypeOK, Status
  <2>2. CASE Double(v, v, st, lk) /\ upper' \in {upper, voices}
    <3>1. /\ upper' >= upper /\ upper' <= voices /\ upper' \in Nat
          /\ v < voices => v < upper'
      BY <2>2, <1>1, <1>2 DEF V
    <3> QED BY <2>1, <2>2, <3>1, <1>2
  <2>3. CASE \E w \in Below(voices) :
               /\ Double(v, w, st, lk)
               /\ upper' = Raised(w)
    <3> PICK w \in Below(voices) : /\ Double(v, w, st, lk)
                                   /\ upper' = Raised(w)
      BY <2>3
    <3>1. w \in V /\ w < voices /\ w \in Nat
      BY DEF Below, V
    <3>2. upper' >= upper /\ upper' <= voices /\ upper' \in Nat /\ w < upper'
      BY <3>1, <1>1 DEF Raised
    <3> QED BY <3>1, <3>2, <2>1
  <2>4. CASE /\ \E w \in Below(voices) : Double(v, w, st, Unlink(lk, w))
             /\ upper' = voices
    <3> PICK w \in Below(voices) : Double(v, w, st, Unlink(lk, w))
      BY <2>4
    <3>1. w \in V /\ w < voices
      BY DEF Below
    <3>2. Unlink(lk, w) \in [V -> V]
      BY <2>1, <3>1, UnlinkType
    <3>3. upper' >= upper /\ upper' <= voices /\ upper' \in Nat /\ w < upper'
      BY <2>4, <3>1, <1>1
    <3> HIDE DEF st, lk
    <3> QED BY <2>1, <3>1, <3>2, <3>3
  <2> QED BY <2>2, <2>3, <2>4 DEF IsFirst
<1>4. PICK w \in V, s \in [V -> Status], lk \in [V -> V] :
        /\ Double(v, w, s, lk)
        /\ \A x \in V : x # v /\ s[x] # "FREE" => status[x] # "FREE"
        /\ upper' >= upper /\ upper' <= voices /\ upper' \in Nat
        /\ w < voices => w < upper'
  BY <1>3
<1>5. /\ UNCHANGED <<voices, phase>>
      /\ op' \in {"start", "idle"}
      /\ list' \in {<<>>, Tail(list)}
  BY <1>1 DEF StartSample, Finish
<1>6. SoundingBelowUpper'
  <2> SUFFICES ASSUME NEW x \in V, x < voices, status'[x] # "FREE"
               PROVE  x < upper'
    BY <1>4, <1>5 DEF SoundingBelowUpper
  <2>1. CASE x = w
    BY <2>1, <1>4
  <2>2. CASE x = v
    BY <2>2, <1>1, <1>2, <1>4 DEF V
  <2>3. CASE x # w /\ x # v
    <3>1. status'[x] = s[x]
      BY <2>3, <1>4 DEF Double
    <3>2. x < upper
      BY <2>3, <3>1, <1>4 DEF UpperInv, SoundingBelowUpper
    <3> QED BY <3>2, <1>1, <1>4 DEF V
  <2> QED BY <2>1, <2>2, <2>3
<1>7. PendingBelow'
  <2> SUFFICES ASSUME NEW i \in 1 .. Len(list'), list'[i] < voices
               PROVE  list'[i] < upper'
    BY <1>5 DEF PendingBelow
  <2>1. CASE list' = <<>>
    BY <2>1
  <2>2. CASE list' = Tail(list)
    <3>1. i + 1 \in 1 .. Len(list) /\ list'[i] = list[i + 1] /\ list[i + 1] \in V
      BY <2>2, <1>1
    <3>2. list[i + 1] < upper
      BY <3>1 DEF UpperInv, PendingBelow
    <3> QED BY <3>1, <3>2, <1>1, <1>4 DEF V
  <2> QED BY <2>1, <2>2, <1>5
<1> QED BY <1>1, <1>5, <1>6, <1>7
    DEF UpperInv, PlayEndOps, DyingSwept, Conserving

LEMMA SweepUpper == UpperInv /\ TypeInv' /\ (SweepVoice \/ SweepEnd) => UpperInv'
<1> SUFFICES ASSUME UpperInv, TypeInv', SweepVoice \/ SweepEnd PROVE UpperInv'
  OBVIOUS
<1>0. /\ op \in SweepOps /\ phase' = phase /\ phase # "killed"
      /\ list' = <<>> /\ op' \in {op, "idle"} /\ voices' = voices /\ at \in Nat
      /\ voices \in Nat /\ upper \in Nat /\ upper <= voices
  BY ConstantsAssumption
  DEF SweepVoice, SweepEnd, Finish, UpperInv, TypeInv, TypeOK, CallOK, SweepOps,
      PlayEndOps, SoundingBelowUpper
<1>1. CASE SweepVoice
  <2>1. op' = op /\ upper' = upper /\ at' = at + 1 /\ at < upper
    BY <1>1 DEF SweepVoice
  <2>2. at \in V
    <3>1. upper <= MaxVoices
      BY DEF UpperInv, TypeInv, TypeOK
    <3> QED BY <2>1, <3>1, <1>0, ConstantsAssumption DEF V
  <2>3. /\ \A v \in V : status[v] = "FREE" => status'[v] = "FREE"
        /\ \A v \in V : v # at => status'[v] = status[v]
        /\ op = "compute" /\ status[at] = "DIE" => status'[at] = "FREE"
    BY <1>1, <2>2 DEF SweepVoice, Matches, Outcomes, UpperInv, TypeInv, TypeOK
  <2>4. SoundingBelowUpper' /\ PendingBelow' /\ Conserving'
    BY <1>0, <2>1, <2>3, FrameUpper DEF SweepOps
  <2>5. DyingSwept'
    <3> SUFFICES ASSUME phase = "dying", NEW v \in V, v < voices,
                        status'[v] # "FREE"
                 PROVE  op = "compute" /\ at + 1 <= v /\ status'[v] = "DIE"
      BY <1>0, <2>1 DEF DyingSwept, Sounding
    <3>1. op = "compute" /\ at <= v /\ status[v] = "DIE"
      BY <2>3 DEF UpperInv, DyingSwept, Sounding
    <3>2. v # at
      BY <2>3, <3>1
    <3> QED BY <1>0, <2>3, <3>1, <3>2 DEF V
  <2> QED BY <1>0, <2>1, <2>4, <2>5 DEF UpperInv, PlayEndOps
<1>2. CASE SweepEnd
  <2>1. op' = "idle" /\ status' = status /\ at >= upper
    BY <1>2 DEF SweepEnd, Finish, voiceVars
  <2>2. /\ upper' \in Nat /\ upper' <= upper
        /\ \A v \in V : v < upper /\ status[v] # "FREE" => v < upper'
    <3>1. CASE op = "compute"
      <4>1. Trim(status, upper)
        BY <1>2, <3>1 DEF SweepEnd
      <4> QED BY <4>1, <1>0 DEF Trim, V
    <3>2. CASE op # "compute"
      BY <1>0, <1>2, <3>2 DEF SweepEnd
    <3> QED BY <3>1, <3>2
  <2>3. SoundingBelowUpper'
    BY <1>0, <2>1, <2>2 DEF UpperInv, SoundingBelowUpper
  <2>4. DyingSwept'
    <3> SUFFICES ASSUME phase = "dying", NEW v \in V, v < voices, status[v] # "FREE"
                 PROVE  FALSE
      BY <1>0, <2>1 DEF DyingSwept, Sounding
    <3>1. at <= v /\ v < upper
      BY <1>0 DEF UpperInv, DyingSwept, SoundingBelowUpper, Sounding
    <3> QED BY <1>0, <2>1, <3>1 DEF V
  <2> QED BY <1>0, <2>1, <2>3, <2>4
      DEF UpperInv, PlayEndOps, PendingBelow, Conserving
<1> QED BY <1>1, <1>2

LEMMA KillUpper ==
  ASSUME UpperInv, TypeInv',
         \/ \E c \in Channels : AllSoundsOff(c) \/ ResetControllers(c)
         \/ SystemReset \/ Discard \/ Restart \/ PlayEndKill \/ PlayEndOver
         \/ PlayEndSkip
  PROVE  UpperInv'
<1>a. op = "idle" /\ UNCHANGED callVars
  BY DEF AllSoundsOff, ResetControllers, SystemReset, Discard, Restart,
         PlayEndKill, PlayEndOver, PlayEndSkip, Idle
<1>0. /\ voices \in Nat /\ upper \in Nat /\ status \in [V -> Status]
      /\ op = "idle" /\ op' = "idle" /\ list' = <<>>
      /\ upper <= voices
  BY <1>a, ConstantsAssumption
  DEF UpperInv, TypeInv, TypeOK, CallOK, SoundingBelowUpper, callVars
<1>1. \A S \in SUBSET V : \A v \in V :
        (status[v] = "FREE" <=> Kill(S)[v] = "FREE")
  BY DEF Kill
<1>2. CASE \/ \E c \in Channels : AllSoundsOff(c) \/ ResetControllers(c)
           \/ SystemReset \/ Discard \/ PlayEndSkip
  <2>1. /\ upper' = upper /\ voices' = voices
        /\ phase' \notin {"killed", "dying"}
        /\ \A v \in V : status[v] = "FREE" => status'[v] = "FREE"
    <3>1. upper' = upper /\ voices' = voices /\ phase' \notin {"killed", "dying"}
      BY <1>2 DEF AllSoundsOff, ResetControllers, SystemReset, Discard,
                  PlayEndSkip
    <3>2. \/ status' = status
          \/ \E S \in SUBSET V : status' = Kill(S)
      BY <1>2 DEF AllSoundsOff, ResetControllers, SystemReset, Discard,
                  PlayEndSkip, KillAll, Below, voiceVars
    <3> QED BY <1>1, <3>1, <3>2
  <2>2. SoundingBelowUpper' /\ PendingBelow' /\ Conserving'
    BY <1>0, <2>1, FrameUpper
  <2> QED BY <1>0, <2>1, <2>2 DEF UpperInv, PlayEndOps, DyingSwept
<1>3. CASE Restart
  <2>1. /\ upper' = 0 /\ voices' \in 0 .. voices
        /\ \A v \in V : status'[v] = "FREE"
    BY <1>0, <1>3 DEF Restart
  <2> QED BY <1>0, <2>1
      DEF UpperInv, SoundingBelowUpper, PendingBelow, PlayEndOps, DyingSwept,
          Conserving, Sounding
<1>4. CASE PlayEndKill
  <2>1. /\ upper' = upper /\ voices' = voices
        /\ phase' = "killed" /\ status' = Kill(Below(upper))
    BY <1>4 DEF PlayEndKill, KillAll
  <2>2. SoundingBelowUpper' /\ PendingBelow' /\ Conserving'
    BY <1>0, <1>1, <2>1, FrameUpper DEF Below
  <2>3. DyingSwept'
    <3> SUFFICES ASSUME NEW v \in V, v < voices, status'[v] # "FREE"
                 PROVE  status'[v] = "DIE"
      BY <2>1 DEF DyingSwept, Sounding
    <3>1. status[v] # "FREE" /\ v < upper
      BY <1>0, <1>1, <2>1 DEF UpperInv, SoundingBelowUpper, Below
    <3> QED BY <2>1, <3>1 DEF Kill, Below, V
  <2> QED BY <1>0, <2>1, <2>2, <2>3 DEF UpperInv, PlayEndOps
<1>5. CASE PlayEndOver
  <2>1. /\ op' = "idle" /\ upper' = 0 /\ phase = "dying" /\ phase' = "over"
        /\ voices' = voices /\ status' = status
    BY <1>0, <1>5 DEF PlayEndOver, Idle, callVars, voiceVars
  <2>2. \A v \in V : v < voices => status[v] = "FREE"
    BY <1>0, <2>1 DEF UpperInv, DyingSwept, Sounding
  <2> QED BY <1>0, <2>1, <2>2
      DEF UpperInv, SoundingBelowUpper, PendingBelow, PlayEndOps, DyingSwept,
          Conserving
<1> QED BY <1>2, <1>3, <1>4, <1>5

\* Giving up slot k leaves every sounding voice below it where a loop finds
\* it: the slot the voice moves to is below k, or is k.
LEMMA GiveUpUpper ==
  ASSUME UpperInv, NEW k \in V, k + 1 = voices,
         NEW free \in SUBSET V, \A j \in free : j < k,
         NEW quiet \in SUBSET V, \A j \in quiet : j < voices /\ status[j] # "FREE",
         GiveUp(k, free, quiet)
  PROVE  \A v \in V : v < k /\ status'[v] # "FREE" => v < upper
<1>0. voices \in Nat /\ upper \in Nat /\ status \in [V -> Status] /\ k \in Nat
  BY ConstantsAssumption DEF UpperInv, TypeInv, TypeOK, V
<1>1. \A v \in V : v <= k /\ status[v] # "FREE" => v < upper
  BY <1>0 DEF UpperInv, SoundingBelowUpper, V
<1>2. CASE status[k] = "FREE" /\ UNCHANGED voiceVars
  BY <1>0, <1>1, <1>2 DEF voiceVars, V
<1>3. CASE /\ status[k] # "FREE"
           /\ \E j \in V : IsFirst(j, free) /\ Move(k, j, status, link)
  <2> PICK j \in V : IsFirst(j, free) /\ Move(k, j, status, link)
    BY <1>3
  <2>1. j < k /\ k < upper /\ status' = [status EXCEPT ![j] = status[k]]
    BY <1>0, <1>1, <1>3 DEF IsFirst, Move
  <2> QED BY <1>0, <1>1, <2>1 DEF V
<1>4. CASE \E j \in quiet :
             Move(k, j, [status EXCEPT ![j] = "FREE"], Unlink(link, j))
  <2> PICK j \in quiet :
             Move(k, j, [status EXCEPT ![j] = "FREE"], Unlink(link, j))
    BY <1>4
  <2>1. j \in V /\ j <= k /\ status[j] # "FREE"
    BY <1>0 DEF V
  <2>2. \A v \in V : v # j => status'[v] = status[v]
    BY <1>0 DEF Move
  <2> QED BY <1>0, <1>1, <2>1, <2>2 DEF V
<1> QED BY <1>2, <1>3, <1>4 DEF GiveUp

\* A voice that sounds below slot k once it is given up was sounding, there or
\* in the slot it left.
LEMMA GiveUpKeeps ==
  ASSUME UpperInv, NEW k \in V, k + 1 = voices,
         NEW free \in SUBSET V, NEW quiet \in SUBSET V,
         GiveUp(k, free, quiet)
  PROVE  \A v \in V : v < k /\ status'[v] # "FREE" =>
           \E w \in V : Sounding(w) /\ status'[v] = status[w]
<1>0. /\ voices \in Nat /\ k \in Nat /\ k < voices
      /\ status \in [V -> Status] /\ link \in [V -> V]
  BY ConstantsAssumption DEF UpperInv, TypeInv, TypeOK, V
<1>1. CASE UNCHANGED voiceVars
  BY <1>0, <1>1 DEF Sounding, voiceVars, V
<1>2. CASE /\ status[k] # "FREE"
           /\ \E j \in V, s \in [V -> Status], lk \in [V -> V] :
                /\ Move(k, j, s, lk)
                /\ \A v \in V : v # j => s[v] = status[v]
                /\ s[k] \in {status[k], "FREE"}
  <2> PICK j \in V, s \in [V -> Status], lk \in [V -> V] :
        /\ Move(k, j, s, lk)
        /\ \A v \in V : v # j => s[v] = status[v]
        /\ s[k] \in {status[k], "FREE"}
    BY <1>2
  <2>1. /\ status'[j] \in {status[k], "FREE"}
        /\ \A v \in V : v # j => status'[v] = status[v]
    BY DEF Move
  <2> QED BY <1>0, <1>2, <2>1 DEF Sounding, V
<1>3. CASE status[k] # "FREE" /\ \E j \in V : Move(k, j, status, link)
  BY <1>0, <1>2, <1>3
<1>4. CASE /\ status[k] # "FREE"
           /\ \E j \in quiet :
                Move(k, j, [status EXCEPT ![j] = "FREE"], Unlink(link, j))
  <2> PICK j \in quiet :
        Move(k, j, [status EXCEPT ![j] = "FREE"], Unlink(link, j))
    BY <1>4
  <2> DEFINE s == [status EXCEPT ![j] = "FREE"]
  <2>1. /\ s \in [V -> Status] /\ s[k] \in {status[k], "FREE"}
        /\ \A v \in V : v # j => s[v] = status[v]
    BY <1>0 DEF Status
  <2>2. /\ Move(k, j, s, Unlink(link, j)) /\ j \in V /\ status[k] # "FREE"
        /\ Unlink(link, j) \in [V -> V]
    BY <1>0, <1>4, UnlinkType
  <2> HIDE DEF s
  <2> QED BY <1>2, <2>1, <2>2
<1> QED BY <1>1, <1>3, <1>4 DEF GiveUp

LEMMA PolyphonyUpper ==
  ASSUME UpperInv, TypeInv',
         \/ VoiceIncrement \/ VoiceDecrement \/ ShedVoice \/ ShedDone
         \/ ConserveVoice \/ ConserveEnd
  PROVE  UpperInv'
<1>0. /\ voices \in Nat /\ upper \in Nat /\ status \in [V -> Status]
      /\ voices <= MaxVoices /\ at \in Nat /\ todo \in Nat
  BY ConstantsAssumption DEF UpperInv, TypeInv, TypeOK
<1>1. CASE VoiceIncrement
  <2>1. /\ op = "idle" /\ op' = "idle" /\ phase' = phase /\ at' = at
        /\ list = <<>> /\ list' = <<>> /\ upper' = upper /\ voices' = voices + 1
        /\ status' = [status EXCEPT ![voices] = "FREE"]
    BY <1>1 DEF VoiceIncrement, Idle, callVars, UpperInv, TypeInv, CallOK
  <2>2. SoundingBelowUpper'
    <3>1. upper <= voices
      BY <2>1 DEF UpperInv, SoundingBelowUpper
    <3>2. ASSUME NEW v \in V, v < voices + 1, status'[v] # "FREE"
          PROVE  v < upper
      <4>1. v # voices /\ status[v] # "FREE"
        BY <1>0, <2>1, <3>2
      <4> QED BY <1>0, <3>2, <4>1 DEF UpperInv, SoundingBelowUpper, V
    <3> QED BY <1>0, <2>1, <3>1, <3>2 DEF SoundingBelowUpper
  <2>3. \A v \in V : v < voices' /\ status'[v] # "FREE" =>
          Sounding(v) /\ status'[v] = status[v]
    BY <1>0, <2>1 DEF Sounding, V
  <2>4. DyingSwept'
    BY <2>1, <2>3 DEF UpperInv, DyingSwept, Sounding
  <2> QED BY <2>1, <2>2, <2>4
      DEF UpperInv, PendingBelow, PlayEndOps, Conserving
<1>2. CASE VoiceDecrement
  <2> DEFINE k == voices - 1
             free == {v \in Below(k) : status[v] = "FREE"}
             quiet == {v \in Below(voices) : status[v] \in {"OFF", "SUSTAINED"}}
  <2>1. /\ op = "idle" /\ op' = "idle" /\ phase' = phase /\ list' = <<>>
    BY <1>2 DEF VoiceDecrement, Idle, callVars, UpperInv, TypeInv, CallOK
  <2>2. /\ voices > 0 /\ voices' = k
        /\ upper' = IF upper > k THEN k ELSE upper
        /\ (GiveUp(k, free, quiet) \/ UNCHANGED voiceVars)
    BY <1>2 DEF VoiceDecrement
  <2>3. k \in V /\ k \in Nat /\ k + 1 = voices
    BY <1>0, <2>2, ConstantsAssumption DEF V
  <2>4. \A v \in V : v < k /\ status'[v] # "FREE" => v < upper
    <3>1. /\ free \in SUBSET V /\ \A j \in free : j < k
          /\ quiet \in SUBSET V /\ \A j \in quiet : j < voices /\ status[j] # "FREE"
      BY DEF Below
    <3>2. CASE GiveUp(k, free, quiet)
      <4> HIDE DEF k, free, quiet
      <4> QED BY <2>3, <3>1, <3>2, GiveUpUpper
    <3>3. CASE UNCHANGED voiceVars
      BY <1>0, <3>3 DEF UpperInv, SoundingBelowUpper, voiceVars, V
    <3> QED BY <2>2, <3>2, <3>3
  <2>5. SoundingBelowUpper'
    BY <1>0, <2>1, <2>2, <2>3, <2>4 DEF SoundingBelowUpper, V
  <2>6. \A v \in V : v < k /\ status'[v] # "FREE" =>
          \E w \in V : Sounding(w) /\ status'[v] = status[w]
    <3>1. free \in SUBSET V /\ quiet \in SUBSET V
      BY DEF Below
    <3>2. CASE GiveUp(k, free, quiet)
      <4> HIDE DEF k, free, quiet
      <4> QED BY <2>3, <3>1, <3>2, GiveUpKeeps
    <3>3. CASE UNCHANGED voiceVars
      BY <1>0, <2>3, <3>3 DEF Sounding, voiceVars, V
    <3> QED BY <2>2, <3>2, <3>3
  <2>7. DyingSwept'
    BY <2>1, <2>2, <2>6 DEF UpperInv, DyingSwept, Sounding
  <2> QED BY <2>1, <2>5, <2>7
      DEF UpperInv, PendingBelow, PlayEndOps, Conserving
<1>3. CASE ShedVoice
  <2>1. /\ op = "shed" /\ op' = "shed" /\ phase' = phase /\ phase # "killed"
        /\ list' = <<>> /\ upper' = upper /\ voices' = voices
    BY <1>3 DEF ShedVoice, UpperInv, TypeInv, CallOK, PlayEndOps
  <2>2. \A v \in V : status[v] = "FREE" => status'[v] = "FREE"
    BY <1>3 DEF ShedVoice, AfterSteal
  <2>3. SoundingBelowUpper' /\ PendingBelow' /\ Conserving'
    BY <2>1, <2>2, FrameUpper
  <2>4. DyingSwept'
    BY <2>1, <2>2 DEF UpperInv, DyingSwept, Sounding
  <2> QED BY <2>1, <2>3, <2>4 DEF UpperInv, PlayEndOps
<1>4. CASE ShedDone
  <2>1. /\ op = "shed" /\ op' = "conserve" /\ phase' = phase /\ phase # "killed"
        /\ list' = <<>> /\ upper' = upper /\ voices' = voices /\ status' = status
        /\ at' + todo' <= voices
    BY <1>0, <1>4
    DEF ShedDone, UpperInv, TypeInv, CallOK, PlayEndOps, voiceVars
  <2>2. SoundingBelowUpper'
    BY <2>1 DEF UpperInv, SoundingBelowUpper
  <2> QED BY <2>1, <2>2
      DEF UpperInv, PendingBelow, PlayEndOps, DyingSwept, Conserving, Sounding
<1>5. CASE ConserveVoice
  <2> DEFINE k == voices - 1
             free == {v \in Below(at) : status[v] = "FREE"}
             quiet == {v \in Below(voices) :
                         status[v] \in {"OFF", "SUSTAINED"} /\ ~Protected(v)}
  <2>1. /\ op = "conserve" /\ op' = "conserve" /\ phase' = phase /\ phase # "killed"
        /\ list' = <<>> /\ upper' = upper /\ at' = at /\ todo > 0
        /\ at + todo <= voices
    BY <1>5 DEF ConserveVoice, UpperInv, TypeInv, CallOK, PlayEndOps, Conserving
  <2>2. \/ GiveUp(k, free, quiet) /\ voices' = k /\ todo' = todo - 1
        \/ todo' = 0 /\ UNCHANGED voiceVars /\ voices' = voices
    BY <1>5 DEF ConserveVoice
  <2>3. k \in V /\ k \in Nat /\ k + 1 = voices /\ at <= k
    BY <1>0, <2>1, ConstantsAssumption DEF V
  <2>4. SoundingBelowUpper'
    <3>1. /\ free \in SUBSET V /\ \A j \in free : j < k
          /\ quiet \in SUBSET V /\ \A j \in quiet : j < voices /\ status[j] # "FREE"
      BY <1>0, <2>3 DEF Below, V
    <3>2. CASE GiveUp(k, free, quiet) /\ voices' = k
      <4>1. \A v \in V : v < k /\ status'[v] # "FREE" => v < upper
        <5> HIDE DEF k, free, quiet
        <5> QED BY <2>3, <3>1, <3>2, GiveUpUpper
      <4> QED BY <2>1, <3>2, <4>1 DEF SoundingBelowUpper
    <3>3. CASE UNCHANGED voiceVars /\ voices' = voices
      BY <2>1, <3>3 DEF UpperInv, SoundingBelowUpper, voiceVars
    <3> QED BY <2>2, <3>2, <3>3
  <2>5. Conserving'
    BY <1>0, <2>1, <2>2, <2>3 DEF Conserving
  <2>6. DyingSwept'
    <3> SUFFICES ASSUME phase = "dying", NEW v \in V, v < voices',
                        status'[v] # "FREE"
                 PROVE  FALSE
      BY <2>1 DEF DyingSwept, Sounding
    <3>1. \A w \in V : ~Sounding(w)
      BY <2>1 DEF UpperInv, DyingSwept
    <3>2. CASE GiveUp(k, free, quiet) /\ voices' = k
      <4>1. free \in SUBSET V /\ quiet \in SUBSET V
        BY DEF Below
      <4> HIDE DEF k, free, quiet
      <4> QED BY <2>3, <3>1, <3>2, <4>1, GiveUpKeeps
    <3>3. CASE UNCHANGED voiceVars /\ voices' = voices
      BY <3>1, <3>3 DEF Sounding, voiceVars
    <3> QED BY <2>2, <3>2, <3>3
  <2> QED BY <2>1, <2>4, <2>5, <2>6
      DEF UpperInv, PendingBelow, PlayEndOps
<1>6. CASE ConserveEnd
  <2>1. /\ op = "conserve" /\ op' = "idle" /\ phase' = phase /\ phase # "killed"
        /\ list' = <<>> /\ voices' = voices /\ status' = status
        /\ Trim(status, IF upper > voices THEN voices ELSE upper)
    BY <1>6
    DEF ConserveEnd, Finish, UpperInv, TypeInv, CallOK, PlayEndOps, voiceVars
  <2>2. /\ upper' <= voices
        /\ \A v \in V : v < upper /\ v < voices /\ status[v] # "FREE" => v < upper'
    BY <1>0, <2>1 DEF Trim, V
  <2>3. SoundingBelowUpper'
    BY <2>1, <2>2 DEF UpperInv, SoundingBelowUpper
  <2> QED BY <2>1, <2>3
      DEF UpperInv, PendingBelow, PlayEndOps, DyingSwept, Conserving, Sounding
<1> QED BY <1>1, <1>2, <1>3, <1>4, <1>5, <1>6

-------------------------------------------------------------------------------
LEMMA NextUpper == UpperInv /\ [Next]_vars => UpperInv'
<1> SUFFICES ASSUME UpperInv, [Next]_vars PROVE UpperInv'
  OBVIOUS
<1>0. TypeInv'
  BY NextType DEF UpperInv
<1>1. CASE \/ \E c \in Channels, n \in Notes : NoteOn(c, n) \/ NoteOff(c, n)
           \/ \E c \in Channels : \/ AllNotesOff(c)
                                  \/ \E a \in Pedal : Sustain(c, a)
                                  \/ \E on \in BOOLEAN : Sostenuto(c, on)
           \/ \E c \in Channels \cup {None} : Adjust(c)
           \/ Compute \/ AutoReduce \/ PlayEnd \/ PlayEndFinish \/ PlayEndFade
           \/ PlayEndMix
  BY <1>0, <1>1, BeginUpper
<1>2. CASE \/ \E c \in Channels : AllSoundsOff(c) \/ ResetControllers(c)
           \/ SystemReset \/ Discard \/ Restart \/ PlayEndKill \/ PlayEndOver
           \/ PlayEndSkip
  BY <1>0, <1>2, KillUpper
<1>3. CASE \/ VoiceIncrement \/ VoiceDecrement \/ ShedVoice \/ ShedDone
           \/ ConserveVoice \/ ConserveEnd
  BY <1>0, <1>3, PolyphonyUpper
<1>4. CASE SelectSample \/ StartSample \/ SweepVoice \/ SweepEnd
  BY <1>0, <1>4, SelectUpper, StartUpper, SweepUpper
<1>5. CASE UNCHANGED vars
  BY <1>0, <1>5
  DEF UpperInv, SoundingBelowUpper, PendingBelow, PlayEndOps, DyingSwept,
      Conserving, Sounding, vars, voiceVars, channelVars, callVars
<1> QED BY <1>1, <1>2, <1>3, <1>4, <1>5 DEF Next

\* No voice in use is beyond upper_voices, where mixing, note off and the
\* pedals would not reach it (timidity/playmidi.c, upper_voices).
THEOREM Reach == Spec => []SoundingBelowUpper
<1>1. Init => UpperInv
  BY InitUpper
<1>2. UpperInv /\ [Next]_vars => UpperInv'
  BY NextUpper
<1>3. UpperInv => SoundingBelowUpper
  BY DEF UpperInv
<1> QED BY <1>1, <1>2, <1>3, PTL DEF Spec
-------------------------------------------------------------------------------
(***************************************************************************)
(* What the voices play: that every note can be released, and the rules by *)
(* which find_voice and the pedals decide which voices may sound together. *)
(*                                                                         *)
(* No stuck notes: as long as no key collects VidMod note-ons that nobody  *)
(* released, the vid of a voice that is ON is one that a note off will     *)
(* hand out, or the note off in progress has yet to reach the voice        *)
(* (theorem Releasable).                                                   *)
(***************************************************************************)

\* A voice in use that has been started carries a channel and a note.
Started ==
  \A v \in V : Sounding(v) /\ v \notin Pending => chan[v] \in Channels /\ key[v] \in Notes

\* The note being placed still has a vid to draw.
SelectRoom == op = "select" /\ OverlapAllow => ~VidqFull(evCh, evKey)

\* The note being started carries a vid that is outstanding.
StartVid == op = "start" /\ OverlapAllow => Outstanding(evCh, evKey, evVid)

\* ME_ALL_NOTES_OFF leaves no voice ON behind: it zeroes the counters next.
AllOffProgress ==
  op = "all_notes_off" =>
    \A v \in V : v < at /\ v < voices /\ status[v] = "ON" => chan[v] # evCh

NotesInv ==
  /\ UpperInv
  /\ NotesReleasable
  /\ Started
  /\ SelectRoom
  /\ StartVid
  /\ AllOffProgress

-------------------------------------------------------------------------------
(***************************************************************************)
(* The circular vid counters.                                              *)
(***************************************************************************)
Between(t, h, x) == IF t <= h THEN t <= x /\ x < h ELSE x >= t \/ x < h

\* A vid drawn joins the outstanding ones and hides none of them.
LEMMA DrawVid ==
  ASSUME NEW t \in Vids, NEW h \in Vids, Inc(h) # t
  PROVE  /\ Between(t, Inc(h), h)
         /\ \A x \in Vids : Between(t, h, x) => Between(t, Inc(h), x)
  BY ConstantsAssumption DEF Between, Inc, Vids

\* A note off consumes the oldest outstanding vid and no other.
LEMMA ConsumeVid ==
  ASSUME NEW t \in Vids, NEW h \in Vids, NEW x \in Vids, Between(t, h, x), x # t
  PROVE  Between(Inc(t), h, x)
  BY ConstantsAssumption DEF Between, Inc, Vids

LEMMA OutstandingBetween ==
  \A c, n, x : Outstanding(c, n, x) = Between(tail[<<c, n>>], head[<<c, n>>], x)
  BY DEF Outstanding, Between

-------------------------------------------------------------------------------
LEMMA InitNotes == Init => NotesInv
<1> SUFFICES ASSUME Init PROVE NotesInv
  OBVIOUS
<1>1. UpperInv
  BY InitUpper
<1>2. \A v \in V : status[v] = "FREE"
  BY DEF Init
<1> QED BY <1>1, <1>2
    DEF Init, NotesInv, NotesReleasable, Started, SelectRoom, StartVid,
        AllOffProgress, Sounding

\* A step that turns no voice ON, moves none and leaves the counters alone.
LEMMA FrameNotes ==
  ASSUME NotesInv,
         UNCHANGED <<chan, key, vid, head, tail, voices>>, Pending = {},
         \A v \in V : status[v] = "FREE" => status'[v] = "FREE",
         \A v \in V : status'[v] = "ON" => status[v] = "ON",
         \A v \in V : status'[v] = "ON" /\ ReleaseDue(v) => ReleaseDue(v)'
  PROVE  Started' /\ NotesReleasable'
<1>1. Started'
  BY DEF NotesInv, Started, Sounding
<1>2. NotesReleasable'
  <2> SUFFICES ASSUME OverlapAllow, NEW v \in V, v < voices, status'[v] = "ON",
                      ~ReleaseDue(v)'
               PROVE  Outstanding(chan[v], key[v], vid[v])
    BY DEF NotesReleasable, Outstanding
  <2> QED BY DEF NotesInv, NotesReleasable
<1> QED BY <1>1, <1>2

\* Handlers that begin and leave the counters alone.
LEMMA BeginNotes ==
  ASSUME NotesInv, UpperInv', ~WrapAllowed,
         \/ \E c \in Channels, n \in Notes : NoteOn(c, n)
         \/ \E c \in Channels : \/ AllNotesOff(c)
                                \/ \E a \in Pedal : Sustain(c, a)
                                \/ \E on \in BOOLEAN : Sostenuto(c, on)
         \/ \E c \in Channels \cup {None} : Adjust(c)
         \/ Compute \/ AutoReduce \/ PlayEnd \/ PlayEndFinish \/ PlayEndFade
         \/ PlayEndMix
  PROVE  NotesInv'
<1>1. /\ op = "idle" /\ UNCHANGED voiceVars
      /\ UNCHANGED <<head, tail, voices>>
  BY DEF NoteOn, AllNotesOff, Sustain, Sostenuto, Adjust, Compute, AutoReduce, PlayEnd,
         PlayEndFinish, PlayEndFade, PlayEndMix, Begin, Idle
<1>2. Started' /\ NotesReleasable'
  <2>1. Pending = {}
    BY <1>1 DEF NotesInv, UpperInv, TypeInv, CallOK, Pending
  <2> QED BY <1>1, <2>1, FrameNotes DEF voiceVars, ReleaseDue
<1>3. SelectRoom' /\ StartVid'
  <2>1. CASE \E c \in Channels, n \in Notes : NoteOn(c, n)
    BY <1>1, <2>1 DEF NoteOn, Begin, VidqFull, SelectRoom, StartVid
  <2>2. CASE ~\E c \in Channels, n \in Notes : NoteOn(c, n)
    <3>1. op' \notin {"select", "start"}
      BY <1>1, <2>2 DEF AllNotesOff, Sustain, Sostenuto, Adjust, Compute, AutoReduce,
                        PlayEnd, PlayEndFinish, PlayEndFade, PlayEndMix, Begin,
                        callVars
    <3> QED BY <3>1 DEF SelectRoom, StartVid
  <2> QED BY <2>1, <2>2
<1>4. AllOffProgress'
  <2>1. at' = 0 \/ op' = "idle"
    BY <1>1 DEF NoteOn, AllNotesOff, Sustain, Sostenuto, Adjust, Compute, AutoReduce,
                PlayEnd, PlayEndFinish, PlayEndFade, PlayEndMix, Begin,
                callVars
  <2> QED BY <2>1 DEF AllOffProgress, V
<1> QED BY <1>2, <1>3, <1>4 DEF NotesInv

LEMMA NoteOffNotes ==
  ASSUME NotesInv, UpperInv', NEW c \in Channels, NEW n \in Notes, NoteOff(c, n)
  PROVE  NotesInv'
<1>1. /\ op = "idle" /\ op' = "note_off" /\ at' = 0 /\ evCh' = c /\ evKey' = n
      /\ UNCHANGED <<status, chan, key, vid, head, voices>>
      /\ Pending = {} /\ Pending' = {}
  BY DEF NoteOff, Begin, Idle, voiceVars, NotesInv, UpperInv, TypeInv, CallOK,
         Pending
<1>2. Started' /\ SelectRoom' /\ StartVid' /\ AllOffProgress'
  BY <1>1 DEF NotesInv, Started, SelectRoom, StartVid, AllOffProgress, Sounding
<1>3. NotesReleasable'
  <2> SUFFICES ASSUME OverlapAllow, NEW v \in V, v < voices, status[v] = "ON"
               PROVE  ReleaseDue(v)' \/ Outstanding(chan[v], key[v], vid[v])'
    BY <1>1 DEF NotesReleasable
  <2>1. /\ chan[v] \in Channels /\ key[v] \in Notes
        /\ Outstanding(chan[v], key[v], vid[v])
    BY <1>1 DEF NotesInv, Started, Sounding, NotesReleasable, ReleaseDue
  <2>2. /\ evVid' = tail[<<c, n>>]
        /\ tail' = [tail EXCEPT ![<<c, n>>] = Inc(tail[<<c, n>>])]
    BY DEF NoteOff, Begin
  <2>3. /\ tail \in [Keys -> Vids] /\ head \in [Keys -> Vids] /\ vid[v] \in Vids
        /\ <<c, n>> \in Keys /\ <<chan[v], key[v]>> \in Keys
    BY <2>1 DEF NotesInv, UpperInv, TypeInv, TypeOK, Keys
  <2>4. CASE <<chan[v], key[v]>> # <<c, n>>
    BY <1>1, <2>1, <2>2, <2>3, <2>4 DEF Outstanding
  <2>5. CASE chan[v] = c /\ key[v] = n /\ vid[v] = tail[<<c, n>>]
    BY <1>1, <2>2, <2>5 DEF ReleaseDue, V
  <2>6. CASE chan[v] = c /\ key[v] = n /\ vid[v] # tail[<<c, n>>]
    <3>1. Between(tail[<<c, n>>], head[<<c, n>>], vid[v])
      BY <2>1, <2>6, OutstandingBetween
    <3>2. Between(Inc(tail[<<c, n>>]), head[<<c, n>>], vid[v])
      BY <2>3, <2>6, <3>1, ConsumeVid
    <3>3. tail'[<<c, n>>] = Inc(tail[<<c, n>>]) /\ head' = head /\ vid' = vid
      BY <1>1, <2>2, <2>3
    <3> QED BY <1>1, <2>6, <3>2, <3>3 DEF Outstanding, Between
  <2> QED BY <2>4, <2>5, <2>6
<1> QED BY <1>2, <1>3 DEF NotesInv

LEMMA SelectNotes == NotesInv /\ UpperInv' /\ SelectSample => NotesInv'
<1> SUFFICES ASSUME NotesInv, UpperInv', SelectSample PROVE NotesInv'
  OBVIOUS
<1>1. /\ op = "select" /\ voices' = voices
      /\ UNCHANGED <<chan, key, vid, tail, evCh, evKey>>
      /\ evCh \in Channels /\ evKey \in Notes /\ <<evCh, evKey>> \in Keys
      /\ head \in [Keys -> Vids] /\ tail \in [Keys -> Vids]
      /\ status \in [V -> Status] /\ list \in Seq(V)
      /\ vid \in [V -> Vids]
  BY DEF SelectSample, NotesInv, UpperInv, TypeInv, TypeOK, CallOK, Keys
\* One slot is found; the others keep their status, or are on their way out.
<1>2. \E v \in V, s \in [V -> Status], lk \in [V -> V] :
        /\ Take(v, s, lk)
        /\ \A w \in V : /\ s[w] # "FREE" => status[w] # "FREE"
                        /\ s[w] = "ON" => status[w] = "ON"
  <2> DEFINE free == {v \in Below(upper) : status[v] = "FREE"}
             killed == Killed(evCh, evKey)
             st == [v \in V |-> IF v \in killed THEN "DIE" ELSE status[v]]
  <2>1. /\ st \in [V -> Status] /\ link \in [V -> V]
        /\ \A w \in V : /\ st[w] # "FREE" => status[w] # "FREE"
                        /\ st[w] = "ON" => status[w] = "ON"
    BY <1>1 DEF NotesInv, UpperInv, TypeInv, TypeOK, Status, Killed
  <2>2. CASE \E v \in V : Take(v, st, link)
    BY <2>1, <2>2
  <2>3. CASE upper < voices /\ Take(upper, st, link)
    <3>1. upper \in V
      BY <2>3, ConstantsAssumption DEF V, NotesInv, UpperInv, TypeInv, TypeOK
    <3> QED BY <2>1, <2>3, <3>1
  <2>4. CASE \E v \in Victims(st) : \E dead \in Casualties(st, v) :
               Take(v, AfterSteal(st, v, dead), LinkAfterSteal(v, dead))
    <3> PICK v \in Victims(st) : \E dead \in Casualties(st, v) :
          Take(v, AfterSteal(st, v, dead), LinkAfterSteal(v, dead))
      BY <2>4
    <3> PICK dead \in Casualties(st, v) :
          Take(v, AfterSteal(st, v, dead), LinkAfterSteal(v, dead))
      OBVIOUS
    <3>1. /\ v \in V
          /\ AfterSteal(st, v, dead) \in [V -> Status]
          /\ LinkAfterSteal(v, dead) \in [V -> V]
      BY <2>1, StealType DEF NotesInv, UpperInv, TypeInv
    <3>2. \A w \in V : /\ AfterSteal(st, v, dead)[w] # "FREE" => status[w] # "FREE"
                       /\ AfterSteal(st, v, dead)[w] = "ON" => status[w] = "ON"
      BY <2>1 DEF AfterSteal
    <3> QED BY <3>1, <3>2
  <2> QED BY <2>2, <2>3, <2>4 DEF SelectSample
<1>3. PICK v \in V, s \in [V -> Status], lk \in [V -> V] :
        /\ Take(v, s, lk)
        /\ \A w \in V : /\ s[w] # "FREE" => status[w] # "FREE"
                        /\ s[w] = "ON" => status[w] = "ON"
  BY <1>2
<1>4. Pending' = Pending \cup {v}
  <2>1. list' = Append(list, v)
    BY <1>3 DEF Take
  <2>2. /\ Len(list') = Len(list) + 1 /\ Len(list) \in Nat
        /\ list'[Len(list) + 1] = v
        /\ \A i \in 1 .. Len(list) : list'[i] = list[i]
    BY <1>1, <2>1
  <2> QED BY <2>2 DEF Pending
<1>5. \A w \in V : w \notin Pending' =>
        /\ w \notin Pending
        /\ status'[w] # "FREE" => status[w] # "FREE"
        /\ status'[w] = "ON" => status[w] = "ON"
  BY <1>3, <1>4 DEF Take
<1>6. Started'
  BY <1>1, <1>5 DEF NotesInv, Started, Sounding
\* The vid drawn joins those outstanding.
<1>7. OverlapAllow =>
        /\ op' = "select" => head' = head
        /\ op' = "start" => Outstanding(evCh, evKey, evVid)'
        /\ \A c \in Channels, n \in Notes, x \in Vids :
             Outstanding(c, n, x) => Outstanding(c, n, x)'
  <2> SUFFICES ASSUME OverlapAllow
               PROVE  /\ op' = "select" => head' = head
                      /\ op' = "start" => Outstanding(evCh, evKey, evVid)'
                      /\ \A c \in Channels, n \in Notes, x \in Vids :
                           Outstanding(c, n, x) => Outstanding(c, n, x)'
    OBVIOUS
  <2>1. CASE todo # 1
    BY <1>1, <1>3, <2>1 DEF Take, Outstanding
  <2>2. CASE todo = 1
    <3> DEFINE h == head[<<evCh, evKey>>]
               t == tail[<<evCh, evKey>>]
    <3>1. /\ op' = "start" /\ evVid' = h /\ head' = [head EXCEPT ![<<evCh, evKey>>] = Inc(h)]
      BY <1>3, <2>2 DEF Take
    <3>2. h \in Vids /\ t \in Vids /\ Inc(h) # t
      BY <1>1 DEF NotesInv, SelectRoom, VidqFull
    <3>3. Outstanding(evCh, evKey, evVid)'
      BY <1>1, <3>1, <3>2, DrawVid DEF Outstanding, Between
    <3>4. ASSUME NEW c \in Channels, NEW n \in Notes, NEW x \in Vids,
                 Outstanding(c, n, x)
          PROVE  Outstanding(c, n, x)'
      <4>1. <<c, n>> \in Keys
        BY DEF Keys
      <4>2. CASE <<c, n>> = <<evCh, evKey>>
        BY <1>1, <3>1, <3>2, <3>4, <4>2, DrawVid DEF Outstanding, Between
      <4>3. CASE <<c, n>> # <<evCh, evKey>>
        BY <1>1, <3>1, <3>4, <4>1, <4>3 DEF Outstanding
      <4> QED BY <4>2, <4>3
    <3> QED BY <3>1, <3>3, <3>4
  <2> QED BY <2>1, <2>2
<1>8. NotesReleasable'
  <2> SUFFICES ASSUME OverlapAllow, NEW w \in V, w < voices, status'[w] = "ON",
                      w \notin Pending'
               PROVE  Outstanding(chan[w], key[w], vid[w])'
    BY <1>1 DEF NotesReleasable
  <2>1. /\ chan[w] \in Channels /\ key[w] \in Notes /\ vid[w] \in Vids
        /\ Outstanding(chan[w], key[w], vid[w])
    BY <1>1, <1>5 DEF NotesInv, Started, Sounding, NotesReleasable, ReleaseDue
  <2>2. chan' = chan /\ key' = key /\ vid' = vid
    BY <1>1
  <2> QED BY <1>7, <2>1, <2>2 DEF Outstanding
<1>9. SelectRoom' /\ StartVid' /\ AllOffProgress'
  <2>1. op' \in {"select", "start"}
    BY <1>1, <1>3 DEF Take
  <2>2. op' = "select" /\ OverlapAllow => ~VidqFull(evCh, evKey)'
    BY <1>1, <1>7 DEF NotesInv, SelectRoom, VidqFull
  <2> QED BY <1>7, <2>1, <2>2 DEF SelectRoom, StartVid, AllOffProgress
<1> QED BY <1>6, <1>8, <1>9 DEF NotesInv

LEMMA StartNotes == NotesInv /\ UpperInv' /\ StartSample => NotesInv'
<1> SUFFICES ASSUME NotesInv, UpperInv', StartSample PROVE NotesInv'
  OBVIOUS
<1> DEFINE v == Head(list)
<1>1. /\ op = "start" /\ UNCHANGED <<voices, head, tail>>
      /\ evCh \in Channels /\ evKey \in Notes
      /\ list \in Seq(V) /\ Len(list) > 0 /\ status \in [V -> Status]
      /\ chan \in [V -> Channels \cup {None}] /\ key \in [V -> Notes \cup {None}]
      /\ vid \in [V -> Vids] /\ v \in V
  BY DEF StartSample, NotesInv, UpperInv, TypeInv, TypeOK, CallOK
<1>2. \E w \in V, s \in [V -> Status], lk \in [V -> V] :
        /\ Double(v, w, s, lk)
        /\ \A x \in V : x # v => s[x] = status[x]
  <2> PICK born \in {"ON"} \cup (IF InstantDeath THEN {"FREE"} ELSE {}) :
       LET st == [status EXCEPT ![v] = born]
           lk == [link EXCEPT ![v] = v]
           free == {w \in Below(voices) : st[w] = "FREE"}
           quiet == {w \in Below(voices) :
                       st[w] \in {"OFF", "SUSTAINED"} /\ ~Protected(w)}
       IN \/ ~SurroundChorus /\ Double(v, v, st, lk) /\ upper' = upper
          \/ /\ SurroundChorus
             /\ \E w \in V : /\ IsFirst(w, free)
                             /\ Double(v, w, st, lk)
                             /\ upper' = Raised(w)
          \/ /\ SurroundChorus /\ free = {}
             /\ \E w \in quiet : Double(v, w, st, Unlink(lk, w))
             /\ upper' = voices
          \/ /\ SurroundChorus /\ free = {} /\ quiet = {}
             /\ Double(v, v, st, lk)
             /\ upper' = voices
    BY DEF StartSample
  <2> DEFINE st == [status EXCEPT ![v] = born]
             lk == [link EXCEPT ![v] = v]
  <2>1. /\ st \in [V -> Status] /\ lk \in [V -> V]
        /\ \A x \in V : x # v => st[x] = status[x]
    BY <1>1 DEF NotesInv, UpperInv, TypeInv, TypeOK, Status
  <2>2. \A w \in V : Unlink(lk, w) \in [V -> V]
    BY <2>1, UnlinkType
  <2>3. \E w \in V : Double(v, w, st, lk) \/ Double(v, w, st, Unlink(lk, w))
    BY <1>1 DEF Below
  <2> HIDE DEF st, lk
  <2> QED BY <2>1, <2>2, <2>3
<1>3. PICK w \in V, s \in [V -> Status], lk \in [V -> V] :
        /\ Double(v, w, s, lk)
        /\ \A x \in V : x # v => s[x] = status[x]
  BY <1>2
<1>4. /\ \A x \in {v, w} : /\ chan'[x] = evCh /\ key'[x] = evKey
                           /\ vid'[x] = evVid
      /\ \A x \in V \ {v, w} : /\ chan'[x] = chan[x] /\ key'[x] = key[x]
                               /\ vid'[x] = vid[x] /\ status'[x] = status[x]
  BY <1>1, <1>3 DEF Double
<1>5. Pending \ {v} \subseteq Pending'
  <2>1. CASE Len(list) = 1
    BY <1>1, <2>1 DEF Pending
  <2>2. CASE Len(list) # 1
    <3>1. list' = Tail(list)
      BY <2>2 DEF StartSample
    <3>2. ASSUME NEW i \in 1 .. Len(list), list[i] # v
          PROVE  \E j \in 1 .. Len(list') : list'[j] = list[i]
      <4>1. i # 1
        BY <1>1, <3>2
      <4>2. i - 1 \in 1 .. Len(list') /\ list'[i - 1] = list[i]
        BY <1>1, <3>1, <4>1
      <4> QED BY <4>2
    <3> QED BY <3>2 DEF Pending
  <2> QED BY <2>1, <2>2
<1>6. Started'
  <2> SUFFICES ASSUME NEW x \in V, x < voices, status'[x] # "FREE",
                      x \notin Pending'
               PROVE  chan'[x] \in Channels /\ key'[x] \in Notes
    BY <1>1 DEF Started, Sounding
  <2>1. CASE x \in {v, w}
    BY <1>1, <1>4, <2>1
  <2>2. CASE x \notin {v, w}
    BY <1>4, <1>5, <2>2 DEF NotesInv, Started, Sounding
  <2> QED BY <2>1, <2>2
<1>7. NotesReleasable'
  <2> SUFFICES ASSUME OverlapAllow, NEW x \in V, x < voices, status'[x] = "ON",
                      x \notin Pending'
               PROVE  Outstanding(chan[x], key[x], vid[x])'
    BY <1>1 DEF NotesReleasable
  <2>1. CASE x \in {v, w}
    BY <1>1, <1>4, <2>1 DEF NotesInv, StartVid, Outstanding
  <2>2. CASE x \notin {v, w}
    <3>1. Outstanding(chan[x], key[x], vid[x])
      BY <1>1, <1>4, <1>5, <2>2 DEF NotesInv, NotesReleasable, ReleaseDue
    <3> QED BY <1>1, <1>4, <2>2, <3>1 DEF Outstanding
  <2> QED BY <2>1, <2>2
<1>8. SelectRoom' /\ StartVid' /\ AllOffProgress'
  <2>1. op' = "idle" \/ UNCHANGED <<op, evCh, evKey, evVid>>
    BY DEF StartSample, Finish
  <2> QED BY <1>1, <2>1
      DEF NotesInv, SelectRoom, StartVid, AllOffProgress, Outstanding
<1> QED BY <1>6, <1>7, <1>8 DEF NotesInv

LEMMA SweepNotes == NotesInv /\ UpperInv' /\ (SweepVoice \/ SweepEnd) => NotesInv'
<1> SUFFICES ASSUME NotesInv, UpperInv', SweepVoice \/ SweepEnd PROVE NotesInv'
  OBVIOUS
<1>0. /\ op \in SweepOps /\ Pending = {} /\ Pending' = {} /\ at \in Nat
      /\ op' \in {op, "idle"} /\ UNCHANGED <<chan, key, vid, voices>>
      /\ voices \in Nat /\ upper \in Nat /\ upper <= MaxVoices
      /\ status \in [V -> Status]
  BY ConstantsAssumption
  DEF SweepVoice, SweepEnd, Finish, NotesInv, UpperInv, TypeInv, TypeOK, CallOK,
      SweepOps, Pending, voiceVars
<1>1. CASE SweepVoice
  <2>1. /\ op' = op /\ at' = at + 1 /\ at < upper /\ at \in V
        /\ UNCHANGED <<head, tail, evCh, evKey, evVid>>
    BY <1>0, <1>1, ConstantsAssumption DEF SweepVoice, V
  <2>2. /\ \A v \in V : status[v] = "FREE" => status'[v] = "FREE"
        /\ \A v \in V : status'[v] = "ON" => status[v] = "ON"
        /\ op \in {"note_off", "all_notes_off"} /\ Matches(at) => status'[at] # "ON"
    BY <1>0, <1>1, <2>1 DEF SweepVoice, Matches, Outcomes, Finished, SweepOps
  <2>3. \A v \in V : status'[v] = "ON" /\ ReleaseDue(v) => ReleaseDue(v)'
    <3> SUFFICES ASSUME NEW v \in V, status'[v] = "ON", ReleaseDue(v)
                 PROVE  at + 1 <= v
      BY <1>0, <2>1 DEF ReleaseDue
    <3>1. v # at
      BY <2>2 DEF ReleaseDue, Matches
    <3> QED BY <1>0, <3>1 DEF ReleaseDue, V
  <2>4. Started' /\ NotesReleasable'
    BY <1>0, <2>1, <2>2, <2>3, FrameNotes
  <2>5. AllOffProgress'
    <3> SUFFICES ASSUME op = "all_notes_off", NEW v \in V, v < at + 1, v < voices,
                        status'[v] = "ON"
                 PROVE  chan[v] # evCh
      BY <1>0, <2>1 DEF AllOffProgress
    <3>1. CASE v = at
      BY <2>1, <2>2, <3>1 DEF Matches
    <3>2. CASE v # at
      BY <1>0, <2>2, <3>2 DEF NotesInv, AllOffProgress, V
    <3> QED BY <3>1, <3>2
  <2> QED BY <1>0, <2>1, <2>4, <2>5
      DEF NotesInv, SelectRoom, StartVid, SweepOps
<1>2. CASE SweepEnd
  <2>1. op' = "idle" /\ status' = status /\ at >= upper
    BY <1>2 DEF SweepEnd, Finish, voiceVars
  <2>2. Started'
    BY <1>0, <2>1 DEF NotesInv, Started, Sounding
  <2>3. NotesReleasable'
    <3> SUFFICES ASSUME OverlapAllow, NEW v \in V, v < voices, status[v] = "ON"
                 PROVE  Outstanding(chan[v], key[v], vid[v])'
      BY <1>0, <2>1 DEF NotesReleasable
    <3>1. v < at
      <4>1. v < upper
        BY <1>0 DEF NotesInv, UpperInv, SoundingBelowUpper
      <4> QED BY <1>0, <2>1, <4>1 DEF V
    <3>2. /\ chan[v] \in Channels /\ key[v] \in Notes
          /\ Outstanding(chan[v], key[v], vid[v])
      BY <1>0, <3>1
      DEF NotesInv, Started, Sounding, NotesReleasable, ReleaseDue, V
    <3>3. head'[<<chan[v], key[v]>>] = head[<<chan[v], key[v]>>]
          /\ tail'[<<chan[v], key[v]>>] = tail[<<chan[v], key[v]>>]
      <4>1. CASE op = "all_notes_off"
        <5>1. chan[v] # evCh
          BY <3>1, <4>1 DEF NotesInv, AllOffProgress
        <5>2. <<chan[v], key[v]>> \in Keys
          BY <3>2 DEF Keys
        <5> QED BY <1>2, <4>1, <5>1, <5>2 DEF SweepEnd, Cleared
      <4>2. CASE op # "all_notes_off"
        BY <1>2, <4>2 DEF SweepEnd
      <4> QED BY <4>1, <4>2
    <3> QED BY <1>0, <3>2, <3>3 DEF Outstanding
  <2> QED BY <2>1, <2>2, <2>3
      DEF NotesInv, SelectRoom, StartVid, AllOffProgress
<1> QED BY <1>1, <1>2

LEMMA KillNotes ==
  ASSUME NotesInv, UpperInv',
         \/ \E c \in Channels : AllSoundsOff(c) \/ ResetControllers(c)
         \/ SystemReset \/ Discard \/ Restart \/ PlayEndKill \/ PlayEndOver
         \/ PlayEndSkip
  PROVE  NotesInv'
<1>1. /\ op = "idle" /\ op' = "idle"
      /\ UNCHANGED <<chan, key, vid>>
  BY DEF AllSoundsOff, ResetControllers, SystemReset, Discard, Restart,
         PlayEndKill, PlayEndOver, PlayEndSkip, KillAll, Idle, callVars, voiceVars
<1>2. Pending = {}
  BY <1>1 DEF NotesInv, UpperInv, TypeInv, CallOK, Pending
<1>3. SelectRoom' /\ StartVid' /\ AllOffProgress'
  BY <1>1 DEF SelectRoom, StartVid, AllOffProgress
\* Every voice that was ON is dying or free.
<1>4. CASE SystemReset \/ Discard \/ Restart \/ PlayEndKill
  <2>1. voices' <= voices /\ voices \in Nat /\ voices' \in Nat
        /\ status \in [V -> Status]
    BY <1>4, ConstantsAssumption
    DEF SystemReset, Discard, Restart, PlayEndKill, NotesInv, UpperInv, TypeInv,
        TypeOK
  <2>2. \A v \in V : v < voices' /\ status[v] = "FREE" => status'[v] = "FREE"
    BY <1>4 DEF SystemReset, Discard, Restart, PlayEndKill, KillAll, Kill
  <2>3. \A v \in V : v < voices => status'[v] # "ON"
    <3>1. CASE Restart
      BY <3>1 DEF Restart
    <3>2. CASE status' = Kill(Below(upper))
      BY <2>1, <3>2 DEF Kill, Below, NotesInv, UpperInv, SoundingBelowUpper
    <3> QED BY <1>4, <3>1, <3>2 DEF SystemReset, Discard, PlayEndKill, KillAll
  <2>4. Started'
    BY <1>1, <1>2, <2>1, <2>2 DEF NotesInv, Started, Sounding, V
  <2>5. NotesReleasable'
    BY <2>1, <2>3 DEF NotesReleasable, V
  <2> QED BY <1>3, <2>4, <2>5 DEF NotesInv
\* Only the channel's voices are killed, and only its counters are zeroed.
<1>5. ASSUME NEW c \in Channels, AllSoundsOff(c)
      PROVE  NotesInv'
  <2>1. /\ status' = Kill({v \in Below(upper) : chan[v] = c})
        /\ head' = Cleared(head, c) /\ tail' = Cleared(tail, c)
        /\ UNCHANGED <<voices, op>>
    BY <1>5 DEF AllSoundsOff, callVars
  <2>2. \A v \in V : status[v] = "FREE" => status'[v] = "FREE"
    BY <2>1 DEF Kill
  <2>3. Started'
    BY <1>1, <1>2, <2>1, <2>2 DEF NotesInv, Started, Sounding
  <2>4. NotesReleasable'
    <3> SUFFICES ASSUME OverlapAllow, NEW v \in V, v < voices, status'[v] = "ON"
                 PROVE  Outstanding(chan[v], key[v], vid[v])'
      BY <2>1 DEF NotesReleasable
    <3>1. v < upper \/ status[v] = "FREE"
      BY DEF NotesInv, UpperInv, SoundingBelowUpper
    <3>2. status[v] = "ON" /\ chan[v] # c
      BY <2>1, <3>1 DEF Kill, Below
    <3>3. /\ chan[v] \in Channels /\ key[v] \in Notes
          /\ Outstanding(chan[v], key[v], vid[v])
      BY <1>1, <1>2, <3>2
      DEF NotesInv, Started, Sounding, NotesReleasable, ReleaseDue
    <3>4. <<chan[v], key[v]>> \in Keys
      BY <3>3 DEF Keys
    <3>5. /\ head'[<<chan[v], key[v]>>] = head[<<chan[v], key[v]>>]
          /\ tail'[<<chan[v], key[v]>>] = tail[<<chan[v], key[v]>>]
      BY <2>1, <3>2, <3>4 DEF Cleared
    <3> QED BY <1>1, <3>3, <3>5 DEF Outstanding
  <2> QED BY <1>3, <2>3, <2>4 DEF NotesInv
<1>6. CASE PlayEndOver \/ PlayEndSkip \/ \E c \in Channels : ResetControllers(c)
  <2>1. UNCHANGED <<voiceVars, voices, head, tail, op>>
    BY <1>6 DEF PlayEndOver, PlayEndSkip, ResetControllers, callVars
  <2>2. Started' /\ NotesReleasable'
    BY <1>1, <1>2, <2>1, FrameNotes DEF voiceVars, ReleaseDue
  <2> QED BY <1>3, <2>2 DEF NotesInv
<1> QED BY <1>4, <1>5, <1>6

\* A moved voice keeps its note and its vid.
LEMMA GiveUpNotes ==
  ASSUME NotesInv, Pending = {}, op \notin SweepOps,
         NEW k \in V, k < voices, NEW free \in SUBSET V,
         NEW quiet \in SUBSET V, UNCHANGED <<head, tail>>,
         GiveUp(k, free, quiet)
  PROVE  \A v \in V : v < voices /\ status'[v] # "FREE" =>
           /\ chan'[v] \in Channels /\ key'[v] \in Notes
           /\ OverlapAllow /\ status'[v] = "ON" => Outstanding(chan[v], key[v], vid[v])'
<1>0. /\ status \in [V -> Status] /\ vid \in [V -> Vids]
      /\ chan \in [V -> Channels \cup {None}] /\ key \in [V -> Notes \cup {None}]
  BY DEF NotesInv, UpperInv, TypeInv, TypeOK
<1>1. \A v \in V : v < voices /\ status[v] # "FREE" =>
        /\ chan[v] \in Channels /\ key[v] \in Notes
        /\ OverlapAllow /\ status[v] = "ON" => Outstanding(chan[v], key[v], vid[v])
  BY DEF NotesInv, Started, NotesReleasable, Sounding, ReleaseDue, SweepOps
\* The voice in slot v now is the one slot u held.
<1>2. \A v \in V : \E u \in {v, k} :
        /\ status'[v] # "FREE" => status[u] = status'[v]
        /\ chan'[v] = chan[u] /\ key'[v] = key[u] /\ vid'[v] = vid[u]
  <2>1. CASE UNCHANGED voiceVars
    BY <2>1 DEF voiceVars
  <2>2. CASE \E j \in V : Move(k, j, status, link)
    BY <1>0, <2>2 DEF Move
  <2>3. CASE \E j \in V : Move(k, j, [status EXCEPT ![j] = "FREE"], Unlink(link, j))
    BY <1>0, <2>3 DEF Move
  <2> QED BY <2>1, <2>2, <2>3 DEF GiveUp
<1> SUFFICES ASSUME NEW v \in V, v < voices, status'[v] # "FREE"
             PROVE  /\ chan'[v] \in Channels /\ key'[v] \in Notes
                    /\ OverlapAllow /\ status'[v] = "ON" =>
                         Outstanding(chan[v], key[v], vid[v])'
  OBVIOUS
<1>3. PICK u \in {v, k} :
        /\ status[u] = status'[v]
        /\ chan'[v] = chan[u] /\ key'[v] = key[u] /\ vid'[v] = vid[u]
  BY <1>2
<1>4. u \in V /\ u < voices
  OBVIOUS
<1> QED BY <1>1, <1>3, <1>4 DEF Outstanding

LEMMA PolyphonyNotes ==
  ASSUME NotesInv, UpperInv',
         \/ VoiceIncrement \/ VoiceDecrement \/ ShedVoice \/ ShedDone
         \/ ConserveVoice \/ ConserveEnd
  PROVE  NotesInv'
<1>0. /\ voices \in Nat /\ status \in [V -> Status] /\ voices <= MaxVoices
      /\ todo \in Nat
  BY ConstantsAssumption DEF NotesInv, UpperInv, TypeInv, TypeOK
<1>1. /\ op \in {"idle", "shed", "conserve"} /\ op' \in {"idle", "shed", "conserve"}
      /\ UNCHANGED <<head, tail>>
  BY DEF VoiceIncrement, VoiceDecrement, ShedVoice, ShedDone, ConserveVoice,
         ConserveEnd, Idle, Finish, callVars
<1>2. Pending = {} /\ Pending' = {}
  BY <1>1 DEF NotesInv, UpperInv, TypeInv, CallOK, Pending
<1>3. SelectRoom' /\ StartVid' /\ AllOffProgress'
  BY <1>1 DEF SelectRoom, StartVid, AllOffProgress
<1>4. CASE VoiceIncrement
  <2>1. /\ voices' = voices + 1 /\ UNCHANGED <<chan, key, vid>>
        /\ status'[voices] = "FREE"
        /\ \A v \in V : v # voices => status'[v] = status[v]
    BY <1>0, <1>4, ConstantsAssumption DEF VoiceIncrement, V
  <2>2. \A v \in V : v < voices' /\ status'[v] # "FREE" =>
          v < voices /\ status'[v] = status[v]
    BY <1>0, <2>1 DEF V
  <2>3. Started'
    BY <1>2, <2>1, <2>2 DEF NotesInv, Started, Sounding
  <2>4. NotesReleasable'
    BY <1>1, <1>2, <2>1, <2>2
    DEF NotesInv, NotesReleasable, ReleaseDue, Outstanding
  <2> QED BY <1>3, <2>3, <2>4 DEF NotesInv
<1>5. CASE \E k \in V, free \in SUBSET V, quiet \in SUBSET V :
             k + 1 = voices /\ voices' = k /\ GiveUp(k, free, quiet)
  <2> PICK k \in V, free \in SUBSET V, quiet \in SUBSET V :
             k + 1 = voices /\ voices' = k /\ GiveUp(k, free, quiet)
    BY <1>5
  <2>1. k < voices /\ op \notin SweepOps
    BY <1>0, <1>1 DEF V, SweepOps
  <2>2. \A v \in V : v < voices /\ status'[v] # "FREE" =>
          /\ chan'[v] \in Channels /\ key'[v] \in Notes
          /\ OverlapAllow /\ status'[v] = "ON" => Outstanding(chan[v], key[v], vid[v])'
    BY <1>1, <1>2, <2>1, GiveUpNotes
  <2>3. \A v \in V : v < voices' => v < voices
    BY <1>0 DEF V
  <2> QED BY <1>3, <2>2, <2>3 DEF NotesInv, Started, Sounding, NotesReleasable
<1>6. CASE /\ voices' \in Nat /\ voices' <= voices /\ UNCHANGED <<chan, key, vid>>
           /\ \A v \in V : status'[v] # "FREE" => status'[v] = status[v]
  <2>1. \A v \in V : v < voices' => v < voices
    BY <1>0, <1>6 DEF V
  <2>2. Started' /\ NotesReleasable'
    BY <1>1, <1>2, <1>6, <2>1
    DEF NotesInv, Started, Sounding, NotesReleasable, ReleaseDue, Outstanding
  <2> QED BY <1>3, <2>2 DEF NotesInv
<1>7. CASE VoiceDecrement
  <2> DEFINE k == voices - 1
             free == {v \in Below(k) : status[v] = "FREE"}
             quiet == {v \in Below(voices) : status[v] \in {"OFF", "SUSTAINED"}}
  <2>1. /\ voices > 0 /\ voices' = k
        /\ GiveUp(k, free, quiet) \/ UNCHANGED voiceVars
    BY <1>7 DEF VoiceDecrement
  <2>2. k \in V /\ k + 1 = voices /\ free \in SUBSET V /\ quiet \in SUBSET V
    BY <1>0, <2>1, ConstantsAssumption DEF V, Below
  <2>3. CASE GiveUp(k, free, quiet)
    BY <1>5, <2>1, <2>2, <2>3
  <2>4. CASE UNCHANGED voiceVars
    BY <1>0, <1>6, <2>1, <2>4 DEF voiceVars
  <2> QED BY <2>1, <2>3, <2>4
<1>8. CASE ConserveVoice
  <2> DEFINE k == voices - 1
             free == {v \in Below(at) : status[v] = "FREE"}
             quiet == {v \in Below(voices) :
                         status[v] \in {"OFF", "SUSTAINED"} /\ ~Protected(v)}
  <2>1. \/ GiveUp(k, free, quiet) /\ voices' = k
        \/ UNCHANGED voiceVars /\ voices' = voices
    BY <1>8 DEF ConserveVoice
  <2>2. voices > 0
    BY <1>0, <1>8
    DEF ConserveVoice, NotesInv, UpperInv, TypeInv, CallOK
  <2>3. k \in V /\ k + 1 = voices /\ free \in SUBSET V /\ quiet \in SUBSET V
    BY <1>0, <2>2, ConstantsAssumption DEF V, Below
  <2>4. CASE GiveUp(k, free, quiet) /\ voices' = k
    BY <1>5, <2>3, <2>4
  <2>5. CASE UNCHANGED voiceVars /\ voices' = voices
    BY <1>0, <1>6, <2>5 DEF voiceVars
  <2> QED BY <2>1, <2>4, <2>5
<1>9. CASE ShedVoice \/ ShedDone \/ ConserveEnd
  <2>1. voices' = voices /\ UNCHANGED <<chan, key, vid>>
    BY <1>9 DEF ShedVoice, ShedDone, ConserveEnd, voiceVars
  <2>2. \A v \in V : status'[v] # "FREE" => status'[v] = status[v]
    BY <1>9 DEF ShedVoice, ShedDone, ConserveEnd, AfterSteal, voiceVars
  <2> QED BY <1>0, <1>6, <2>1, <2>2
<1> QED BY <1>4, <1>7, <1>8, <1>9

-------------------------------------------------------------------------------
LEMMA NextNotes == NotesInv /\ ~WrapAllowed /\ [Next]_vars => NotesInv'
<1> SUFFICES ASSUME NotesInv, ~WrapAllowed, [Next]_vars PROVE NotesInv'
  OBVIOUS
<1>0. UpperInv'
  BY NextUpper DEF NotesInv
<1>1. CASE \/ \E c \in Channels, n \in Notes : NoteOn(c, n)
           \/ \E c \in Channels : \/ AllNotesOff(c)
                                  \/ \E a \in Pedal : Sustain(c, a)
                                  \/ \E on \in BOOLEAN : Sostenuto(c, on)
           \/ \E c \in Channels \cup {None} : Adjust(c)
           \/ Compute \/ AutoReduce \/ PlayEnd \/ PlayEndFinish \/ PlayEndFade
           \/ PlayEndMix
  BY <1>0, <1>1, BeginNotes
<1>2. CASE \E c \in Channels, n \in Notes : NoteOff(c, n)
  BY <1>0, <1>2, NoteOffNotes
<1>3. CASE \/ \E c \in Channels : AllSoundsOff(c) \/ ResetControllers(c)
           \/ SystemReset \/ Discard \/ Restart \/ PlayEndKill \/ PlayEndOver
           \/ PlayEndSkip
  BY <1>0, <1>3, KillNotes
<1>4. CASE \/ VoiceIncrement \/ VoiceDecrement \/ ShedVoice \/ ShedDone
           \/ ConserveVoice \/ ConserveEnd
  BY <1>0, <1>4, PolyphonyNotes
<1>5. CASE SelectSample \/ StartSample \/ SweepVoice \/ SweepEnd
  BY <1>0, <1>5, SelectNotes, StartNotes, SweepNotes
<1>6. CASE UNCHANGED vars
  <2>1. Pending' = Pending
    BY <1>6 DEF Pending, vars, callVars
  <2> QED BY <1>0, <1>6, <2>1
      DEF NotesInv, NotesReleasable, Started, SelectRoom, StartVid,
          AllOffProgress, Sounding, ReleaseDue, Outstanding, VidqFull, vars,
          voiceVars, channelVars, callVars
<1> QED BY <1>1, <1>2, <1>3, <1>4, <1>5, <1>6 DEF Next

\* The vid of every voice that is ON is one a note off will hand out, or the
\* note off in progress is on its way to the voice (new_vidq, last_vidq and
\* note_off of timidity/playmidi.c), unless a key collects as many unreleased
\* note-ons as its counters have values.
THEOREM Releasable ==
  ASSUME ~WrapAllowed
  PROVE  Spec => []NotesReleasable
<1>1. Init => NotesInv
  BY InitNotes
<1>2. NotesInv /\ [Next]_vars => NotesInv'
  BY NextNotes
<1>3. NotesInv => NotesReleasable
  BY DEF NotesInv
<1> QED BY <1>1, <1>2, <1>3, PTL DEF Spec

-------------------------------------------------------------------------------
(***************************************************************************)
(* The rules by which find_voice and the pedals decide which voices may    *)
(* sound together: notes that exclude each other (Exclusive), the bound of *)
(* the assign mode (AssignBound), one instance of a note (SingleInstance), *)
(* voices held by a pedal (HeldByPedal), the chorus links of the voices    *)
(* (Linked) and the order in which voices are given up (StealsInOrder).    *)
(* The first three follow from one lemma, NextSource: where a voice that   *)
(* is ON after a step was before it.                                       *)
(***************************************************************************)

\* A voice that is ON for the note it carries: a slot found for a note and not
\* started yet carries the note it had before.
Heard(v) == v \in V /\ v < voices /\ status[v] = "ON" /\ v \notin Pending

\* find_voice has run for the note being placed.
Placing == op = "start" \/ (op = "select" /\ list # <<>>)

\* The voice heard in slot x after the step is the one slot u held, which
\* find_voice, if this is its step, has let live.
Kept(u, x) ==
  /\ Heard(u)
  /\ chan'[x] = chan[u] /\ key'[x] = key[u] /\ vid'[x] = vid[u]
  /\ op # "select" => prox'[x] = prox[u]
  /\ op = "select" =>
       /\ u \notin Killed(evCh, evKey) /\ u < upper
       /\ prox'[x] = IF chan[u] = evCh /\ key[u] = evKey THEN FALSE ELSE prox[u]

\* The voice heard in slot x has just been started.
New(x) ==
  /\ op = "start"
  /\ chan'[x] = evCh /\ key'[x] = evKey /\ vid'[x] = evVid /\ prox'[x] = TRUE

-------------------------------------------------------------------------------
(***************************************************************************)
(* Where the voices heard after a step come from.                          *)
(***************************************************************************)
\* One slot is found; the others keep their status, or are on their way out.
LEMMA SelectShape ==
  ASSUME UpperInv, SelectSample
  PROVE  \E v \in V, s \in [V -> Status], lk \in [V -> V] :
           /\ Take(v, s, lk)
           /\ \A w \in V : /\ s[w] = "ON" =>
                                status[w] = "ON" /\ w \notin Killed(evCh, evKey)
                           /\ s[w] = "SUSTAINED" => status[w] = "SUSTAINED"
<1> DEFINE killed == Killed(evCh, evKey)
           st == [v \in V |-> IF v \in killed THEN "DIE" ELSE status[v]]
<1>1. /\ status \in [V -> Status] /\ link \in [V -> V] /\ upper \in 0 .. MaxVoices
      /\ voices \in 0 .. MaxVoices
  BY DEF UpperInv, TypeInv, TypeOK
<1>2. /\ st \in [V -> Status]
      /\ \A w \in V : /\ st[w] = "ON" => status[w] = "ON" /\ w \notin killed
                      /\ st[w] = "SUSTAINED" => status[w] = "SUSTAINED"
  BY <1>1 DEF Status
<1>3. CASE \E v \in V : Take(v, st, link)
  BY <1>1, <1>2, <1>3
<1>4. CASE upper < voices /\ Take(upper, st, link)
  <2>1. upper \in V
    BY <1>1, <1>4, ConstantsAssumption DEF V
  <2> QED BY <1>1, <1>2, <1>4, <2>1
<1>5. CASE \E v \in Victims(st) : \E dead \in Casualties(st, v) :
             Take(v, AfterSteal(st, v, dead), LinkAfterSteal(v, dead))
  <2> PICK v \in Victims(st) : \E dead \in Casualties(st, v) :
        Take(v, AfterSteal(st, v, dead), LinkAfterSteal(v, dead))
    BY <1>5
  <2> PICK dead \in Casualties(st, v) :
        Take(v, AfterSteal(st, v, dead), LinkAfterSteal(v, dead))
    OBVIOUS
  <2>1. /\ v \in V
        /\ AfterSteal(st, v, dead) \in [V -> Status]
        /\ LinkAfterSteal(v, dead) \in [V -> V]
    BY <1>2, StealType DEF UpperInv, TypeInv
  <2>2. \A w \in V : AfterSteal(st, v, dead)[w] \in {"FREE", st[w]}
    BY DEF AfterSteal
  <2>3. \A w \in V :
          /\ AfterSteal(st, v, dead)[w] = "ON" => status[w] = "ON" /\ w \notin killed
          /\ AfterSteal(st, v, dead)[w] = "SUSTAINED" => status[w] = "SUSTAINED"
    <3> HIDE DEF st, killed
    <3> QED BY <1>2, <2>2
  <2> QED BY <2>1, <2>3
<1> QED BY <1>3, <1>4, <1>5 DEF SelectSample

\* The slots of the voice and its double get the note; no other slot changes
\* but for links.
LEMMA StartShape ==
  ASSUME UpperInv, StartSample
  PROVE  \E w \in V, s \in [V -> Status], lk \in [V -> V] :
           /\ Double(Head(list), w, s, lk)
           /\ s[Head(list)] \in {"ON", "FREE"}
           /\ \A y \in V : y # Head(list) => s[y] = status[y]
<1> DEFINE v == Head(list)
<1>1. v \in V /\ status \in [V -> Status] /\ link \in [V -> V]
  BY DEF StartSample, UpperInv, TypeInv, TypeOK, CallOK
<1> PICK born \in {"ON"} \cup (IF InstantDeath THEN {"FREE"} ELSE {}) :
     LET st == [status EXCEPT ![v] = born]
         lk == [link EXCEPT ![v] = v]
         free == {w \in Below(voices) : st[w] = "FREE"}
         quiet == {w \in Below(voices) :
                     st[w] \in {"OFF", "SUSTAINED"} /\ ~Protected(w)}
     IN \/ ~SurroundChorus /\ Double(v, v, st, lk) /\ upper' = upper
        \/ /\ SurroundChorus
           /\ \E w \in V : /\ IsFirst(w, free)
                           /\ Double(v, w, st, lk)
                           /\ upper' = Raised(w)
        \/ /\ SurroundChorus /\ free = {}
           /\ \E w \in quiet : Double(v, w, st, Unlink(lk, w))
           /\ upper' = voices
        \/ /\ SurroundChorus /\ free = {} /\ quiet = {}
           /\ Double(v, v, st, lk)
           /\ upper' = voices
  BY DEF StartSample
<1> DEFINE st == [status EXCEPT ![v] = born]
           lk == [link EXCEPT ![v] = v]
<1>2. /\ st \in [V -> Status] /\ lk \in [V -> V] /\ st[v] \in {"ON", "FREE"}
      /\ \A y \in V : y # v => st[y] = status[y]
  BY <1>1 DEF Status
<1>3. \A w \in V : Unlink(lk, w) \in [V -> V]
  BY <1>2, UnlinkType
<1>4. \E w \in V : Double(v, w, st, lk) \/ Double(v, w, st, Unlink(lk, w))
  BY <1>1 DEF Below
<1> HIDE DEF st, lk, v
<1> QED BY <1>2, <1>3, <1>4 DEF v

LEMMA SelectSource ==
  ASSUME UpperInv, SelectSample, NEW x \in V, Heard(x)'
  PROVE  Kept(x, x)
<1>1. /\ op = "select" /\ voices' = voices
      /\ UNCHANGED <<chan, key, vid>>
      /\ list \in Seq(V) /\ upper \in 0 .. MaxVoices
      /\ status \in [V -> Status]
  BY DEF SelectSample, UpperInv, TypeInv, TypeOK
<1>2. prox'[x] = IF x < upper /\ chan[x] = evCh /\ key[x] = evKey
                 THEN FALSE ELSE prox[x]
  BY DEF SelectSample
<1>3. PICK v \in V, s \in [V -> Status], lk \in [V -> V] :
           /\ Take(v, s, lk)
           /\ \A w \in V : s[w] = "ON" =>
                             status[w] = "ON" /\ w \notin Killed(evCh, evKey)
  BY SelectShape
<1>4. list' = Append(list, v) /\ (x # v => status'[x] = s[x])
  BY <1>3 DEF Take
<1>5. v \in Pending' /\ Pending \subseteq Pending'
  <2>1. /\ Len(list') = Len(list) + 1 /\ Len(list) \in Nat
        /\ list'[Len(list) + 1] = v
        /\ \A i \in 1 .. Len(list) : list'[i] = list[i]
    BY <1>1, <1>4
  <2>2. Len(list) + 1 \in 1 .. Len(list')
    BY <2>1
  <2> QED BY <2>1, <2>2 DEF Pending
<1>6. x < voices /\ status'[x] = "ON" /\ x \notin Pending'
  BY <1>1 DEF Heard
<1>7. s[x] = "ON" /\ x \notin Pending
  BY <1>4, <1>5, <1>6
<1>8. x \notin Killed(evCh, evKey) /\ status[x] = "ON"
  BY <1>3, <1>7
<1>9. x < upper
  BY <1>6, <1>8 DEF UpperInv, SoundingBelowUpper
<1> QED BY <1>1, <1>2, <1>6, <1>7, <1>8, <1>9 DEF Kept, Heard

LEMMA StartSource ==
  ASSUME UpperInv, StartSample, NEW x \in V, Heard(x)'
  PROVE  Kept(x, x) \/ New(x)
<1> DEFINE v == Head(list)
<1>1. /\ op = "start" /\ voices' = voices
      /\ list \in Seq(V) /\ Len(list) > 0 /\ status \in [V -> Status] /\ v \in V
      /\ chan \in [V -> Channels \cup {None}] /\ key \in [V -> Notes \cup {None}]
      /\ vid \in [V -> Vids] /\ prox \in [V -> BOOLEAN]
  BY DEF StartSample, UpperInv, TypeInv, TypeOK, CallOK
<1>3. PICK w \in V, s \in [V -> Status], lk \in [V -> V] :
        /\ Double(v, w, s, lk)
        /\ \A y \in V : y # v => s[y] = status[y]
  BY StartShape
<1>4. CASE x \in {v, w}
  <2>1. chan'[x] = evCh /\ key'[x] = evKey /\ vid'[x] = evVid /\ prox'[x] = TRUE
    BY <1>1, <1>3, <1>4 DEF Double
  <2> QED BY <1>1, <2>1 DEF New
<1>5. CASE x \notin {v, w}
  <2>1. /\ chan'[x] = chan[x] /\ key'[x] = key[x] /\ vid'[x] = vid[x]
        /\ prox'[x] = prox[x] /\ status'[x] = status[x]
    BY <1>1, <1>3, <1>5 DEF Double
  <2>2. Pending \ {v} \subseteq Pending'
    <3>1. CASE Len(list) = 1
      BY <1>1, <3>1 DEF Pending
    <3>2. CASE Len(list) # 1
      <4>1. list' = Tail(list)
        BY <3>2 DEF StartSample
      <4>2. ASSUME NEW i \in 1 .. Len(list), list[i] # v
            PROVE  \E j \in 1 .. Len(list') : list'[j] = list[i]
        <5>1. i # 1
          BY <1>1, <4>2
        <5>2. i - 1 \in 1 .. Len(list') /\ list'[i - 1] = list[i]
          BY <1>1, <4>1, <5>1
        <5> QED BY <5>2
      <4> QED BY <4>2 DEF Pending
    <3> QED BY <3>1, <3>2
  <2>3. Heard(x)
    BY <1>1, <1>5, <2>1, <2>2 DEF Heard
  <2> QED BY <1>1, <2>1, <2>3 DEF Kept
<1> QED BY <1>4, <1>5

\* A step of any other handler turns no voice ON.
LEMMA QuietSource ==
  ASSUME UpperInv, Next, NEW x \in V, Heard(x)',
         ~SelectSample, ~StartSample,
         ~VoiceIncrement, ~VoiceDecrement, ~ConserveVoice
  PROVE  Kept(x, x)
<1>1. op \notin {"select", "start"} /\ UNCHANGED <<chan, key, vid, prox>>
  <2>1. CASE \/ \E c \in Channels, n \in Notes : NoteOn(c, n) \/ NoteOff(c, n)
             \/ \E c \in Channels : AllNotesOff(c)
             \/ \E c \in Channels \cup {None} : Adjust(c)
             \/ Compute \/ AutoReduce \/ PlayEnd \/ PlayEndFinish \/ PlayEndFade
             \/ PlayEndMix
    BY <2>1 DEF NoteOn, NoteOff, AllNotesOff, Adjust, Compute, AutoReduce, PlayEnd,
         PlayEndFinish, PlayEndFade, PlayEndMix, Begin, Idle, voiceVars
  <2>4. CASE \E c \in Channels : \/ \E a \in Pedal : Sustain(c, a)
                                 \/ \E on \in BOOLEAN : Sostenuto(c, on)
    <3>1. Idle /\ UNCHANGED voiceVars
      BY <2>4 DEF Sustain, Sostenuto, Begin
    <3> QED BY <3>1 DEF Idle, voiceVars
  <2>2. CASE \/ \E c \in Channels : AllSoundsOff(c) \/ ResetControllers(c)
             \/ SystemReset \/ Discard \/ Restart \/ PlayEndKill \/ PlayEndOver
             \/ PlayEndSkip
    BY <2>2 DEF AllSoundsOff, ResetControllers, SystemReset, Discard, Restart,
         PlayEndKill, PlayEndOver, PlayEndSkip, KillAll, Idle, voiceVars
  <2>3. CASE \/ SweepVoice \/ SweepEnd \/ ShedVoice \/ ShedDone \/ ConserveEnd
    BY <2>3 DEF SweepVoice, SweepEnd, ShedVoice, ShedDone, ConserveEnd, SweepOps,
         voiceVars
  <2> QED BY <2>1, <2>2, <2>3, <2>4 DEF Next
<1>2. status'[x] = "ON" => status[x] = "ON"
  <2>1. CASE UNCHANGED voiceVars
    BY <2>1 DEF voiceVars
  <2>2. CASE \E S \in SUBSET V : status' = Kill(S)
    BY <2>2 DEF Kill
  <2>3. CASE Restart
    BY <2>3 DEF Restart
  <2>4. CASE SweepVoice
    <3>1. status' = status \/ \E s \in Outcomes(at) : status' = [status EXCEPT ![at] = s]
      BY <2>4 DEF SweepVoice
    <3>2. \A s \in Outcomes(at) : s = "ON" => status[at] = "ON"
      BY DEF Outcomes, Finished
    <3>3. status \in [V -> Status]
      BY DEF UpperInv, TypeInv, TypeOK
    <3> QED BY <3>1, <3>2, <3>3
  <2>5. CASE ShedVoice
    BY <2>5 DEF ShedVoice, AfterSteal
  <2> QED BY <2>1, <2>2, <2>3, <2>4, <2>5
      DEF Next, NoteOn, NoteOff, AllNotesOff, Sustain, Sostenuto, Adjust, Compute,
         AutoReduce, PlayEnd, PlayEndFinish, PlayEndFade, PlayEndMix,
         AllSoundsOff, ResetControllers, SystemReset, Discard,
         PlayEndKill, PlayEndOver, PlayEndSkip, KillAll, SweepEnd, ShedDone,
         ConserveEnd, Below
<1>3. x < voices
  <2>1. CASE Restart
    BY <2>1 DEF Restart, Heard
  <2>2. CASE ~Restart
    <3>1. voices' = voices
      BY <2>2 DEF Next, NoteOn, NoteOff, AllNotesOff, Sustain, Sostenuto, Adjust,
         Compute, AutoReduce, PlayEnd, PlayEndFinish, PlayEndFade, PlayEndMix,
         AllSoundsOff, ResetControllers, SystemReset, Discard, PlayEndKill,
         PlayEndOver, PlayEndSkip, SweepVoice, SweepEnd, ShedVoice, ShedDone,
         ConserveEnd
    <3> QED BY <3>1 DEF Heard
  <2> QED BY <2>1, <2>2
<1>4. Pending = {}
  BY <1>1 DEF UpperInv, TypeInv, CallOK, Pending
<1> QED BY <1>1, <1>2, <1>3, <1>4 DEF Kept, Heard

\* A change of the polyphony moves a voice as it is.
LEMMA GiveUpSource ==
  ASSUME UpperInv, NEW k \in V, NEW free \in SUBSET V, NEW quiet \in SUBSET V,
         GiveUp(k, free, quiet), NEW x \in V
  PROVE  \E u \in {x, k} :
           /\ status'[x] # "FREE" => status[u] = status'[x]
           /\ chan'[x] = chan[u] /\ key'[x] = key[u] /\ vid'[x] = vid[u]
           /\ prox'[x] = prox[u]
<1>0. /\ status \in [V -> Status] /\ vid \in [V -> Vids] /\ prox \in [V -> BOOLEAN]
      /\ chan \in [V -> Channels \cup {None}] /\ key \in [V -> Notes \cup {None}]
  BY DEF UpperInv, TypeInv, TypeOK
<1>1. CASE UNCHANGED voiceVars
  BY <1>1 DEF voiceVars
<1>2. CASE \E j \in V : Move(k, j, status, link)
  BY <1>0, <1>2 DEF Move
<1>3. CASE \E j \in V : Move(k, j, [status EXCEPT ![j] = "FREE"], Unlink(link, j))
  BY <1>0, <1>3 DEF Move
<1> QED BY <1>1, <1>2, <1>3 DEF GiveUp

\* Lowering the polyphony by one gives up the last slot, or loses what is in it.
LEMMA PolyphonyShape ==
  ASSUME UpperInv, VoiceDecrement \/ ConserveVoice
  PROVE  \/ UNCHANGED voiceVars /\ voices' \in {voices, voices - 1}
         \/ \E k \in V, free \in SUBSET V, quiet \in SUBSET V :
              k + 1 = voices /\ voices' = k /\ GiveUp(k, free, quiet)
<1>0. voices \in Nat /\ voices <= MaxVoices
  BY ConstantsAssumption DEF UpperInv, TypeInv, TypeOK
<1>1. CASE VoiceDecrement
  <2> DEFINE k == voices - 1
             free == {v \in Below(k) : status[v] = "FREE"}
             quiet == {v \in Below(voices) : status[v] \in {"OFF", "SUSTAINED"}}
  <2>1. /\ voices > 0 /\ voices' = k
        /\ GiveUp(k, free, quiet) \/ UNCHANGED voiceVars
    BY <1>1 DEF VoiceDecrement
  <2>2. k \in V /\ k + 1 = voices /\ free \in SUBSET V /\ quiet \in SUBSET V
    BY <1>0, <2>1, ConstantsAssumption DEF V, Below
  <2> HIDE DEF free, quiet
  <2> QED BY <2>1, <2>2
<1>2. CASE ConserveVoice
  <2> DEFINE k == voices - 1
             free == {v \in Below(at) : status[v] = "FREE"}
             quiet == {v \in Below(voices) :
                         status[v] \in {"OFF", "SUSTAINED"} /\ ~Protected(v)}
  <2>1. \/ GiveUp(k, free, quiet) /\ voices' = k
        \/ UNCHANGED voiceVars /\ voices' = voices
    BY <1>2 DEF ConserveVoice
  <2>2. voices > 0
    BY <1>0, <1>2 DEF ConserveVoice, UpperInv, TypeInv, TypeOK, CallOK
  <2>3. k \in V /\ k + 1 = voices /\ free \in SUBSET V /\ quiet \in SUBSET V
    BY <1>0, <2>2, ConstantsAssumption DEF V, Below
  <2> HIDE DEF free, quiet
  <2> QED BY <2>1, <2>3
<1> QED BY <1>1, <1>2

LEMMA PolyphonySource ==
  ASSUME UpperInv, VoiceIncrement \/ VoiceDecrement \/ ConserveVoice,
         NEW x \in V, Heard(x)'
  PROVE  \E u \in V : Kept(u, x)
<1>0. /\ voices \in Nat /\ status \in [V -> Status] /\ voices <= MaxVoices
      /\ op \in {"idle", "conserve"} /\ Pending = {}
  <2>1. op \in {"idle", "conserve"}
    BY DEF VoiceIncrement, VoiceDecrement, ConserveVoice, Idle
  <2> QED BY <2>1, ConstantsAssumption
          DEF UpperInv, TypeInv, TypeOK, CallOK, Pending
<1>1. CASE VoiceIncrement
  <2>1. /\ voices' = voices + 1 /\ UNCHANGED <<chan, key, vid, prox>>
        /\ status'[voices] = "FREE" /\ voices \in V
        /\ \A v \in V : v # voices => status'[v] = status[v]
    BY <1>0, <1>1, ConstantsAssumption DEF VoiceIncrement, V
  <2>2. x # voices /\ x < voices + 1
    BY <2>1 DEF Heard
  <2>3. x < voices
    BY <1>0, <2>2 DEF V
  <2> QED BY <1>0, <2>1, <2>2, <2>3 DEF Kept, Heard
<1>2. CASE UNCHANGED voiceVars /\ voices' \in {voices, voices - 1}
  <2>1. x < voices
    BY <1>0, <1>2 DEF Heard, V
  <2> QED BY <1>0, <1>2, <2>1 DEF Kept, Heard, voiceVars
<1>3. CASE \E k \in V, free \in SUBSET V, quiet \in SUBSET V :
             k + 1 = voices /\ voices' = k /\ GiveUp(k, free, quiet)
  <2> PICK k \in V, free \in SUBSET V, quiet \in SUBSET V :
             k + 1 = voices /\ voices' = k /\ GiveUp(k, free, quiet)
    BY <1>3
  <2>1. PICK u \in {x, k} :
           /\ status'[x] # "FREE" => status[u] = status'[x]
           /\ chan'[x] = chan[u] /\ key'[x] = key[u] /\ vid'[x] = vid[u]
           /\ prox'[x] = prox[u]
    BY GiveUpSource
  <2>2. u \in V /\ u < voices
    BY <1>0 DEF Heard, V
  <2>3. status[u] = "ON"
    BY <2>1 DEF Heard
  <2> QED BY <1>0, <2>1, <2>2, <2>3 DEF Kept, Heard
<1> QED BY <1>1, <1>2, <1>3, PolyphonyShape

LEMMA NextSource ==
  ASSUME UpperInv, Next, NEW x \in V, Heard(x)'
  PROVE  New(x) \/ \E u \in V : Kept(u, x)
<1>1. CASE SelectSample \/ StartSample
  BY <1>1, SelectSource, StartSource
<1>2. CASE VoiceIncrement \/ VoiceDecrement \/ ConserveVoice
  BY <1>2, PolyphonySource
<1> QED BY <1>1, <1>2, QuietSource

\* The note being placed stays the same, and find_voice has run for it.
LEMMA NextPlacing ==
  ASSUME UpperInv, Next, Placing'
  PROVE  /\ op \in {"select", "start"} /\ evCh' = evCh /\ evKey' = evKey
         /\ op = "start" => op' = "start" /\ evVid' = evVid
<1>1. op' \in {"select", "start"} /\ list' # <<>> 
  <2>1. op' = "start" => list' # <<>>
    <3>1. TypeInv'
      BY NextType DEF UpperInv
    <3> QED BY <3>1 DEF TypeInv, CallOK
  <2> QED BY <2>1 DEF Placing
<1>2. op = "idle" => list = <<>>
  BY DEF UpperInv, TypeInv, CallOK
<1>3. CASE SelectSample \/ StartSample
  BY <1>1, <1>3 DEF SelectSample, StartSample, Take, Finish
<1>4. CASE ~SelectSample /\ ~StartSample
  <2>1. CASE \/ \E c \in Channels, n \in Notes : NoteOn(c, n) \/ NoteOff(c, n)
             \/ \E c \in Channels : \/ AllNotesOff(c)
                                    \/ \E a \in Pedal : Sustain(c, a)
                                    \/ \E on \in BOOLEAN : Sostenuto(c, on)
             \/ \E c \in Channels \cup {None} : Adjust(c)
             \/ Compute \/ AutoReduce \/ PlayEnd \/ PlayEndFinish \/ PlayEndFade
             \/ PlayEndMix
    <3>1. op = "idle" /\ (list' = <<>> \/ UNCHANGED callVars)
      BY <2>1 DEF NoteOn, NoteOff, AllNotesOff, Sustain, Sostenuto, Adjust, Compute,
         AutoReduce, PlayEnd, PlayEndFinish, PlayEndFade, PlayEndMix, Begin, Idle
    <3> QED BY <1>1, <1>2, <3>1 DEF callVars
  <2>2. CASE \/ \E c \in Channels : AllSoundsOff(c) \/ ResetControllers(c)
             \/ SystemReset \/ Discard \/ Restart \/ PlayEndKill \/ PlayEndOver
             \/ PlayEndSkip \/ VoiceIncrement \/ VoiceDecrement
    <3>1. op = "idle" /\ UNCHANGED callVars
      BY <2>2 DEF AllSoundsOff, ResetControllers, SystemReset, Discard, Restart,
         PlayEndKill, PlayEndOver, PlayEndSkip, VoiceIncrement, VoiceDecrement, Idle
    <3> QED BY <1>1, <1>2, <3>1 DEF callVars
  <2>3. CASE \/ SweepVoice \/ SweepEnd \/ ShedVoice \/ ShedDone \/ ConserveVoice
             \/ ConserveEnd
    <3>1. op' \notin {"select", "start"}
      BY <2>3 DEF SweepVoice, SweepEnd, ShedVoice, ShedDone, ConserveVoice,
                  ConserveEnd, SweepOps, Finish
    <3> QED BY <1>1, <3>1
  <2> QED BY <1>4, <2>1, <2>2, <2>3 DEF Next
<1> QED BY <1>3, <1>4

-------------------------------------------------------------------------------
(***************************************************************************)
(* Notes that exclude each other.                                          *)
(***************************************************************************)
\* Once find_voice has run, the voices of the group that are heard on the
\* channel play the note being started.
GroupCleared ==
  Placing /\ evKey \in AltAssign[evCh] =>
    \A v \in V : Heard(v) /\ chan[v] = evCh /\ key[v] \in AltAssign[evCh] =>
      op = "start" /\ key[v] = evKey

OneOfGroup ==
  \A v, w \in V :
    /\ Heard(v) /\ Heard(w) /\ chan[v] = chan[w]
    /\ key[v] \in AltAssign[chan[v]] /\ key[w] \in AltAssign[chan[v]]
    => key[v] = key[w]

GroupInv == UpperInv /\ GroupCleared /\ OneOfGroup

LEMMA NextGroup == GroupInv /\ [Next]_vars => GroupInv'
<1> SUFFICES ASSUME GroupInv, [Next]_vars PROVE GroupInv'
  OBVIOUS
<1>0. UpperInv /\ UpperInv'
  BY NextUpper DEF GroupInv
<1>1. CASE UNCHANGED vars
  BY <1>0, <1>1 DEF GroupInv, GroupCleared, OneOfGroup, Placing, Heard, Pending, vars,
               voiceVars, callVars
<1>2. CASE Next
  <2>1. GroupCleared'
    <3> SUFFICES ASSUME Placing', evKey' \in AltAssign[evCh'],
                        NEW x \in V, Heard(x)', chan'[x] = evCh',
                        key'[x] \in AltAssign[evCh']
                 PROVE  op' = "start" /\ key'[x] = evKey'
      BY DEF GroupCleared
    <3>1. /\ op \in {"select", "start"} /\ evCh' = evCh /\ evKey' = evKey
          /\ op = "start" => op' = "start"
      BY <1>0, <1>2, NextPlacing
    <3>2. CASE New(x)
      BY <3>1, <3>2 DEF New
    <3>3. CASE \E u \in V : Kept(u, x)
      <4> PICK u \in V : Kept(u, x)
        BY <3>3
      <4>1. Heard(u) /\ chan[u] = evCh /\ key[u] \in AltAssign[evCh] /\ key'[x] = key[u]
        BY <3>1 DEF Kept
      <4>2. op # "select"
        BY <3>1, <4>1 DEF Kept, Killed, Excluded, Below, Heard
      <4> QED BY <3>1, <4>1, <4>2 DEF GroupInv, GroupCleared, Placing
    <3> QED BY <1>0, <1>2, <3>2, <3>3, NextSource
  <2>2. OneOfGroup'
    <3>1. ASSUME NEW x \in V, NEW y \in V, NEW u \in V, Kept(u, x), New(y),
                 chan'[x] = chan'[y],
                 key'[x] \in AltAssign[chan'[x]], key'[y] \in AltAssign[chan'[x]]
          PROVE  key'[x] = key'[y]
      <4>1. op = "start" /\ Heard(u) /\ chan[u] = evCh /\ key'[x] = key[u]
            /\ key'[y] = evKey /\ chan'[x] = evCh
        BY <3>1 DEF Kept, New
      <4> QED BY <3>1, <4>1 DEF GroupInv, GroupCleared, Placing
    <3>2. ASSUME NEW x \in V, NEW y \in V, NEW u \in V, NEW w \in V,
                 Kept(u, x), Kept(w, y), chan'[x] = chan'[y],
                 key'[x] \in AltAssign[chan'[x]], key'[y] \in AltAssign[chan'[x]]
          PROVE  key'[x] = key'[y]
      BY <3>2 DEF Kept, GroupInv, OneOfGroup
    <3> SUFFICES ASSUME NEW x \in V, NEW y \in V, Heard(x)', Heard(y)',
                 chan'[x] = chan'[y],
                 key'[x] \in AltAssign[chan'[x]], key'[y] \in AltAssign[chan'[x]]
          PROVE  key'[x] = key'[y]
      BY DEF OneOfGroup
    <3>3. New(x) \/ \E u \in V : Kept(u, x)
      BY <1>0, <1>2, NextSource
    <3>4. New(y) \/ \E w \in V : Kept(w, y)
      BY <1>0, <1>2, NextSource
    <3>5. CASE New(x) /\ New(y)
      BY <3>5 DEF New
    <3>6. CASE New(x) /\ \E w \in V : Kept(w, y)
      <4>1. key'[y] = key'[x]
        BY <3>1, <3>6
      <4> QED BY <4>1
    <3>7. CASE New(y) /\ \E u \in V : Kept(u, x)
      BY <3>1, <3>7
    <3>8. CASE (\E u \in V : Kept(u, x)) /\ (\E w \in V : Kept(w, y))
      BY <3>2, <3>8
    <3> QED BY <3>3, <3>4, <3>5, <3>6, <3>7, <3>8
  <2> QED BY <1>0, <2>1, <2>2 DEF GroupInv
<1> QED BY <1>1, <1>2

\* Voices heard while no handler runs are those that are ON.
LEMMA IdleHeard ==
  ASSUME UpperInv, Idle, NEW v \in V, v < voices, status[v] = "ON"
  PROVE  Heard(v)
  BY DEF Heard, Pending, UpperInv, TypeInv, CallOK, Idle

LEMMA InitHeard == Init => UpperInv /\ ~Placing /\ \A v \in V : ~Heard(v)
<1> SUFFICES ASSUME Init
             PROVE  UpperInv /\ ~Placing /\ \A v \in V : ~Heard(v)
  OBVIOUS
<1>1. UpperInv
  BY InitUpper
<1> QED BY <1>1 DEF Init, Placing, Heard

\* No two notes of one alternate-assign group are ON together on a channel
\* while no handler runs (find_voice of timidity/playmidi.c).
THEOREM Exclusive == Spec => []ExclusiveNotes
<1>1. Init => GroupInv
  BY InitHeard DEF GroupInv, GroupCleared, OneOfGroup
<1>2. GroupInv /\ [Next]_vars => GroupInv'
  BY NextGroup
<1>3. GroupInv => ExclusiveNotes
  <2> SUFFICES ASSUME GroupInv, Idle, NEW v \in V, NEW w \in V,
                      v < voices, w < voices, status[v] = "ON", status[w] = "ON",
                      chan[v] = chan[w], {key[v], key[w]} \subseteq AltAssign[chan[v]]
               PROVE  key[v] = key[w]
    BY DEF ExclusiveNotes
  <2>1. Heard(v) /\ Heard(w)
    BY IdleHeard DEF GroupInv
  <2> QED BY <2>1 DEF GroupInv, OneOfGroup
<1> QED BY <1>1, <1>2, <1>3, PTL DEF Spec

-------------------------------------------------------------------------------
(***************************************************************************)
(* The bound of the assign mode.                                           *)
(***************************************************************************)
\* The voices of a key that one note on has started: all of them in mode 0,
\* those heard with the same proximate_flag in mode 1.
OneNoteOn ==
  \A v, w \in V :
    /\ Heard(v) /\ Heard(w) /\ chan[v] = chan[w] /\ key[v] = key[w]
    /\ AssignMode[chan[v]] = 0 \/ (AssignMode[chan[v]] = 1 /\ prox[v] = prox[w])
    => vid[v] = vid[w]

\* Once find_voice has run, the voices of the key that may stay beside the
\* note being started are its own, or in mode 1 the previous note's, whose
\* proximate_flag is clear.
KeyCleared ==
  Placing =>
    \A v \in V :
      /\ Heard(v) /\ chan[v] = evCh /\ key[v] = evKey
      /\ AssignMode[evCh] = 0 \/ (AssignMode[evCh] = 1 /\ prox[v])
      => op = "start" /\ vid[v] = evVid

AssignInv == UpperInv /\ OneNoteOn /\ KeyCleared

LEMMA NextAssign == AssignInv /\ [Next]_vars => AssignInv'
<1> SUFFICES ASSUME AssignInv, [Next]_vars PROVE AssignInv'
  OBVIOUS
<1>0. UpperInv /\ UpperInv'
  BY NextUpper DEF AssignInv
<1>1. CASE UNCHANGED vars
  BY <1>0, <1>1 DEF AssignInv, OneNoteOn, KeyCleared, Placing, Heard, Pending, vars,
               voiceVars, callVars
<1>2. CASE Next
  <2>1. KeyCleared'
    <3> SUFFICES ASSUME Placing', NEW x \in V, Heard(x)', chan'[x] = evCh',
                        key'[x] = evKey',
                        \/ AssignMode[evCh'] = 0
                        \/ AssignMode[evCh'] = 1 /\ prox'[x]
                 PROVE  op' = "start" /\ vid'[x] = evVid'
      BY DEF KeyCleared
    <3>1. /\ op \in {"select", "start"} /\ evCh' = evCh /\ evKey' = evKey
          /\ op = "start" => op' = "start" /\ evVid' = evVid
      BY <1>0, <1>2, NextPlacing
    <3>2. CASE New(x)
      BY <3>1, <3>2 DEF New
    <3>3. CASE \E u \in V : Kept(u, x)
      <4> PICK u \in V : Kept(u, x)
        BY <3>3
      <4>1. Heard(u) /\ chan[u] = evCh /\ key[u] = evKey /\ vid'[x] = vid[u]
        BY <3>1 DEF Kept
      <4>2. op # "select"
        BY <3>1, <4>1 DEF Kept, Killed, OverAssigned, Below, Heard
      <4>3. prox'[x] = prox[u]
        BY <4>2 DEF Kept
      <4> QED BY <3>1, <4>1, <4>2, <4>3 DEF AssignInv, KeyCleared, Placing
    <3> QED BY <1>0, <1>2, <3>2, <3>3, NextSource
  <2>2. OneNoteOn'
    <3>1. ASSUME NEW x \in V, NEW y \in V, NEW u \in V, Kept(u, x), New(y),
                 chan'[x] = chan'[y], key'[x] = key'[y],
                 \/ AssignMode[chan'[x]] = 0
                 \/ AssignMode[chan'[x]] = 1 /\ prox'[x] = prox'[y]
          PROVE  vid'[x] = vid'[y]
      <4>1. /\ op = "start" /\ Heard(u) /\ chan[u] = evCh /\ key[u] = evKey
            /\ vid'[x] = vid[u] /\ vid'[y] = evVid /\ prox'[x] = prox[u]
            /\ prox'[y] = TRUE /\ chan'[x] = evCh
        BY <3>1 DEF Kept, New
      <4> QED BY <3>1, <4>1 DEF AssignInv, KeyCleared, Placing
    <3>2. ASSUME NEW x \in V, NEW y \in V, NEW u \in V, NEW w \in V,
                 Kept(u, x), Kept(w, y), chan'[x] = chan'[y], key'[x] = key'[y],
                 \/ AssignMode[chan'[x]] = 0
                 \/ AssignMode[chan'[x]] = 1 /\ prox'[x] = prox'[y]
          PROVE  vid'[x] = vid'[y]
      <4>1. /\ Heard(u) /\ Heard(w) /\ chan[u] = chan[w] /\ key[u] = key[w]
            /\ vid'[x] = vid[u] /\ vid'[y] = vid[w] /\ chan'[x] = chan[u]
        BY <3>2 DEF Kept
      <4>2. CASE op = "select" /\ chan[u] = evCh /\ key[u] = evKey
        <5>1. AssignMode[chan[u]] = 1 /\ prox[u] /\ prox[w]
          BY <3>2, <4>1, <4>2 DEF Kept, Killed, OverAssigned, Below, Heard
        <5>2. prox[u] = prox[w]
          BY <5>1 DEF UpperInv, TypeInv, TypeOK, AssignInv
        <5> QED BY <4>1, <5>1, <5>2 DEF AssignInv, OneNoteOn
      <4>3. CASE ~(op = "select" /\ chan[u] = evCh /\ key[u] = evKey)
        <5>1. prox'[x] = prox[u] /\ prox'[y] = prox[w]
          BY <3>2, <4>1, <4>3 DEF Kept
        <5> QED BY <3>2, <4>1, <5>1 DEF AssignInv, OneNoteOn
      <4> QED BY <4>2, <4>3
    <3> SUFFICES ASSUME NEW x \in V, NEW y \in V, Heard(x)', Heard(y)',
                 chan'[x] = chan'[y], key'[x] = key'[y],
                 \/ AssignMode[chan'[x]] = 0
                 \/ AssignMode[chan'[x]] = 1 /\ prox'[x] = prox'[y]
          PROVE  vid'[x] = vid'[y]
      BY DEF OneNoteOn
    <3>3. New(x) \/ \E u \in V : Kept(u, x)
      BY <1>0, <1>2, NextSource
    <3>4. New(y) \/ \E w \in V : Kept(w, y)
      BY <1>0, <1>2, NextSource
    <3>5. CASE New(x) /\ New(y)
      BY <3>5 DEF New
    <3>6. CASE New(x) /\ \E w \in V : Kept(w, y)
      <4>1. vid'[y] = vid'[x]
        BY <3>1, <3>6
      <4> QED BY <4>1
    <3>7. CASE New(y) /\ \E u \in V : Kept(u, x)
      BY <3>1, <3>7
    <3>8. CASE (\E u \in V : Kept(u, x)) /\ (\E w \in V : Kept(w, y))
      BY <3>2, <3>8
    <3> QED BY <3>3, <3>4, <3>5, <3>6, <3>7, <3>8
  <2> QED BY <1>0, <2>1, <2>2 DEF AssignInv
<1> QED BY <1>1, <1>2

LEMMA AtMostOne ==
  ASSUME NEW S, \A a, b \in S : a = b
  PROVE  IsFiniteSet(S) /\ Cardinality(S) <= 1
<1>1. CASE S = {}
  BY <1>1, FS_EmptySet
<1>2. CASE S # {}
  <2> PICK a \in S : TRUE
    BY <1>2
  <2>1. a \in S /\ \A b \in S : b = a
    OBVIOUS
  <2>2. S = {a}
    BY <2>1, Zenon
  <2>3. IsFiniteSet({a}) /\ Cardinality({a}) = 1
    BY FS_Singleton, Zenon
  <2>4. IsFiniteSet(S) /\ Cardinality(S) = 1
    BY <2>2, <2>3, Zenon
  <2> QED BY <2>4
<1> QED BY <1>1, <1>2

LEMMA AtMostTwo ==
  ASSUME NEW S, NEW T, \A a, b \in S : a = b, \A a, b \in T : a = b
  PROVE  Cardinality(S \cup T) <= 2
<1>1. /\ IsFiniteSet(S) /\ Cardinality(S) <= 1 /\ IsFiniteSet(T) /\ Cardinality(T) <= 1
  BY AtMostOne
<1>2. /\ Cardinality(S) \in Nat /\ Cardinality(T) \in Nat /\ Cardinality(S \cap T) \in Nat
  BY <1>1, FS_CardinalityType, FS_Intersection
<1>3. Cardinality(S \cup T) = Cardinality(S) + Cardinality(T) - Cardinality(S \cap T)
  BY <1>1, FS_Union
<1> QED BY <1>1, <1>2, <1>3

\* The note-ons of one key that are ON together while no handler runs are one
\* in assign mode 0 and at most two in mode 1 (find_voice).
THEOREM AssignBound == Spec => []AssignLimit
<1>1. Init => AssignInv
  BY InitHeard DEF AssignInv, OneNoteOn, KeyCleared
<1>2. AssignInv /\ [Next]_vars => AssignInv'
  BY NextAssign
<1>3. AssignInv => AssignLimit
  <2> SUFFICES ASSUME AssignInv, Idle, NEW c \in Channels, NEW n \in Notes,
                      AssignMode[c] < 2
               PROVE  Cardinality({vid[v] : v \in {u \in V : u < voices /\ status[u] = "ON"
                                                      /\ chan[u] = c /\ key[u] = n}})
                        <= AssignMode[c] + 1
    BY DEF AssignLimit
  <2> DEFINE on == {u \in V : u < voices /\ status[u] = "ON"
                               /\ chan[u] = c /\ key[u] = n}
  <2>1. \A v \in on : Heard(v) /\ chan[v] = c /\ key[v] = n /\ v \in V
    BY IdleHeard DEF AssignInv
  <2>2. AssignMode[c] \in 0 .. 2 /\ prox \in [V -> BOOLEAN]
    BY ConstantsAssumption DEF AssignInv, UpperInv, TypeInv, TypeOK
  <2> HIDE DEF on
  <2>3. CASE AssignMode[c] = 0
    <3>1. \A a, b \in {vid[v] : v \in on} : a = b
      BY <2>1, <2>3 DEF AssignInv, OneNoteOn
    <3>2. Cardinality({vid[v] : v \in on}) <= 1
      BY <3>1, AtMostOne
    <3> QED BY <2>3, <3>2 DEF on
  <2>4. CASE AssignMode[c] = 1
    <3> DEFINE S == {vid[v] : v \in {u \in on : prox[u] = TRUE}}
               T == {vid[v] : v \in {u \in on : prox[u] = FALSE}}
    <3>0. \A v, w \in on : prox[v] = prox[w] => vid[v] = vid[w]
      BY <2>1, <2>4 DEF AssignInv, OneNoteOn
    <3>1. \A a, b \in S : a = b
      BY <3>0
    <3>2. \A a, b \in T : a = b
      BY <3>0
    <3>3. {vid[v] : v \in on} = S \cup T
      BY <2>1, <2>2
    <3>4. Cardinality(S \cup T) <= 2
      <4> HIDE DEF S, T
      <4> QED BY <3>1, <3>2, AtMostTwo
    <3> QED BY <2>4, <3>3, <3>4 DEF on
  <2> QED BY <2>2, <2>3, <2>4
<1> QED BY <1>1, <1>2, <1>3, PTL DEF Spec

-------------------------------------------------------------------------------
(***************************************************************************)
(* One instance of a note.                                                 *)
(***************************************************************************)
InstanceInv == UpperInv /\ \A v \in V : Heard(v) => prox[v] = TRUE

\* Without overlap, find_voice's comment "Only one instance of a note can be
\* playing on a single channel" holds while no handler runs: the voices ON for
\* one key all have proximate_flag set.
THEOREM SingleInstance ==
  ASSUME ~OverlapAllow
  PROVE  Spec => []OneInstance
<1>1. Init => InstanceInv
  BY InitHeard DEF InstanceInv
<1>2. InstanceInv /\ [Next]_vars => InstanceInv'
  <2> SUFFICES ASSUME InstanceInv, [Next]_vars PROVE InstanceInv'
    OBVIOUS
  <2>0. UpperInv /\ UpperInv'
    BY NextUpper DEF InstanceInv
  <2>1. CASE UNCHANGED vars
    BY <2>0, <2>1 DEF InstanceInv, Heard, Pending, vars, voiceVars, callVars
  <2>2. CASE Next
    <3> SUFFICES ASSUME NEW x \in V, Heard(x)' PROVE prox'[x] = TRUE
      BY <2>0 DEF InstanceInv
    <3>1. CASE New(x)
      BY <3>1 DEF New
    <3>2. CASE \E u \in V : Kept(u, x)
      <4> PICK u \in V : Kept(u, x)
        BY <3>2
      <4>1. Heard(u) /\ prox[u] = TRUE
        BY DEF Kept, InstanceInv
      <4>2. ~(op = "select" /\ chan[u] = evCh /\ key[u] = evKey)
        BY <4>1 DEF Kept, Killed, PlaysAlready, Below, Heard
      <4> QED BY <4>1, <4>2 DEF Kept
    <3> QED BY <2>0, <2>2, <3>1, <3>2, NextSource
  <2> QED BY <2>1, <2>2
<1>3. InstanceInv => OneInstance
  <2> SUFFICES ASSUME InstanceInv, Idle, NEW v \in V, NEW w \in V,
                      v < voices, w < voices, status[v] = "ON", status[w] = "ON"
               PROVE  prox[v] = prox[w]
    BY DEF OneInstance
  <2>1. Heard(v) /\ Heard(w)
    BY IdleHeard DEF InstanceInv
  <2> QED BY <2>1 DEF InstanceInv
<1> QED BY <1>1, <1>2, <1>3, PTL DEF Spec

-------------------------------------------------------------------------------
(***************************************************************************)
(* Voices held by a pedal.                                                 *)
(***************************************************************************)
Held(c) == sustain[c] # "up" \/ sostenuto[c]

\* The drop_sustain in progress has yet to reach voice v.
DropDue(v) == op = "drop_sustain" /\ chan[v] = evCh /\ at <= v

HeldOrDropped ==
  \A v \in V : v < voices /\ status[v] = "SUSTAINED" =>
    chan[v] \in Channels /\ (Held(chan[v]) \/ DropDue(v))

\* A handler that holds voices runs because a pedal is down.
HoldPressed == op = "hold" => Held(evCh)

PedalInv == UpperInv /\ HeldOrDropped /\ HoldPressed

\* A step that sustains no voice and moves no pedal, outside drop_sustain.
LEMMA FramePedal ==
  ASSUME PedalInv, UpperInv', op # "drop_sustain", op' # "hold",
         UNCHANGED <<sustain, sostenuto>>,
         \A x \in V : x < voices' /\ status'[x] = "SUSTAINED" =>
           \E u \in V : u < voices /\ status[u] = "SUSTAINED" /\ chan'[x] = chan[u]
  PROVE  PedalInv'
<1>1. HeldOrDropped'
  <2> SUFFICES ASSUME NEW x \in V, x < voices', status'[x] = "SUSTAINED"
               PROVE  chan'[x] \in Channels /\ Held(chan[x])'
    BY DEF HeldOrDropped
  <2> PICK u \in V : u < voices /\ status[u] = "SUSTAINED" /\ chan'[x] = chan[u]
    OBVIOUS
  <2>1. chan[u] \in Channels /\ Held(chan[u])
    BY DEF PedalInv, HeldOrDropped, DropDue
  <2> QED BY <2>1 DEF Held
<1> QED BY <1>1 DEF PedalInv, HoldPressed

LEMMA BeginPedal ==
  ASSUME PedalInv, UpperInv',
         \/ \E c \in Channels, n \in Notes : NoteOn(c, n) \/ NoteOff(c, n)
         \/ \E c \in Channels : AllNotesOff(c)
         \/ \E c \in Channels \cup {None} : Adjust(c)
         \/ Compute \/ AutoReduce \/ PlayEnd \/ PlayEndFinish \/ PlayEndFade
         \/ PlayEndMix \/ PlayEndOver \/ PlayEndSkip
  PROVE  PedalInv'
<1>1. /\ op = "idle" /\ UNCHANGED <<status, chan, voices, sustain, sostenuto>>
      /\ op' # "hold"
  BY DEF NoteOn, NoteOff, AllNotesOff, Adjust, Compute, AutoReduce, PlayEnd,
         PlayEndFinish, PlayEndFade, PlayEndMix, PlayEndOver, PlayEndSkip, Begin, Idle,
         voiceVars, channelVars, callVars
<1> QED BY <1>1, FramePedal

\* A pedal that goes up while the other is up starts a sweep that lets go of
\* the channel's voices; as long as one is down they are held.
LEMMA MovePedal ==
  ASSUME PedalInv, UpperInv', NEW c \in Channels,
         (\E a \in Pedal : Sustain(c, a)) \/ (\E on \in BOOLEAN : Sostenuto(c, on))
  PROVE  PedalInv'
<1>1. /\ op = "idle" /\ UNCHANGED <<status, chan, voices>>
      /\ op' \in {"drop_sustain", "hold"} => evCh' = c
      /\ at' = 0
  BY DEF Sustain, Sostenuto, Begin, Idle, voiceVars
<1>2. sustain \in [Channels -> Pedal] /\ sostenuto \in [Channels -> BOOLEAN]
  BY DEF PedalInv, UpperInv, TypeInv, TypeOK
<1>3. /\ \A e \in Channels \ {c} : sustain'[e] = sustain[e] /\ sostenuto'[e] = sostenuto[e]
      /\ op' = "hold" => Held(c)'
      /\ op' = "drop_sustain" \/ Held(c)'
  <2>1. ASSUME NEW a \in Pedal, Sustain(c, a)
        PROVE  /\ \A e \in Channels \ {c} : sustain'[e] = sustain[e] /\ sostenuto'[e] = sostenuto[e]
               /\ op' = "hold" => Held(c)'
               /\ op' = "drop_sustain" \/ Held(c)'
    <3>1. /\ sustain' = [sustain EXCEPT ![c] = Pressed(c, a)] /\ sostenuto' = sostenuto
          /\ op' # "drop_sustain" => ~(Pressed(c, a) = "up" /\ ~sostenuto[c])
      BY <2>1 DEF Sustain, Begin, Pressed
    <3>2. op' = "hold" => op' # "drop_sustain"
      OBVIOUS
    <3> QED BY <1>2, <3>1, <3>2 DEF Held
  <2>2. ASSUME NEW on \in BOOLEAN, Sostenuto(c, on)
        PROVE  /\ \A e \in Channels \ {c} : sustain'[e] = sustain[e] /\ sostenuto'[e] = sostenuto[e]
               /\ op' = "hold" => Held(c)'
               /\ op' = "drop_sustain" \/ Held(c)'
    <3>1. /\ sostenuto' = [sostenuto EXCEPT ![c] = on] /\ sustain' = sustain
          /\ op' # "drop_sustain" => ~(sustain[c] = "up" /\ ~on)
      BY <2>2 DEF Sostenuto, Begin
    <3>2. op' = "hold" => op' # "drop_sustain"
      OBVIOUS
    <3> QED BY <1>2, <3>1, <3>2 DEF Held
  <2> QED BY <2>1, <2>2
<1>4. HeldOrDropped'
  <2> SUFFICES ASSUME NEW x \in V, x < voices, status[x] = "SUSTAINED"
               PROVE  chan[x] \in Channels /\ (Held(chan[x])' \/ DropDue(x)')
    BY <1>1 DEF HeldOrDropped
  <2>1. chan[x] \in Channels /\ Held(chan[x]) /\ 0 <= x
    BY <1>1 DEF PedalInv, HeldOrDropped, DropDue, V
  <2>2. CASE chan[x] # c
    BY <1>1, <1>3, <2>1, <2>2 DEF Held
  <2>3. CASE chan[x] = c
    <3>1. CASE op' = "drop_sustain"
      BY <1>1, <2>1, <2>3, <3>1 DEF DropDue
    <3>2. CASE op' # "drop_sustain"
      <4>1. Held(c)' /\ chan' = chan
        BY <1>1, <1>3, <3>2
      <4> QED BY <2>1, <2>3, <4>1 DEF Held
    <3> QED BY <3>1, <3>2
  <2> QED BY <2>1, <2>2, <2>3
<1> QED BY <1>1, <1>3, <1>4 DEF PedalInv, HoldPressed

LEMMA SweepPedal == PedalInv /\ UpperInv' /\ (SweepVoice \/ SweepEnd) => PedalInv'
<1> SUFFICES ASSUME PedalInv, UpperInv', SweepVoice \/ SweepEnd PROVE PedalInv'
  OBVIOUS
<1>0. /\ op \in SweepOps /\ at \in Nat /\ upper \in Nat /\ upper <= MaxVoices
      /\ UNCHANGED <<chan, voices, sustain, sostenuto>>
      /\ status \in [V -> Status] /\ voices \in Nat
      /\ op \in {"all_notes_off", "note_off", "drop_sustain", "hold"} => evCh \in Channels
  BY ConstantsAssumption
  DEF SweepVoice, SweepEnd, PedalInv, UpperInv, TypeInv, TypeOK, CallOK, channelVars,
      voiceVars
<1>1. CASE SweepVoice
  <2>1. /\ op' = op /\ evCh' = evCh /\ at' = at + 1 /\ at < upper /\ at \in V
    BY <1>0, <1>1, ConstantsAssumption DEF SweepVoice, V
  <2>2. HoldPressed'
    BY <1>0, <2>1 DEF PedalInv, HoldPressed, Held
  <2>3. /\ \A x \in V : x # at => status'[x] = status[x]
        /\ status'[at] = "SUSTAINED" =>
             \/ status[at] = "SUSTAINED" /\ ~(op = "drop_sustain" /\ chan[at] = evCh)
             \/ chan[at] = evCh /\ evCh \in Channels /\ Held(evCh)
    <3>1. CASE Matches(at)
      <4> PICK s \in Outcomes(at) : status' = [status EXCEPT ![at] = s]
        BY <1>1, <3>1 DEF SweepVoice
      <4>1. status'[at] = s
        BY <1>0, <2>1
      <4>2. CASE s = "SUSTAINED"
        <5>1. CASE op \in {"note_off", "all_notes_off"}
          BY <1>0, <3>1, <4>2, <5>1 DEF Outcomes, Finished, Matches, Held
        <5>2. CASE op = "hold"
          BY <1>0, <3>1, <4>2, <5>2 DEF Matches, PedalInv, HoldPressed
        <5>3. CASE op \in {"drop_sustain", "finish_all"}
          BY <4>2, <5>3 DEF Outcomes, Finished
        <5>4. CASE op \in {"adjust", "compute"}
          BY <4>2, <5>4 DEF Outcomes
        <5> QED BY <1>0, <5>1, <5>2, <5>3, <5>4 DEF SweepOps
      <4> QED BY <1>0, <4>1, <4>2
    <3>2. CASE ~Matches(at)
      <4>1. status' = status
        BY <1>1, <3>2 DEF SweepVoice
      <4>2. status[at] = "SUSTAINED" => ~(op = "drop_sustain" /\ chan[at] = evCh)
        BY <3>2 DEF Matches
      <4> QED BY <4>1, <4>2
    <3> QED BY <3>1, <3>2
  <2>4. HeldOrDropped'
    <3> SUFFICES ASSUME NEW x \in V, x < voices, status'[x] = "SUSTAINED"
                 PROVE  chan[x] \in Channels /\ (Held(chan[x]) \/ DropDue(x)')
      BY <1>0 DEF HeldOrDropped, Held
    <3>1. CASE x = at
      BY <2>3, <3>1 DEF PedalInv, HeldOrDropped, DropDue
    <3>2. CASE x # at
      <4>1. chan[x] \in Channels /\ (Held(chan[x]) \/ DropDue(x))
        BY <2>3, <3>2 DEF PedalInv, HeldOrDropped
      <4>2. DropDue(x) => DropDue(x)'
        BY <1>0, <2>1, <3>2 DEF DropDue, V
      <4> QED BY <4>1, <4>2
    <3> QED BY <3>1, <3>2
  <2> QED BY <2>2, <2>4 DEF PedalInv
<1>2. CASE SweepEnd
  <2>1. op' = "idle" /\ status' = status /\ at >= upper
    BY <1>2 DEF SweepEnd, Finish, voiceVars
  <2>2. HeldOrDropped'
    <3> SUFFICES ASSUME NEW x \in V, x < voices, status[x] = "SUSTAINED"
                 PROVE  chan[x] \in Channels /\ Held(chan[x])
      BY <1>0, <2>1 DEF HeldOrDropped, Held
    <3>1. x < upper
      BY DEF PedalInv, UpperInv, SoundingBelowUpper
    <3>2. ~(at <= x)
      BY <1>0, <2>1, <3>1 DEF V
    <3> QED BY <3>2 DEF PedalInv, HeldOrDropped, DropDue
  <2> QED BY <2>1, <2>2 DEF PedalInv, HoldPressed
<1> QED BY <1>1, <1>2

LEMMA NextPedal == PedalInv /\ ~ControllerResets /\ [Next]_vars => PedalInv'
<1> SUFFICES ASSUME PedalInv, ~ControllerResets, [Next]_vars PROVE PedalInv'
  OBVIOUS
<1>0. UpperInv /\ UpperInv'
  BY NextUpper DEF PedalInv
<1>a. /\ status \in [V -> Status] /\ voices \in Nat /\ voices <= MaxVoices
      /\ chan \in [V -> Channels \cup {None}]
  BY <1>0, ConstantsAssumption DEF UpperInv, TypeInv, TypeOK
<1>1. CASE \/ \E c \in Channels, n \in Notes : NoteOn(c, n) \/ NoteOff(c, n)
           \/ \E c \in Channels : AllNotesOff(c)
           \/ \E c \in Channels \cup {None} : Adjust(c)
           \/ Compute \/ AutoReduce \/ PlayEnd \/ PlayEndFinish \/ PlayEndFade
           \/ PlayEndMix \/ PlayEndOver \/ PlayEndSkip
  BY <1>0, <1>1, BeginPedal
<1>2. CASE \E c \in Channels : \/ \E a \in Pedal : Sustain(c, a)
                               \/ \E on \in BOOLEAN : Sostenuto(c, on)
  BY <1>0, <1>2, MovePedal
<1>3. CASE SweepVoice \/ SweepEnd
  BY <1>0, <1>3, SweepPedal
<1>4. CASE SelectSample
  <2>1. PICK v \in V, s \in [V -> Status], lk \in [V -> V] :
           /\ Take(v, s, lk)
           /\ \A w \in V : s[w] = "SUSTAINED" => status[w] = "SUSTAINED"
    BY <1>0, <1>4, SelectShape
  <2>2. \A x \in V : status'[x] = "SUSTAINED" => status[x] = "SUSTAINED"
    BY <2>1 DEF Take
  <2>3. /\ op = "select" /\ op' # "hold" /\ UNCHANGED <<chan, voices, sustain, sostenuto>>
    BY <1>4, <2>1 DEF SelectSample, Take, channelVars
  <2> QED BY <1>0, <2>2, <2>3, FramePedal
<1>5. CASE StartSample
  <2> DEFINE v == Head(list)
  <2>1. PICK w \in V, s \in [V -> Status], lk \in [V -> V] :
           /\ Double(v, w, s, lk)
           /\ s[v] \in {"ON", "FREE"}
           /\ \A y \in V : y # v => s[y] = status[y]
    BY <1>0, <1>5, StartShape
  <2>2. v \in V
    BY <1>0, <1>5 DEF StartSample, UpperInv, TypeInv, TypeOK, CallOK
  <2> HIDE DEF v
  <2>3. \A x \in V : status'[x] = "SUSTAINED" =>
                       status[x] = "SUSTAINED" /\ chan'[x] = chan[x]
    BY <1>a, <2>1, <2>2 DEF Double
  <2>4. /\ op = "start" /\ op' # "hold" /\ UNCHANGED <<voices, sustain, sostenuto>>
    BY <1>5 DEF StartSample, Finish, channelVars
  <2> QED BY <1>0, <2>3, <2>4, FramePedal
\* Every voice that a reset reaches is dying or free.
<1>6. CASE SystemReset \/ Discard \/ PlayEndKill \/ Restart
  <2>1. \A x \in V : x < voices' => status'[x] # "SUSTAINED"
    <3>1. CASE Restart
      BY <3>1 DEF Restart
    <3>2. CASE status' = Kill(Below(upper)) /\ voices' = voices
      BY <1>0, <3>2 DEF Kill, Below, UpperInv, SoundingBelowUpper
    <3> QED BY <1>6, <3>1, <3>2 DEF SystemReset, Discard, PlayEndKill, KillAll
  <2>2. op = "idle" /\ op' = "idle"
    BY <1>6 DEF SystemReset, Discard, PlayEndKill, Restart, Idle, callVars
  <2> QED BY <1>0, <2>1, <2>2 DEF PedalInv, HeldOrDropped, HoldPressed
<1>7. CASE \/ \E c \in Channels : AllSoundsOff(c)
           \/ ShedVoice \/ ShedDone \/ ConserveEnd
  <2>1. /\ op \in {"idle", "shed", "conserve"} /\ op' # "hold"
        /\ UNCHANGED <<chan, voices, sustain, sostenuto>>
        /\ \A x \in V : status'[x] = "SUSTAINED" => status[x] = "SUSTAINED"
    BY <1>7 DEF AllSoundsOff, ShedVoice, ShedDone, ConserveEnd, Finish, Idle, callVars,
                channelVars, voiceVars, Kill, AfterSteal
  <2> QED BY <1>0, <2>1, FramePedal
<1>8. CASE VoiceIncrement
  <2>1. /\ op = "idle" /\ op' = "idle" /\ UNCHANGED <<chan, sustain, sostenuto>>
        /\ voices' = voices + 1 /\ voices \in V /\ status'[voices] = "FREE"
        /\ \A x \in V : x # voices => status'[x] = status[x]
    BY <1>a, <1>8, ConstantsAssumption
    DEF VoiceIncrement, Idle, callVars, channelVars, V
  <2>2. \A x \in V : x < voices' /\ status'[x] = "SUSTAINED" =>
          x < voices /\ status[x] = "SUSTAINED"
    BY <1>a, <2>1 DEF V
  <2> QED BY <1>0, <2>1, <2>2, FramePedal
<1>9. CASE VoiceDecrement \/ ConserveVoice
  <2>1. /\ op \in {"idle", "conserve"} /\ op' # "hold"
        /\ UNCHANGED <<sustain, sostenuto>>
    BY <1>9 DEF VoiceDecrement, ConserveVoice, Idle, callVars, channelVars
  <2>2. CASE UNCHANGED voiceVars /\ voices' \in {voices, voices - 1}
    <3>1. \A x \in V : x < voices' => x < voices
      BY <1>a, <2>2 DEF V
    <3> QED BY <1>0, <2>1, <2>2, <3>1, FramePedal DEF voiceVars
  <2>3. CASE \E k \in V, free \in SUBSET V, quiet \in SUBSET V :
               k + 1 = voices /\ voices' = k /\ GiveUp(k, free, quiet)
    <3> PICK k \in V, free \in SUBSET V, quiet \in SUBSET V :
               k + 1 = voices /\ voices' = k /\ GiveUp(k, free, quiet)
      BY <2>3
    <3>1. ASSUME NEW x \in V, x < voices', status'[x] = "SUSTAINED"
          PROVE  \E u \in V : u < voices /\ status[u] = "SUSTAINED" /\ chan'[x] = chan[u]
      <4>1. PICK u \in {x, k} :
               /\ status'[x] # "FREE" => status[u] = status'[x]
               /\ chan'[x] = chan[u]
        BY <1>0, GiveUpSource
      <4>2. u \in V /\ u < voices
        BY <1>a, <3>1 DEF V
      <4> QED BY <3>1, <4>1, <4>2
    <3> QED BY <1>0, <2>1, <3>1, FramePedal
  <2> QED BY <1>0, <1>9, <2>2, <2>3, PolyphonyShape
<1>10. CASE \E c \in Channels : ResetControllers(c)
  BY <1>10 DEF ResetControllers
<1>11. CASE UNCHANGED vars
  BY <1>0, <1>11
  DEF PedalInv, HeldOrDropped, HoldPressed, Held, DropDue, vars, voiceVars,
      channelVars, callVars
<1> QED BY <1>1, <1>2, <1>3, <1>4, <1>5, <1>6, <1>7, <1>8, <1>9, <1>10, <1>11 DEF Next

\* While no handler runs, a pedal holds every voice that is SUSTAINED: the
\* pedal that goes up last lets go of them all (timidity/playmidi.c,
\* ME_SUSTAIN, ME_SOSTENUTO, drop_sustain), unless ME_RESET_CONTROLLERS
\* raises the pedals without looking at the voices.
THEOREM HeldByPedal ==
  ASSUME ~ControllerResets
  PROVE  Spec => []SustainedHeld
<1>1. Init => PedalInv
  <2> SUFFICES ASSUME Init PROVE PedalInv
    OBVIOUS
  <2>1. UpperInv
    BY InitUpper
  <2> QED BY <2>1 DEF Init, PedalInv, HeldOrDropped, HoldPressed
<1>2. PedalInv /\ [Next]_vars => PedalInv'
  BY NextPedal
<1>3. PedalInv => SustainedHeld
  BY DEF PedalInv, HeldOrDropped, SustainedHeld, Held, DropDue, Idle
<1> QED BY <1>1, <1>2, <1>3, PTL DEF Spec

-------------------------------------------------------------------------------
(***************************************************************************)
(* Chorus links.                                                           *)
(***************************************************************************)
\* A slot's partner names it back.
Mutual(lk) == \A v \in V : lk[lk[v]] = v

LEMMA UnlinkMutual ==
  ASSUME NEW lk \in [V -> V], Mutual(lk), NEW v \in V
  PROVE  /\ Mutual(Unlink(lk, v))
         /\ Unlink(lk, v)[v] = v
         /\ Unlink(lk, v)[lk[v]] = lk[v]
         /\ \A w \in V : lk[w] = w => Unlink(lk, v)[w] = w
<1>1. \A w \in V : Unlink(lk, v)[w] = IF w = v \/ w = lk[v] THEN w ELSE lk[w]
  BY DEF Unlink
<1>2. \A w \in V : lk[w] = v => w = lk[v]
  BY DEF Mutual
<1>3. \A w \in V : lk[w] = lk[v] => w = v
  BY DEF Mutual
<1> QED BY <1>1, <1>2, <1>3 DEF Mutual

\* A free slot is linked to none, and with one sample per note neither is the
\* slot found for a note.
LinksOK ==
  /\ Mutual(link)
  /\ \A v \in V : status[v] = "FREE" => link[v] = v
  /\ voices = MaxVoices
  /\ op \notin {"shed", "conserve"}
  /\ op = "select" => list = <<>> /\ todo = 1
  /\ op = "start" =>
       Len(list) = 1 /\ status[Head(list)] = "ON" /\ link[Head(list)] = Head(list)

LinkInv == UpperInv /\ LinksOK

\* What a step that gives slots up must keep.
LEMMA FrameLink ==
  ASSUME LinkInv, op' \notin {"shed", "conserve", "select", "start"},
         voices' = voices, link' = link,
         \A v \in V : status'[v] = "FREE" => status[v] = "FREE"
  PROVE  LinksOK'
  BY DEF LinkInv, LinksOK, Mutual

LEMMA SelectLink == LinkInv /\ SelectSample => LinksOK'
<1> SUFFICES ASSUME LinkInv, SelectSample PROVE LinksOK'
  OBVIOUS
<1> DEFINE free == {v \in Below(upper) : status[v] = "FREE"}
           st == [v \in V |-> IF v \in Killed(evCh, evKey) THEN "DIE" ELSE status[v]]
<1>1. /\ op = "select" /\ voices' = voices /\ todo = 1 /\ list = <<>>
      /\ status \in [V -> Status] /\ link \in [V -> V] /\ upper \in 0 .. MaxVoices
      /\ Mutual(link) /\ voices = MaxVoices
  BY DEF SelectSample, LinkInv, LinksOK, UpperInv, TypeInv, TypeOK
<1>2. /\ st \in [V -> Status]
      /\ \A v \in V : st[v] = "FREE" => status[v] = "FREE" /\ link[v] = v
  BY <1>1 DEF Status, LinkInv, LinksOK
<1> HIDE DEF st
\* The slot taken is linked to none.
<1>3. \E v \in V, s \in [V -> Status], lk \in [V -> V] :
        /\ Take(v, s, lk)
        /\ Mutual(lk) /\ lk[v] = v
        /\ \A w \in V : w # v /\ s[w] = "FREE" => lk[w] = w
  <2>1. CASE \E v \in V : IsFirst(v, free) /\ Take(v, st, link)
    <3> PICK v \in V : IsFirst(v, free) /\ Take(v, st, link)
      BY <2>1
    <3>1. status[v] = "FREE"
      BY DEF IsFirst
    <3>2. link[v] = v
      BY <3>1 DEF LinkInv, LinksOK
    <3> QED BY <1>1, <1>2, <3>2
  <2>2. CASE upper < voices /\ Take(upper, st, link)
    <3>1. upper \in V /\ ~(upper < upper)
      BY <1>1, <2>2, ConstantsAssumption DEF V
    <3>2. status[upper] = "FREE"
      BY <2>2, <3>1 DEF LinkInv, UpperInv, SoundingBelowUpper
    <3>3. link[upper] = upper
      BY <3>1, <3>2 DEF LinkInv, LinksOK
    <3> QED BY <1>1, <1>2, <2>2, <3>1, <3>3
  <2>3. CASE \E v \in Victims(st) : \E dead \in Casualties(st, v) :
               Take(v, AfterSteal(st, v, dead), LinkAfterSteal(v, dead))
    <3> PICK v \in Victims(st) : \E dead \in Casualties(st, v) :
          Take(v, AfterSteal(st, v, dead), LinkAfterSteal(v, dead))
      BY <2>3
    <3> PICK dead \in Casualties(st, v) :
          Take(v, AfterSteal(st, v, dead), LinkAfterSteal(v, dead))
      OBVIOUS
    <3> DEFINE s == AfterSteal(st, v, dead)
               lk == LinkAfterSteal(v, dead)
    <3>1. v \in V /\ s \in [V -> Status] /\ lk \in [V -> V]
      BY <1>2, StealType DEF LinkInv, UpperInv, TypeInv
    <3>2. dead = {} \/ dead = {link[v]}
      BY DEF Casualties
    <3>3. /\ Mutual(lk) /\ lk[v] = v
          /\ \A w \in V : link[w] = w => lk[w] = w
          /\ dead # {} => lk[link[v]] = link[v]
      <4>1. CASE dead = {}
        BY <1>1, <3>1, <4>1, UnlinkMutual DEF LinkAfterSteal
      <4>2. CASE dead # {}
        <5> DEFINE u == link[v]
                   cut == Unlink(link, u)
        <5>1. u \in V
          BY <1>1, <3>1
        <5>2. cut \in [V -> V] /\ Mutual(cut) /\ cut[u] = u
              /\ \A w \in V : link[w] = w => cut[w] = w
          BY <1>1, <5>1, UnlinkType, UnlinkMutual
        <5>3. lk = Unlink(cut, v)
          BY <4>2 DEF LinkAfterSteal
        <5> HIDE DEF cut, u, lk
        <5>4. Mutual(lk) /\ lk[v] = v /\ \A w \in V : cut[w] = w => lk[w] = w
          BY <3>1, <5>2, <5>3, UnlinkMutual
        <5>5. lk[u] = u
          BY <5>1, <5>2, <5>4
        <5> QED BY <5>2, <5>4, <5>5 DEF u
      <4> QED BY <4>1, <4>2
    <3>4. \A w \in V : w # v /\ s[w] = "FREE" => w \in dead \/ st[w] = "FREE"
      BY DEF AfterSteal
    <3> HIDE DEF s, lk
    <3>5. ASSUME NEW w \in V, w # v, s[w] = "FREE" PROVE lk[w] = w
      BY <1>2, <3>2, <3>3, <3>4, <3>5
    <3>6. Take(v, s, lk)
      BY DEF s, lk
    <3> QED BY <3>1, <3>3, <3>5, <3>6
  <2> QED BY <2>1, <2>2, <2>3 DEF SelectSample, st
<1>4. PICK v \in V, s \in [V -> Status], lk \in [V -> V] :
        /\ Take(v, s, lk)
        /\ Mutual(lk) /\ lk[v] = v
        /\ \A w \in V : w # v /\ s[w] = "FREE" => lk[w] = w
  BY <1>3
<1>5. /\ op' = "start" /\ link' = lk /\ list' = Append(<<>>, v)
      /\ status' = [s EXCEPT ![v] = "ON"]
  BY <1>1, <1>4 DEF Take
<1>6. Len(list') = 1 /\ Head(list') = v
  BY <1>5
<1>7. \A w \in V : status'[w] = "FREE" => w # v /\ s[w] = "FREE"
  BY <1>5
<1>8. \A w \in V : status'[w] = "FREE" => link'[w] = w
  BY <1>4, <1>5, <1>7
<1>9. status'[v] = "ON"
  BY <1>5
<1> QED BY <1>1, <1>4, <1>5, <1>6, <1>8, <1>9 DEF LinksOK

LEMMA StartLink == LinkInv /\ ~InstantDeath /\ StartSample => LinksOK'
<1> SUFFICES ASSUME LinkInv, ~InstantDeath, StartSample PROVE LinksOK'
  OBVIOUS
<1> DEFINE v == Head(list)
           st == [status EXCEPT ![v] = "ON"]
           lk == [link EXCEPT ![v] = v]
           quiet == {w \in Below(voices) :
                       st[w] \in {"OFF", "SUSTAINED"} /\ ~Protected(w)}
<1>1. /\ op = "start" /\ v \in V /\ Len(list) = 1 /\ status[v] = "ON" /\ link[v] = v
      /\ status \in [V -> Status] /\ link \in [V -> V] /\ Mutual(link)
      /\ voices = MaxVoices /\ voices' = voices
  <2>1. /\ op = "start" /\ voices' = voices /\ list \in Seq(V) /\ Len(list) = 1
        /\ status[v] = "ON" /\ link[v] = v
    BY DEF StartSample, LinkInv, LinksOK, UpperInv, TypeInv, TypeOK
  <2>2. v \in V
    BY DEF StartSample, LinkInv, UpperInv, TypeInv, TypeOK, CallOK
  <2> QED BY <2>1, <2>2 DEF LinkInv, LinksOK, UpperInv, TypeInv, TypeOK
<1>2. lk = link /\ st = status
  BY <1>1
<1>3. op' = "idle"
  BY <1>1 DEF StartSample, Finish
\* The double's slot is free or cut from its partner.
<1>4. \E w \in V, f \in [V -> V] :
        /\ Double(v, w, status, f)
        /\ Mutual(f) /\ f[v] = v /\ f[w] = w
        /\ \A x \in V : status[x] = "FREE" => f[x] = x
  <2>1. \E w \in V : \/ w = v /\ Double(v, w, st, lk)
                     \/ st[w] = "FREE" /\ Double(v, w, st, lk)
                     \/ Double(v, w, st, Unlink(lk, w))
    <3> HIDE DEF st, lk
    <3> QED BY <1>1 DEF StartSample, IsFirst, Below, st, lk
  <2>2. PICK w \in V : \/ w = v /\ Double(v, w, status, link)
                       \/ status[w] = "FREE" /\ Double(v, w, status, link)
                       \/ Double(v, w, status, Unlink(link, w))
    BY <1>2, <2>1
  <2>3. CASE (w = v \/ status[w] = "FREE") /\ Double(v, w, status, link)
    BY <1>1, <2>3 DEF LinkInv, LinksOK
  <2>4. CASE Double(v, w, status, Unlink(link, w))
    <3>1. Unlink(link, w) \in [V -> V]
      BY <1>1, UnlinkType
    <3>2. /\ Mutual(Unlink(link, w)) /\ Unlink(link, w)[w] = w
          /\ \A x \in V : link[x] = x => Unlink(link, w)[x] = x
      BY <1>1, UnlinkMutual
    <3>3. \A x \in V : status[x] = "FREE" => Unlink(link, w)[x] = x
      BY <3>2 DEF LinkInv, LinksOK
    <3> QED BY <1>1, <2>4, <3>1, <3>2, <3>3
  <2> QED BY <2>2, <2>3, <2>4
<1>5. PICK w \in V, f \in [V -> V] :
        /\ Double(v, w, status, f)
        /\ Mutual(f) /\ f[v] = v /\ f[w] = w
        /\ \A x \in V : status[x] = "FREE" => f[x] = x
  BY <1>4
<1> HIDE DEF v
<1>6. \A x \in V : link'[x] = IF x = w THEN v ELSE IF x = v THEN w ELSE f[x]
  BY <1>1, <1>5 DEF Double
<1>7. Mutual(link')
  <2>1. \A x \in V : f[x] \in V /\ f[f[x]] = x
    BY <1>5 DEF Mutual
  <2>2. \A x \in V : x \notin {v, w} => f[x] \notin {v, w}
    BY <1>1, <1>5, <2>1
  <2> QED BY <1>1, <1>5, <1>6, <2>1, <2>2 DEF Mutual
<1>8. \A x \in V : status'[x] = "FREE" => x \notin {v, w} /\ status[x] = "FREE"
  BY <1>1, <1>5 DEF Double
<1>9. \A x \in V : status'[x] = "FREE" => link'[x] = x
  BY <1>5, <1>6, <1>8
<1> QED BY <1>1, <1>3, <1>7, <1>9 DEF LinksOK

LEMMA SweepLink == LinkInv /\ (SweepVoice \/ SweepEnd) => LinksOK'
<1> SUFFICES ASSUME LinkInv, SweepVoice \/ SweepEnd PROVE LinksOK'
  OBVIOUS
<1>0. /\ op \in SweepOps /\ op' \in {op, "idle"} /\ voices' = voices
      /\ status \in [V -> Status] /\ link \in [V -> V] /\ at \in Nat
      /\ upper \in 0 .. MaxVoices
  BY DEF SweepVoice, SweepEnd, Finish, LinkInv, UpperInv, TypeInv, TypeOK
<1>1. op' \notin {"shed", "conserve", "select", "start"}
  BY <1>0 DEF SweepOps
<1>2. CASE UNCHANGED <<status, link>>
  BY <1>0, <1>1, <1>2, FrameLink
<1>3. CASE SweepVoice /\ Matches(at)
  <2>1. at \in V
    BY <1>0, <1>3, ConstantsAssumption DEF SweepVoice, V
  <2> PICK s \in Outcomes(at) :
        /\ status' = [status EXCEPT ![at] = s]
        /\ link' = IF s = "FREE" THEN Unlink(link, at) ELSE link
    BY <1>3 DEF SweepVoice
  <2>2. CASE s = "FREE"
    <3>1. /\ Mutual(link') /\ link'[at] = at
          /\ \A w \in V : link[w] = w => link'[w] = w
      BY <1>0, <2>1, <2>2, UnlinkMutual DEF LinkInv, LinksOK
    <3>2. \A w \in V : status'[w] = "FREE" => w = at \/ status[w] = "FREE"
      BY <1>0
    <3> QED BY <1>0, <1>1, <3>1, <3>2 DEF LinkInv, LinksOK
  <2>3. CASE s # "FREE"
    <3>1. \A w \in V : status'[w] = "FREE" => status[w] = "FREE"
      BY <1>0, <2>1, <2>3
    <3> QED BY <1>0, <1>1, <2>3, <3>1, FrameLink
  <2> QED BY <2>2, <2>3
<1> QED BY <1>2, <1>3 DEF SweepVoice, SweepEnd, voiceVars

LEMMA NextLink ==
  LinkInv /\ MaxSamples = 1 /\ ~Resize /\ ~InstantDeath /\ [Next]_vars => LinkInv'
<1> SUFFICES ASSUME LinkInv, MaxSamples = 1, ~Resize, ~InstantDeath, [Next]_vars
             PROVE  LinkInv'
  OBVIOUS
<1>0. UpperInv'
  BY NextUpper DEF LinkInv
<1> SUFFICES LinksOK'
  BY <1>0 DEF LinkInv
<1>1. CASE \E c \in Channels, n \in Notes : NoteOn(c, n)
  BY <1>1 DEF NoteOn, Begin, voiceVars, LinkInv, LinksOK, Mutual
<1>2. CASE \/ \E c \in Channels, n \in Notes : NoteOff(c, n)
           \/ \E c \in Channels : AllNotesOff(c)
           \/ \E c \in Channels \cup {None} : Adjust(c)
           \/ Compute \/ PlayEnd \/ PlayEndFinish \/ PlayEndFade
           \/ PlayEndMix \/ PlayEndOver \/ PlayEndSkip
           \/ \E c \in Channels : ResetControllers(c)
  <2>1. /\ op' \notin {"shed", "conserve", "select", "start"}
        /\ UNCHANGED <<voices, link, status>>
    BY <1>2 DEF NoteOff, AllNotesOff, Adjust, Compute, PlayEnd, PlayEndFinish,
       PlayEndFade, PlayEndMix, PlayEndOver, PlayEndSkip, ResetControllers, Begin,
       Idle, callVars, voiceVars
  <2> QED BY <2>1, FrameLink
<1>8. CASE \E c \in Channels, a \in Pedal : Sustain(c, a)
  <2>1. /\ op' \notin {"shed", "conserve", "select", "start"}
        /\ UNCHANGED <<voices, link, status>>
    BY <1>8 DEF Sustain, Begin, voiceVars
  <2> QED BY <2>1, FrameLink
<1>9. CASE \E c \in Channels, on \in BOOLEAN : Sostenuto(c, on)
  <2>1. /\ op' \notin {"shed", "conserve", "select", "start"}
        /\ UNCHANGED <<voices, link, status>>
    BY <1>9 DEF Sostenuto, Begin, voiceVars
  <2> QED BY <2>1, FrameLink
<1>3. CASE \/ \E c \in Channels : AllSoundsOff(c)
           \/ SystemReset \/ Discard \/ PlayEndKill
  <2>1. /\ op' \notin {"shed", "conserve", "select", "start"}
        /\ UNCHANGED <<voices, link>>
        /\ \A v \in V : status'[v] = "FREE" => status[v] = "FREE"
    BY <1>3 DEF AllSoundsOff, SystemReset, Discard, PlayEndKill, KillAll, Kill,
                Idle, callVars
  <2> QED BY <2>1, FrameLink
<1>4. CASE Restart
  <2>1. /\ op' = "idle" /\ voices' = voices
        /\ \A v \in V : link'[v] = v
    BY <1>4 DEF Restart, Idle, callVars
  <2> QED BY <2>1 DEF LinkInv, LinksOK, Mutual
<1>5. CASE SelectSample \/ StartSample \/ SweepVoice \/ SweepEnd
  BY <1>5, SelectLink, StartLink, SweepLink
<1>6. CASE UNCHANGED vars
  BY <1>6 DEF LinkInv, LinksOK, Mutual, vars, voiceVars, callVars
<1>7. CASE \/ VoiceIncrement \/ VoiceDecrement \/ AutoReduce
           \/ ShedVoice \/ ShedDone \/ ConserveVoice \/ ConserveEnd
  BY <1>7 DEF VoiceIncrement, VoiceDecrement, AutoReduce, ShedVoice, ShedDone,
              ConserveVoice, ConserveEnd, LinkInv, LinksOK
<1> QED BY <1>1, <1>2, <1>3, <1>4, <1>5, <1>6, <1>7, <1>8, <1>9 DEF Next

\* A chorus link is doubled (new_chorus_voice_alternate, free_voice,
\* reduce_voice of timidity/playmidi.c), as long as the polyphony stays, no
\* sample ends inside start_note, and a note plays one sample.
THEOREM Linked ==
  ASSUME MaxSamples = 1, ~Resize, ~InstantDeath
  PROVE  Spec => []LinksDoubled
<1>1. Init => LinkInv
  <2> SUFFICES ASSUME Init PROVE LinkInv
    OBVIOUS
  <2>1. UpperInv
    BY InitUpper
  <2> QED BY <2>1 DEF Init, LinkInv, LinksOK, Mutual
<1>2. LinkInv /\ [Next]_vars => LinkInv'
  BY NextLink
<1>3. LinkInv => LinksDoubled
  <2> SUFFICES ASSUME LinkInv, NEW v \in V, status[v] # "FREE", link[v] # v
               PROVE  status[link[v]] # "FREE" /\ link[link[v]] = v
    BY DEF LinksDoubled
  <2>1. link[v] \in V
    BY DEF LinkInv, UpperInv, TypeInv, TypeOK
  <2> QED BY <2>1 DEF LinkInv, LinksOK, Mutual
<1> QED BY <1>1, <1>2, <1>3, PTL DEF Spec

-------------------------------------------------------------------------------
(***************************************************************************)
(* The order in which reduce_voice gives voices up.                        *)
(***************************************************************************)
\* Of the classes before the first with a member, none has one.
LEMMA FirstClass ==
  ASSUME NEW st, NEW v \in Victims(st), st[v] = "ON",
         \E w \in Below(upper) : st[w] # "FREE"
  PROVE  \A w \in Below(upper) :
           st[w] # "FREE" =>
             /\ st[w] # "DIE" /\ st[w] # "SUSTAINED"
             /\ st[w] = "OFF" => Protected(w)
<1> DEFINE class == StealClass(st)
           first == {i \in 1 .. 6 : \A j \in 1 .. 6 : j < i => class[j] = {}}
           picked == UNION {class[k] : k \in first}
<1>1. /\ class[1] = {w \in Below(upper) : st[w] = "OFF" /\ ~Protected(w)}
      /\ class[2] = {w \in Below(upper) : st[w] = "DIE"}
      /\ class[3] = {w \in Below(upper) : st[w] = "SUSTAINED"}
      /\ class[6] = {w \in Below(upper) : st[w] # "FREE"}
  BY DEF StealClass
<1>2. picked # {}
  <2>1. CASE \E i \in 1 .. 5 : class[i] # {}
    <3>1. \E i \in first : class[i] # {}
      <4>1. CASE class[1] # {}
        <5>1. 1 \in first
          OBVIOUS
        <5> QED BY <4>1, <5>1
      <4>2. CASE class[1] = {} /\ class[2] # {}
        <5>1. 2 \in first
          BY <4>2
        <5> QED BY <4>2, <5>1
      <4>3. CASE class[1] = {} /\ class[2] = {} /\ class[3] # {}
        <5>1. 3 \in first
          BY <4>3
        <5> QED BY <4>3, <5>1
      <4>4. CASE class[1] = {} /\ class[2] = {} /\ class[3] = {} /\ class[4] # {}
        <5>1. 4 \in first
          BY <4>4
        <5> QED BY <4>4, <5>1
      <4>5. CASE /\ class[1] = {} /\ class[2] = {} /\ class[3] = {}
                 /\ class[4] = {} /\ class[5] # {}
        <5>1. 5 \in first
          BY <4>5
        <5> QED BY <4>5, <5>1
      <4> HIDE DEF class, first
      <4> QED BY <2>1, <4>1, <4>2, <4>3, <4>4, <4>5
    <3> QED BY <3>1
  <2>2. CASE \A i \in 1 .. 5 : class[i] = {}
    <3>1. 6 \in first
      BY <2>2
    <3>2. class[6] # {}
      BY <1>1
    <3> QED BY <3>1, <3>2
  <2> QED BY <2>1, <2>2
<1>3. PICK k \in first : v \in class[k]
  BY <1>2 DEF Victims
<1>4. k > 3
  <2>1. v \notin class[1] /\ v \notin class[2] /\ v \notin class[3]
    BY <1>1
  <2> HIDE DEF class
  <2> QED BY <1>3, <2>1
<1>5. class[1] = {} /\ class[2] = {} /\ class[3] = {}
  <2> HIDE DEF class
  <2> QED BY <1>3, <1>4
<1> QED BY <1>1, <1>5

LEMMA SelectSteals ==
  ASSUME UpperInv, SelectSample, NEW v \in V, list' = Append(list, v),
         status[v] = "ON", chan[v] # evCh
  PROVE  /\ upper >= voices
         /\ \A w \in V : w < upper =>
              status[w] = "ON" \/ (status[w] = "OFF" /\ Protected(w))
<1> DEFINE free == {w \in Below(upper) : status[w] = "FREE"}
           killed == Killed(evCh, evKey)
           st == [w \in V |-> IF w \in killed THEN "DIE" ELSE status[w]]
<1>1. /\ list \in Seq(V) /\ status \in [V -> Status] /\ op = "select"
      /\ upper \in Nat /\ voices \in Nat
  BY ConstantsAssumption DEF SelectSample, UpperInv, TypeInv, TypeOK
<1>2. \A u, s, lk : Take(u, s, lk) => u = v
  <2> SUFFICES ASSUME NEW u, Append(list, u) = Append(list, v)
               PROVE  u = v
    BY DEF Take
  <2>1. Append(list, u)[Len(list) + 1] = u /\ Append(list, v)[Len(list) + 1] = v
    BY <1>1
  <2> QED BY <2>1
<1>3. v \notin killed
  BY DEF Killed
<1>4. v \notin free
  OBVIOUS
\* No slot below upper_voices is free: the voice was stolen.
<1>5. CASE /\ free = {} /\ upper >= voices
           /\ \E u \in Victims(st) : \E dead \in Casualties(st, u) :
                Take(u, AfterSteal(st, u, dead), LinkAfterSteal(u, dead))
  <2>1. v \in Victims(st)
    BY <1>2, <1>5
  <2> SUFFICES ASSUME NEW w \in V, w < upper
               PROVE  status[w] = "ON" \/ (status[w] = "OFF" /\ Protected(w))
    BY <1>5
  <2>2. status[w] # "FREE" /\ w \in Below(upper)
    BY <1>5 DEF Below
  <2>3. st[v] = "ON" /\ st[w] # "FREE"
    BY <1>3, <2>2
  <2>4. /\ st[w] # "DIE" /\ st[w] # "SUSTAINED"
        /\ st[w] = "OFF" => Protected(w)
    <3> HIDE DEF st
    <3> QED BY <2>1, <2>2, <2>3, FirstClass
  <2>5. st[w] = status[w]
    BY <2>4
  <2> QED BY <1>1, <2>2, <2>4, <2>5 DEF Status
\* The slot upper_voices was not in use.
<1>6. CASE /\ free = {} /\ upper < voices
           /\ Take(upper, st, link) /\ upper' = upper + 1
  <2>1. v = upper
    BY <1>2, <1>6
  <2> QED BY <1>1, <1>6, <2>1 DEF UpperInv, SoundingBelowUpper, V
<1>7. CASE \E u \in V : IsFirst(u, free) /\ Take(u, st, link)
  BY <1>2, <1>4, <1>7 DEF IsFirst
<1> QED BY <1>5, <1>6, <1>7 DEF SelectSample

LEMMA NextSteals ==
  ASSUME UpperInv, [Next]_vars, NEW v \in V
  PROVE  LastResort(v)
<1> SUFFICES ASSUME op = "select", list' = Append(list, v), status[v] = "ON",
                    chan[v] # evCh
             PROVE  /\ upper >= voices
                    /\ \A w \in V : w < upper =>
                         status[w] = "ON" \/ (status[w] = "OFF" /\ Protected(w))
  BY DEF LastResort
<1>1. SelectSample \/ list' = list
  BY DEF Next, vars, callVars, Begin, Idle, NoteOn, NoteOff, AllNotesOff, Sustain,
         Sostenuto, Adjust, Compute, AutoReduce, PlayEnd, PlayEndFinish, PlayEndFade,
         AllSoundsOff, ResetControllers, SystemReset, Discard, Restart,
         PlayEndKill, PlayEndMix, PlayEndOver, PlayEndSkip, StartSample, SweepVoice, SweepEnd,
         SweepOps, VoiceIncrement, VoiceDecrement, ShedVoice, ShedDone,
         ConserveVoice, ConserveEnd
<1>2. list' # list
  <2>1. Len(Append(list, v)) = Len(list) + 1 /\ Len(list) \in Nat
    BY DEF UpperInv, TypeInv, TypeOK
  <2> QED BY <2>1
<1> QED BY <1>1, <1>2, SelectSteals

\* reduce_voice (timidity/playmidi.c) gives up a voice of another channel that
\* is ON only at full polyphony, when no voice is released, sustained or dying
\* but the drums it protects.
THEOREM StealsInOrder == Spec => StealOrder
<1>1. Init => UpperInv
  BY InitUpper
<1>2. UpperInv /\ [Next]_vars => UpperInv'
  BY NextUpper
<1>3. UpperInv /\ [Next]_vars => [\A v \in V : LastResort(v)]_vars
  BY NextSteals
<1> QED BY <1>1, <1>2, <1>3, PTL DEF Spec, StealOrder
===============================================================================
