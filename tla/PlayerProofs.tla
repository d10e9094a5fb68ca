----------------------------- MODULE PlayerProofs -----------------------------
(***************************************************************************)
(* Theorems about playing a song, for every song, every device, every      *)
(* number of commands and every order of them.                             *)
(***************************************************************************)
EXTENDS Player, NumberLemmas, SequenceTheorems

-------------------------------------------------------------------------------
(***************************************************************************)
(* The inductive invariant.  Its parts speak of a song s, the place f last *)
(* sought in it, the events p played since and the controllers ch.         *)
(***************************************************************************)
FirstOf(s, f) == Min({i \in 1 .. Len(s) : s[i].time >= f \/ i = Len(s)})

\* The events a .. e - 1.
RunTo(a, e) == [k \in 1 .. e - a |-> a + k - 1]

\* What has been played when event e is the next.
InLine(s, f, p, e) ==
  LET m == FirstOf(s, f)
  IN  \/ e >= m /\ p = RunTo(m, e)
      \/ m = 1 /\ e >= 2 /\ p = RunTo(2, e)
      \/ m > 1 /\ e >= m - 1 /\ p = RunTo(m - 1, e)

Tuned == Controllers \ (Unsought \cup Unreset)

\* The events before event n that set controller c.
Before(s, n, c) == {i \in 1 .. n - 1 : s[i].what = c}

LastSet(s, n, c) == Max({0} \cup Before(s, n, c))

\* How the controllers stand when event e is the next.
InTune(s, f, ch, e) ==
  LET n == Max({FirstOf(s, f), e})
  IN  \A c \in Tuned : \/ ch[c] = LastSet(s, n, c)
                       \/ f = 0 /\ Before(s, n, c) = {1} /\ ch[c] = 0

Playing(s, f, p, ch, e) == InLine(s, f, p, e) /\ InTune(s, f, ch, e)

\* The song has just been sought and the generator stands before event e.
Sought(s, f, p, ch, e) ==
  LET m == FirstOf(s, f)
  IN  /\ p = <<>>
      /\ e = IF f > s[Len(s)].time THEN Len(s) ELSE IF m = 1 THEN 1 ELSE m - 1
      /\ \A c \in Tuned : ch[c] = LastSet(s, m, c)

IsSought   == Sought(song, from, played, channel, current_event)
PlayingNow == Playing(song, from, played, channel, current_event)
PlayedNow  == Playing(song, from, played, channel, current_event + 1)

\* Event ev is on its way, to be passed when it is done.
Heading == ev = current_event /\ midi_restart_time # 0 /\ PlayingNow

\* Where the song stands, at each place of the loop.
Place ==
  ~strayed /\ tail = 0 =>
    /\ pc = "play" => PlayingNow
    /\ pc \in {"execute", "compute", "write"} => Heading
    /\ pc = "controls" /\ ~play_pause_flag => IF jump_flag THEN IsSought ELSE Heading
    /\ pc = "next" => \/ IsSought
                      \/ midi_restart_time # 0 /\ current_event < Eot /\ PlayedNow
    /\ pc = "lost" => from > sample_count

\* midi_play_end is running exactly in these places; a buffer is computed only
\* for a count that fills it, and written when it is full.
PcOK ==
  /\ tail # 0 => pc \in {"compute", "controls", "write", "ending", "flush", "done"}
  /\ pc \in {"ending", "flush"} => tail # 0
  /\ pc = "controls" => count >= 0
  /\ pc = "write" => buffered_count = Buffer

\* A paused player holds nothing in the device and starts no buffer.
Waits ==
  play_pause_flag /\ ~strayed /\ pc # "done" =>
    /\ written = 0
    /\ pc \notin {"write", "ending", "flush"}
    /\ tail # 0 => pc \in {"compute", "controls"} /\ count = Buffer

\* All notes from event m on, the first of the song excepted, are in p.
Covers(s, m, p) ==
  \A i \in 1 .. Len(s) : i >= m /\ i >= 2 /\ s[i].what = "note" =>
                           \E k \in 1 .. Len(p) : p[k] = i

\* Once the song fades out nothing of it is left to play.
AllPlayed == tail # 0 /\ ~strayed => Covers(song, FirstOf(song, from), played)

Inv == TypeOK /\ PcOK /\ TraceSorted /\ PositionKept /\ Waits /\ Place /\ AllPlayed

-------------------------------------------------------------------------------
(***************************************************************************)
(* Songs: times never fall, so the events before a place are the first     *)
(* ones.                                                                   *)
(***************************************************************************)
LEMMA SongType ==
  ASSUME NEW s, IsSong(s)
  PROVE  /\ Len(s) \in Nat /\ Len(s) > 1 /\ s[1].time = 0
         /\ \A i \in 1 .. Len(s) :
              /\ s[i].time \in Nat
              /\ (s[i].what = "eot") <=> (i = Len(s))
              /\ i < Len(s) => s[i].time <= s[i + 1].time
<1> DEFINE R == [time : Nat, what : Controllers \cup {"note", "eot"}]
<1>1. s \in Seq(R) /\ Len(s) > 1 /\ s[1].time = 0
  BY DEF IsSong
<1>2. Len(s) \in Nat /\ \A i \in 1 .. Len(s) : s[i] \in R
  <2> HIDE DEF R
  <2> QED BY <1>1, LenProperties, ElementOfSeq
<1>3. \A i \in 1 .. Len(s) : s[i].time \in Nat
  BY <1>2
<1>4. \A i \in 1 .. Len(s) :
        /\ (s[i].what = "eot") <=> (i = Len(s))
        /\ i < Len(s) => s[i].time <= s[i + 1].time
  BY DEF IsSong
<1> QED BY <1>1, <1>2, <1>3, <1>4

LEMMA TimesRise ==
  ASSUME NEW s, IsSong(s), NEW i \in 1 .. Len(s), NEW j \in 1 .. Len(s), i <= j
  PROVE  s[i].time <= s[j].time
<1> DEFINE T == {k \in i .. Len(s) : s[k].time < s[i].time}
<1> SUFFICES ASSUME T # {} PROVE FALSE
  BY SongType
<1>1. T \subseteq Nat
  BY SongType
<1>2. PICK k \in T : \A l \in T : k <= l
  <2> HIDE DEF T
  <2> QED BY <1>1, MinOf
<1>3. k \in 1 .. Len(s) /\ k > i /\ k - 1 \in i .. Len(s) /\ k - 1 < Len(s)
  <2>1. k \in i .. Len(s) /\ s[k].time < s[i].time /\ s[i].time \in Nat /\ Len(s) \in Nat
    BY SongType
  <2>2. k # i
    BY <2>1
  <2> QED BY <2>1, <2>2
<1>4. k - 1 \notin T
  BY <1>2, <1>3
<1>5. s[k - 1].time >= s[i].time
  <2>1. ~(s[k - 1].time < s[i].time)
    BY <1>3, <1>4
  <2>2. s[k - 1].time \in Nat /\ s[i].time \in Nat
    BY <1>3, SongType
  <2> QED BY <2>1, <2>2
<1>6. s[k - 1].time <= s[k].time
  <2>1. k - 1 \in 1 .. Len(s) /\ (k - 1) + 1 = k
    BY <1>3
  <2> QED BY <2>1, <1>3, SongType
<1>7. s[k].time \in Nat /\ s[k - 1].time \in Nat /\ s[i].time \in Nat
  BY <1>3, SongType
<1> QED BY SMTT(30), <1>5, <1>6, <1>7

LEMMA FirstIs ==
  ASSUME NEW s, IsSong(s), NEW f \in Nat
  PROVE  LET m == FirstOf(s, f)
         IN  /\ m \in 1 .. Len(s)
             /\ s[m].time >= f \/ m = Len(s)
             /\ \A i \in 1 .. m - 1 : s[i].time < f
             /\ m = 1 <=> f = 0
             /\ f > s[Len(s)].time => m = Len(s)
<1> DEFINE T == {i \in 1 .. Len(s) : s[i].time >= f \/ i = Len(s)}
<1>1. T \subseteq Nat /\ Len(s) \in T
  BY SongType
<1>2. PICK m \in T : m = Min(T) /\ \A y \in T : m <= y
  <2> HIDE DEF T
  <2>1. Min(T) \in T /\ \A y \in T : Min(T) <= y
    BY <1>1, MinOf
  <2> QED BY <2>1, Zenon
<1>3. m = FirstOf(s, f)
  BY <1>2, Zenon DEF FirstOf
<1>4. m \in 1 .. Len(s) /\ (s[m].time >= f \/ m = Len(s))
  OBVIOUS
<1>5. \A i \in 1 .. m - 1 : s[i].time < f
  <2> SUFFICES ASSUME NEW i \in 1 .. m - 1, ~(s[i].time < f) PROVE FALSE
    OBVIOUS
  <2>1. i \in 1 .. Len(s) /\ i < m /\ s[i].time \in Nat
    BY <1>4, SongType
  <2>2. i \in T
    BY <2>1
  <2> QED BY <2>1, <2>2, <1>2
<1>6. m = 1 <=> f = 0
  <2>1. CASE m = 1
    BY <2>1, <1>4, SongType
  <2>2. CASE f = 0
    <3>1. 1 \in T
      BY <2>2, SongType
    <3> QED BY <3>1, <2>2, <1>2, <1>4
  <2> QED BY <2>1, <2>2
<1>7. f > s[Len(s)].time => m = Len(s)
  <2> SUFFICES ASSUME f > s[Len(s)].time, m # Len(s) PROVE FALSE
    OBVIOUS
  <2>1. Len(s) \in 1 .. Len(s) /\ m <= Len(s) /\ s[m].time >= f
    BY <1>4, SongType
  <2>2. s[m].time <= s[Len(s)].time
    BY <2>1, <1>4, TimesRise
  <2> QED BY <2>1, <2>2, <1>4, SongType
<1> QED BY <1>3, <1>4, <1>5, <1>6, <1>7, Zenon

\* The events seek_forward runs over are those before the first one.
LEMMA PassedIs ==
  ASSUME NEW s, IsSong(s), NEW f \in Nat
  PROVE  (IF f = 0 THEN {} ELSE {i \in 1 .. Len(s) - 1 : s[i].time < f})
           = 1 .. FirstOf(s, f) - 1
<1> DEFINE P == {i \in 1 .. Len(s) - 1 : s[i].time < f}
<1>1. PICK m : m = FirstOf(s, f)
  OBVIOUS
<1>2. /\ m \in 1 .. Len(s)
      /\ s[m].time >= f \/ m = Len(s)
      /\ \A i \in 1 .. m - 1 : s[i].time < f
      /\ m = 1 <=> f = 0
  BY <1>1, FirstIs
<1>3. CASE f = 0
  <2>1. 1 .. m - 1 = {}
    BY <1>3, <1>2
  <2> QED BY <2>1, <1>1, <1>3
<1>4. CASE f # 0
  <2>1. \A i : i \in P => i \in 1 .. m - 1
    <3> SUFFICES ASSUME NEW i \in P PROVE i < m
      BY <1>2, SongType
    <3>1. i \in 1 .. Len(s) /\ i < Len(s) /\ s[i].time < f /\ s[i].time \in Nat
      BY SongType
    <3>2. m <= i => s[m].time <= s[i].time
      BY <3>1, <1>2, TimesRise
    <3> QED BY <3>1, <3>2, <1>2, SongType
  <2>2. \A i : i \in 1 .. m - 1 => i \in P
    BY <1>2, SongType
  <2>3. P = 1 .. m - 1
    <3> HIDE DEF P
    <3> QED BY <2>1, <2>2
  <2> QED BY <2>3, <1>4, <1>1
<1> QED BY <1>3, <1>4

-------------------------------------------------------------------------------
(***************************************************************************)
(* What has been played, and what the controllers are after it.            *)
(***************************************************************************)
LEMMA RunEmpty ==
  ASSUME NEW a \in Int, NEW e \in Int, e <= a
  PROVE  RunTo(a, e) = <<>>
<1>1. 1 .. e - a = {}
  OBVIOUS
<1>2. RunTo(a, e) \in Seq({})
  BY <1>1 DEF RunTo
<1>3. DOMAIN RunTo(a, e) = {}
  BY <1>1 DEF RunTo
<1> QED BY <1>2, <1>3, EmptySeq

LEMMA RunIs ==
  ASSUME NEW a \in Nat, NEW e \in Nat, a <= e
  PROVE  /\ RunTo(a, e) \in Seq(Nat) /\ Len(RunTo(a, e)) = e - a
         /\ \A k \in 1 .. e - a : RunTo(a, e)[k] = a + k - 1
<1>1. e - a \in Nat /\ \A k \in 1 .. e - a : a + k - 1 \in Nat
  OBVIOUS
<1> QED BY <1>1 DEF RunTo

LEMMA RunOne ==
  ASSUME NEW a \in Nat, NEW e \in Nat, a <= e
  PROVE  Append(RunTo(a, e), e) = RunTo(a, e + 1)
<1> DEFINE r == RunTo(a, e)
           t == RunTo(a, e + 1)
<1>1. /\ r \in Seq(Nat) /\ Len(r) = e - a
      /\ \A k \in 1 .. e - a : r[k] = a + k - 1
  BY RunIs
<1>2. /\ t \in Seq(Nat) /\ Len(t) = (e + 1) - a
      /\ \A k \in 1 .. (e + 1) - a : t[k] = a + k - 1
  BY RunIs
<1> HIDE DEF r, t
<1>3. /\ Append(r, e) \in Seq(Nat) /\ Len(Append(r, e)) = Len(r) + 1
      /\ \A k \in 1 .. Len(r) : Append(r, e)[k] = r[k]
      /\ Append(r, e)[Len(r) + 1] = e
  BY <1>1, AppendProperties
<1>4. \A k \in 1 .. Len(Append(r, e)) : Append(r, e)[k] = t[k]
  <2> SUFFICES ASSUME NEW k \in 1 .. Len(r) + 1 PROVE Append(r, e)[k] = t[k]
    BY <1>3
  <2>1. CASE k \in 1 .. Len(r)
    BY <2>1, <1>1, <1>2, <1>3
  <2>2. CASE k = Len(r) + 1
    BY <2>2, <1>1, <1>2, <1>3
  <2> QED BY <2>1, <2>2, <1>1
<1>5. Len(Append(r, e)) = Len(t)
  BY <1>1, <1>2, <1>3
<1>6. Append(r, e) = t
  <2> SUFFICES ASSUME NEW u, u = Append(r, e) PROVE u = t
    OBVIOUS
  <2> QED BY <1>2, <1>3, <1>4, <1>5, SeqEqual
<1> QED BY <1>6 DEF r, t

LEMMA LastNone ==
  ASSUME NEW s, NEW n \in Int, NEW c, Before(s, n, c) = {}
  PROVE  LastSet(s, n, c) = 0
<1>1. Max({0}) = 0
  BY MaxIs
<1> QED BY <1>1 DEF LastSet

LEMMA LastOne ==
  ASSUME NEW s, NEW n \in Nat, n >= 1, NEW c
  PROVE  /\ s[n].what = c => LastSet(s, n + 1, c) = n
         /\ s[n].what # c => Before(s, n + 1, c) = Before(s, n, c)
<1>1. ASSUME s[n].what = c PROVE LastSet(s, n + 1, c) = n
  <2> DEFINE S == {0} \cup Before(s, n + 1, c)
  <2>1. S \subseteq Int /\ n \in S /\ \A y \in S : n >= y
    BY <1>1 DEF Before
  <2> HIDE DEF S
  <2>2. Max(S) = n
    BY <2>1, MaxIs
  <2> QED BY <2>2 DEF LastSet, S
<1>2. ASSUME s[n].what # c PROVE Before(s, n + 1, c) = Before(s, n, c)
  BY <1>2 DEF Before
<1> QED BY <1>1, <1>2

\* Where a seek leaves the song, playing goes on, from the event it stands at
\* or from the next one; only beyond the end there is no next one.
LEMMA SoughtPlays ==
  ASSUME NEW s, IsSong(s), NEW f \in Nat, NEW p, NEW ch, NEW e,
         Sought(s, f, p, ch, e)
  PROVE  /\ e \in 1 .. Len(s)
         /\ Playing(s, f, p, ch, e)
         /\ e < Len(s) => Playing(s, f, p, ch, e + 1)
         /\ e = Len(s) => f > s[Len(s)].time
<1>1. PICK m : m = FirstOf(s, f)
  OBVIOUS
<1>2. /\ m \in 1 .. Len(s) /\ (m = 1 <=> f = 0)
      /\ f > s[Len(s)].time => m = Len(s)
  BY <1>1, FirstIs
<1>3. /\ p = <<>>
      /\ e = IF f > s[Len(s)].time THEN Len(s) ELSE IF m = 1 THEN 1 ELSE m - 1
      /\ \A c \in Tuned : ch[c] = LastSet(s, m, c)
  BY <1>1 DEF Sought
<1>4. Len(s) \in Nat /\ Len(s) > 1 /\ s[Len(s)].time \in Nat
  BY SongType
<1>5. e \in 1 .. Len(s) /\ (e = Len(s) => f > s[Len(s)].time)
  BY <1>2, <1>3, <1>4
<1>6. InLine(s, f, p, e)
  <2>1. CASE f > s[Len(s)].time
    <3>1. RunTo(m, e) = <<>> /\ e >= m
      BY <2>1, <1>2, <1>3, <1>4, RunEmpty
    <3> QED BY <3>1, <1>1, <1>3 DEF InLine
  <2>2. CASE ~(f > s[Len(s)].time) /\ m = 1
    <3>1. RunTo(m, e) = <<>> /\ e >= m
      BY <2>2, <1>2, <1>3, <1>4, RunEmpty
    <3> QED BY <3>1, <1>1, <1>3 DEF InLine
  <2>3. CASE ~(f > s[Len(s)].time) /\ m # 1
    <3>1. RunTo(m - 1, e) = <<>> /\ m > 1 /\ e >= m - 1
      BY <2>3, <1>2, <1>3, <1>4, RunEmpty
    <3> QED BY <3>1, <1>1, <1>3 DEF InLine
  <2> QED BY <2>1, <2>2, <2>3
<1>7. ASSUME e < Len(s) PROVE InLine(s, f, p, e + 1)
  <2>1. CASE m = 1
    <3>1. RunTo(2, e + 1) = <<>> /\ e + 1 >= 2
      BY <2>1, <1>7, <1>2, <1>3, <1>4, RunEmpty
    <3> QED BY <3>1, <2>1, <1>1, <1>3 DEF InLine
  <2>2. CASE m # 1
    <3>1. RunTo(m, e + 1) = <<>> /\ e + 1 >= m
      BY <2>2, <1>7, <1>2, <1>3, <1>4, RunEmpty
    <3> QED BY <3>1, <1>1, <1>3 DEF InLine
  <2> QED BY <2>1, <2>2
<1>8. InTune(s, f, ch, e)
  <2>1. Max({m, e}) = m
    BY <1>2, <1>3, <1>4, <1>5, MaxPair
  <2> QED BY <2>1, <1>1, <1>3 DEF InTune
<1>9. ASSUME e < Len(s) PROVE InTune(s, f, ch, e + 1)
  <2>1. CASE m # 1
    <3>1. Max({m, e + 1}) = m
      BY <2>1, <1>9, <1>2, <1>3, <1>4, <1>5, MaxPair
    <3> QED BY <3>1, <1>1, <1>3 DEF InTune
  <2>2. CASE m = 1
    <3>1. e = 1 /\ f = 0
      BY <2>2, <1>9, <1>2, <1>3, <1>4
    <3>2. Max({m, e + 1}) = 2
      BY <3>1, <2>2, MaxPair
    <3> SUFFICES ASSUME NEW c \in Tuned
                 PROVE  ch[c] = LastSet(s, 2, c) \/ (Before(s, 2, c) = {1} /\ ch[c] = 0)
      BY <3>1, <3>2, <1>1 DEF InTune
    <3>3. Before(s, 1, c) = {}
      BY DEF Before
    <3>4. ch[c] = 0
      BY <3>3, <2>2, <1>3, LastNone
    <3>5. CASE s[1].what = c
      BY <3>4, <3>5 DEF Before
    <3>6. CASE s[1].what # c
      <4>1. Before(s, 1 + 1, c) = {}
        BY <3>3, <3>6, LastOne
      <4> QED BY <4>1, <3>4, LastNone
    <3> QED BY <3>5, <3>6
  <2> QED BY <2>1, <2>2
<1> QED BY <1>5, <1>6, <1>7, <1>8, <1>9 DEF Playing

\* Playing event e brings the song to the next one.
LEMMA PlayedOne ==
  ASSUME NEW s, IsSong(s), NEW f \in Nat, NEW p, NEW ch, NEW ch1,
         NEW e \in 1 .. Len(s), Playing(s, f, p, ch, e),
         \A c \in Tuned : ch1[c] = IF s[e].what = c THEN e ELSE ch[c]
  PROVE  Playing(s, f, Append(p, e), ch1, e + 1)
<1>1. PICK m : m = FirstOf(s, f)
  OBVIOUS
<1>2. m \in 1 .. Len(s) /\ (m = 1 <=> f = 0) /\ Len(s) \in Nat /\ e \in Nat /\ e >= 1
  <2>1. m \in 1 .. Len(s) /\ (m = 1 <=> f = 0)
    BY <1>1, FirstIs
  <2>2. Len(s) \in Nat
    BY SongType
  <2> QED BY <2>1, <2>2
<1>3. InLine(s, f, Append(p, e), e + 1)
  <2>1. ASSUME NEW a \in Nat, e >= a, p = RunTo(a, e)
        PROVE  Append(p, e) = RunTo(a, e + 1)
    BY <2>1, RunOne
  <2>2. CASE e >= m /\ p = RunTo(m, e)
    <3>1. Append(p, e) = RunTo(m, e + 1) /\ e + 1 >= m
      BY <2>1, <2>2, <1>2
    <3> QED BY <3>1, <1>1 DEF InLine
  <2>3. CASE m = 1 /\ e >= 2 /\ p = RunTo(2, e)
    <3>1. Append(p, e) = RunTo(2, e + 1) /\ e + 1 >= 2
      BY <2>1, <2>3, <1>2
    <3> QED BY <3>1, <2>3, <1>1 DEF InLine
  <2>4. CASE m > 1 /\ e >= m - 1 /\ p = RunTo(m - 1, e)
    <3>1. Append(p, e) = RunTo(m - 1, e + 1) /\ e + 1 >= m - 1
      <4>1. m - 1 \in Nat
        BY <1>2
      <4> QED BY <4>1, <2>1, <2>4, <1>2
    <3> QED BY <3>1, <2>4, <1>1 DEF InLine
  <2> QED BY <2>2, <2>3, <2>4, <1>1 DEF Playing, InLine
<1>4. InTune(s, f, ch1, e + 1)
  <2>1. PICK n : n = Max({m, e}) /\ n = IF m >= e THEN m ELSE e
    BY <1>2, MaxPair
  <2>2. PICK n1 : n1 = Max({m, e + 1}) /\ n1 = IF m >= e + 1 THEN m ELSE e + 1
    BY <1>2, MaxPair
  <2>3. \A c \in Tuned : ch[c] = LastSet(s, n, c) \/ (f = 0 /\ Before(s, n, c) = {1} /\ ch[c] = 0)
    BY <2>1, <1>1 DEF Playing, InTune
  <2> SUFFICES ASSUME NEW c \in Tuned
               PROVE  \/ ch1[c] = LastSet(s, n1, c)
                      \/ f = 0 /\ Before(s, n1, c) = {1} /\ ch1[c] = 0
    BY <2>2, <1>1 DEF InTune
  <2>4. CASE m <= e
    <3>1. n = e /\ n1 = e + 1
      BY <2>4, <2>1, <2>2, <1>2
    <3>2. CASE s[e].what = c
      <4>1. LastSet(s, e + 1, c) = e
        BY <3>2, <1>2, LastOne
      <4> QED BY <4>1, <3>1, <3>2
    <3>3. CASE s[e].what # c
      <4>1. Before(s, e + 1, c) = Before(s, e, c)
        BY <3>3, <1>2, LastOne
      <4> QED BY <4>1, <3>1, <3>3, <2>3 DEF LastSet
    <3> QED BY <3>2, <3>3
  <2>5. CASE m > e
    <3>1. n = m /\ n1 = m /\ m # 1 /\ f # 0
      BY <2>5, <2>1, <2>2, <1>2
    <3>2. m = e + 1
      BY <2>5, <1>1, <1>2 DEF Playing, InLine
    <3>3. CASE s[e].what = c
      <4>1. LastSet(s, e + 1, c) = e
        BY <3>3, <1>2, LastOne
      <4> QED BY <4>1, <3>1, <3>2, <3>3
    <3>4. CASE s[e].what # c
      BY <3>4, <3>1, <2>3
    <3> QED BY <3>3, <3>4
  <2> QED BY <2>4, <2>5, <1>2
<1> QED BY <1>3, <1>4 DEF Playing

\* When no note follows, all notes have been played.
LEMMA PlayedNotes ==
  ASSUME NEW s, IsSong(s), NEW f \in Nat, NEW p, NEW ch, NEW e \in 1 .. Len(s),
         Playing(s, f, p, ch, e), \A i \in e .. Len(s) : s[i].what # "note"
  PROVE  Covers(s, FirstOf(s, f), p)
<1>1. PICK m : m = FirstOf(s, f)
  OBVIOUS
<1>2. m \in 1 .. Len(s) /\ Len(s) \in Nat
  BY <1>1, FirstIs, SongType
<1>3. ASSUME NEW a \in Nat, a <= e, p = RunTo(a, e), \/ a <= m \/ a <= 2
      PROVE  Covers(s, m, p)
  <2> SUFFICES ASSUME NEW i \in 1 .. Len(s), i >= m, i >= 2, s[i].what = "note"
               PROVE  \E k \in 1 .. Len(p) : p[k] = i
    BY DEF Covers
  <2>1. i < e /\ i \in Nat /\ e \in Nat /\ i >= a
    BY <1>2, <1>3
  <2>2. PICK l \in Int : l = (i - a) + 1 /\ a + l - 1 = i /\ 1 <= l /\ l <= e - a
    BY <2>1
  <2>3. Len(p) = e - a /\ \A k \in 1 .. e - a : p[k] = a + k - 1
    BY <1>3, <2>1, RunIs
  <2>4. PICK k \in 1 .. e - a : a + k - 1 = i
    BY <2>2
  <2> QED BY <2>3, <2>4
<1>4. CASE e >= m /\ p = RunTo(m, e)
  BY <1>1, <1>2, <1>3, <1>4
<1>5. CASE m = 1 /\ e >= 2 /\ p = RunTo(2, e)
  BY <1>1, <1>2, <1>3, <1>5
<1>6. CASE m > 1 /\ e >= m - 1 /\ p = RunTo(m - 1, e)
  <2>1. m - 1 \in Nat /\ m - 1 <= e /\ m - 1 <= m
    BY <1>2, <1>6
  <2> QED BY <2>1, <1>1, <1>3, <1>6
<1> QED BY <1>4, <1>5, <1>6, <1>1 DEF Playing, InLine

-------------------------------------------------------------------------------
(***************************************************************************)
(* Seeking.                                                                *)
(***************************************************************************)
LEMMA Basics ==
  ASSUME TypeOK
  PROVE  /\ IsSong(song) /\ Eot \in Nat /\ Eot > 1 /\ sample_count \in Nat
         /\ Here \in Nat /\ current_trace_samples \in Nat \cup {-1}
         /\ Buffer \in Nat /\ Buffer > 0 /\ Step \in Nat /\ Capacity \in Nat
<1>1. song \in Songs /\ offset \in Nat /\ heard \in Nat /\ current_sample \in Nat
      /\ can_trace \in BOOLEAN
  BY DEF TypeOK
<1>2. IsSong(song)
  BY <1>1, PlayerAssumption
<1>3. Eot \in Nat /\ Eot > 1 /\ sample_count \in Nat
  BY <1>2, SongType DEF Eot, sample_count, Time
<1>4. Here \in Nat /\ current_trace_samples \in Nat \cup {-1}
  BY <1>1 DEF Here, current_trace_samples
<1> QED BY <1>2, <1>3, <1>4, PlayerAssumption

\* What skip_to leaves behind.
Landed ==
  /\ trace' = <<>> /\ buffered_count' = 0 /\ played' = <<>>
  /\ from' \in Nat /\ offset' \in Nat
  /\ current_event' \in 1 .. Eot
  /\ current_sample' \in Nat /\ Min({offset', sample_count}) = current_sample'
  /\ channel' \in [Controllers -> 0 .. Eot]
  /\ Sought(song, from', played', channel', current_event')

LEMMA Skips ==
  ASSUME TypeOK, NEW u \in Nat, SkipTo(u)
  PROVE  Landed
<1> USE Basics
<1>1. PICK m : m = FirstOf(song, u)
  OBVIOUS
<1>2. m \in 1 .. Eot /\ (m = 1 <=> u = 0) /\ (u > sample_count => m = Eot)
  BY <1>1, FirstIs DEF Eot, sample_count, Time
<1>3. Passed(u) = 1 .. m - 1
  <2>1. Passed(u) = IF u = 0 THEN {} ELSE {i \in 1 .. Len(song) - 1 : song[i].time < u}
    BY Zenon DEF Passed, Eot, Time
  <2> QED BY <2>1, <1>1, PassedIs
<1>4. SoughtEvent(u) = IF u > sample_count THEN Eot ELSE IF m = 1 THEN 1 ELSE m - 1
  <2>1. CASE m = 1
    <3>1. {1} \cup Passed(u) = {1}
      BY <2>1, <1>3
    <3>2. Max({1}) = 1
      BY MaxIs
    <3> QED BY <3>1, <3>2, <2>1 DEF SoughtEvent
  <2>2. CASE m # 1
    <3> DEFINE S == {1} \cup Passed(u)
    <3>1. S \subseteq Int /\ m - 1 \in S /\ \A y \in S : m - 1 >= y
      BY <2>2, <1>2, <1>3
    <3> HIDE DEF S
    <3>2. Max(S) = m - 1
      BY <3>1, MaxIs
    <3> QED BY <3>2, <2>2 DEF SoughtEvent, S
  <2> QED BY <2>1, <2>2
<1>5. SoughtEvent(u) \in 1 .. Eot
  BY <1>2, <1>4
<1>6. SoughtSample(u) \in Nat /\ Min({u, sample_count}) = SoughtSample(u)
  <2>1. current_sample \in Nat
    BY DEF TypeOK
  <2>2. Min({u, sample_count}) = IF u <= sample_count THEN u ELSE sample_count
    BY MinPair
  <2> QED BY <2>1, <2>2 DEF SoughtSample
<1> DEFINE Set(c) == {i \in Passed(u) : song[i].what = c /\ c \notin Unsought}
           Reset(c) == IF c \in Unreset THEN channel[c] ELSE 0
<1>7. ASSUME NEW c \in Controllers, Set(c) # {}
      PROVE  Max(Set(c)) \in Set(c) /\ \A y \in Set(c) : Max(Set(c)) >= y
  <2>1. Set(c) \subseteq 0 .. Eot
    BY <1>2, <1>3
  <2> HIDE DEF Set
  <2> QED BY <2>1, <1>7, MaxOf
<1>8. SoughtChannel(u) = [c \in Controllers |-> IF Set(c) = {} THEN Reset(c) ELSE Max(Set(c))]
  BY Zenon DEF SoughtChannel
<1>9. SoughtChannel(u) \in [Controllers -> 0 .. Eot]
  <2> SUFFICES ASSUME NEW c \in Controllers
               PROVE  (IF Set(c) = {} THEN Reset(c) ELSE Max(Set(c))) \in 0 .. Eot
    <3> HIDE DEF Set, Reset
    <3> QED BY <1>8
  <2>1. Reset(c) \in 0 .. Eot
    BY DEF TypeOK
  <2>2. Set(c) \subseteq 0 .. Eot
    BY <1>2, <1>3
  <2>3. Set(c) # {} => Max(Set(c)) \in 0 .. Eot
    <3> HIDE DEF Set
    <3> QED BY <1>7, <2>2
  <2> QED BY <2>1, <2>3, Zenon
<1>10. \A c \in Tuned : SoughtChannel(u)[c] = LastSet(song, m, c)
  <2> SUFFICES ASSUME NEW c \in Tuned PROVE SoughtChannel(u)[c] = LastSet(song, m, c)
    OBVIOUS
  <2>1. c \in Controllers /\ c \notin Unsought /\ Reset(c) = 0
    BY DEF Tuned
  <2>2. Set(c) = Before(song, m, c)
    BY <2>1, <1>3 DEF Before
  <2>3. CASE Set(c) = {}
    <3> HIDE DEF Set, Reset
    <3>1. SoughtChannel(u)[c] = 0
      BY <2>1, <2>3, <1>8
    <3>2. Before(song, m, c) = {} /\ m \in Int
      BY <2>2, <2>3, <1>2
    <3> QED BY <3>1, <3>2, LastNone
  <2>4. CASE Set(c) # {}
    <3>1. PICK n : n = Max(Set(c)) /\ n \in Set(c) /\ \A y \in Set(c) : n >= y
      <4> HIDE DEF Set
      <4> QED BY <2>1, <2>4, <1>7
    <3> DEFINE S == {0} \cup Set(c)
    <3>2. S \subseteq Int /\ n \in S /\ \A y \in S : n >= y
      <4>1. Set(c) \subseteq Nat
        BY <1>2, <1>3
      <4> HIDE DEF Set
      <4>2. n \in Nat
        BY <4>1, <3>1
      <4> QED BY <4>1, <4>2, <3>1
    <3>3. Max(S) = n
      <4> HIDE DEF S, Set
      <4> QED BY <3>2, MaxIs
    <3>4. LastSet(song, m, c) = n
      <4> HIDE DEF Set
      <4> QED BY <3>3, <2>2 DEF LastSet
    <3>5. SoughtChannel(u)[c] = n
      <4> HIDE DEF Set, Reset
      <4> QED BY <1>8, <2>1, <2>4, <3>1
    <3> QED BY <3>4, <3>5
  <2> QED BY <2>3, <2>4
<1>11. /\ trace' = <<>> /\ buffered_count' = 0 /\ played' = <<>>
       /\ from' = u /\ offset' = u /\ current_event' = SoughtEvent(u)
       /\ current_sample' = SoughtSample(u) /\ channel' = SoughtChannel(u)
  BY DEF SkipTo
<1>12. Sought(song, u, <<>>, SoughtChannel(u), SoughtEvent(u))
  BY <1>1, <1>4, <1>10 DEF Sought, Eot, sample_count, Time
<1> QED BY <1>5, <1>6, <1>9, <1>11, <1>12, Zenon DEF Landed

-------------------------------------------------------------------------------
(***************************************************************************)
(* What a command comes to, seen from the song and the device.             *)
(***************************************************************************)
\* What no command touches, and the user's own variables.
User ==
  /\ UNCHANGED <<song, can_trace, ev>>
  /\ commands' \in 0 .. MaxCommands /\ midi_restart_time' \in Nat
  /\ play_pause_flag' \in BOOLEAN /\ jump_flag' \in BOOLEAN /\ strayed' \in BOOLEAN

placeVars == <<current_sample, current_event, buffered_count, channel, offset, from, played>>

\* Nothing, except that a paused player notes where to go on.
Stands ==
  /\ pc = "controls"
  /\ UNCHANGED <<placeVars, trace, deviceVars, count, tail, pc, strayed, jump_flag,
                 play_pause_flag, lasttime>>
  /\ play_pause_flag \/ midi_restart_time' = midi_restart_time

\* The song is over.
Ended ==
  /\ pc \in {"controls", "flush"} /\ pc' = "done" /\ trace' = <<>> /\ Discard
  /\ UNCHANGED <<placeVars, count, tail, strayed, lasttime>>

\* The song is sought; the seek is heeded, or the song has strayed.
Moved ==
  /\ Landed /\ pc = "controls"
  /\ UNCHANGED <<count, tail, lasttime>>
  /\ \/ Discard
     \/ /\ play_pause_flag /\ ~play_pause_flag' /\ (strayed => strayed')
        /\ UNCHANGED deviceVars
  /\ tail # 0 => strayed'
  /\ \/ pc' = "controls" /\ (strayed' \/ jump_flag')
     \/ tail = 0 /\ pc' \in {"play", "next"}
     \/ tail # 0 /\ pc' = "ending"

\* The song is moved unheeded.
Strays ==
  /\ strayed' /\ pc = "controls" /\ (pc' = "controls" \/ (tail # 0 /\ pc' = "ending"))
  /\ UNCHANGED <<placeVars, count, tail, lasttime>>
  /\ trace' \in {trace, <<>>}
  /\ Discard \/ UNCHANGED deviceVars

Pauses ==
  /\ pc = "controls" /\ pc' = pc /\ Discard /\ trace' = <<>>
  /\ play_pause_flag' /\ (strayed' <=> (strayed \/ tail # 0))
  /\ UNCHANGED <<placeVars, count, tail, lasttime>>

\* The loop is told of the seek that was made.
Returns ==
  /\ pc = "controls" /\ jump_flag /\ ~play_pause_flag /\ ReturnJump
  /\ UNCHANGED <<placeVars, trace, deviceVars, lasttime, strayed, jump_flag,
                 play_pause_flag>>

\* A buffer is rendered.
Renders ==
  /\ pc = "controls" /\ Render
  /\ strayed' <=> (strayed \/ jump_flag \/ play_pause_flag)
  /\ UNCHANGED <<midi_restart_time, jump_flag, play_pause_flag>>

LEMMA CommandSteps ==
  ASSUME TypeOK, Obey \/ NoCommand
  PROVE  /\ User
         /\ Stands \/ Ended \/ Moved \/ Strays \/ Pauses \/ Returns \/ Renders
<1>0. /\ commands \in 0 .. MaxCommands /\ midi_restart_time \in Nat
      /\ play_pause_flag \in BOOLEAN /\ jump_flag \in BOOLEAN /\ strayed \in BOOLEAN
      /\ MaxCommands \in Nat
  BY PlayerAssumption DEF TypeOK
<1>1. /\ commands' \in 0 .. MaxCommands /\ UNCHANGED <<song, can_trace, ev>>
      /\ Seek \/ Reload \/ SameRate => pc = "controls"
      /\ pc \in {"controls", "flush"}
  <2>1. \A c : Told(c) => /\ commands' \in 0 .. MaxCommands
                          /\ UNCHANGED <<song, can_trace, ev>>
                          /\ pc = "controls" \/ (pc = "flush" /\ c = "skip")
    BY <1>0 DEF Told
  <2>2. ASSUME Seek \/ Reload \/ SameRate
        PROVE  /\ commands' \in 0 .. MaxCommands /\ UNCHANGED <<song, can_trace, ev>>
               /\ pc = "controls"
    BY <2>1, <2>2 DEF Seek, Restart, Jump, Forward, Back, Pause, Resume, Sync, Effect,
       Reload, SameRate
  <2>3. ASSUME Skip \/ NoCommand
        PROVE  /\ commands' \in 0 .. MaxCommands /\ UNCHANGED <<song, can_trace, ev>>
               /\ pc \in {"controls", "flush"}
    BY <1>0, <2>1, <2>3 DEF Skip, NoCommand, userVars
  <2> QED BY <2>2, <2>3 DEF Obey
<1>2. CASE Skip
  <2>1. User
    BY <1>0, <1>1, <1>2 DEF Skip, SkipFile, placeVars, Discard, User
  <2>2. Ended \/ Strays
    BY <1>0, <1>1, <1>2 DEF Skip, SkipFile, placeVars, Discard, Ended, Strays
  <2> QED BY <2>1, <2>2
<1>3. CASE Restart /\ pc = "controls"
  <2>1. CASE play_pause_flag
    <3>1. User
      BY <1>0, <1>1, <1>3, <2>1 DEF Restart, NoSeek, Stay, placeVars, seekVars,
         User
    <3>2. Stands
      BY <1>0, <1>1, <1>3, <2>1 DEF Restart, NoSeek, Stay, placeVars, seekVars,
         Stands
    <3> QED BY <3>1, <3>2
  <2>2. CASE ~play_pause_flag
    <3>1. Landed
      BY <1>3, <2>2, Skips, Basics DEF Restart
    <3>2. User
      BY <1>0, <1>1, <1>3, <2>2, <3>1 DEF Restart, Heeded, User
    <3>3. Moved
      BY <1>0, <1>1, <1>3, <2>2, <3>1 DEF Restart, Heeded, Moved
    <3> QED BY <3>2, <3>3
  <2> QED BY <2>1, <2>2
<1>4. CASE Jump /\ pc = "controls"
  <2>1. CASE play_pause_flag
    <3>1. User
      BY <1>0, <1>1, <1>4, <2>1 DEF Jump, NoSeek, Stay, placeVars, seekVars, User
    <3>2. Stands
      BY <1>0, <1>1, <1>4, <2>1 DEF Jump, NoSeek, Stay, placeVars, seekVars, Stands
    <3> QED BY <3>1, <3>2
  <2>2. CASE ~play_pause_flag
    <3>1. PICK val \in 0 .. sample_count :
             \/ val >= sample_count /\ SkipFile
             \/ val < sample_count /\ Discard /\ SkipTo(val) /\ Heeded /\ ReturnJump
      BY <1>4, <2>2 DEF Jump
    <3>2. CASE SkipFile
      <4>1. User
        BY <1>0, <1>1, <1>4, <2>2, <3>2 DEF Jump, SkipFile, placeVars, User
      <4>2. Ended
        BY <1>0, <1>1, <1>4, <2>2, <3>2 DEF Jump, SkipFile, placeVars, Ended
      <4> QED BY <4>1, <4>2
    <3>3. CASE Discard /\ SkipTo(val) /\ Heeded /\ ReturnJump
      <4>1. Landed
        BY <3>3, Skips, Basics
      <4>2. User
        BY <1>0, <1>1, <1>4, <2>2, <3>3, <4>1 DEF Jump, Heeded, ReturnJump, User
      <4>3. Moved
        BY <1>0, <1>1, <1>4, <2>2, <3>3, <4>1 DEF Jump, Heeded, ReturnJump,
           Moved
      <4> QED BY <4>2, <4>3
    <3> QED BY <3>1, <3>2, <3>3
  <2> QED BY <2>1, <2>2
<1>5. CASE Forward /\ pc = "controls"
  <2>1. CASE play_pause_flag
    <3>1. Min({midi_restart_time + Step, sample_count}) \in Nat
      BY <1>0, MinPair, Basics
    <3>2. User
      BY <1>0, <1>1, <1>5, <2>1, <3>1 DEF Forward, NoSeek, Stay, placeVars, seekVars, User
    <3>3. Stands
      BY <1>0, <1>1, <1>5, <2>1, <3>1
         DEF Forward, NoSeek, Stay, placeVars, seekVars, Stands
    <3> QED BY <3>2, <3>3
  <2>2. CASE ~play_pause_flag
    <3>1. CASE SkipFile
      <4>1. User
        BY <1>0, <1>1, <1>5, <2>2, <3>1 DEF Forward, SkipFile, placeVars, User
      <4>2. Ended
        BY <1>0, <1>1, <1>5, <2>2, <3>1 DEF Forward, SkipFile, placeVars, Ended
      <4> QED BY <4>1, <4>2
    <3>2. CASE Discard /\ SkipTo(Here + Step) /\ Heeded /\ ReturnJump
      <4>1. Landed
        BY <3>2, Skips, Basics
      <4>2. User
        BY <1>0, <1>1, <1>5, <2>2, <3>2, <4>1 DEF Forward, Heeded, ReturnJump,
           User
      <4>3. Moved
        BY <1>0, <1>1, <1>5, <2>2, <3>2, <4>1 DEF Forward, Heeded, ReturnJump,
           Moved
      <4> QED BY <4>2, <4>3
    <3> QED BY <3>1, <3>2, <2>2, <1>5 DEF Forward
  <2> QED BY <2>1, <2>2
<1>6. CASE Back /\ pc = "controls"
  <2>1. CASE play_pause_flag
    <3>1. Max({midi_restart_time - Step, 0}) \in Nat
      BY <1>0, MaxPair, Basics
    <3>2. User
      BY <1>0, <1>1, <1>6, <2>1, <3>1 DEF Back, NoSeek, Stay, placeVars, seekVars, User
    <3>3. Stands
      BY <1>0, <1>1, <1>6, <2>1, <3>1
         DEF Back, NoSeek, Stay, placeVars, seekVars, Stands
    <3> QED BY <3>2, <3>3
  <2>2. CASE ~play_pause_flag
    <3>1. Landed
      <4>1. CASE Here > Step /\ SkipTo(Here - Step)
        BY <4>1, Skips, Basics
      <4>2. CASE SkipTo(0)
        BY <4>2, Skips, Basics
      <4> QED BY <4>1, <4>2, <2>2, <1>6 DEF Back
    <3>2. midi_restart_time' \in Nat
      BY <1>0, <1>6, <2>2 DEF Back
    <3>3. User
      BY <1>0, <1>1, <1>6, <2>2, <3>1, <3>2 DEF Back, Heeded, ReturnJump, User
    <3>4. Moved
      BY <1>0, <1>1, <1>6, <2>2, <3>1, <3>2 DEF Back, Heeded, ReturnJump, Moved
    <3> QED BY <3>3, <3>4
  <2> QED BY <2>1, <2>2
<1>7. CASE Pause /\ pc = "controls"
  <2>1. User
    BY <1>0, <1>1, <1>7, Basics DEF Pause, placeVars, User
  <2>2. Pauses
    BY <1>0, <1>1, <1>7 DEF Pause, placeVars, Pauses
  <2> QED BY <2>1, <2>2
<1>8. CASE Resume /\ pc = "controls"
  <2>1. Landed
    BY <1>0, <1>8, Skips, Basics DEF Resume
  <2>2. User
    BY <1>0, <1>1, <1>8, <2>1 DEF Resume, User
  <2>3. Moved
    BY <1>0, <1>1, <1>8, <2>1 DEF Resume, Moved
  <2> QED BY <2>2, <2>3
<1>9. CASE Sync /\ pc = "controls"
  <2>1. CASE sync_restart /\ Heeded /\ jump_flag' = TRUE
    <3>1. Landed
      BY <2>1, Skips, Basics DEF sync_restart
    <3>2. User
      BY <1>0, <1>1, <1>9, <2>1, <3>1 DEF Sync, sync_restart, Heeded, User
    <3>3. Moved
      BY <1>0, <1>1, <1>9, <2>1, <3>1 DEF Sync, sync_restart, Heeded, Moved
    <3> QED BY <3>2, <3>3
  <2>2. CASE NoSeek /\ UNCHANGED <<strayed, jump_flag>>
    <3>1. User
      BY <1>0, <1>1, <1>9, <2>2 DEF Sync, NoSeek, placeVars, seekVars, User
    <3>2. Stands
      BY <1>0, <1>1, <1>9, <2>2 DEF Sync, NoSeek, placeVars, seekVars, Stands
    <3> QED BY <3>1, <3>2
  <2>3. CASE NoSeek /\ strayed' = TRUE /\ jump_flag' = TRUE
    <3>1. User
      BY <1>0, <1>1, <1>9, <2>3 DEF Sync, NoSeek, placeVars, seekVars, User
    <3>2. Strays
      BY <1>0, <1>1, <1>9, <2>3 DEF Sync, NoSeek, placeVars, seekVars, Strays
    <3> QED BY <3>1, <3>2
  <2> QED BY <2>1, <2>2, <2>3, <1>9 DEF Sync
<1>10. CASE Effect /\ pc = "controls"
  <2>1. Landed
    BY <1>10, Skips, Basics DEF Effect, sync_restart
  <2>2. User
    BY <1>0, <1>1, <1>10, <2>1 DEF Effect, sync_restart, User
  <2>3. Moved
    BY <1>0, <1>1, <1>10, <2>1 DEF Effect, sync_restart, Moved
  <2> QED BY <2>2, <2>3
<1>11. CASE Reload /\ pc = "controls"
  <2>1. CASE tail = 0 /\ SkipTo(Here)
    <3>1. Landed
      BY <2>1, Skips, Basics
    <3>2. User
      BY <1>0, <1>1, <1>11, <2>1, <3>1, Basics DEF Reload, Heeded, User
    <3>3. Moved
      BY <1>0, <1>1, <1>11, <2>1, <3>1 DEF Reload, Heeded, Moved
    <3> QED BY <3>2, <3>3
  <2>2. CASE tail # 0
    <3>1. User
      BY <1>0, <1>1, <1>11, <2>2, Basics DEF Reload, placeVars, User
    <3>2. Strays
      BY <1>0, <1>1, <1>11, <2>2 DEF Reload, placeVars, Strays
    <3> QED BY <3>1, <3>2
  <2> QED BY <2>1, <2>2, <1>11 DEF Reload
<1>12. CASE SameRate /\ pc = "controls"
  <2>1. User
    BY <1>0, <1>1, <1>12 DEF SameRate, User
  <2>2. Renders
    BY <1>0, <1>1, <1>12 DEF SameRate, Renders
  <2> QED BY <2>1, <2>2
<1>13. CASE NoCommand
  <2>1. CASE jump_flag
    <3>1. User
      BY <1>0, <1>13, <2>1 DEF NoCommand, NoSeek, placeVars, seekVars, userVars,
         User
    <3>2. Returns
      BY <1>0, <1>13, <2>1 DEF NoCommand, NoSeek, placeVars, seekVars, userVars,
         Returns
    <3> QED BY <3>1, <3>2
  <2>2. CASE ~jump_flag
    <3>1. User
      BY <1>0, <1>13, <2>2 DEF NoCommand, userVars, User
    <3>2. Renders
      BY <1>0, <1>13, <2>2 DEF NoCommand, userVars, Renders
    <3> QED BY <3>1, <3>2
  <2> QED BY <2>1, <2>2
<1> QED BY <1>1, <1>2, <1>3, <1>4, <1>5, <1>6, <1>7, <1>8, <1>9, <1>10, <1>11,
          <1>12, <1>13
       DEF Obey, Seek

-------------------------------------------------------------------------------
(***************************************************************************)
(* The trace queue.                                                        *)
(***************************************************************************)
Stamp == Nat \cup {-1}

SortedTo(q, n) ==
  /\ \A i \in 1 .. Len(q) - 1 : q[i] <= q[i + 1]
  /\ q # <<>> => q[Len(q)] <= n

LEMMA SortedEmpty == \A n : <<>> \in Seq(Stamp) /\ SortedTo(<<>>, n)
<1>1. <<>> \in Seq(Stamp) /\ Len(<<>>) = 0
  BY EmptySeq
<1> QED BY <1>1 DEF SortedTo

LEMMA SortedLater ==
  ASSUME NEW q \in Seq(Stamp), NEW n \in Nat, NEW n1 \in Nat, n <= n1, SortedTo(q, n)
  PROVE  SortedTo(q, n1)
<1>1. q # <<>> => q[Len(q)] \in Int
  BY EmptySeq, ElementOfSeq DEF Stamp
<1> QED BY <1>1 DEF SortedTo

LEMMA SortedAppend ==
  ASSUME NEW q \in Seq(Stamp), NEW n \in Nat, SortedTo(q, n)
  PROVE  Append(q, n) \in Seq(Stamp) /\ SortedTo(Append(q, n), n)
<1>1. /\ Append(q, n) \in Seq(Stamp) /\ Len(Append(q, n)) = Len(q) + 1
      /\ \A k \in 1 .. Len(q) : Append(q, n)[k] = q[k]
      /\ Append(q, n)[Len(q) + 1] = n
  BY AppendProperties DEF Stamp
<1>2. Len(q) \in Nat /\ (q # <<>> => Len(q) > 0) /\ (Len(q) > 0 => q # <<>>)
  BY EmptySeq, LenProperties
<1> QED BY <1>1, <1>2 DEF SortedTo

LEMMA SortedDrop ==
  ASSUME NEW q \in Seq(Stamp), NEW n \in Nat, SortedTo(q, n), NEW k \in 0 .. Len(q)
  PROVE  /\ SubSeq(q, k + 1, Len(q)) \in Seq(Stamp)
         /\ SortedTo(SubSeq(q, k + 1, Len(q)), n)
<1>1. Len(q) \in Nat /\ k + 1 \in Int
  BY LenProperties
<1> DEFINE r == SubSeq(q, k + 1, Len(q))
<1>2. \A i \in k + 1 .. Len(q) : q[i] \in Stamp
  BY <1>1, ElementOfSeq
<1>3. CASE k = Len(q)
  <2>1. r = <<>>
    BY <1>1, <1>3, SubSeqEmpty
  <2> QED BY <2>1, SortedEmpty
<1>4. CASE k # Len(q)
  <2>1. /\ r \in Seq(Stamp) /\ Len(r) = Len(q) - k
        /\ \A i \in 1 .. Len(q) - k : r[i] = q[k + i]
    BY <1>1, <1>2, <1>4, SubSeqProperties
  <2>2. Len(q) > 0 /\ q # <<>>
    BY <1>1, <1>4, EmptySeq
  <2> HIDE DEF r
  <2>3. \A i \in 1 .. Len(r) - 1 : r[i] <= r[i + 1]
    <3> SUFFICES ASSUME NEW i \in 1 .. Len(r) - 1 PROVE r[i] <= r[i + 1]
      OBVIOUS
    <3>1. r[i] = q[k + i] /\ r[i + 1] = q[k + (i + 1)] /\ k + (i + 1) = (k + i) + 1
      BY <2>1, <1>1
    <3>2. k + i \in 1 .. Len(q) - 1
      BY <2>1, <1>1
    <3> QED BY <3>1, <3>2 DEF SortedTo
  <2>4. r[Len(r)] <= n
    <3>1. Len(r) \in 1 .. Len(q) - k /\ k + Len(r) = Len(q)
      BY <2>1, <1>1, <1>4
    <3> QED BY <3>1, <2>1, <2>2 DEF SortedTo
  <2>5. r \in Seq(Stamp) /\ SortedTo(r, n)
    BY <2>1, <2>3, <2>4 DEF SortedTo
  <2> QED BY <2>5 DEF r
<1> QED BY <1>3, <1>4

LEMMA TraceLoop ==
  ASSUME TypeOK, TraceSorted, trace_loop
  PROVE  /\ trace' \in Seq(Stamp) /\ SortedTo(trace', current_sample)
         /\ lasttime' \in Stamp
<1>1. /\ trace \in Seq(Stamp) /\ SortedTo(trace, current_sample)
      /\ current_sample \in Nat /\ lasttime \in Stamp /\ current_trace_samples \in Stamp
  BY Basics DEF TypeOK, TraceSorted, SortedTo, Stamp
<1>2. Len(trace) \in Nat
  BY <1>1, LenProperties
<1>3. PICK n : n = DueCount(trace, current_trace_samples) /\ n \in 0 .. Len(trace)
  <2> DEFINE S == {0} \cup {n \in 1 .. Len(trace) :
                     /\ current_trace_samples > 0
                     /\ \A i \in 1 .. n : current_trace_samples >= trace[i]}
  <2>1. S \subseteq 0 .. Len(trace) /\ S # {}
    BY <1>2
  <2>2. Max(S) \in 0 .. Len(trace)
    <3> HIDE DEF S
    <3> QED BY <2>1, <1>2, MaxOf
  <2> QED BY <2>2, Zenon DEF DueCount
<1>4. lasttime' \in Stamp
  BY <1>1 DEF trace_loop
<1>5. \/ trace' = SubSeq(trace, n + 1, Len(trace))
      \/ trace' = trace
      \/ trace # <<>> /\ trace[1] >= 0 /\ trace' = [trace EXCEPT ![1] = @ - 1]
  BY <1>3 DEF trace_loop
<1>6. CASE trace' = SubSeq(trace, n + 1, Len(trace))
  BY <1>1, <1>3, <1>4, <1>6, SortedDrop
<1>7. CASE trace' = trace
  BY <1>1, <1>4, <1>7
<1>8. CASE trace # <<>> /\ trace[1] >= 0 /\ trace' = [trace EXCEPT ![1] = @ - 1]
  <2>1. 1 \in 1 .. Len(trace) /\ \A i \in 1 .. Len(trace) : trace[i] \in Stamp
    BY <1>1, <1>8, <1>2, EmptySeq, ElementOfSeq
  <2>2. trace[1] - 1 \in Stamp
    BY <2>1, <1>8 DEF Stamp
  <2>3. /\ trace' \in Seq(Stamp) /\ Len(trace') = Len(trace)
        /\ \A j \in 1 .. Len(trace) : trace'[j] = IF j = 1 THEN trace[1] - 1 ELSE trace[j]
    BY <2>1, <2>2, <1>1, <1>8, ExceptSeq
  <2>4. \A j \in 1 .. Len(trace) : trace'[j] <= trace[j] /\ trace'[j] \in Int /\ trace[j] \in Int
    BY <2>1, <2>2, <2>3 DEF Stamp
  <2>5. \A i \in 1 .. Len(trace) - 1 : trace[i] <= trace[i + 1]
    BY <1>1 DEF SortedTo
  <2>6. \A i \in 1 .. Len(trace') - 1 : trace'[i] <= trace'[i + 1]
    <3> SUFFICES ASSUME NEW i \in 1 .. Len(trace) - 1 PROVE trace'[i] <= trace'[i + 1]
      BY <2>3
    <3>1. i \in 1 .. Len(trace) /\ i + 1 \in 1 .. Len(trace) /\ i + 1 # 1
      BY <1>2
    <3>2. trace'[i + 1] = trace[i + 1]
      BY <3>1, <2>3
    <3> QED BY <3>1, <3>2, <2>4, <2>5
  <2>7. trace'[Len(trace')] <= current_sample
    <3>1. trace[Len(trace)] <= current_sample /\ Len(trace) \in 1 .. Len(trace)
      BY <1>1, <1>8, <1>2, <2>1 DEF SortedTo
    <3> QED BY <3>1, <2>3, <2>4, <1>1
  <2> QED BY <2>3, <2>6, <2>7, <1>4 DEF SortedTo
<1> QED BY <1>5, <1>6, <1>7, <1>8

-------------------------------------------------------------------------------
(***************************************************************************)
(* The steps.                                                              *)
(***************************************************************************)
LEMMA Steps ==
  ASSUME TypeOK, [Next]_vars
  PROVE  \/ User /\ (Stands \/ Ended \/ Moved \/ Strays \/ Pauses \/ Returns \/ Renders)
         \/ PlayEvent \/ Execute \/ NextEvent \/ StartBuffer \/ Leftover \/ WaitForRoom
         \/ Write \/ FadeOut \/ ShowRest \/ Finish \/ Sound \/ UNCHANGED vars
<1>1. CASE Obey \/ NoCommand
  BY <1>1, CommandSteps
<1>2. CASE ~(Obey \/ NoCommand)
  BY <1>2 DEF Next, Play, StayPaused, Done
<1> QED BY <1>1, <1>2

LEMMA SongStays == ASSUME [Next]_vars PROVE song' = song /\ can_trace' = can_trace
<1>1. \A c : Told(c) => song' = song /\ can_trace' = can_trace
  BY DEF Told
<1>2. CASE Obey
  BY <1>1, <1>2 DEF Obey, Seek, Skip, Restart, Jump, Forward, Back, Pause, Resume, Sync,
     Effect, Reload, SameRate
<1>3. CASE Play
  BY <1>3 DEF Play, PlayEvent, Execute, NextEvent, StartBuffer, Leftover, WaitForRoom,
     Write, FadeOut, ShowRest, Finish, NoCommand
<1>4. CASE Sound \/ StayPaused \/ Done \/ UNCHANGED vars
  BY <1>4 DEF Sound, StayPaused, Done, vars
<1> QED BY <1>2, <1>3, <1>4 DEF Next

\* The types, in three parts.
SongTypes ==
  /\ current_sample \in Nat /\ buffered_count \in 0 .. Buffer
  /\ current_event \in 1 .. Eot + 1 /\ (current_event > Eot => pc = "lost")
  /\ channel \in [Controllers -> 0 .. Eot]
  /\ offset \in Nat /\ from \in Nat /\ played \in Seq(1 .. Eot)

LoopTypes ==
  /\ song \in Songs /\ ev \in 1 .. Eot
  /\ count \in Int /\ count >= -Buffer
  /\ tail \in 0 .. 2
  /\ pc \in {"play", "execute", "next", "compute", "controls", "write", "ending",
              "flush", "done", "lost"}

UserTypes ==
  /\ can_trace \in BOOLEAN /\ midi_restart_time \in Nat
  /\ play_pause_flag \in BOOLEAN /\ jump_flag \in BOOLEAN /\ strayed \in BOOLEAN
  /\ commands \in 0 .. MaxCommands

SoundTypes ==
  /\ trace \in Seq(Nat \cup {-1}) /\ lasttime \in Nat \cup {-1}
  /\ written \in Nat /\ heard \in 0 .. written

LEMMA Sizes ==
  ASSUME TypeOK
  PROVE  Eot \in Nat /\ Eot > 1 /\ Buffer \in Nat /\ Buffer > 0
BY Basics

LEMMA SongTypesStep ==
  ASSUME TypeOK, PcOK, [Next]_vars
  PROVE  SongTypes'
<1>0. song' = song /\ can_trace' = can_trace
  BY SongStays
<1>1. CASE User /\ Stands
  BY <1>0, <1>1, Sizes DEF Stands, placeVars, deviceVars, User, TypeOK,
     SongTypes, Eot, PcOK
<1>2. CASE User /\ Ended
  BY <1>0, <1>2, Sizes DEF Ended, placeVars, Discard, User, TypeOK, SongTypes,
     Eot, PcOK
<1>3. CASE User /\ Moved
  <2>1. /\ current_sample' \in Nat /\ buffered_count' = 0
        /\ current_event' \in 1 .. Eot /\ channel' \in [Controllers -> 0 .. Eot]
        /\ offset' \in Nat /\ from' \in Nat /\ played' = <<>>
    BY <1>3 DEF Moved, Landed
  <2>2. played' \in Seq(1 .. Eot) /\ Eot' = Eot
    BY <2>1, <1>0 DEF Eot
  <2> QED BY <2>1, <2>2, Sizes DEF SongTypes
<1>4. CASE User /\ Strays
  BY <1>0, <1>4, Sizes DEF Strays, placeVars, Discard, deviceVars, User,
     TypeOK, SongTypes, Eot, PcOK
<1>5. CASE User /\ Pauses
  BY <1>0, <1>5, Sizes DEF Pauses, placeVars, Discard, User, TypeOK,
     SongTypes, Eot, PcOK
<1>6. CASE User /\ Returns
  BY <1>0, <1>6, Sizes DEF Returns, placeVars, deviceVars, ReturnJump, User,
     TypeOK, SongTypes, Eot, PcOK
<1>7. CASE User /\ Renders
  <2>1. UNCHANGED <<current_event, channel, offset, from, played>>
    BY <1>7 DEF Renders, Render
  <2>2. /\ pc = "controls" /\ buffered_count' = Buffer
        /\ current_sample' = current_sample + Buffer - buffered_count
    BY <1>7 DEF Renders, Render
  <2>3. current_sample' \in Nat /\ buffered_count' \in 0 .. Buffer
    <3>1. current_sample \in Nat /\ buffered_count \in 0 .. Buffer
      BY DEF TypeOK
    <3> QED BY <3>1, <2>2, Sizes
  <2>4. pc = "controls"
    BY <2>2
  <2> QED BY <2>1, <1>0, Sizes, <2>3, <2>4 DEF TypeOK, SongTypes, Eot, PcOK
<1>8. CASE PlayEvent
  BY <1>0, <1>8, Sizes DEF PlayEvent, seekVars, deviceVars, TypeOK, SongTypes,
     Eot, PcOK
<1>9. CASE Execute
  <2>1. UNCHANGED <<current_sample, current_event, buffered_count, offset, from>>
    BY <1>9 DEF Execute
  <2>2. pc = "execute" /\ ev \in 1 .. Eot /\ Eot' = Eot
    BY <1>9, <1>0 DEF Execute, TypeOK, Eot
  <2>3. \/ UNCHANGED <<played, channel>>
        \/ /\ played' = Append(played, ev)
           /\ channel' = [c \in Controllers |-> IF song[ev].what = c THEN ev ELSE channel[c]]
    BY <1>9 DEF Execute
  <2>4. played' \in Seq(1 .. Eot) /\ channel' \in [Controllers -> 0 .. Eot]
    <3>1. played \in Seq(1 .. Eot) /\ channel \in [Controllers -> 0 .. Eot]
      BY DEF TypeOK
    <3>2. Append(played, ev) \in Seq(1 .. Eot)
      BY <3>1, <2>2, AppendProperties
    <3>3. [c \in Controllers |-> IF song[ev].what = c THEN ev ELSE channel[c]]
            \in [Controllers -> 0 .. Eot]
      BY <3>1, <2>2, Sizes
    <3> QED BY <2>3, <3>1, <3>2, <3>3
  <2> QED BY <2>1, <2>2, <2>4 DEF TypeOK, SongTypes
<1>10. CASE NextEvent
  <2>1. UNCHANGED <<current_sample, buffered_count, channel, offset, from, played>>
    BY <1>10 DEF NextEvent
  <2>2. /\ pc = "next" /\ current_event' \in {current_event, current_event + 1}
        /\ current_event' > Eot => pc' = "lost"
    BY <1>10 DEF NextEvent
  <2>3. current_event \in 1 .. Eot
    BY <2>2, Sizes DEF TypeOK
  <2>4. Eot' = Eot /\ Eot \in Nat
    BY <1>0, Sizes DEF Eot
  <2>5. current_event' \in 1 .. Eot + 1
    BY <2>2, <2>3, <2>4
  <2> QED BY <2>1, <2>2, <2>4, <2>5 DEF TypeOK, SongTypes
<1>11. CASE StartBuffer
  BY <1>0, <1>11, Sizes DEF StartBuffer, seekVars, deviceVars, TypeOK,
     SongTypes, Eot, PcOK
<1>12. CASE Leftover
  <2>1. UNCHANGED <<current_event, channel, offset, from, played>>
    BY <1>12 DEF Leftover
  <2>2. PICK n \in Int : n = Max({count, 0}) /\ n = IF count >= 0 THEN count ELSE 0
    BY MaxPair DEF TypeOK
  <2>3. /\ pc = "compute" /\ count + buffered_count < Buffer
        /\ current_sample' = current_sample + n /\ buffered_count' = buffered_count + n
    BY <1>12, <2>2 DEF Leftover
  <2>4. current_sample' \in Nat /\ buffered_count' \in 0 .. Buffer
    <3>1. /\ current_sample \in Nat /\ buffered_count \in 0 .. Buffer /\ count \in Int
      BY DEF TypeOK
    <3>2. n >= 0 /\ (n = 0 \/ n = count)
      BY <2>2, <3>1
    <3> QED BY <2>3, <3>1, <3>2, Sizes
  <2>5. pc = "compute"
    BY <2>3
  <2> QED BY <2>1, <1>0, Sizes, <2>4, <2>5 DEF TypeOK, SongTypes, Eot, PcOK
<1>13. CASE WaitForRoom
  BY <1>0, <1>13, Sizes DEF WaitForRoom, userVars, deviceVars, TypeOK,
     SongTypes, Eot, PcOK
<1>14. CASE Write
  <2>1. UNCHANGED <<current_sample, current_event, channel, offset, from, played>>
    BY <1>14 DEF Write
  <2>2. pc = "write" /\ buffered_count' = 0
    BY <1>14 DEF Write
  <2> QED BY <2>1, <1>0, Sizes, <2>2 DEF TypeOK, SongTypes, Eot, PcOK
<1>15. CASE FadeOut
  <2>1. UNCHANGED <<current_sample, current_event, channel, offset, from, played>>
    BY <1>15 DEF FadeOut
  <2>2. pc = "ending" /\ buffered_count' \in {0, buffered_count}
    BY <1>15 DEF FadeOut
  <2> QED BY <2>1, <1>0, Sizes, <2>2 DEF TypeOK, SongTypes, Eot, PcOK
<1>16. CASE ShowRest
  BY <1>0, <1>16, Sizes DEF ShowRest, userVars, deviceVars, TypeOK, SongTypes,
     Eot, PcOK
<1>17. CASE Finish
  BY <1>0, <1>17, Sizes DEF Finish, userVars, Discard, TypeOK, SongTypes, Eot,
     PcOK
<1>18. CASE Sound
  BY <1>0, <1>18, Sizes DEF Sound, seekVars, userVars, TypeOK, SongTypes, Eot,
     PcOK
<1>19. CASE UNCHANGED vars
  BY <1>0, <1>19, Sizes DEF vars, seekVars, userVars, deviceVars, TypeOK,
     SongTypes, Eot, PcOK
<1> QED BY Steps, <1>1, <1>2, <1>3, <1>4, <1>5, <1>6, <1>7, <1>8, <1>9, <1>10,
   <1>11, <1>12, <1>13, <1>14, <1>15, <1>16, <1>17, <1>18, <1>19

LEMMA LoopTypesStep ==
  ASSUME TypeOK, PcOK, [Next]_vars
  PROVE  LoopTypes'
<1>0. song' = song /\ can_trace' = can_trace
  BY SongStays
<1>1. CASE User /\ Stands
  BY <1>0, <1>1, Sizes DEF Stands, placeVars, deviceVars, User, TypeOK,
     LoopTypes, Eot, PcOK
<1>2. CASE User /\ Ended
  BY <1>0, <1>2, Sizes DEF Ended, placeVars, Discard, User, TypeOK, LoopTypes,
     Eot, PcOK
<1>3. CASE User /\ Moved
  BY <1>0, <1>3, Sizes DEF Moved, Discard, deviceVars, User, TypeOK,
     LoopTypes, Eot, PcOK
<1>4. CASE User /\ Strays
  BY <1>0, <1>4, Sizes DEF Strays, placeVars, Discard, deviceVars, User,
     TypeOK, LoopTypes, Eot, PcOK
<1>5. CASE User /\ Pauses
  BY <1>0, <1>5, Sizes DEF Pauses, placeVars, Discard, User, TypeOK,
     LoopTypes, Eot, PcOK
<1>6. CASE User /\ Returns
  BY <1>0, <1>6, Sizes DEF Returns, placeVars, deviceVars, ReturnJump, User,
     TypeOK, LoopTypes, Eot, PcOK
<1>7. CASE User /\ Renders
  <2>1. UNCHANGED <<song, ev, tail>>
    BY <1>7 DEF Renders, Render, User
  <2>2. /\ pc = "controls" /\ pc' = "write"
        /\ count' = count - (Buffer - buffered_count)
    BY <1>7 DEF Renders, Render
  <2>3. /\ count \in Int /\ count >= 0 /\ Buffer \in Nat
        /\ buffered_count \in 0 .. Buffer
    BY <2>2, Sizes DEF TypeOK, PcOK
  <2>4. count' \in Int /\ count' >= -Buffer
    BY <2>2, <2>3
  <2> QED BY <2>1, <2>2, <2>4 DEF TypeOK, LoopTypes, Eot
<1>8. CASE PlayEvent
  <2>1. UNCHANGED <<song, tail>>
    BY <1>8 DEF PlayEvent
  <2>2. pc = "play" /\ pc' \in {"compute", "execute"} /\ ev' = current_event
    BY <1>8 DEF PlayEvent
  <2>3. \/ count' = count
        \/ /\ Time(current_event) > current_sample
           /\ count' = Time(current_event) - current_sample
    BY <1>8 DEF PlayEvent
  <2>4. current_event \in 1 .. Eot
    BY <2>2, Sizes DEF TypeOK
  <2>5. Time(current_event) \in Nat
    BY <2>4, Basics, SongType DEF Time, Eot
  <2>6. count \in Int /\ count >= -Buffer /\ Buffer \in Nat /\ current_sample \in Nat
    BY Sizes DEF TypeOK
  <2>7. count' \in Int /\ count' >= -Buffer
    BY <2>3, <2>5, <2>6
  <2> QED BY <2>1, <2>2, <2>4, <2>7 DEF TypeOK, LoopTypes, Eot
<1>9. CASE Execute
  BY <1>0, <1>9, Sizes DEF Execute, userVars, deviceVars, TypeOK, LoopTypes,
     Eot, PcOK
<1>10. CASE NextEvent
  BY <1>0, <1>10, Sizes DEF NextEvent, deviceVars, TypeOK, LoopTypes, Eot,
     PcOK
<1>11. CASE StartBuffer
  BY <1>0, <1>11, Sizes DEF StartBuffer, seekVars, deviceVars, TypeOK,
     LoopTypes, Eot, PcOK
<1>12. CASE Leftover
  <2>1. UNCHANGED <<song, ev, tail>>
    BY <1>12 DEF Leftover
  <2>2. count' = 0 /\ pc' \in {"execute", "ending"}
    BY <1>12 DEF Leftover
  <2> QED BY <2>1, <1>0, Sizes, <2>2 DEF TypeOK, LoopTypes, Eot, PcOK
<1>13. CASE WaitForRoom
  BY <1>0, <1>13, Sizes DEF WaitForRoom, userVars, deviceVars, TypeOK,
     LoopTypes, Eot, PcOK
<1>14. CASE Write
  <2>1. UNCHANGED <<song, ev>>
    BY <1>14 DEF Write
  <2>2. pc' = "compute" /\ count' \in {count, Buffer} /\ tail' \in {tail, 1}
    BY <1>14 DEF Write
  <2> QED BY <2>1, <1>0, Sizes, <2>2 DEF TypeOK, LoopTypes, Eot, PcOK
<1>15. CASE FadeOut
  <2>1. UNCHANGED <<song, ev>>
    BY <1>15 DEF FadeOut
  <2>2. /\ pc' \in {"compute", "flush"} /\ count' \in {count, Buffer}
        /\ tail' = tail \/ (tail > 1 /\ tail' = tail - 1)
    BY <1>15 DEF FadeOut
  <2>3. tail' \in 0 .. 2 /\ count' \in Int /\ count' >= -Buffer
    <3>1. tail \in 0 .. 2 /\ count \in Int /\ count >= -Buffer
      BY DEF TypeOK
    <3> QED BY <3>1, <2>2, Sizes
  <2>4. pc' \in {"compute", "flush"}
    BY <2>2
  <2> QED BY <2>1, <1>0, Sizes, <2>3, <2>4 DEF TypeOK, LoopTypes, Eot, PcOK
<1>16. CASE ShowRest
  BY <1>0, <1>16, Sizes DEF ShowRest, userVars, deviceVars, TypeOK, LoopTypes,
     Eot, PcOK
<1>17. CASE Finish
  BY <1>0, <1>17, Sizes DEF Finish, userVars, Discard, TypeOK, LoopTypes, Eot,
     PcOK
<1>18. CASE Sound
  BY <1>0, <1>18, Sizes DEF Sound, seekVars, userVars, TypeOK, LoopTypes, Eot,
     PcOK
<1>19. CASE UNCHANGED vars
  BY <1>0, <1>19, Sizes DEF vars, seekVars, userVars, deviceVars, TypeOK,
     LoopTypes, Eot, PcOK
<1> QED BY Steps, <1>1, <1>2, <1>3, <1>4, <1>5, <1>6, <1>7, <1>8, <1>9, <1>10,
   <1>11, <1>12, <1>13, <1>14, <1>15, <1>16, <1>17, <1>18, <1>19

LEMMA UserTypesStep ==
  ASSUME TypeOK, [Next]_vars
  PROVE  UserTypes'
<1>0. song' = song /\ can_trace' = can_trace
  BY SongStays
<1>1. CASE User /\ Stands
  BY <1>0, <1>1 DEF Stands, placeVars, deviceVars, User, TypeOK, UserTypes
<1>2. CASE User /\ Ended
  BY <1>0, <1>2 DEF Ended, placeVars, Discard, User, TypeOK, UserTypes
<1>3. CASE User /\ Moved
  BY <1>0, <1>3 DEF Moved, Discard, deviceVars, User, TypeOK, UserTypes
<1>4. CASE User /\ Strays
  BY <1>0, <1>4 DEF Strays, placeVars, Discard, deviceVars, User, TypeOK,
     UserTypes
<1>5. CASE User /\ Pauses
  BY <1>0, <1>5 DEF Pauses, placeVars, Discard, User, TypeOK, UserTypes
<1>6. CASE User /\ Returns
  BY <1>0, <1>6 DEF Returns, placeVars, deviceVars, ReturnJump, User, TypeOK,
     UserTypes
<1>7. CASE User /\ Renders
  BY <1>0, <1>7 DEF Renders, Render, deviceVars, User, TypeOK, UserTypes
<1>8. CASE PlayEvent
  BY <1>0, <1>8 DEF PlayEvent, seekVars, deviceVars, TypeOK, UserTypes
<1>9. CASE Execute
  <2>1. UNCHANGED <<userVars, strayed>>
    BY <1>9 DEF Execute
  <2> QED BY <2>1, <1>0 DEF TypeOK, UserTypes, userVars
<1>10. CASE NextEvent
  <2>1. UNCHANGED <<commands, play_pause_flag, jump_flag, midi_restart_time, strayed>>
    BY <1>10 DEF NextEvent, userVars
  <2> QED BY <2>1, <1>0 DEF TypeOK, UserTypes
<1>11. CASE StartBuffer
  BY <1>0, <1>11 DEF StartBuffer, seekVars, deviceVars, TypeOK, UserTypes
<1>12. CASE Leftover
  BY <1>0, <1>12 DEF Leftover, userVars, deviceVars, TypeOK, UserTypes
<1>13. CASE WaitForRoom
  BY <1>0, <1>13 DEF WaitForRoom, userVars, deviceVars, TypeOK, UserTypes
<1>14. CASE Write
  BY <1>0, <1>14 DEF Write, userVars, TypeOK, UserTypes
<1>15. CASE FadeOut
  BY <1>0, <1>15 DEF FadeOut, userVars, TypeOK, UserTypes
<1>16. CASE ShowRest
  BY <1>0, <1>16 DEF ShowRest, userVars, deviceVars, TypeOK, UserTypes
<1>17. CASE Finish
  BY <1>0, <1>17 DEF Finish, userVars, Discard, TypeOK, UserTypes
<1>18. CASE Sound
  BY <1>0, <1>18 DEF Sound, seekVars, userVars, TypeOK, UserTypes
<1>19. CASE UNCHANGED vars
  BY <1>0, <1>19 DEF vars, seekVars, userVars, deviceVars, TypeOK, UserTypes
<1> QED BY Steps, <1>1, <1>2, <1>3, <1>4, <1>5, <1>6, <1>7, <1>8, <1>9, <1>10,
   <1>11, <1>12, <1>13, <1>14, <1>15, <1>16, <1>17, <1>18, <1>19

LEMMA SoundTypesStep ==
  ASSUME TypeOK, TraceSorted, [Next]_vars
  PROVE  SoundTypes'
<1>0. song' = song /\ can_trace' = can_trace
  BY SongStays
<1>1. CASE User /\ Stands
  BY <1>0, <1>1, Sizes DEF Stands, placeVars, deviceVars, User, TypeOK,
     SoundTypes
<1>2. CASE User /\ Ended
  BY <1>0, <1>2, Sizes DEF Ended, placeVars, Discard, User, TypeOK, SoundTypes
<1>3. CASE User /\ Moved
  <2>1. /\ trace' = <<>> /\ lasttime' = lasttime
        /\ \/ written' = 0 /\ heard' = 0
           \/ written' = written /\ heard' = heard
    BY <1>3 DEF Moved, Landed, Discard, deviceVars
  <2> QED BY <2>1 DEF TypeOK, SoundTypes
<1>4. CASE User /\ Strays
  <2>1. /\ trace' \in {trace, <<>>} /\ lasttime' = lasttime
        /\ \/ written' = 0 /\ heard' = 0
           \/ written' = written /\ heard' = heard
    BY <1>4 DEF Strays, Discard, deviceVars
  <2>2. trace' \in Seq(Nat \cup {-1})
    BY <2>1, EmptySeq DEF TypeOK
  <2> QED BY <2>1, <2>2 DEF TypeOK, SoundTypes
<1>5. CASE User /\ Pauses
  BY <1>0, <1>5, Sizes DEF Pauses, placeVars, Discard, User, TypeOK,
     SoundTypes
<1>6. CASE User /\ Returns
  BY <1>0, <1>6, Sizes DEF Returns, placeVars, deviceVars, ReturnJump, User,
     TypeOK, SoundTypes
<1>7. CASE User /\ Renders
  <2>1. trace_loop /\ UNCHANGED <<written, heard>>
    BY <1>7 DEF Renders, Render, deviceVars
  <2>2. trace' \in Seq(Stamp) /\ lasttime' \in Stamp
    BY <2>1, TraceLoop
  <2> QED BY <2>1, <2>2 DEF TypeOK, SoundTypes, Stamp
<1>8. CASE PlayEvent
  BY <1>0, <1>8, Sizes DEF PlayEvent, seekVars, deviceVars, TypeOK, SoundTypes
<1>9. CASE Execute
  <2>1. UNCHANGED <<lasttime, written, heard>> /\ trace' \in {trace, Append(trace, current_sample)}
    BY <1>9 DEF Execute, Pushed, deviceVars
  <2>2. Append(trace, current_sample) \in Seq(Nat \cup {-1})
    BY AppendProperties DEF TypeOK
  <2> QED BY <2>1, <2>2 DEF TypeOK, SoundTypes
<1>10. CASE NextEvent
  BY <1>0, <1>10, Sizes DEF NextEvent, deviceVars, TypeOK, SoundTypes
<1>11. CASE StartBuffer
  BY <1>0, <1>11, Sizes DEF StartBuffer, seekVars, deviceVars, TypeOK,
     SoundTypes
<1>12. CASE Leftover
  BY <1>0, <1>12, Sizes DEF Leftover, userVars, deviceVars, TypeOK, SoundTypes
<1>13. CASE WaitForRoom
  <2>1. trace_loop /\ UNCHANGED <<written, heard>>
    BY <1>13 DEF WaitForRoom, deviceVars
  <2>2. trace' \in Seq(Stamp) /\ lasttime' \in Stamp
    BY <2>1, TraceLoop
  <2> QED BY <2>1, <2>2 DEF TypeOK, SoundTypes, Stamp
<1>14. CASE Write
  <2>1. UNCHANGED <<trace, lasttime, heard>> /\ written' = written + Buffer
    BY <1>14 DEF Write
  <2>2. written \in Nat /\ Buffer \in Nat /\ heard \in 0 .. written
    BY Sizes DEF TypeOK
  <2>3. written' \in Nat /\ heard \in 0 .. written'
    BY <2>1, <2>2
  <2> QED BY <2>1, <2>3 DEF TypeOK, SoundTypes
<1>15. CASE FadeOut
  <2>1. UNCHANGED <<trace, lasttime, heard>> /\ written' \in {written, written + buffered_count}
    BY <1>15 DEF FadeOut
  <2>2. written \in Nat /\ buffered_count \in Nat /\ heard \in 0 .. written
    BY Sizes DEF TypeOK
  <2>3. written' \in Nat /\ heard \in 0 .. written'
    BY <2>1, <2>2
  <2> QED BY <2>1, <2>3 DEF TypeOK, SoundTypes
<1>16. CASE ShowRest
  <2>1. trace_loop /\ UNCHANGED <<written, heard>>
    BY <1>16 DEF ShowRest, deviceVars
  <2>2. trace' \in Seq(Stamp) /\ lasttime' \in Stamp
    BY <2>1, TraceLoop
  <2> QED BY <2>1, <2>2 DEF TypeOK, SoundTypes, Stamp
<1>17. CASE Finish
  BY <1>0, <1>17, Sizes DEF Finish, userVars, Discard, TypeOK, SoundTypes
<1>18. CASE Sound
  BY <1>0, <1>18, Sizes DEF Sound, seekVars, userVars, TypeOK, SoundTypes
<1>19. CASE UNCHANGED vars
  BY <1>0, <1>19, Sizes DEF vars, seekVars, userVars, deviceVars, TypeOK,
     SoundTypes
<1> QED BY Steps, <1>1, <1>2, <1>3, <1>4, <1>5, <1>6, <1>7, <1>8, <1>9, <1>10,
   <1>11, <1>12, <1>13, <1>14, <1>15, <1>16, <1>17, <1>18, <1>19

LEMMA TypeStep == ASSUME TypeOK, PcOK, TraceSorted, [Next]_vars PROVE TypeOK'
<1>1. SongTypes' /\ LoopTypes' /\ UserTypes' /\ SoundTypes'
  BY SongTypesStep, LoopTypesStep, UserTypesStep, SoundTypesStep
<1> QED BY <1>1 DEF TypeOK, SongTypes, LoopTypes, UserTypes, SoundTypes

LEMMA PcStep ==
  ASSUME TypeOK, PcOK, [Next]_vars
  PROVE  PcOK'
<1>0. song' = song /\ can_trace' = can_trace
  BY SongStays
<1>1. CASE User /\ Stands
  BY <1>0, <1>1, Sizes DEF Stands, placeVars, deviceVars, User, TypeOK, PcOK
<1>2. CASE User /\ Ended
  BY <1>0, <1>2, Sizes DEF Ended, placeVars, Discard, User, TypeOK, PcOK
<1>3. CASE User /\ Moved
  BY <1>0, <1>3, Sizes DEF Moved, Discard, deviceVars, User, TypeOK, PcOK,
     Landed
<1>4. CASE User /\ Strays
  BY <1>0, <1>4, Sizes DEF Strays, placeVars, Discard, deviceVars, User,
     TypeOK, PcOK
<1>5. CASE User /\ Pauses
  BY <1>0, <1>5, Sizes DEF Pauses, placeVars, Discard, User, TypeOK, PcOK
<1>6. CASE User /\ Returns
  BY <1>0, <1>6, Sizes DEF Returns, placeVars, deviceVars, ReturnJump, User,
     TypeOK, PcOK
<1>7. CASE User /\ Renders
  BY <1>0, <1>7, Sizes DEF Renders, Render, deviceVars, User, TypeOK, PcOK
<1>8. CASE PlayEvent
  BY <1>0, <1>8, Sizes DEF PlayEvent, seekVars, deviceVars, TypeOK, PcOK
<1>9. CASE Execute
  BY <1>0, <1>9, Sizes DEF Execute, userVars, deviceVars, TypeOK, PcOK
<1>10. CASE NextEvent
  BY <1>0, <1>10, Sizes DEF NextEvent, deviceVars, TypeOK, PcOK
<1>11. CASE StartBuffer
  BY <1>0, <1>11, Sizes DEF StartBuffer, seekVars, deviceVars, TypeOK, PcOK
<1>12. CASE Leftover
  BY <1>0, <1>12, Sizes DEF Leftover, userVars, deviceVars, TypeOK, PcOK
<1>13. CASE WaitForRoom
  BY <1>0, <1>13, Sizes DEF WaitForRoom, userVars, deviceVars, TypeOK, PcOK
<1>14. CASE Write
  BY <1>0, <1>14, Sizes DEF Write, userVars, TypeOK, PcOK
<1>15. CASE FadeOut
  BY <1>0, <1>15, Sizes DEF FadeOut, userVars, TypeOK, PcOK
<1>16. CASE ShowRest
  BY <1>0, <1>16, Sizes DEF ShowRest, userVars, deviceVars, TypeOK, PcOK
<1>17. CASE Finish
  BY <1>0, <1>17, Sizes DEF Finish, userVars, Discard, TypeOK, PcOK
<1>18. CASE Sound
  BY <1>0, <1>18, Sizes DEF Sound, seekVars, userVars, TypeOK, PcOK
<1>19. CASE UNCHANGED vars
  BY <1>0, <1>19, Sizes DEF vars, seekVars, userVars, deviceVars, TypeOK, PcOK
<1> QED BY Steps, <1>1, <1>2, <1>3, <1>4, <1>5, <1>6, <1>7, <1>8, <1>9, <1>10,
   <1>11, <1>12, <1>13, <1>14, <1>15, <1>16, <1>17, <1>18, <1>19

LEMMA TraceStep ==
  ASSUME TypeOK, TraceSorted, [Next]_vars
  PROVE  TraceSorted'
<1>0. song' = song /\ can_trace' = can_trace
  BY SongStays
<1>a. /\ trace \in Seq(Stamp) /\ SortedTo(trace, current_sample)
      /\ current_sample \in Nat
  BY DEF TypeOK, TraceSorted, SortedTo, Stamp
<1>1. CASE User /\ Stands
  <2>1. UNCHANGED <<trace, current_sample>>
    BY <1>1 DEF Stands, placeVars, deviceVars, User
  <2> QED BY <2>1, <1>a DEF TraceSorted, SortedTo
<1>2. CASE User /\ Ended
  <2>1. trace' = <<>>
    BY <1>2 DEF Ended
  <2> QED BY <2>1, SortedEmpty DEF TraceSorted, SortedTo
<1>3. CASE User /\ Moved
  <2>1. trace' = <<>>
    BY <1>3 DEF Moved, Landed
  <2> QED BY <2>1, SortedEmpty DEF TraceSorted, SortedTo
<1>4. CASE User /\ Strays
  <2>1. current_sample' = current_sample /\ trace' \in {trace, <<>>}
    BY <1>4 DEF Strays, placeVars
  <2> QED BY <2>1, <1>a, SortedEmpty DEF TraceSorted, SortedTo
<1>5. CASE User /\ Pauses
  <2>1. trace' = <<>>
    BY <1>5 DEF Pauses
  <2> QED BY <2>1, SortedEmpty DEF TraceSorted, SortedTo
<1>6. CASE User /\ Returns
  <2>1. UNCHANGED <<trace, current_sample>>
    BY <1>6 DEF Returns, placeVars, deviceVars, ReturnJump, User
  <2> QED BY <2>1, <1>a DEF TraceSorted, SortedTo
<1>7. CASE User /\ Renders
  <2>1. trace_loop /\ current_sample' = current_sample + Buffer - buffered_count
    BY <1>7 DEF Renders, Render
  <2>2. trace' \in Seq(Stamp) /\ SortedTo(trace', current_sample)
    BY <2>1, TraceLoop
  <2>3. SortedTo(trace', current_sample')
    <3>1. current_sample' \in Nat /\ current_sample <= current_sample'
      <4>1. current_sample \in Nat /\ buffered_count \in 0 .. Buffer
        BY DEF TypeOK
      <4> QED BY <4>1, <2>1, Sizes
    <3> QED BY <3>1, <2>2, <1>a, SortedLater
  <2> QED BY <2>3 DEF TraceSorted, SortedTo
<1>8. CASE PlayEvent
  <2>1. UNCHANGED <<trace, current_sample>>
    BY <1>8 DEF PlayEvent, seekVars, deviceVars
  <2> QED BY <2>1, <1>a DEF TraceSorted, SortedTo
<1>9. CASE Execute
  <2>1. current_sample' = current_sample /\ trace' \in {trace, Append(trace, current_sample)}
    BY <1>9 DEF Execute, Pushed
  <2>2. SortedTo(Append(trace, current_sample), current_sample)
    BY <1>a, SortedAppend
  <2> QED BY <2>1, <2>2, <1>a DEF TraceSorted, SortedTo
<1>10. CASE NextEvent
  <2>1. UNCHANGED <<trace, current_sample>>
    BY <1>10 DEF NextEvent, deviceVars
  <2> QED BY <2>1, <1>a DEF TraceSorted, SortedTo
<1>11. CASE StartBuffer
  <2>1. UNCHANGED <<trace, current_sample>>
    BY <1>11 DEF StartBuffer, seekVars, deviceVars
  <2> QED BY <2>1, <1>a DEF TraceSorted, SortedTo
<1>12. CASE Leftover
  <2>1. trace' = trace /\ current_sample' = current_sample + Max({count, 0})
    BY <1>12 DEF Leftover
  <2>2. PICK n \in Nat : n = Max({count, 0})
    BY MaxPair DEF TypeOK
  <2>3. SortedTo(trace, current_sample')
    BY <2>1, <2>2, <1>a, SortedLater
  <2> QED BY <2>1, <2>3 DEF TraceSorted, SortedTo
<1>13. CASE WaitForRoom
  <2>1. trace_loop /\ current_sample' >= current_sample /\ current_sample' \in Nat
    BY <1>13, <1>a DEF WaitForRoom, TypeOK
  <2>2. trace' \in Seq(Stamp) /\ SortedTo(trace', current_sample)
    BY <2>1, TraceLoop
  <2>3. SortedTo(trace', current_sample')
    BY <2>1, <2>2, <1>a, SortedLater
  <2> QED BY <2>3 DEF TraceSorted, SortedTo
<1>14. CASE Write
  <2>1. UNCHANGED <<trace, current_sample>>
    BY <1>14 DEF Write, userVars
  <2> QED BY <2>1, <1>a DEF TraceSorted, SortedTo
<1>15. CASE FadeOut
  <2>1. UNCHANGED <<trace, current_sample>>
    BY <1>15 DEF FadeOut, userVars
  <2> QED BY <2>1, <1>a DEF TraceSorted, SortedTo
<1>16. CASE ShowRest
  <2>1. trace_loop /\ current_sample' >= current_sample /\ current_sample' \in Nat
    BY <1>16, <1>a DEF ShowRest, TypeOK
  <2>2. trace' \in Seq(Stamp) /\ SortedTo(trace', current_sample)
    BY <2>1, TraceLoop
  <2>3. SortedTo(trace', current_sample')
    BY <2>1, <2>2, <1>a, SortedLater
  <2> QED BY <2>3 DEF TraceSorted, SortedTo
<1>17. CASE Finish
  <2>1. trace' = <<>>
    BY <1>17 DEF Finish
  <2> QED BY <2>1, SortedEmpty DEF TraceSorted, SortedTo
<1>18. CASE Sound
  <2>1. UNCHANGED <<trace, current_sample>>
    BY <1>18 DEF Sound, seekVars, userVars
  <2> QED BY <2>1, <1>a DEF TraceSorted, SortedTo
<1>19. CASE UNCHANGED vars
  <2>1. UNCHANGED <<trace, current_sample>>
    BY <1>19 DEF vars, seekVars, userVars, deviceVars
  <2> QED BY <2>1, <1>a DEF TraceSorted, SortedTo
<1> QED BY Steps, <1>1, <1>2, <1>3, <1>4, <1>5, <1>6, <1>7, <1>8, <1>9, <1>10,
   <1>11, <1>12, <1>13, <1>14, <1>15, <1>16, <1>17, <1>18, <1>19


LEMMA WaitsStep ==
  ASSUME TypeOK, PcOK, Waits, [Next]_vars
  PROVE  Waits'
<1>0. song' = song /\ can_trace' = can_trace
  BY SongStays
<1>1. CASE User /\ Stands
  BY <1>0, <1>1, Sizes DEF Stands, placeVars, deviceVars, User, TypeOK, PcOK,
     Waits
<1>2. CASE User /\ Ended
  BY <1>0, <1>2, Sizes DEF Ended, placeVars, Discard, User, TypeOK, PcOK,
     Waits
<1>3. CASE User /\ Moved
  BY <1>0, <1>3, Sizes DEF Moved, Discard, deviceVars, User, TypeOK, PcOK,
     Waits, Landed
<1>4. CASE User /\ Strays
  BY <1>0, <1>4, Sizes DEF Strays, placeVars, Discard, deviceVars, User,
     TypeOK, PcOK, Waits
<1>5. CASE User /\ Pauses
  BY <1>0, <1>5, Sizes DEF Pauses, placeVars, Discard, User, TypeOK, PcOK,
     Waits
<1>6. CASE User /\ Returns
  BY <1>0, <1>6, Sizes DEF Returns, placeVars, deviceVars, ReturnJump, User,
     TypeOK, PcOK, Waits
<1>7. CASE User /\ Renders
  BY <1>0, <1>7, Sizes DEF Renders, Render, deviceVars, User, TypeOK, PcOK,
     Waits
<1>8. CASE PlayEvent
  BY <1>0, <1>8, Sizes DEF PlayEvent, seekVars, deviceVars, TypeOK, PcOK,
     Waits
<1>9. CASE Execute
  BY <1>0, <1>9, Sizes DEF Execute, userVars, deviceVars, TypeOK, PcOK, Waits
<1>10. CASE NextEvent
  <2>1. UNCHANGED <<written, tail, play_pause_flag, strayed>>
    BY <1>10 DEF NextEvent, deviceVars, userVars
  <2>2. pc = "next" /\ pc' \in {"play", "lost"}
    BY <1>10 DEF NextEvent
  <2> QED BY <2>1, <2>2 DEF PcOK, Waits
<1>11. CASE StartBuffer
  BY <1>0, <1>11, Sizes DEF StartBuffer, seekVars, deviceVars, TypeOK, PcOK,
     Waits
<1>12. CASE Leftover
  BY <1>0, <1>12, Sizes DEF Leftover, userVars, deviceVars, TypeOK, PcOK,
     Waits
<1>13. CASE WaitForRoom
  BY <1>0, <1>13, Sizes DEF WaitForRoom, userVars, deviceVars, TypeOK, PcOK,
     Waits
<1>14. CASE Write
  BY <1>0, <1>14, Sizes DEF Write, userVars, TypeOK, PcOK, Waits
<1>15. CASE FadeOut
  BY <1>0, <1>15, Sizes DEF FadeOut, userVars, TypeOK, PcOK, Waits
<1>16. CASE ShowRest
  BY <1>0, <1>16, Sizes DEF ShowRest, userVars, deviceVars, TypeOK, PcOK,
     Waits
<1>17. CASE Finish
  BY <1>0, <1>17, Sizes DEF Finish, userVars, Discard, TypeOK, PcOK, Waits
<1>18. CASE Sound
  BY <1>0, <1>18, Sizes DEF Sound, seekVars, userVars, TypeOK, PcOK, Waits
<1>19. CASE UNCHANGED vars
  BY <1>0, <1>19, Sizes DEF vars, seekVars, userVars, deviceVars, TypeOK,
     PcOK, Waits
<1> QED BY Steps, <1>1, <1>2, <1>3, <1>4, <1>5, <1>6, <1>7, <1>8, <1>9, <1>10,
   <1>11, <1>12, <1>13, <1>14, <1>15, <1>16, <1>17, <1>18, <1>19

LEMMA PositionStep ==
  ASSUME TypeOK, PcOK, Waits, PositionKept, [Next]_vars
  PROVE  PositionKept'
<1>0. song' = song /\ can_trace' = can_trace
  BY SongStays
<1>a. sample_count' = sample_count
  BY <1>0 DEF sample_count, Time, Eot
<1>b. /\ current_sample \in Nat /\ buffered_count \in 0 .. Buffer /\ written \in Nat
      /\ Min({offset, sample_count}) \in Nat /\ Buffer \in Nat /\ count \in Int
  <2>1. offset \in Nat /\ sample_count \in Nat
    BY Basics DEF TypeOK
  <2>2. Min({offset, sample_count}) \in Nat
    BY <2>1, MinPair
  <2> QED BY <2>2, Sizes DEF TypeOK
<1>1. CASE User /\ Stands
  BY <1>0, <1>1, <1>a, <1>b DEF Stands, placeVars, deviceVars, User,
     PositionKept
<1>2. CASE User /\ Ended
  BY <1>0, <1>2, <1>a, <1>b DEF Ended, placeVars, Discard, User, PositionKept
<1>3. CASE User /\ Moved
  BY <1>0, <1>3, <1>a, <1>b DEF Moved, Discard, deviceVars, User,
     PositionKept, Landed, Waits
<1>4. CASE User /\ Strays
  BY <1>0, <1>4, <1>a, <1>b DEF Strays, placeVars, Discard, deviceVars, User,
     PositionKept
<1>5. CASE User /\ Pauses
  BY <1>0, <1>5, <1>a, <1>b DEF Pauses, placeVars, Discard, User, PositionKept
<1>6. CASE User /\ Returns
  BY <1>0, <1>6, <1>a, <1>b DEF Returns, placeVars, deviceVars, ReturnJump,
     User, PositionKept
<1>7. CASE User /\ Renders
  <2>1. /\ UNCHANGED <<offset, written>>
        /\ current_sample' = current_sample + Buffer - buffered_count
        /\ buffered_count' = Buffer /\ pc = "controls"
    BY <1>7 DEF Renders, Render, deviceVars
  <2>2. ~play_pause_flag' /\ ~strayed' => ~play_pause_flag /\ ~strayed
    BY <1>7 DEF Renders
  <2> QED BY <2>1, <2>2, <1>a, <1>b DEF PositionKept
<1>8. CASE PlayEvent
  BY <1>0, <1>8, <1>a, <1>b DEF PlayEvent, seekVars, deviceVars, PositionKept
<1>9. CASE Execute
  BY <1>0, <1>9, <1>a, <1>b DEF Execute, userVars, deviceVars, PositionKept
<1>10. CASE NextEvent
  <2>1. UNCHANGED <<offset, written, buffered_count, current_sample, play_pause_flag, strayed>>
    BY <1>10 DEF NextEvent, deviceVars, userVars
  <2>2. pc # "done"
    BY <1>10 DEF NextEvent
  <2> QED BY <2>1, <2>2, <1>a DEF PositionKept
<1>11. CASE StartBuffer
  BY <1>0, <1>11, <1>a, <1>b DEF StartBuffer, seekVars, deviceVars,
     PositionKept
<1>12. CASE Leftover
  <2>1. UNCHANGED <<offset, written, play_pause_flag, strayed>> /\ pc = "compute"
    BY <1>12 DEF Leftover, deviceVars, userVars
  <2>2. PICK n \in Nat : n = Max({count, 0})
    BY <1>b, MaxPair
  <2>3. current_sample' = current_sample + n /\ buffered_count' = buffered_count + n
    BY <1>12, <2>2 DEF Leftover
  <2> QED BY <2>1, <2>3, <1>a, <1>b DEF PositionKept
<1>13. CASE WaitForRoom
  BY <1>0, <1>13, <1>a, <1>b DEF WaitForRoom, userVars, deviceVars,
     PositionKept
<1>14. CASE Write
  BY <1>0, <1>14, <1>a, <1>b DEF Write, userVars, PositionKept, PcOK
<1>15. CASE FadeOut
  BY <1>0, <1>15, <1>a, <1>b DEF FadeOut, userVars, PositionKept
<1>16. CASE ShowRest
  BY <1>0, <1>16, <1>a, <1>b DEF ShowRest, userVars, deviceVars, PositionKept
<1>17. CASE Finish
  BY <1>0, <1>17, <1>a, <1>b DEF Finish, userVars, Discard, PositionKept
<1>18. CASE Sound
  BY <1>0, <1>18, <1>a, <1>b DEF Sound, seekVars, userVars, PositionKept
<1>19. CASE UNCHANGED vars
  BY <1>0, <1>19, <1>a, <1>b DEF vars, seekVars, userVars, deviceVars,
     PositionKept
<1> QED BY Steps, <1>1, <1>2, <1>3, <1>4, <1>5, <1>6, <1>7, <1>8, <1>9, <1>10,
   <1>11, <1>12, <1>13, <1>14, <1>15, <1>16, <1>17, <1>18, <1>19


LEMMA PlaceStep ==
  ASSUME TypeOK, PcOK, Place, [Next]_vars
  PROVE  Place'
<1>0. song' = song /\ can_trace' = can_trace
  BY SongStays
<1>a. IsSong(song) /\ from \in Nat
  BY Basics DEF TypeOK
<1>b. tail \in 0 .. 2
  BY DEF TypeOK
<1>1. CASE User /\ Stands
  BY <1>0, <1>1, <1>b DEF Stands, placeVars, deviceVars, User, Place,
     IsSought, PlayingNow, PlayedNow, Heading
<1>2. CASE User /\ Ended
  BY <1>0, <1>2, <1>b DEF Ended, placeVars, Discard, User, Place, IsSought,
     PlayingNow, PlayedNow, Heading
<1>3. CASE User /\ Moved
  <2>1. IsSought' /\ from' \in Nat
    BY <1>3, <1>0 DEF Moved, Landed, IsSought
  <2>2. PlayingNow'
    BY <2>1, <1>0, <1>a, SoughtPlays DEF IsSought, PlayingNow
  <2>3. /\ ~strayed' /\ tail' = 0 => tail = 0
        /\ pc' \in {"controls", "play", "next", "ending"}
        /\ pc' = "ending" => tail' # 0
        /\ pc' = "controls" /\ ~strayed' => jump_flag'
    BY <1>3 DEF Moved
  <2> QED BY <2>1, <2>2, <2>3 DEF Place
<1>4. CASE User /\ Strays
  BY <1>0, <1>4, <1>b DEF Strays, placeVars, Discard, deviceVars, User, Place,
     IsSought, PlayingNow, PlayedNow, Heading
<1>5. CASE User /\ Pauses
  BY <1>0, <1>5, <1>b DEF Pauses, placeVars, Discard, User, Place, IsSought,
     PlayingNow, PlayedNow, Heading
<1>6. CASE User /\ Returns
  BY <1>0, <1>6, <1>b DEF Returns, placeVars, deviceVars, ReturnJump, User,
     Place, IsSought, PlayingNow, PlayedNow, Heading
<1>7. CASE User /\ Renders
  <2>1. UNCHANGED <<from, played, channel, current_event, ev, midi_restart_time>>
    BY <1>7 DEF Renders, Render, User
  <2>2. Heading => Heading'
    BY <2>1, <1>0 DEF Heading, PlayingNow
  <2> QED BY <1>7, <2>2, <1>b DEF Renders, Render, Place, PcOK
<1>8. CASE PlayEvent
  <2>1. UNCHANGED <<from, played, channel, current_event, tail, strayed>>
    BY <1>8 DEF PlayEvent, seekVars
  <2>2. ev' = current_event /\ midi_restart_time' = 1 /\ pc = "play" /\ pc' \in {"compute", "execute"}
    BY <1>8 DEF PlayEvent
  <2> QED BY <2>1, <2>2, <1>0 DEF Place, Heading, PlayingNow
<1>9. CASE Execute
  <2>1. CASE song[ev].what = "eot"
    BY <1>9, <2>1 DEF Execute, Place
  <2>2. CASE song[ev].what # "eot"
    <3> SUFFICES ASSUME ~strayed, tail = 0
                 PROVE  /\ pc' = "next" /\ midi_restart_time' # 0
                        /\ current_event' < Eot' /\ PlayedNow'
      BY <1>9, <2>2 DEF Execute, Place
    <3>1. Heading
      BY <1>9 DEF Execute, Place
    <3>2. /\ UNCHANGED <<current_event, from, midi_restart_time>> /\ pc' = "next"
          /\ played' = Append(played, ev)
          /\ channel' = [c \in Controllers |-> IF song[ev].what = c THEN ev ELSE channel[c]]
      BY <1>9, <2>2 DEF Execute, userVars
    <3>3. ev = current_event /\ ev \in 1 .. Len(song) /\ midi_restart_time # 0
      BY <3>1 DEF Heading, TypeOK, Eot
    <3>4. \A c \in Tuned : channel'[c] = IF song[ev].what = c THEN ev ELSE channel[c]
      BY <3>2 DEF Tuned
    <3>5. Playing(song, from, Append(played, ev), channel', ev + 1)
      <4>1. Playing(song, from, played, channel, ev)
        BY <3>1 DEF Heading, PlayingNow
      <4> QED BY <4>1, <3>3, <3>4, <1>a, PlayedOne
    <3>6. ev < Eot
      BY <3>3, <2>2, <1>a, SongType DEF Eot
    <3>7. Eot' = Eot
      BY <1>0 DEF Eot
    <3> QED BY <3>2, <3>3, <3>5, <3>6, <3>7, <1>0 DEF PlayedNow
  <2> QED BY <2>1, <2>2
<1>10. CASE NextEvent
  <2> SUFFICES ASSUME ~strayed, tail = 0
               PROVE  /\ pc' = "play" => PlayingNow'
                      /\ pc' = "lost" => from' > sample_count'
    BY <1>10 DEF NextEvent, Place
  <2>1. UNCHANGED <<from, played, channel>> /\ Eot' = Eot /\ sample_count' = sample_count
    BY <1>10, <1>0 DEF NextEvent, Eot, sample_count, Time
  <2>2. /\ current_event' = IF midi_restart_time # 0 THEN current_event + 1 ELSE current_event
        /\ pc' = IF current_event' > Eot THEN "lost" ELSE "play"
        /\ pc = "next"
    BY <1>10, <2>1 DEF NextEvent
  <2>3. current_event \in 1 .. Eot
    BY <2>2, Sizes DEF TypeOK
  <2>4. CASE IsSought
    <3>1. /\ Playing(song, from, played, channel, current_event)
          /\ current_event < Eot => Playing(song, from, played, channel, current_event + 1)
          /\ current_event = Eot => from > sample_count
      BY <2>4, <1>a, SoughtPlays DEF IsSought, Eot, sample_count, Time
    <3> QED BY <3>1, <2>1, <2>2, <2>3, <1>0, Sizes DEF PlayingNow
  <2>5. CASE midi_restart_time # 0 /\ current_event < Eot /\ PlayedNow
    <3>1. current_event' = current_event + 1 /\ ~(current_event' > Eot)
      BY <2>5, <2>2, <2>3, Sizes
    <3> QED BY <3>1, <2>5, <2>1, <2>2, <1>0 DEF PlayingNow, PlayedNow
  <2> QED BY <2>2, <2>4, <2>5 DEF Place
<1>11. CASE StartBuffer
  <2>1. UNCHANGED <<from, played, channel, current_event, ev, midi_restart_time>>
    BY <1>11 DEF StartBuffer, seekVars
  <2>2. Heading => Heading'
    BY <2>1, <1>0 DEF Heading, PlayingNow
  <2> QED BY <1>11, <2>2, <1>b DEF StartBuffer, Place, PcOK
<1>12. CASE Leftover
  <2>1. UNCHANGED <<from, played, channel, current_event, ev, midi_restart_time>>
    BY <1>12 DEF Leftover, userVars
  <2>2. Heading => Heading'
    BY <2>1, <1>0 DEF Heading, PlayingNow
  <2> QED BY <1>12, <2>2, <1>b DEF Leftover, Place, PcOK
<1>13. CASE WaitForRoom
  <2>1. UNCHANGED <<from, played, channel, current_event, ev, midi_restart_time>>
    BY <1>13 DEF WaitForRoom, userVars
  <2>2. Heading => Heading'
    BY <2>1, <1>0 DEF Heading, PlayingNow
  <2> QED BY <1>13, <2>2, <1>b DEF WaitForRoom, Place, PcOK
<1>14. CASE Write
  <2>1. UNCHANGED <<from, played, channel, current_event, ev, midi_restart_time>>
    BY <1>14 DEF Write, userVars
  <2>2. Heading => Heading'
    BY <2>1, <1>0 DEF Heading, PlayingNow
  <2> QED BY <1>14, <2>2, <1>b DEF Write, Place, PcOK
<1>15. CASE FadeOut
  BY <1>0, <1>15, <1>b DEF FadeOut, userVars, Place, IsSought, PlayingNow,
     PlayedNow, Heading, PcOK
<1>16. CASE ShowRest
  BY <1>0, <1>16, <1>b DEF ShowRest, userVars, deviceVars, Place, IsSought,
     PlayingNow, PlayedNow, Heading, PcOK
<1>17. CASE Finish
  BY <1>0, <1>17, <1>b DEF Finish, userVars, Discard, Place, IsSought,
     PlayingNow, PlayedNow, Heading, PcOK
<1>18. CASE Sound
  <2>1. /\ UNCHANGED <<from, played, channel, current_event, ev, midi_restart_time>>
        /\ UNCHANGED <<tail, pc, strayed, jump_flag, play_pause_flag>>
    BY <1>18 DEF Sound, seekVars, userVars
  <2>2. Eot' = Eot /\ sample_count' = sample_count
    BY <1>0 DEF Eot, sample_count, Time
  <2> QED BY <2>1, <2>2, <1>0
          DEF Place, IsSought, PlayingNow, PlayedNow, Heading
<1>19. CASE UNCHANGED vars
  <2>1. /\ UNCHANGED <<from, played, channel, current_event, ev, midi_restart_time>>
        /\ UNCHANGED <<tail, pc, strayed, jump_flag, play_pause_flag>>
    BY <1>19 DEF vars, seekVars, userVars, deviceVars
  <2>2. Eot' = Eot /\ sample_count' = sample_count
    BY <1>0 DEF Eot, sample_count, Time
  <2> QED BY <2>1, <2>2, <1>0
          DEF Place, IsSought, PlayingNow, PlayedNow, Heading
<1> QED BY Steps, <1>1, <1>2, <1>3, <1>4, <1>5, <1>6, <1>7, <1>8, <1>9, <1>10,
   <1>11, <1>12, <1>13, <1>14, <1>15, <1>16, <1>17, <1>18, <1>19

LEMMA AllPlayedStep ==
  ASSUME TypeOK, PcOK, Place, AllPlayed, [Next]_vars
  PROVE  AllPlayed'
<1>0. song' = song /\ can_trace' = can_trace
  BY SongStays
<1>a. IsSong(song) /\ from \in Nat
  BY Basics DEF TypeOK
<1>1. CASE User /\ Stands
  <2>1. UNCHANGED <<from, played, tail, strayed>>
    BY <1>1 DEF Stands, placeVars, deviceVars, User
  <2> QED BY <2>1, <1>0 DEF AllPlayed
<1>2. CASE User /\ Ended
  <2>1. UNCHANGED <<from, played, tail, strayed>>
    BY <1>2 DEF Ended, placeVars, Discard, User
  <2> QED BY <2>1, <1>0 DEF AllPlayed
<1>3. CASE User /\ Moved
  BY <1>0, <1>3 DEF Moved, Discard, deviceVars, User, AllPlayed
<1>4. CASE User /\ Strays
  BY <1>0, <1>4 DEF Strays, placeVars, Discard, deviceVars, User, AllPlayed
<1>5. CASE User /\ Pauses
  <2>1. UNCHANGED <<from, played, tail>>
    BY <1>5 DEF Pauses, placeVars
  <2>2. ~strayed' => ~strayed
    BY <1>5 DEF Pauses
  <2> QED BY <2>1, <2>2, <1>0 DEF AllPlayed
<1>6. CASE User /\ Returns
  <2>1. UNCHANGED <<from, played, tail, strayed>>
    BY <1>6 DEF Returns, placeVars, deviceVars, ReturnJump, User
  <2> QED BY <2>1, <1>0 DEF AllPlayed
<1>7. CASE User /\ Renders
  <2>1. UNCHANGED <<from, played, tail>>
    BY <1>7 DEF Renders, Render
  <2>2. ~strayed' => ~strayed
    BY <1>7 DEF Renders
  <2> QED BY <2>1, <2>2, <1>0 DEF AllPlayed
<1>8. CASE PlayEvent
  <2>1. UNCHANGED <<from, played, tail, strayed>>
    BY <1>8 DEF PlayEvent, seekVars, deviceVars
  <2> QED BY <2>1, <1>0 DEF AllPlayed
<1>9. CASE Execute
  <2>1. CASE song[ev].what # "eot"
    BY <1>9, <2>1 DEF Execute, PcOK, AllPlayed
  <2>2. CASE song[ev].what = "eot"
    <3> SUFFICES ASSUME ~strayed PROVE Covers(song, FirstOf(song, from), played)
      BY <1>9, <2>2, <1>0 DEF Execute, AllPlayed
    <3>1. Heading
      BY <1>9 DEF Execute, Place, PcOK
    <3>2. ev = current_event /\ ev \in 1 .. Len(song)
      BY <3>1 DEF Heading, TypeOK, Eot
    <3>3. \A i \in ev .. Len(song) : song[i].what # "note"
      <4>1. ev = Len(song)
        BY <3>2, <2>2, <1>a, SongType
      <4>2. \A i \in ev .. Len(song) : i = ev
        BY <4>1, <3>2
      <4> QED BY <4>2, <2>2
    <3> QED BY <3>1, <3>2, <3>3, <1>a, PlayedNotes DEF Heading, PlayingNow
  <2> QED BY <2>1, <2>2
<1>10. CASE NextEvent
  <2>1. UNCHANGED <<from, played, tail, strayed>>
    BY <1>10 DEF NextEvent, deviceVars
  <2> QED BY <2>1, <1>0 DEF AllPlayed
<1>11. CASE StartBuffer
  <2>1. UNCHANGED <<from, played, tail, strayed>>
    BY <1>11 DEF StartBuffer, seekVars, deviceVars
  <2> QED BY <2>1, <1>0 DEF AllPlayed
<1>12. CASE Leftover
  <2>1. UNCHANGED <<from, played, tail, strayed>>
    BY <1>12 DEF Leftover, userVars, deviceVars
  <2> QED BY <2>1, <1>0 DEF AllPlayed
<1>13. CASE WaitForRoom
  <2>1. UNCHANGED <<from, played, tail, strayed>>
    BY <1>13 DEF WaitForRoom, userVars, deviceVars
  <2> QED BY <2>1, <1>0 DEF AllPlayed
<1>14. CASE Write
  <2>1. UNCHANGED <<from, played, strayed>>
    BY <1>14 DEF Write
  <2>2. CASE UNCHANGED <<count, tail>>
    BY <2>1, <2>2, <1>0 DEF AllPlayed
  <2>3. CASE tail = 0 /\ NearEnd
    <3> SUFFICES ASSUME ~strayed PROVE Covers(song, FirstOf(song, from), played)
      BY <2>1, <1>0 DEF AllPlayed
    <3>1. Heading
      BY <1>14, <2>3 DEF Write, Place
    <3>2. \A i \in current_event .. Len(song) : song[i].what # "note"
      BY <2>3 DEF NearEnd, Eot
    <3>3. current_event \in 1 .. Len(song)
      BY <3>1 DEF Heading, TypeOK, Eot
    <3> QED BY <3>1, <3>2, <3>3, <1>a, PlayedNotes DEF Heading, PlayingNow
  <2> QED BY <1>14, <2>2, <2>3 DEF Write
<1>15. CASE FadeOut
  <2>1. UNCHANGED <<from, played, strayed>> /\ pc = "ending"
    BY <1>15 DEF FadeOut
  <2> QED BY <2>1, <1>0 DEF AllPlayed, PcOK
<1>16. CASE ShowRest
  <2>1. UNCHANGED <<from, played, tail, strayed>>
    BY <1>16 DEF ShowRest, userVars, deviceVars
  <2> QED BY <2>1, <1>0 DEF AllPlayed
<1>17. CASE Finish
  <2>1. UNCHANGED <<from, played, tail, strayed>>
    BY <1>17 DEF Finish, userVars, Discard
  <2> QED BY <2>1, <1>0 DEF AllPlayed
<1>18. CASE Sound
  <2>1. UNCHANGED <<from, played, tail, strayed>>
    BY <1>18 DEF Sound, seekVars, userVars
  <2> QED BY <2>1, <1>0 DEF AllPlayed
<1>19. CASE UNCHANGED vars
  <2>1. UNCHANGED <<from, played, tail, strayed>>
    BY <1>19 DEF vars, seekVars, userVars, deviceVars
  <2> QED BY <2>1, <1>0 DEF AllPlayed
<1> QED BY Steps, <1>1, <1>2, <1>3, <1>4, <1>5, <1>6, <1>7, <1>8, <1>9, <1>10,
   <1>11, <1>12, <1>13, <1>14, <1>15, <1>16, <1>17, <1>18, <1>19


-------------------------------------------------------------------------------
(***************************************************************************)
(* The theorems.                                                           *)
(***************************************************************************)
LEMMA InitInv == Init => Inv
<1> SUFFICES ASSUME Init PROVE Inv
  OBVIOUS
<1> USE DEF Init
<1>1. IsSong(song)
  BY PlayerAssumption
<1>2. Eot \in Nat /\ Eot > 1 /\ sample_count \in Nat /\ Buffer \in Nat
  BY <1>1, SongType, PlayerAssumption DEF Eot, sample_count, Time
<1>3. TypeOK
  <2>1. trace \in Seq(Nat \cup {-1}) /\ played \in Seq(1 .. Eot)
    BY EmptySeq
  <2>2. SongTypes /\ SoundTypes
    BY <2>1, <1>2 DEF SongTypes, SoundTypes
  <2>3. LoopTypes
    BY <1>2 DEF LoopTypes
  <2>4. UserTypes
    <3>1. 0 \in 0 .. MaxCommands
      BY PlayerAssumption
    <3> QED BY <3>1 DEF UserTypes
  <2> QED BY <2>2, <2>3, <2>4 DEF TypeOK, SongTypes, SoundTypes, LoopTypes, UserTypes
<1>4. PcOK /\ Waits /\ AllPlayed
  BY DEF PcOK, Waits, AllPlayed
<1>5. TraceSorted
  BY SortedEmpty DEF TraceSorted, SortedTo
<1>6. PositionKept
  BY <1>2, MinPair DEF PositionKept
<1>7. Place
  <2>1. PICK m : m = FirstOf(song, 0)
    OBVIOUS
  <2>2. m = 1
    BY <2>1, <1>1, FirstIs
  <2>3. \A c \in Tuned : channel[c] = LastSet(song, m, c)
    <3> SUFFICES ASSUME NEW c \in Tuned PROVE channel[c] = LastSet(song, 1, c)
      BY <2>2
    <3>1. Before(song, 1, c) = {} /\ channel[c] = 0
      BY DEF Before, Tuned
    <3> QED BY <3>1, LastNone
  <2>4. IsSought
    BY <2>1, <2>2, <2>3, <1>1, SongType DEF IsSought, Sought
  <2>5. PlayingNow
    BY <2>4, <1>1, SoughtPlays DEF IsSought, PlayingNow
  <2> QED BY <2>5 DEF Place
<1> QED BY <1>3, <1>4, <1>5, <1>6, <1>7 DEF Inv

LEMMA InvStep == Inv /\ [Next]_vars => Inv'
<1> SUFFICES ASSUME Inv, [Next]_vars PROVE Inv'
  OBVIOUS
<1>1. TypeOK /\ PcOK /\ TraceSorted /\ PositionKept /\ Waits /\ Place /\ AllPlayed
  BY DEF Inv
<1>2. TypeOK' /\ PcOK' /\ TraceSorted'
  BY <1>1, TypeStep, PcStep, TraceStep
<1>3. PositionKept' /\ Waits'
  BY <1>1, PositionStep, WaitsStep
<1>4. Place' /\ AllPlayed'
  BY <1>1, PlaceStep, AllPlayedStep
<1> QED BY <1>2, <1>3, <1>4 DEF Inv

\* The inductive invariant holds of every behaviour of the player.
THEOREM SpecInv == Spec => []Inv
BY InitInv, InvStep, PTL DEF Spec

\* Places are never negative, the buffer never overflows and the event list is
\* left only where play_event is lost, whatever the commands (apply_controls,
\* skip_to, compute_data).
THEOREM TypeCorrect == Spec => []TypeOK
<1>1. Inv => TypeOK
  BY DEF Inv
<1> QED BY <1>1, SpecInv, PTL

\* The queue of things to show is always sorted and never ahead of the
\* generator (push_midi_trace, trace_loop).
THEOREM TraceStaysSorted == Spec => []TraceSorted
<1>1. Inv => TraceSorted
  BY DEF Inv
<1> QED BY <1>1, SpecInv, PTL

\* The place shown to the listener and sought from accounts for exactly what has
\* been generated (skip_to, sync_restart, compute_data, aq_add).
THEOREM PositionStaysRight == Spec => []PositionKept
<1>1. Inv => PositionKept
  BY DEF Inv
<1> QED BY <1>1, SpecInv, PTL

\* The events played since a seek are those from the place sought on, in order,
\* and only a seek beyond the end runs off the list (play_midi, skip_to).
THEOREM PlaysInOrder == Spec => []InOrder
<1>1. Inv => InOrder
  <2> SUFFICES ASSUME Inv, ~strayed
               PROVE  /\ pc = "play" => \/ played = Run(First)
                                        \/ First = 1 /\ played = Run(2)
                                        \/ First > 1 /\ played = Run(First - 1)
                      /\ pc = "lost" => from > sample_count
    BY DEF InOrder
  <2>1. /\ pc = "play" => InLine(song, from, played, current_event)
        /\ pc = "lost" => from > sample_count
    BY DEF Inv, PcOK, Place, PlayingNow, Playing
  <2>2. First = FirstOf(song, from)
    BY Zenon DEF First, FirstOf, Time, Eot
  <2>3. \A a : Run(a) = RunTo(a, current_event)
    BY Zenon DEF Run, RunTo
  <2> QED BY <2>1, <2>2, <2>3 DEF InLine
<1> QED BY <1>1, SpecInv, PTL

\* The early end of the song leaves no note out (check_midi_play_end).
THEOREM AllNotesPlayed == Spec => []NotesPlayed
<1>1. Inv => NotesPlayed
  <2> SUFFICES ASSUME Inv, pc = "flush", ~strayed,
                      NEW i \in Max({First, 2}) .. Eot, song[i].what = "note"
               PROVE  i \in ToSet(played)
    BY DEF NotesPlayed
  <2>1. Covers(song, FirstOf(song, from), played)
    BY DEF Inv, PcOK, AllPlayed
  <2>2. PICK m : m = FirstOf(song, from)
    OBVIOUS
  <2>3. m \in 1 .. Eot /\ Eot \in Nat
    BY <2>2, Basics, FirstIs DEF Inv, TypeOK, Eot
  <2>4. First = m
    BY <2>2, Zenon DEF First, FirstOf, Time, Eot
  <2>5. Max({m, 2}) = IF m >= 2 THEN m ELSE 2
    BY <2>3, MaxPair
  <2>6. i \in 1 .. Len(song) /\ i >= m /\ i >= 2
    BY <2>3, <2>4, <2>5 DEF Eot
  <2>7. PICK k \in 1 .. Len(played) : played[k] = i
    BY <2>1, <2>2, <2>6 DEF Covers
  <2>8. played \in Seq(1 .. Eot)
    BY DEF Inv, TypeOK
  <2>9. k \in DOMAIN played
    BY <2>7, <2>8, LenProperties
  <2> QED BY <2>7, <2>9 DEF ToSet
<1> QED BY <1>1, SpecInv, PTL

\* Wherever the song is joined the controllers stand as if it had been played from
\* its beginning (seek_forward, reset_midi, play_event).
THEOREM ChannelsRight == Spec => []ChannelRight
<1>1. Inv => ChannelRight
  <2> SUFFICES ASSUME Inv, pc = "play", ~strayed PROVE ChannelRight
    BY DEF ChannelRight
  <2>1. InTune(song, from, channel, current_event)
    BY DEF Inv, PcOK, Place, PlayingNow, Playing
  <2>2. First = FirstOf(song, from)
    BY Zenon DEF First, FirstOf, Time, Eot
  <2>3. \A c \in Tuned :
          LET n == Max({First, current_event})
          IN  \/ channel[c] = Max({0} \cup Before(song, n, c))
              \/ from = 0 /\ Before(song, n, c) = {1} /\ channel[c] = 0
    BY <2>1, <2>2, Zenon DEF InTune, LastSet
  <2> QED BY <2>3, Zenon DEF ChannelRight, Before, Tuned
<1> QED BY <1>1, SpecInv, PTL

=============================================================================
