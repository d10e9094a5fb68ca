---------------------------- MODULE PrescanProofs ----------------------------
(***************************************************************************)
(* Theorems about the prescan, the singer and the resample cache, for all  *)
(* songs, banks and sizes of the cache and any number of songs loaded,     *)
(* sought in and loaded again.                                             *)
(***************************************************************************)
EXTENDS Prescan, NumberLemmas, FiniteSetTheorems

-------------------------------------------------------------------------------
(***************************************************************************)
(* Sums.                                                                   *)
(***************************************************************************)
\* s[i] = f[1] + ... + f[i].
IsSum(s, f, n) == s = [i \in 0 .. n |-> IF i = 0 THEN 0 ELSE s[i - 1] + f[i]]

LEMMA SumDef ==
  ASSUME NEW f, NEW n
  PROVE  Sum(f, n) = (CHOOSE s : IsSum(s, f, n))[n]
  BY DEF Sum, IsSum

LEMMA SumExists ==
  ASSUME NEW f, NEW n \in Nat
  PROVE  \E s : IsSum(s, f, n)
<1> DEFINE T == {m \in Nat : \E s : IsSum(s, f, m)}
<1>1. 0 \in T
  <2>1. IsSum([i \in 0 .. 0 |-> 0], f, 0)
    BY DEF IsSum
  <2> QED BY <2>1
<1>2. ASSUME NEW m \in Nat, m \in T PROVE m + 1 \in T
  <2>1. PICK s : IsSum(s, f, m)
    BY <1>2
  <2> DEFINE t == [i \in 0 .. m + 1 |-> IF i = m + 1 THEN s[m] + f[m + 1] ELSE s[i]]
  <2>2. IsSum(t, f, m + 1)
    <3>1. SUFFICES ASSUME NEW i \in 0 .. m + 1
                   PROVE  t[i] = IF i = 0 THEN 0 ELSE t[i - 1] + f[i]
      BY DEF IsSum
    <3>2. CASE i = 0
      <4>1. s[0] = 0
        BY <2>1 DEF IsSum
      <4> QED BY <3>2, <4>1
    <3>3. CASE i = m + 1
      BY <3>3
    <3>4. CASE i \in 1 .. m
      <4>1. s[i] = s[i - 1] + f[i]
        BY <2>1, <3>4 DEF IsSum
      <4> QED BY <3>4, <4>1
    <3> QED BY <3>2, <3>3, <3>4
  <2> HIDE DEF t
  <2> QED BY <2>2
<1>3. Nat \subseteq T
  <2> HIDE DEF T
  <2> QED BY <1>1, <1>2, Induction
<1> QED BY <1>3

LEMMA SumIs ==
  ASSUME NEW f, NEW n \in Nat
  PROVE  \E s : IsSum(s, f, n) /\ Sum(f, n) = s[n]
<1> DEFINE s == CHOOSE t : IsSum(t, f, n)
<1>1. IsSum(s, f, n)
  BY SumExists, Zenon
<1>2. Sum(f, n) = s[n]
  BY SumDef
<1> QED BY <1>1, <1>2, Zenon

\* Sums of what agrees up to n agree up to n.
LEMMA SumsAgree ==
  ASSUME NEW f, NEW g, NEW m \in Nat, NEW n \in Nat, NEW s, NEW t,
         n <= m, IsSum(s, f, m), IsSum(t, g, n), \A i \in 1 .. n : f[i] = g[i]
  PROVE  s[n] = t[n]
<1> DEFINE T == {i \in Nat : i <= n => s[i] = t[i]}
<1>1. 0 \in T
  BY DEF IsSum
<1>2. ASSUME NEW i \in Nat, i \in T PROVE i + 1 \in T
  <2>1. SUFFICES ASSUME i + 1 <= n PROVE s[i + 1] = t[i + 1]
    OBVIOUS
  <2>2. s[i + 1] = s[i] + f[i + 1] /\ t[i + 1] = t[i] + g[i + 1]
    BY <2>1 DEF IsSum
  <2>3. s[i] = t[i]
    BY <1>2, <2>1
  <2> QED BY <2>1, <2>2, <2>3
<1>3. Nat \subseteq T
  <2> HIDE DEF T
  <2> QED BY <1>1, <1>2, Induction
<1> QED BY <1>3

LEMMA SumSame ==
  ASSUME NEW f, NEW g, NEW n \in Nat, \A i \in 1 .. n : f[i] = g[i]
  PROVE  Sum(f, n) = Sum(g, n)
<1>1. PICK s : IsSum(s, f, n) /\ Sum(f, n) = s[n]
  BY SumIs
<1>2. PICK t : IsSum(t, g, n) /\ Sum(g, n) = t[n]
  BY SumIs
<1>3. n <= n
  OBVIOUS
<1>4. s[n] = t[n]
  BY <1>1, <1>2, <1>3, SumsAgree
<1> QED BY <1>1, <1>2, <1>4

LEMMA SumZero ==
  ASSUME NEW f
  PROVE  Sum(f, 0) = 0
<1>1. PICK s : IsSum(s, f, 0) /\ Sum(f, 0) = s[0]
  BY SumIs
<1> QED BY <1>1 DEF IsSum

LEMMA SumNext ==
  ASSUME NEW f, NEW n \in Nat
  PROVE  Sum(f, n + 1) = Sum(f, n) + f[n + 1]
<1>1. PICK s : IsSum(s, f, n + 1) /\ Sum(f, n + 1) = s[n + 1]
  BY SumIs
<1>2. PICK t : IsSum(t, f, n) /\ Sum(f, n) = t[n]
  BY SumIs
<1>3. s[n] = t[n]
  BY <1>1, <1>2, SumsAgree
<1>4. s[n + 1] = s[n] + f[n + 1]
  BY <1>1 DEF IsSum
<1> QED BY <1>1, <1>2, <1>3, <1>4

LEMMA SumNat ==
  ASSUME NEW f, NEW n \in Nat, \A i \in 1 .. n : f[i] \in Nat
  PROVE  Sum(f, n) \in Nat
<1> DEFINE T == {i \in Nat : i <= n => Sum(f, i) \in Nat}
<1>1. 0 \in T
  BY SumZero
<1>2. ASSUME NEW i \in Nat, i \in T PROVE i + 1 \in T
  BY <1>2, SumNext
<1>3. Nat \subseteq T
  <2> HIDE DEF T
  <2> QED BY <1>1, <1>2, Induction
<1> QED BY <1>3

-------------------------------------------------------------------------------
(***************************************************************************)
(* Filling the cache.                                                      *)
(***************************************************************************)
\* q[i] is what is kept of keys[1] .. keys[i].
IsKept(q, keys, n) ==
  q = [i \in 0 .. n |-> IF i = 0 THEN <<>> ELSE With(q[i - 1], keys[i])]

LEMMA KeptDef ==
  ASSUME NEW keys
  PROVE  Kept(keys) = (CHOOSE q : IsKept(q, keys, Len(keys)))[Len(keys)]
  BY DEF Kept, IsKept

LEMMA KeptExists ==
  ASSUME NEW keys, NEW n \in Nat
  PROVE  \E q : IsKept(q, keys, n)
<1> DEFINE T == {m \in Nat : \E q : IsKept(q, keys, m)}
<1>1. 0 \in T
  <2>1. IsKept([i \in 0 .. 0 |-> <<>>], keys, 0)
    BY DEF IsKept
  <2> QED BY <2>1
<1>2. ASSUME NEW m \in Nat, m \in T PROVE m + 1 \in T
  <2>1. PICK q : IsKept(q, keys, m)
    BY <1>2
  <2> DEFINE r == [i \in 0 .. m + 1 |-> IF i = m + 1 THEN With(q[m], keys[m + 1])
                                        ELSE q[i]]
  <2>2. IsKept(r, keys, m + 1)
    <3>1. SUFFICES ASSUME NEW i \in 0 .. m + 1
                   PROVE  r[i] = IF i = 0 THEN <<>> ELSE With(r[i - 1], keys[i])
      BY DEF IsKept
    <3>2. CASE i = 0
      <4>1. q[0] = <<>>
        BY <2>1 DEF IsKept
      <4> QED BY <3>2, <4>1
    <3>3. CASE i = m + 1
      BY <3>3
    <3>4. CASE i \in 1 .. m
      <4>1. q[i] = With(q[i - 1], keys[i])
        BY <2>1, <3>4 DEF IsKept
      <4> QED BY <3>4, <4>1
    <3> QED BY <3>2, <3>3, <3>4
  <2> HIDE DEF r
  <2> QED BY <2>2
<1>3. Nat \subseteq T
  <2> HIDE DEF T
  <2> QED BY <1>1, <1>2, Induction
<1> QED BY <1>3

LEMMA RoomAppend ==
  ASSUME NEW q \in Seq(Keys), NEW k \in Keys
  PROVE  Room(Append(q, k)) = Room(q) + NewLen[k] + 1
<1> DEFINE n == Len(q)
           f == [i \in 1 .. n |-> NewLen[q[i]] + 1]
           g == [i \in 1 .. n + 1 |-> NewLen[Append(q, k)[i]] + 1]
<1>1. n \in Nat /\ Len(Append(q, k)) = n + 1
  OBVIOUS
<1>2. \A i \in 1 .. n : g[i] = f[i]
  OBVIOUS
<1>3. g[n + 1] = NewLen[k] + 1
  OBVIOUS
<1>4. \A i \in 1 .. n : f[i] \in Nat
  BY PrescanAssumption
<1>5. Sum(g, n + 1) = Sum(g, n) + g[n + 1] /\ Sum(g, n) = Sum(f, n) /\ Sum(f, n) \in Nat
  <2> HIDE DEF n, f, g
  <2>1. Sum(g, n + 1) = Sum(g, n) + g[n + 1]
    BY <1>1, SumNext
  <2>2. Sum(g, n) = Sum(f, n)
    BY <1>1, <1>2, SumSame
  <2>3. Sum(f, n) \in Nat
    BY <1>1, <1>4, SumNat
  <2> QED BY <2>1, <2>2, <2>3
<1>6. Room(Append(q, k)) = Sum(g, n + 1) /\ Room(q) = Sum(f, n)
  BY <1>1 DEF Room
<1>7. NewLen[k] \in Nat
  BY PrescanAssumption
<1> HIDE DEF n, f, g
<1> QED BY <1>3, <1>5, <1>6, <1>7

\* What is kept of the keys fits, and is some of them, none twice.
LEMMA KeptRight ==
  ASSUME NEW n \in Nat, NEW keys \in [1 .. n -> Keys],
         \A i, j \in 1 .. n : i # j => keys[i] # keys[j]
  PROVE  /\ Kept(keys) \in Seq(Keys) /\ IsInjective(Kept(keys))
         /\ ToSet(Kept(keys)) \subseteq {keys[i] : i \in 1 .. n}
         /\ Room(Kept(keys)) <= CacheLen
<1>1. Len(keys) = n
  OBVIOUS
<1>2. PICK q : IsKept(q, keys, n) /\ Kept(keys) = q[n]
  <2> DEFINE r == CHOOSE q : IsKept(q, keys, n)
  <2>1. IsKept(r, keys, n)
    BY KeptExists, Zenon
  <2>2. Kept(keys) = r[n]
    BY <1>1, KeptDef
  <2> QED BY <2>1, <2>2, Zenon
<1> DEFINE Right(c, i) == /\ c \in Seq(Keys) /\ Room(c) <= CacheLen
                          /\ \A a, b \in 1 .. Len(c) : a # b => c[a] # c[b]
                          /\ \A a \in 1 .. Len(c) : \E j \in 1 .. i : c[a] = keys[j]
           T == {i \in Nat : i <= n => Right(q[i], i)}
<1>3. 0 \in T
  <2>1. q[0] = <<>>
    BY <1>2 DEF IsKept
  <2>2. Room(<<>>) = 0
    BY SumZero DEF Room
  <2>3. Room(q[0]) <= CacheLen
    BY <2>1, <2>2, PrescanAssumption
  <2>4. q[0] \in Seq(Keys) /\ Len(q[0]) = 0
    BY <2>1
  <2> QED BY <2>3, <2>4
<1>4. ASSUME NEW i \in Nat, i \in T PROVE i + 1 \in T
  <2>1. SUFFICES ASSUME i + 1 <= n PROVE Right(q[i + 1], i + 1)
    OBVIOUS
  <2>2. Right(q[i], i)
    BY <1>4, <2>1
  <2>3. q[i + 1] = With(q[i], keys[i + 1])
    BY <1>2, <2>1 DEF IsKept
  <2> DEFINE c == q[i]
             k == keys[i + 1]
  <2>4. k \in Keys
    BY <2>1
  <2>5. CASE q[i + 1] = c
    BY <2>2, <2>5
  <2>6. CASE q[i + 1] # c
    <3>1. q[i + 1] = Append(c, k) /\ ~ (Room(c) + NewLen[k] + 1 > CacheLen)
      BY <2>3, <2>6 DEF With
    <3>2. Room(Append(c, k)) = Room(c) + NewLen[k] + 1
      BY <2>2, <2>4, RoomAppend
    <3>3. Room(c) \in Nat
      <4>1. \A a \in 1 .. Len(c) : [b \in 1 .. Len(c) |-> NewLen[c[b]] + 1][a] \in Nat
        BY <2>2, PrescanAssumption
      <4>2. Len(c) \in Nat
        BY <2>2
      <4> QED BY <4>1, <4>2, SumNat DEF Room
    <3>4. Room(Append(c, k)) <= CacheLen
      BY <3>1, <3>2, <3>3, <2>4, PrescanAssumption
    <3>5. \A a \in 1 .. Len(c) : c[a] # k
      BY <2>1, <2>2
    <3>6. Append(c, k) \in Seq(Keys) /\ Len(Append(c, k)) = Len(c) + 1
      BY <2>2, <2>4
    <3>7. \A a \in 1 .. Len(c) + 1 : Append(c, k)[a] = IF a = Len(c) + 1 THEN k ELSE c[a]
      BY <2>2, <2>4
    <3> HIDE DEF c, k
    <3>8. \A a, b \in 1 .. Len(c) + 1 : a # b => Append(c, k)[a] # Append(c, k)[b]
      BY <2>2, <3>5, <3>7 DEF c
    <3>9. \A a \in 1 .. Len(c) + 1 : \E j \in 1 .. i + 1 : Append(c, k)[a] = keys[j]
      <4>1. SUFFICES ASSUME NEW a \in 1 .. Len(c) + 1
                     PROVE  \E j \in 1 .. i + 1 : Append(c, k)[a] = keys[j]
        OBVIOUS
      <4>2. CASE a = Len(c) + 1
        BY <3>7, <4>2 DEF k
      <4>3. CASE a \in 1 .. Len(c)
        <5>1. PICK j \in 1 .. i : c[a] = keys[j]
          BY <2>2, <4>3 DEF c
        <5> QED BY <2>2, <3>7, <4>3, <5>1 DEF c
      <4> QED BY <2>2, <4>2, <4>3 DEF c
    <3> QED BY <3>1, <3>4, <3>6, <3>8, <3>9
  <2> QED BY <2>5, <2>6
<1>5. n \in T
  <2> HIDE DEF T
  <2> QED BY <1>3, <1>4, Induction
<1>6. Right(q[n], n)
  BY <1>5
<1> QED BY <1>2, <1>6 DEF IsInjective, ToSet

-------------------------------------------------------------------------------
(***************************************************************************)
(* The inductive invariant, part by part.                                  *)
(***************************************************************************)
\* channel_note_table holds the notes that still sound.
Held(k) ==
  LET n == note_table[k]
  IN  /\ ~utau /\ n \in 1 .. pos - 1 /\ song[n].what = "on" /\ song[n].arg = k
      /\ \A j \in n + 1 .. pos - 1 : j \notin Ends(n)

TableOK == pc = "prescan" => \A k \in Keys : note_table[k] # None => Held(k)

\* What a note that still sounds will be counted for.
Open(k) == IF note_table[k] = None THEN 0 ELSE Sounding(note_table[k])

\* What is counted for a key, with that.
CountOK ==
  ~utau =>
    /\ pc = "prescan" =>
         \A k \in Keys : cnt[k] + Open(k) = Sum(Sounds(k), pos - 1)
    /\ pc = "play" => CacheRight

\* The samples the words read so far name are prepared.
ReadyOK ==
  utau /\ pc \in {"prescan", "play"} =>
    \A i \in 1 .. Eot :
      /\ song[i].what = "lyric" /\ ~song[i].marked /\ song[i].arg \in Bank
      /\ pc = "prescan" => i < pos
      => song[i].arg \in ready

\* A word just played is the one to sing next.
TextOK ==
  utau /\ pc = "play" /\ pos - 1 >= joined
  /\ song[pos - 1].what = "lyric" /\ ~IsSetup(song[pos - 1])
  => utau_text = song[pos - 1].arg

\* The last note sung was sung right.
LastOK ==
  /\ pc = "prescan" => last = Nothing
  /\ pc = "play" /\ utau /\ last.event # 0 /\ Worded(last.event) =>
       LET word == song[last.event - 1].arg
       IN  IF word \in Bank THEN last.sample = word /\ last.ready
           ELSE last.sample = NoSample

\* How far the prescan has got with silencing the setup note.
SilenceOK ==
  utau /\ Exported(song) /\ Delayed(song) =>
    /\ pc = "prescan" =>
         /\ pos > 2 => setup_start_event = 2
         /\ pos > 3 => setup_stop_event = 3
         /\ pos = 1 => silenced = {}
         /\ pos > 1 =>
              \/ silenced = {2, 3}
              \/ /\ silenced = {} /\ is_utau_midifile = 1
                 /\ \A i \in 4 .. pos - 1 : song[i].what # "off"
    /\ pc = "play" => silenced = {2, 3}


-------------------------------------------------------------------------------
(***************************************************************************)
(* Songs and notes.                                                        *)
(***************************************************************************)
LEMMA SongFacts ==
  ASSUME TypeOK
  PROVE  /\ IsSong(song) /\ Eot \in Nat /\ Eot > 1 /\ pos \in 1 .. Eot
         /\ \A i \in 1 .. Eot : song[i].time \in Nat
         /\ \A i \in 1 .. Eot : song[i].what = "eot" <=> i = Eot
         /\ Event.what # "eot" => pos + 1 \in 1 .. Eot
<1>1. IsSong(song)
  BY PrescanAssumption DEF TypeOK
<1>2. Eot \in Nat /\ Eot > 1 /\ pos \in 1 .. Eot
  <2>1. pos \in 1 .. Eot
    BY DEF TypeOK
  <2>2. Eot \in Nat \ {0, 1}
    BY <1>1 DEF IsSong, Eot
  <2> QED BY <2>1, <2>2
<1>3. \A i \in 1 .. Eot : song[i].what = "eot" <=> i = Eot
  <2>1. SUFFICES ASSUME NEW i \in 1 .. Eot PROVE song[i].what = "eot" <=> i = Eot
    OBVIOUS
  <2>2. CASE i = Eot
    BY <1>1, <2>2 DEF IsSong, Eot
  <2>3. CASE i \in 1 .. Eot - 1
    BY <1>1, <1>2, <2>3 DEF IsSong, Eot
  <2> QED BY <1>2, <2>2, <2>3
<1>4. \A i \in 1 .. Eot : song[i].time \in Nat
  BY <1>1 DEF IsSong, Eot
<1> QED BY <1>1, <1>2, <1>3, <1>4 DEF Event

LEMMA KeyOf ==
  ASSUME TypeOK, NEW i \in 1 .. Eot, song[i].what \in {"on", "off"}
  PROVE  song[i].arg \in Keys
<1>1. i \in 1 .. Eot - 1
  BY SongFacts
<1> QED BY <1>1, SongFacts DEF IsSong, Eot

LEMMA Lapse ==
  ASSUME TypeOK, NEW i \in 1 .. Eot, NEW j \in 1 .. Eot, i <= j
  PROVE  song[j].time - song[i].time \in Nat
<1>1. song[i].time <= song[j].time
  BY SongFacts DEF IsSong, Eot
<1>2. song[i].time \in Nat /\ song[j].time \in Nat
  BY SongFacts
<1> HIDE DEF Eot
<1> QED BY <1>1, <1>2

LEMMA HeardNat ==
  ASSUME NEW k \in Keys, NEW n \in Nat
  PROVE  Heard(k, n) \in Nat
<1>1. NewLen[k] \in Nat
  BY PrescanAssumption
<1> QED BY <1>1, MinPair DEF Heard

\* A note sounds until the first event that ends it.
LEMMA SoundingIs ==
  ASSUME TypeOK, NEW i \in 1 .. Eot, NEW j \in Ends(i),
         \A m \in i + 1 .. j - 1 : m \notin Ends(i)
  PROVE  Sounding(i) = Heard(song[i].arg, song[j].time - song[i].time)
<1>1. Ends(i) \subseteq Int /\ j \in Int
  BY SongFacts DEF Ends
<1>2. \A m \in Ends(i) : j <= m
  <2>1. Ends(i) \subseteq i + 1 .. Eot
    BY DEF Ends
  <2> QED BY <2>1, SongFacts
<1>3. Min(Ends(i)) = j
  BY <1>1, <1>2, MinIs
<1> QED BY <1>3 DEF Sounding

LEMMA SoundingNat ==
  ASSUME TypeOK, NEW i \in 1 .. Eot, song[i].what = "on"
  PROVE  Sounding(i) \in Nat
<1>1. Ends(i) \subseteq Nat /\ Eot \in Ends(i)
  BY SongFacts DEF Ends
<1>2. Min(Ends(i)) \in Ends(i)
  BY <1>1, MinOf, Zenon
<1>3. PICK j \in i + 1 .. Eot : j = Min(Ends(i))
  BY <1>2 DEF Ends
<1>4. song[j].time - song[i].time \in Nat
  BY <1>3, SongFacts, Lapse
<1> QED BY <1>3, <1>4, KeyOf, HeardNat DEF Sounding

\* resamp_cache_refer_off.
LEMMA Closes ==
  ASSUME TypeOK, TableOK, pc = "prescan", NEW k \in Keys
  PROVE  LET o == Off(Refs, k, Event.time)
         IN  /\ o = <<o[1], o[2]>> /\ o[1] = [note_table EXCEPT ![k] = None]
             /\ o[2] \in [Keys -> Nat] /\ \A m \in Keys \ {k} : o[2][m] = cnt[m]
             /\ (note_table[k] # None => pos \in Ends(note_table[k]))
                  => o[2][k] = cnt[k] + Open(k)
<1>1. note_table \in [Keys -> Nat] /\ cnt \in [Keys -> Nat]
  BY DEF TypeOK
<1>2. CASE note_table[k] = None
  <2>1. Off(Refs, k, Event.time) = Refs
    BY <1>2 DEF Off, Refs
  <2>2. note_table = [note_table EXCEPT ![k] = None]
    BY <1>1, <1>2
  <2>3. Open(k) = 0 /\ cnt[k] \in Nat
    BY <1>1, <1>2 DEF Open
  <2>4. Refs = <<Refs[1], Refs[2]>> /\ Refs[1] = note_table /\ Refs[2] = cnt
    BY DEF Refs
  <2>5. cnt[k] = cnt[k] + Open(k)
    BY <2>3
  <2> QED BY <1>1, <2>1, <2>2, <2>4, <2>5
<1>3. CASE note_table[k] # None
  <2> DEFINE j == note_table[k]
             h == Heard(k, Event.time - song[j].time)
  <2>1. /\ j \in 1 .. pos - 1 /\ song[j].what = "on" /\ song[j].arg = k
        /\ \A m \in j + 1 .. pos - 1 : m \notin Ends(j)
    BY <1>3 DEF TableOK, Held
  <2>2. Off(Refs, k, Event.time)
          = <<[note_table EXCEPT ![k] = None], [cnt EXCEPT ![k] = @ + h]>>
    BY <1>3 DEF Off, Refs
  <2>3. Event.time - song[j].time \in Nat
    BY <2>1, SongFacts, Lapse DEF Event
  <2>4. h \in Nat
    BY <2>3, HeardNat
  <2>5. pos \in Ends(j) => h = Open(k)
    BY <1>3, <2>1, SongFacts, SoundingIs DEF Open, Event
  <2> DEFINE c == [cnt EXCEPT ![k] = @ + h]
  <2>6. /\ c \in [Keys -> Nat] /\ c[k] = cnt[k] + h
        /\ \A m \in Keys \ {k} : c[m] = cnt[m]
    <3> HIDE DEF h
    <3> QED BY <1>1, <2>4
  <2> DEFINE o == <<[note_table EXCEPT ![k] = None], c>>
  <2>7. o = <<o[1], o[2]>> /\ o[1] = [note_table EXCEPT ![k] = None] /\ o[2] = c
    OBVIOUS
  <2>8. Off(Refs, k, Event.time) = o
    BY <2>2
  <2> HIDE DEF c, h, j, o
  <2>9. (note_table[k] # None => pos \in Ends(note_table[k])) => c[k] = cnt[k] + Open(k)
    BY <1>3, <2>5, <2>6 DEF j
  <2> QED BY <2>6, <2>7, <2>8, <2>9
<1> QED BY <1>2, <1>3

-------------------------------------------------------------------------------
(***************************************************************************)
(* What the prescan does with the notes that sound.                        *)
(***************************************************************************)
LEMMA SameSong ==
  ASSUME song' = song
  PROVE  /\ Eot' = Eot
         /\ \A i : Ends(i)' = Ends(i) /\ Sounding(i)' = Sounding(i)
         /\ \A k : Sounds(k)' = Sounds(k)
  BY DEF Eot, Ends, Sounding, Sounds

LEMMA OpenThen ==
  ASSUME song' = song, NEW k, NEW j, note_table'[k] = j
  PROVE  Open(k)' = IF j = None THEN 0 ELSE Sounding(j)
  BY DEF Open, Sounding, Ends, Eot

\* The event read now does not end the notes that go on.
LEMMA TableGoesOn ==
  ASSUME TypeOK, TableOK, pc = "prescan", song' = song, utau' = utau, pos' = pos + 1,
         NEW k \in Keys, note_table'[k] = note_table[k], note_table[k] # None,
         pos \notin Ends(note_table[k])
  PROVE  Held(k)'
<1> DEFINE n == note_table[k]
<1>1. /\ ~utau /\ n \in 1 .. pos - 1 /\ song[n].what = "on" /\ song[n].arg = k
      /\ \A j \in n + 1 .. pos - 1 : j \notin Ends(n)
  BY DEF TableOK, Held
<1>2. pos \in Nat /\ pos' - 1 = pos
  BY SongFacts
<1>3. \A j \in n + 1 .. pos : j \notin Ends(n)
  <2> HIDE DEF n
  <2> QED BY <1>1, <1>2 DEF n
<1>4. \A i : Ends(i)' = Ends(i)
  BY SameSong
<1>5. n = note_table'[k]
  OBVIOUS
<1> HIDE DEF n
<1> QED BY <1>1, <1>2, <1>3, <1>4, <1>5 DEF Held

LEMMA CountsOn ==
  ASSUME TypeOK, TableOK, pc = "prescan", NEW k \in Keys
  PROVE  /\ cnt[k] \in Nat /\ Open(k) \in Nat
         /\ Sum(Sounds(k), pos)
              = Sum(Sounds(k), pos - 1) + (IF Event.what = "on" /\ Event.arg = k
                                           THEN Sounding(pos) ELSE 0)
<1>1. cnt[k] \in Nat
  BY DEF TypeOK
<1>2. Open(k) \in Nat
  <2>1. ASSUME note_table[k] # None PROVE Sounding(note_table[k]) \in Nat
    <3> DEFINE n == note_table[k]
    <3>1. n \in 1 .. pos - 1 /\ song[n].what = "on"
      BY <2>1 DEF TableOK, Held
    <3>2. n \in 1 .. Eot
      BY <3>1, SongFacts
    <3> HIDE DEF n
    <3>3. Sounding(n) \in Nat
      BY <3>1, <3>2, SoundingNat
    <3> QED BY <3>3 DEF n
  <2> QED BY <2>1 DEF Open
<1>3. pos - 1 \in Nat /\ pos \in 1 .. Eot /\ pos - 1 + 1 = pos
  BY SongFacts
<1>4. Sum(Sounds(k), pos) = Sum(Sounds(k), pos - 1) + Sounds(k)[pos]
  <2> DEFINE n == pos - 1
  <2>1. Sum(Sounds(k), n + 1) = Sum(Sounds(k), n) + Sounds(k)[n + 1]
    BY <1>3, SumNext
  <2> QED BY <1>3, <2>1
<1>5. Sounds(k)[pos] = IF Event.what = "on" /\ Event.arg = k THEN Sounding(pos) ELSE 0
  BY <1>3 DEF Sounds, Event
<1> QED BY <1>1, <1>2, <1>4, <1>5

\* What each step of the prescan does to the table and the counts.
TableStep ==
  /\ note_table' \in [Keys -> Nat] /\ cnt' \in [Keys -> Nat]
  /\ \A k \in Keys : note_table'[k] # None => Held(k)'
  /\ ~utau => \A k \in Keys :
       cnt'[k] + Open(k)' = cnt[k] + Open(k)
                            + (IF Event.what = "on" /\ Event.arg = k
                               THEN Sounding(pos) ELSE 0)

\* Whether the event read now ends a note that sounds.
LEMMA EndsNow ==
  ASSUME TypeOK, TableOK, pc = "prescan", NEW k \in Keys, note_table[k] # None
  PROVE  pos \in Ends(note_table[k])
           <=> \/ Event.what \in {"wheel", "porta", "eot"}
               \/ Event.what \in {"on", "off"} /\ Event.arg = k
<1> DEFINE n == note_table[k]
<1>1. n \in 1 .. pos - 1 /\ song[n].arg = k
  BY DEF TableOK, Held
<1>2. pos \in n + 1 .. Eot
  BY <1>1, SongFacts
<1> HIDE DEF n
<1>3. pos \in Ends(n) <=> \/ Event.what \in {"wheel", "porta", "eot"}
                          \/ Event.what \in {"on", "off"} /\ Event.arg = k
  BY <1>1, <1>2 DEF Ends, Event
<1> QED BY <1>3 DEF n

LEMMA TableKept ==
  ASSUME TypeOK, TableOK, pc = "prescan", song' = song, utau' = utau, pos' = pos + 1,
         note_table' = note_table, cnt' = cnt, utau \/ Event.what = "lyric"
  PROVE  TableStep
<1>1. \A k \in Keys : note_table[k] # None => ~utau /\ pos \notin Ends(note_table[k])
  <2>1. SUFFICES ASSUME NEW k \in Keys, note_table[k] # None
                 PROVE  ~utau /\ pos \notin Ends(note_table[k])
    OBVIOUS
  <2>2. ~utau
    BY <2>1 DEF TableOK, Held
  <2> QED BY <2>1, <2>2, EndsNow
<1>2. \A k \in Keys : note_table'[k] # None => Held(k)'
  BY <1>1, TableGoesOn
<1>3. \A k \in Keys : Open(k)' = Open(k)
  BY OpenThen DEF Open
<1>4. ~utau => \A k \in Keys : cnt[k] + Open(k) = cnt[k] + Open(k) + 0
  BY CountsOn
<1>5. note_table \in [Keys -> Nat] /\ cnt \in [Keys -> Nat]
  BY DEF TypeOK
<1> QED BY <1>2, <1>3, <1>4, <1>5 DEF TableStep

LEMMA TableOff ==
  ASSUME TypeOK, TableOK, pc = "prescan", song' = song, utau' = utau, pos' = pos + 1,
         Event.what = "off", Refer(Off(Refs, Event.arg, Event.time))
  PROVE  TableStep
<1> DEFINE k == Event.arg
           o == Off(Refs, k, Event.time)
<1>1. k \in Keys
  BY KeyOf, SongFacts DEF Event
<1>2. note_table' = o[1] /\ cnt' = o[2]
  BY DEF Refer
<1>3. /\ note_table' = [note_table EXCEPT ![k] = None]
      /\ cnt' \in [Keys -> Nat] /\ \A m \in Keys \ {k} : cnt'[m] = cnt[m]
      /\ cnt'[k] = cnt[k] + Open(k)
  <2>1. note_table[k] # None => pos \in Ends(note_table[k])
    BY <1>1, EndsNow
  <2> QED BY <1>1, <1>2, <2>1, Closes
<1>4. note_table \in [Keys -> Nat]
  BY DEF TypeOK
<1> HIDE DEF k, o
<1>5. note_table' \in [Keys -> Nat]
  BY <1>3, <1>4 DEF None
<1>6. \A m \in Keys : note_table'[m] = IF m = k THEN None ELSE note_table[m]
  BY <1>3, <1>4
<1>7. \A m \in Keys : note_table'[m] # None => Held(m)'
  <2>1. SUFFICES ASSUME NEW m \in Keys, note_table'[m] # None PROVE Held(m)'
    OBVIOUS
  <2>2. m # k /\ note_table'[m] = note_table[m]
    BY <1>6, <2>1
  <2>3. pos \notin Ends(note_table[m])
    BY <2>1, <2>2, EndsNow DEF k
  <2> QED BY <2>1, <2>2, <2>3, TableGoesOn
<1>8. \A m \in Keys : cnt'[m] + Open(m)' = cnt[m] + Open(m) + 0
  <2>1. SUFFICES ASSUME NEW m \in Keys PROVE cnt'[m] + Open(m)' = cnt[m] + Open(m) + 0
    OBVIOUS
  <2>2. cnt[m] \in Nat /\ Open(m) \in Nat
    BY CountsOn
  <2>3. CASE m = k
    <3>1. Open(m)' = 0
      BY <1>6, <2>3, OpenThen
    <3> QED BY <1>3, <2>2, <2>3, <3>1
  <2>4. CASE m # k
    <3>1. Open(m)' = Open(m)
      BY <1>6, <2>4, OpenThen DEF Open
    <3> QED BY <1>3, <2>2, <2>4, <3>1
  <2> QED BY <2>3, <2>4
<1> QED BY <1>3, <1>5, <1>7, <1>8 DEF TableStep

LEMMA TableOn ==
  ASSUME TypeOK, TableOK, pc = "prescan", song' = song, utau' = utau, pos' = pos + 1,
         Event.what = "on", ~utau, Refer(On(Refs, Event.arg, pos))
  PROVE  TableStep
<1> DEFINE k == Event.arg
           o == Off(Refs, k, Event.time)
<1>1. k \in Keys
  BY KeyOf, SongFacts DEF Event
<1>2. note_table' = [o[1] EXCEPT ![k] = pos] /\ cnt' = o[2]
  BY DEF Refer, On, Event
<1>3. /\ o[1] = [note_table EXCEPT ![k] = None]
      /\ cnt' \in [Keys -> Nat] /\ \A m \in Keys \ {k} : cnt'[m] = cnt[m]
      /\ cnt'[k] = cnt[k] + Open(k)
  <2>1. note_table[k] # None => pos \in Ends(note_table[k])
    BY <1>1, EndsNow
  <2> QED BY <1>1, <1>2, <2>1, Closes
<1>4. note_table \in [Keys -> Nat] /\ pos \in Nat \ {0} /\ pos \in 1 .. Eot
  BY SongFacts DEF TypeOK
<1> HIDE DEF k, o
<1>5. note_table' \in [Keys -> Nat]
  BY <1>2, <1>3, <1>4
<1>6. \A m \in Keys : note_table'[m] = IF m = k THEN pos ELSE note_table[m]
  BY <1>2, <1>3, <1>4
<1>7. \A m \in Keys : note_table'[m] # None => Held(m)'
  <2>1. SUFFICES ASSUME NEW m \in Keys, note_table'[m] # None PROVE Held(m)'
    OBVIOUS
  <2>2. CASE m = k
    <3>1. note_table'[m] = pos
      BY <1>6, <2>2
    <3>2. song[pos].what = "on" /\ song[pos].arg = m
      BY <2>2 DEF Event, k
    <3> QED BY <1>4, <3>1, <3>2 DEF Held
  <2>3. CASE m # k
    <3>1. note_table'[m] = note_table[m]
      BY <1>6, <2>3
    <3>2. pos \notin Ends(note_table[m])
      BY <2>1, <2>3, <3>1, EndsNow DEF k
    <3> QED BY <2>1, <3>1, <3>2, TableGoesOn
  <2> QED BY <2>2, <2>3
<1>8. \A m \in Keys : cnt'[m] + Open(m)' = cnt[m] + Open(m)
                                            + (IF m = k THEN Sounding(pos) ELSE 0)
  <2>1. SUFFICES ASSUME NEW m \in Keys
                 PROVE  cnt'[m] + Open(m)' = cnt[m] + Open(m)
                                             + (IF m = k THEN Sounding(pos) ELSE 0)
    OBVIOUS
  <2>2. cnt[m] \in Nat /\ Open(m) \in Nat
    BY CountsOn
  <2>3. CASE m = k
    <3>1. Open(m)' = Sounding(pos)
      BY <1>4, <1>6, <2>3, OpenThen DEF None
    <3> QED BY <1>3, <2>2, <2>3, <3>1
  <2>4. CASE m # k
    <3>1. Open(m)' = Open(m)
      BY <1>6, <2>4, OpenThen DEF Open
    <3> QED BY <1>3, <2>2, <2>4, <3>1
  <2> QED BY <2>3, <2>4
<1> QED BY <1>3, <1>5, <1>7, <1>8 DEF TableStep, k

\* resamp_cache_refer_alloff: everything is counted.
LEMMA AllCounted ==
  ASSUME TypeOK, TableOK, pc = "prescan", Event.what \in {"wheel", "porta", "eot"}
  PROVE  LET a == AllOff(Refs, Event.time)
         IN  /\ a[1] = NoRefs /\ a[2] \in [Keys -> Nat]
             /\ \A k \in Keys : a[2][k] = cnt[k] + Open(k)
<1>1. \A k \in Keys : Off(Refs, k, Event.time)[2][k] = cnt[k] + Open(k)
  BY Closes, EndsNow
<1>2. \A k \in Keys : cnt[k] + Open(k) \in Nat
  BY CountsOn
<1> QED BY <1>1, <1>2 DEF AllOff

LEMMA TableAllOff ==
  ASSUME TypeOK, TableOK, pc = "prescan", song' = song, utau' = utau, pos' = pos + 1,
         Event.what \in {"wheel", "porta"}, Refer(AllOff(Refs, Event.time))
  PROVE  TableStep
<1>1. /\ note_table' = NoRefs /\ cnt' \in [Keys -> Nat]
      /\ \A k \in Keys : cnt'[k] = cnt[k] + Open(k)
  BY AllCounted DEF Refer
<1>2. \A k \in Keys : Open(k)' = 0
  BY <1>1, OpenThen DEF NoRefs
<1>3. \A k \in Keys : cnt[k] \in Nat /\ Open(k) \in Nat
  BY CountsOn
<1> QED BY <1>1, <1>2, <1>3 DEF TableStep, NoRefs, None

-------------------------------------------------------------------------------
(***************************************************************************)
(* Steps of the prescan.                                                   *)
(***************************************************************************)
ReadEvent == PrescanNoteOn \/ PrescanNoteOff \/ PrescanLyric \/ PrescanControl

LEMMA ReadSteps ==
  ASSUME TypeOK, TableOK, ReadEvent
  PROVE  /\ pc = "prescan" /\ pc' \in {"prescan", "exit"} /\ Event.what # "eot"
         /\ utau' = utau /\ song' = song /\ pos' = pos + 1 /\ loads' = loads
         /\ utau_text' = utau_text /\ cached' = cached /\ portamento' = portamento
         /\ joined' = joined /\ last' = last /\ TableStep
<1>1. CASE PrescanNoteOn
  <2>1. CASE utau
    BY <1>1, <2>1, TableKept DEF PrescanNoteOn, Prescanning, Prescanned, cacheVars
  <2>2. CASE ~utau
    BY <1>1, <2>2, TableOn DEF PrescanNoteOn, Prescanning, Prescanned, Refer
  <2> QED BY <2>1, <2>2
<1>2. CASE PrescanNoteOff
  BY <1>2, TableOff DEF PrescanNoteOff, Prescanning, Prescanned, Refer
<1>3. CASE PrescanLyric
  BY <1>3, TableKept DEF PrescanLyric, Prescanning, Prescanned, cacheVars
<1>4. CASE PrescanControl
  BY <1>4, TableAllOff DEF PrescanControl, Prescanned, Refer
<1> QED BY <1>1, <1>2, <1>3, <1>4 DEF ReadEvent

\* The order in which the keys are resampled: those heard, each once.
LEMMA OrderRight ==
  ASSUME NEW count, NEW q \in Orders(count)
  PROVE  /\ Kept(q) \in Seq(Keys) /\ IsInjective(Kept(q))
         /\ \A k \in ToSet(Kept(q)) : k \in Keys /\ count[k] > 0
         /\ Room(Kept(q)) <= CacheLen
<1> DEFINE used == {k \in Keys : count[k] > 0}
           n == Cardinality(used)
<1>1. n \in Nat
  <2>1. IsFiniteSet(used)
    BY PrescanAssumption, FS_Subset
  <2> QED BY <2>1, FS_CardinalityType
<1>2. q \in [1 .. n -> used] /\ \A i, j \in 1 .. n : i # j => q[i] # q[j]
  BY DEF Orders, SetToSeqs
<1>3. q \in [1 .. n -> Keys]
  BY <1>2
<1>4. {q[i] : i \in 1 .. n} \subseteq used
  BY <1>2
<1> HIDE DEF n, used
<1>5. /\ Kept(q) \in Seq(Keys) /\ IsInjective(Kept(q)) /\ Room(Kept(q)) <= CacheLen
      /\ ToSet(Kept(q)) \subseteq {q[i] : i \in 1 .. n}
  BY <1>1, <1>2, <1>3, KeptRight
<1> QED BY <1>4, <1>5 DEF used

LEMMA EndSteps ==
  ASSUME TypeOK, TableOK, PrescanEnd
  PROVE  /\ pc = "prescan" /\ pc' = "play" /\ pos = Eot /\ pos' = joined
         /\ utau' = utau /\ song' = song /\ loads' = loads /\ UNCHANGED singerVars
         /\ utau_text' = utau_text /\ joined' = joined /\ last' = last
         /\ note_table' = NoRefs /\ cnt' \in [Keys -> Nat]
         /\ \A k \in Keys : cnt'[k] = cnt[k] + Open(k)
         /\ cached' \in Seq(Keys) /\ IsInjective(cached') /\ Room(cached') <= CacheLen
         /\ \A k \in ToSet(cached') : cnt'[k] > 0
         /\ portamento' \in BOOLEAN
<1>1. pc = "prescan" /\ Event.what = "eot"
  BY DEF PrescanEnd, Prescanning
<1>2. pos = Eot
  BY <1>1, SongFacts DEF Event
<1>3. PICK q \in Orders(cnt') : cached' = Kept(q)
  BY DEF PrescanEnd
<1>4. /\ note_table' = NoRefs /\ cnt' \in [Keys -> Nat]
      /\ \A k \in Keys : cnt'[k] = cnt[k] + Open(k)
  BY <1>1, AllCounted DEF PrescanEnd
<1>5. /\ cached' \in Seq(Keys) /\ IsInjective(cached') /\ Room(cached') <= CacheLen
      /\ \A k \in ToSet(cached') : cnt'[k] > 0
  BY <1>3, OrderRight
<1> QED BY <1>1, <1>2, <1>4, <1>5 DEF PrescanEnd

-------------------------------------------------------------------------------
(***************************************************************************)
(* Types.                                                                  *)
(***************************************************************************)
TypeInv == TypeOK /\ TableOK

LEMMA TypeInit == Init => TypeInv
<1> SUFFICES ASSUME Init PROVE TypeInv
  OBVIOUS
<1>1. IsSong(song)
  BY PrescanAssumption DEF Init
<1>2. 1 \in 1 .. Eot /\ Eot \in Nat
  BY <1>1 DEF IsSong, Eot
<1>3. TypeOK
  <2>1. setup_start_event \in Places /\ setup_stop_event \in Places
    BY <1>2 DEF Init, Places, None, Stale
  <2>2. note_table \in [Keys -> Nat] /\ cnt \in [Keys -> Nat] /\ ToSet(cached) \subseteq Keys
    BY DEF Init, NoRefs, NoCount, None, ToSet
  <2>3. loads \in 0 .. MaxLoads
    BY PrescanAssumption DEF Init
  <2>4. /\ utau \in BOOLEAN /\ song \in Songs /\ pos \in 1 .. Eot /\ joined \in 1 .. Eot
        /\ pc \in {"idle", "prescan", "play", "exit"} /\ portamento \in BOOLEAN
    BY <1>2 DEF Init
  <2>5. /\ lyr_count \in Nat /\ note_count \in Nat /\ note_count <= lyr_count
        /\ is_utau_midifile \in 0 .. 2
    BY DEF Init
  <2>6. silenced \subseteq 1 .. Eot /\ ready \subseteq Bank
    BY DEF Init
  <2> QED BY <2>1, <2>2, <2>3, <2>4, <2>5, <2>6 DEF TypeOK
<1>4. TableOK
  BY DEF Init, TableOK
<1> QED BY <1>3, <1>4 DEF TypeInv

\* Loading a song leaves what is prepared and counted for the singer.
LEMMA LoadType ==
  ASSUME TypeOK, pc # "exit", NEW s \in Songs, LoadFile(s), joined' \in 1 .. Len(s)
  PROVE  TypeInv'
<1>1. IsSong(s)
  BY PrescanAssumption
<1>2. 1 \in 1 .. Eot' /\ Eot' = Len(s) /\ Eot' \in Nat
  BY <1>1 DEF IsSong, Eot, LoadFile
<1>3. setup_start_event' \in Places' /\ setup_stop_event' \in Places'
  BY <1>2 DEF LoadFile, Freed, Places, None, Stale
<1>4. note_table' \in [Keys -> Nat] /\ cnt' \in [Keys -> Nat] /\ ToSet(cached') \subseteq Keys
  BY DEF LoadFile, NoRefs, NoCount, None, ToSet
<1>5. loads' \in 0 .. MaxLoads
  BY PrescanAssumption DEF LoadFile, TypeOK
<1>6. TypeOK'
  BY <1>2, <1>3, <1>4, <1>5 DEF LoadFile, TypeOK
<1>7. TableOK'
  BY DEF LoadFile, TableOK, NoRefs
<1> QED BY <1>6, <1>7 DEF TypeInv

LEMMA ReadType ==
  ASSUME TypeInv, ReadEvent
  PROVE  TypeInv'
<1>1. TypeOK /\ TableOK
  BY DEF TypeInv
<1>2. /\ pc = "prescan" /\ pc' \in {"prescan", "exit"} /\ Event.what # "eot"
      /\ utau' = utau /\ song' = song /\ pos' = pos + 1 /\ loads' = loads
      /\ cached' = cached /\ portamento' = portamento /\ joined' = joined /\ TableStep
  BY <1>1, ReadSteps
<1>3. Eot' = Eot /\ Places' = Places /\ pos' \in 1 .. Eot'
  BY <1>1, <1>2, SongFacts DEF Eot, Places
<1>4. /\ lyr_count' \in Nat /\ note_count' \in Nat /\ note_count' <= lyr_count'
      /\ is_utau_midifile' \in 0 .. 2
  BY <1>1, <1>2 DEF TypeOK, ReadEvent, PrescanNoteOn, PrescanNoteOff, PrescanLyric,
                    PrescanControl, Missing, singerVars
<1>5. setup_start_event' \in Places /\ setup_stop_event' \in Places
  <2>1. pos \in Places
    BY <1>1, SongFacts DEF Places, Stale
  <2> QED BY <1>1, <2>1 DEF TypeOK, ReadEvent, PrescanNoteOn, PrescanNoteOff, PrescanLyric,
                    PrescanControl, singerVars
<1>6. silenced' \subseteq 1 .. Eot
  <2>1. {setup_start_event, setup_stop_event} \ {None, Stale} \subseteq 1 .. Eot
    BY <1>1, SongFacts DEF TypeOK, Places, None, Stale
  <2> QED BY <1>1, <2>1 DEF TypeOK, ReadEvent, PrescanNoteOn, PrescanNoteOff, PrescanLyric,
                    PrescanControl, singerVars
<1>7. ready' \subseteq Bank
  BY <1>1 DEF TypeOK, ReadEvent, PrescanNoteOn, PrescanNoteOff, PrescanLyric,
              PrescanControl, singerVars, Initialised
<1>8. TypeOK'
  BY <1>1, <1>2, <1>3, <1>4, <1>5, <1>6, <1>7 DEF TypeOK, TableStep
<1>9. TableOK'
  BY <1>2 DEF TableStep, TableOK
<1> QED BY <1>8, <1>9 DEF TypeInv

LEMMA TypeStep == TypeInv /\ [Next]_vars => TypeInv'
<1> SUFFICES ASSUME TypeInv, [Next]_vars PROVE TypeInv'
  OBVIOUS
<1>1. TypeOK /\ TableOK
  BY DEF TypeInv
<1>2. CASE \E s \in Songs : Load(s)
  <2>1. PICK s \in Songs : Load(s)
    BY <1>2
  <2>2. joined' \in 1 .. Len(s)
    BY <2>1, PrescanAssumption DEF IsSong, Load
  <2> QED BY <1>1, <2>1, <2>2, LoadType DEF Load
<1>3. CASE ReadEvent
  BY <1>3, ReadType
<1>4. CASE MissingLyrics
  <2>1. note_count' \in Nat
    BY <1>1, <1>4 DEF MissingLyrics, TypeOK
  <2>2. Places' = Places /\ Eot' = Eot
    BY <1>4 DEF MissingLyrics, Places, Eot
  <2> QED BY <1>1, <1>4, <2>1, <2>2
          DEF MissingLyrics, TypeInv, TypeOK, TableOK, cacheVars
<1>5. CASE PrescanEnd
  <2>1. /\ pc' = "play" /\ pos' = joined /\ utau' = utau /\ song' = song /\ loads' = loads
        /\ UNCHANGED singerVars /\ joined' = joined /\ note_table' = NoRefs
        /\ cnt' \in [Keys -> Nat] /\ cached' \in Seq(Keys) /\ portamento' \in BOOLEAN
        /\ pc = "prescan"
    BY <1>1, <1>5, EndSteps
  <2>2. Places' = Places /\ Eot' = Eot
    BY <2>1 DEF Places, Eot
  <2>3. NoRefs \in [Keys -> Nat]
    BY DEF NoRefs, None
  <2>4. ToSet(cached') \subseteq Keys
    BY <2>1 DEF ToSet
  <2> QED BY <1>1, <2>1, <2>2, <2>3, <2>4 DEF TypeInv, TypeOK, TableOK, singerVars
<1>6. CASE PlayNoteOn \/ PlayLyric \/ PlayControl
  <2>1. /\ pc = "play" /\ Event.what # "eot" /\ pos' = pos + 1
        /\ portamento' \in BOOLEAN
        /\ UNCHANGED <<utau, song, pc, loads, singerVars, cacheVars, joined>>
    BY <1>1, <1>6 DEF TypeOK, PlayNoteOn, PlayLyric, PlayControl, Playing, Played
  <2>2. pos' \in 1 .. Eot /\ Eot' = Eot /\ Places' = Places
    BY <1>1, <2>1, SongFacts DEF Eot, Places
  <2> QED BY <1>1, <2>1, <2>2 DEF TypeInv, TypeOK, TableOK, singerVars, cacheVars
<1>7. CASE EndSong
  <2>1. Eot' = Eot /\ Places' = Places
    BY <1>7 DEF EndSong, Eot, Places
  <2> QED BY <1>1, <1>7, <2>1 DEF EndSong, TypeInv, TypeOK, TableOK, singerVars, cacheVars
<1>8. ASSUME NEW t \in Times, Seek(t) PROVE TypeInv'
  <2>1. Eot' = Eot /\ Places' = Places
    BY <1>8 DEF Seek, Eot, Places
  <2>2. pos' \in 1 .. Eot /\ joined' \in 1 .. Eot /\ portamento' \in BOOLEAN
    BY <1>8 DEF Seek
  <2> QED BY <1>1, <1>8, <2>1, <2>2 DEF Seek, TypeInv, TypeOK, TableOK, singerVars, cacheVars
<1>9. ASSUME NEW t \in Times, Reload(t) PROVE TypeInv'
  <2> DEFINE before == {1} \cup {i \in 1 .. Eot - 1 : song[i].time < t}
  <2>1. Eot \in Nat /\ Eot > 1
    BY <1>1, SongFacts
  <2>2. before \subseteq 0 .. Eot /\ before \subseteq 1 .. Eot /\ before # {}
    BY <2>1
  <2>3. Max(before) \in before
    <3> HIDE DEF before
    <3> QED BY <2>1, <2>2, MaxOf, Zenon
  <2>4. joined' \in 1 .. Eot
    BY <1>9, <2>2, <2>3 DEF Reload
  <2>5. LoadFile(song) /\ song \in Songs
    BY <1>1, <1>9 DEF Reload, TypeOK
  <2> QED BY <1>1, <2>4, <2>5, <1>9, LoadType DEF Eot, Reload
<1>10. CASE UNCHANGED vars
  BY <1>1, <1>10 DEF vars, singerVars, cacheVars, TypeInv, TypeOK, TableOK, Held, Ends,
                     Eot, Places
<1> QED BY <1>2, <1>3, <1>4, <1>5, <1>6, <1>7, <1>8, <1>9, <1>10
        DEF Next, ReadSong, PlaySong, ReadEvent, Exit, Idle

-------------------------------------------------------------------------------
(***************************************************************************)
(* The rest of the invariant.  Playing, seeking and ending a song leave    *)
(* what the prescan has left.                                              *)
(***************************************************************************)
PlayStep ==
  PlayNoteOn \/ PlayLyric \/ PlayControl \/ EndSong \/ \E t \in Times : Seek(t)

LEMMA PlaySteps ==
  ASSUME PlayStep
  PROVE  /\ pc = "play" /\ pc' \in {"play", "idle"}
         /\ UNCHANGED <<utau, song, singerVars, cacheVars>>
<1>1. CASE PlayNoteOn
  BY <1>1 DEF PlayNoteOn, Playing, Played
<1>2. CASE PlayLyric
  BY <1>2 DEF PlayLyric, Playing, Played
<1>3. CASE PlayControl
  BY <1>3 DEF PlayControl, Playing, Played
<1>4. CASE EndSong
  BY <1>4 DEF EndSong
<1>5. CASE \E t \in Times : Seek(t)
  BY <1>5 DEF Seek
<1> QED BY <1>1, <1>2, <1>3, <1>4, <1>5 DEF PlayStep

\* The kinds of steps.
LEMMA NextSteps ==
  ASSUME [Next]_vars
  PROVE  \/ \E s : LoadFile(s)
         \/ ReadEvent \/ MissingLyrics \/ PrescanEnd \/ PlayStep \/ UNCHANGED vars
  BY DEF Next, ReadSong, PlaySong, ReadEvent, PlayStep, Exit, Idle, Load, Reload

LEMMA CountStep == TypeInv /\ CountOK /\ [Next]_vars => CountOK'
<1> SUFFICES ASSUME TypeInv, CountOK, [Next]_vars PROVE CountOK'
  OBVIOUS
<1>1. TypeOK /\ TableOK
  BY DEF TypeInv
<1>2. ASSUME NEW s, LoadFile(s) PROVE CountOK'
  <2>1. pc' = "prescan" /\ pos' - 1 = 0 /\ note_table' = NoRefs /\ cnt' = NoCount
    BY <1>2 DEF LoadFile
  <2>2. \A k \in Keys : Open(k)' = 0 /\ cnt'[k] = 0
    BY <2>1 DEF Open, NoRefs, NoCount
  <2>3. \A k \in Keys : Sum(Sounds(k)', pos' - 1) = 0
    BY <2>1, SumZero
  <2> QED BY <2>1, <2>2, <2>3 DEF CountOK
<1>3. CASE ReadEvent
  <2>1. /\ pc = "prescan" /\ pc' \in {"prescan", "exit"}
        /\ utau' = utau /\ song' = song /\ pos' = pos + 1 /\ TableStep
    BY <1>1, <1>3, ReadSteps
  <2>2. SUFFICES ASSUME ~utau, NEW k \in Keys
                 PROVE  cnt'[k] + Open(k)' = Sum(Sounds(k)', pos' - 1)
    BY <2>1 DEF CountOK
  <2> DEFINE more == IF Event.what = "on" /\ Event.arg = k THEN Sounding(pos) ELSE 0
  <2>3. cnt'[k] + Open(k)' = cnt[k] + Open(k) + more
    BY <2>1, <2>2 DEF TableStep
  <2>4. Sum(Sounds(k), pos) = Sum(Sounds(k), pos - 1) + more
    BY <1>1, <2>1, CountsOn
  <2>5. cnt[k] + Open(k) = Sum(Sounds(k), pos - 1)
    BY <2>1, <2>2 DEF CountOK
  <2>6. pos' - 1 = pos /\ Sounds(k)' = Sounds(k)
    BY <1>1, <2>1, SongFacts, SameSong
  <2> QED BY <2>3, <2>4, <2>5, <2>6
<1>4. CASE MissingLyrics
  BY <1>4 DEF MissingLyrics, CountOK
<1>5. CASE PrescanEnd
  <2>1. /\ pc = "prescan" /\ pc' = "play" /\ pos = Eot /\ utau' = utau /\ song' = song
        /\ \A k \in Keys : cnt'[k] = cnt[k] + Open(k)
        /\ IsInjective(cached') /\ Room(cached') <= CacheLen
        /\ \A k \in ToSet(cached') : cnt'[k] > 0
    BY <1>1, <1>5, EndSteps
  <2>2. SUFFICES ASSUME ~utau, NEW k \in Keys PROVE cnt'[k] = Sum(Sounds(k)', Eot')
    BY <2>1 DEF CountOK, CacheRight
  <2>3. cnt[k] + Open(k) = Sum(Sounds(k), pos - 1)
    BY <2>1, <2>2 DEF CountOK
  <2>4. Event.what = "eot" /\ cnt[k] \in Nat /\ Open(k) \in Nat
    BY <1>1, <2>1, SongFacts, CountsOn DEF Event
  <2>5. Sum(Sounds(k), pos) = Sum(Sounds(k), pos - 1) + 0
    BY <1>1, <2>1, <2>4, CountsOn
  <2>6. Sounds(k)' = Sounds(k) /\ Eot' = Eot
    BY <2>1, SameSong
  <2> QED BY <2>1, <2>3, <2>4, <2>5, <2>6
<1>6. CASE PlayStep \/ UNCHANGED vars
  <2>1. /\ pc' \in {pc, "idle"} /\ (pc' = "prescan" => UNCHANGED vars)
        /\ UNCHANGED <<utau, song, cacheVars>>
    BY <1>6, PlaySteps DEF vars
  <2>2. Eot' = Eot /\ \A k : Sounds(k)' = Sounds(k) /\ Open(k)' = Open(k)
    BY <2>1, SameSong DEF cacheVars, Open, Sounding, Ends, Eot
  <2> QED BY <2>1, <2>2 DEF CountOK, CacheRight, vars, cacheVars
<1> QED BY <1>2, <1>3, <1>4, <1>5, <1>6, NextSteps

LEMMA ReadyStep == TypeInv /\ ReadyOK /\ [Next]_vars => ReadyOK'
<1> SUFFICES ASSUME TypeInv, ReadyOK, [Next]_vars PROVE ReadyOK'
  OBVIOUS
<1>1. TypeOK /\ TableOK
  BY DEF TypeInv
<1>2. ASSUME NEW s, LoadFile(s) PROVE ReadyOK'
  BY <1>2 DEF LoadFile, ReadyOK
<1>3. CASE ReadEvent
  <2>1. /\ pc = "prescan" /\ utau' = utau /\ song' = song /\ pos' = pos + 1
        /\ pos \in Nat /\ Eot' = Eot
    BY <1>1, <1>3, ReadSteps, SongFacts DEF Eot
  <2>2. ready \subseteq ready'
    BY <1>3 DEF ReadEvent, PrescanNoteOn, PrescanNoteOff, PrescanLyric, PrescanControl,
                singerVars
  <2>3. utau /\ Event.what = "lyric" /\ ~Event.marked /\ Event.arg \in Bank
          => Event.arg \in ready'
    BY <1>3 DEF ReadEvent, PrescanNoteOn, PrescanNoteOff, PrescanLyric, PrescanControl,
                Prescanning, Initialised
  <2>4. SUFFICES ASSUME utau, NEW i \in 1 .. Eot, song[i].what = "lyric", ~song[i].marked,
                        song[i].arg \in Bank, i < pos + 1
                 PROVE  song[i].arg \in ready'
    <3>1. pc' \in {"prescan", "exit"}
      BY <1>1, <1>3, ReadSteps
    <3> QED BY <2>1, <3>1 DEF ReadyOK
  <2>5. CASE i = pos
    BY <2>3, <2>4, <2>5 DEF Event
  <2>6. CASE i < pos
    BY <2>1, <2>2, <2>4, <2>6 DEF ReadyOK
  <2> QED BY <2>1, <2>4, <2>5, <2>6
<1>4. CASE MissingLyrics
  BY <1>4 DEF MissingLyrics, ReadyOK
<1>5. CASE PrescanEnd
  <2>1. /\ pc = "prescan" /\ pos = Eot /\ utau' = utau /\ song' = song /\ ready' = ready
    BY <1>1, <1>5, EndSteps DEF singerVars
  <2>2. \A i \in 1 .. Eot : song[i].what = "lyric" => i < pos
    BY <1>1, <2>1, SongFacts
  <2> QED BY <2>1, <2>2 DEF ReadyOK, Eot
<1>6. CASE PlayStep \/ UNCHANGED vars
  <2>1. /\ pc' \in {pc, "idle"} /\ (pc' = "prescan" => UNCHANGED vars)
        /\ UNCHANGED <<utau, song, ready>>
    BY <1>6, PlaySteps DEF vars, singerVars
  <2> QED BY <2>1 DEF ReadyOK, vars, Eot
<1> QED BY <1>2, <1>3, <1>4, <1>5, <1>6, NextSteps

LEMMA TextStep == TypeInv /\ TextOK /\ [Next]_vars => TextOK'
<1> SUFFICES ASSUME TypeInv, TextOK, [Next]_vars PROVE TextOK'
  OBVIOUS
<1>1. TypeOK /\ TableOK
  BY DEF TypeInv
<1>2. ASSUME pc' # "play" PROVE TextOK'
  BY <1>2 DEF TextOK
<1>3. ASSUME NEW i \in Nat, pos' = i, joined' = i PROVE TextOK'
  <2>1. ~ (i - 1 >= i)
    OBVIOUS
  <2> QED BY <1>3, <2>1 DEF TextOK
<1>4. ASSUME NEW s, LoadFile(s) PROVE TextOK'
  BY <1>2, <1>4 DEF LoadFile
<1>5. CASE ReadEvent
  BY <1>1, <1>2, <1>5, ReadSteps
<1>6. CASE MissingLyrics
  BY <1>2, <1>6 DEF MissingLyrics
<1>7. CASE PrescanEnd
  <2>1. joined \in Nat
    BY <1>1, SongFacts DEF TypeOK
  <2>2. pos' = joined /\ joined' = joined
    BY <1>1, <1>7, EndSteps
  <2> QED BY <1>3, <2>1, <2>2
<1>8. CASE PlayNoteOn \/ PlayControl
  <2>1. song' = song /\ pos' - 1 = pos /\ Event.what # "lyric"
    BY <1>1, <1>8, SongFacts DEF PlayNoteOn, PlayControl, Playing, Played
  <2> QED BY <2>1 DEF TextOK, Event
<1>9. CASE PlayLyric
  <2>1. /\ song' = song /\ pos' - 1 = pos /\ utau' = utau
        /\ (utau /\ ~IsSetup(Event) => utau_text' = Event.arg)
    BY <1>1, <1>9, SongFacts DEF PlayLyric, Played
  <2> QED BY <2>1 DEF TextOK, Event, IsSetup
<1>10. CASE EndSong
  BY <1>2, <1>10 DEF EndSong
<1>11. ASSUME NEW t \in Times, Seek(t) PROVE TextOK'
  <2>1. PICK i \in 1 .. Eot : pos' = i /\ joined' = i
    BY <1>11 DEF Seek
  <2>2. i \in Nat
    BY <1>1, SongFacts
  <2> QED BY <1>3, <2>1, <2>2
<1>12. CASE UNCHANGED vars
  BY <1>12 DEF vars, TextOK, IsSetup
<1> QED BY <1>4, <1>5, <1>6, <1>7, <1>8, <1>9, <1>10, <1>11, <1>12, NextSteps DEF PlayStep

LEMMA LastStep == TypeInv /\ ReadyOK /\ TextOK /\ LastOK /\ [Next]_vars => LastOK'
<1> SUFFICES ASSUME TypeInv, ReadyOK, TextOK, LastOK, [Next]_vars PROVE LastOK'
  OBVIOUS
<1>1. TypeOK /\ TableOK
  BY DEF TypeInv
<1>2. ASSUME last' = Nothing PROVE LastOK'
  BY <1>2 DEF LastOK, Nothing
<1>3. ASSUME pc' \notin {"prescan", "play"} PROVE LastOK'
  BY <1>3 DEF LastOK
<1>4. ASSUME NEW s, LoadFile(s) PROVE LastOK'
  BY <1>2, <1>4 DEF LoadFile
<1>5. CASE ReadEvent \/ PrescanEnd
  BY <1>1, <1>2, <1>5, ReadSteps, EndSteps DEF LastOK
<1>6. CASE MissingLyrics
  BY <1>3, <1>6 DEF MissingLyrics
<1>7. CASE PlayNoteOn
  <2>1. /\ pc = "play" /\ pc' = "play" /\ song' = song /\ utau' = utau /\ joined' = joined
        /\ last'.event = pos
    BY <1>7 DEF PlayNoteOn, Playing, Played
  <2> DEFINE word == song[pos - 1].arg
  <2>2. SUFFICES ASSUME utau, Worded(pos)
                 PROVE  IF word \in Bank THEN last'.sample = word /\ last'.ready
                        ELSE last'.sample = NoSample
    BY <2>1 DEF LastOK, Worded, IsSetup
  <2>3. PICK s \in Sung : last' = [event |-> pos, sample |-> s, ready |-> s \in ready]
    BY <1>7, <2>2 DEF PlayNoteOn
  <2>4. /\ pos - 1 >= joined /\ song[pos - 1].what = "lyric" /\ ~song[pos - 1].marked
        /\ ~IsSetup(song[pos - 1])
    BY <2>2 DEF Worded
  <2>5. pos - 1 \in 1 .. Eot - 1 /\ pos - 1 \in 1 .. Eot
    BY <1>1, <2>4, SongFacts DEF TypeOK
  <2>6. utau_text = word
    BY <2>1, <2>2, <2>4 DEF TextOK
  <2>7. word # Gone
    BY <1>1, <2>4, <2>5, SongFacts DEF IsSong, Eot
  <2>8. s = IF word \in Bank THEN word ELSE NoSample
    BY <2>3, <2>6, <2>7 DEF Sung
  <2>9. word \in Bank => word \in ready
    BY <2>1, <2>2, <2>4, <2>5 DEF ReadyOK
  <2> QED BY <2>3, <2>8, <2>9
<1>8. CASE PlayLyric \/ PlayControl \/ UNCHANGED vars
  <2>1. UNCHANGED <<pc, song, utau, joined, last>>
    BY <1>8 DEF PlayLyric, PlayControl, Played, vars
  <2> QED BY <2>1 DEF LastOK, Worded, IsSetup, Nothing
<1>9. CASE EndSong
  BY <1>3, <1>9 DEF EndSong
<1>10. ASSUME NEW t \in Times, Seek(t) PROVE LastOK'
  BY <1>2, <1>10 DEF Seek
<1> QED BY <1>4, <1>5, <1>6, <1>7, <1>8, <1>9, <1>10, NextSteps DEF PlayStep

LEMMA SilenceStep == TypeInv /\ SilenceOK /\ [Next]_vars => SilenceOK'
<1> SUFFICES ASSUME TypeInv, SilenceOK, [Next]_vars, utau', Exported(song'), Delayed(song')
             PROVE  SilenceOK'
  BY DEF SilenceOK
<1>1. TypeOK /\ TableOK
  BY DEF TypeInv
<1>2. ASSUME NEW s, LoadFile(s) PROVE SilenceOK'
  BY <1>2 DEF LoadFile, SilenceOK
<1>3. ASSUME pc' \notin {"prescan", "play"} PROVE SilenceOK'
  BY <1>3 DEF SilenceOK
<1>4. CASE ReadEvent /\ pc' = "prescan"
  <2>1. /\ pc = "prescan" /\ utau /\ song' = song /\ pos' = pos + 1 /\ pos \in Nat \ {0}
        /\ Event.what # "eot" /\ Exported(song) /\ Delayed(song) /\ pos \in 1 .. Eot
    <3>1. pc = "prescan" /\ utau' = utau /\ song' = song /\ pos' = pos + 1 /\ Event.what # "eot"
      BY <1>1, <1>4, ReadSteps
    <3>2. pos \in Nat \ {0} /\ pos \in 1 .. Eot
      BY <1>1, SongFacts
    <3> QED BY <3>1, <3>2
  <2>2. SUFFICES /\ pos + 1 > 2 => setup_start_event' = 2
                 /\ pos + 1 > 3 => setup_stop_event' = 3
                 /\ \/ silenced' = {2, 3}
                    \/ /\ silenced' = {} /\ is_utau_midifile' = 1
                       /\ \A i \in 4 .. pos : song[i].what # "off"
    BY <2>1, <1>4 DEF SilenceOK
  <2>3. CASE pos = 1
    <3>1. Event.what = "lyric" /\ IsSetup(Event) /\ silenced = {}
      BY <2>1, <2>3 DEF Exported, Event, SilenceOK
    <3> QED BY <2>1, <2>3, <3>1, <1>4
            DEF ReadEvent, PrescanNoteOn, PrescanNoteOff, PrescanLyric, PrescanControl, Prescanning
  <2>4. CASE pos = 2
    <3>1. Event.what = "on" /\ Event.time = 0
      BY <2>1, <2>4 DEF Exported, Event
    <3>2. PrescanNoteOn
      BY <3>1, <1>4
      DEF ReadEvent, PrescanNoteOn, PrescanNoteOff, PrescanLyric, PrescanControl, Prescanning
    <3> QED BY <2>1, <2>4, <3>1, <3>2 DEF PrescanNoteOn, SilenceOK
  <2>5. CASE pos = 3
    <3>1. Event.what = "off" /\ Event.time = 0
      BY <2>1, <2>5 DEF Exported, Event
    <3>2. PrescanNoteOff
      BY <3>1, <1>4
      DEF ReadEvent, PrescanNoteOn, PrescanNoteOff, PrescanLyric, PrescanControl, Prescanning
    <3> QED BY <2>1, <2>5, <3>1, <3>2 DEF PrescanNoteOff, SilenceOK
  <2>6. CASE pos > 3
    <3>1. Event.time > 0 /\ Event.time # 0
      <4>1. pos \in 4 .. Len(song)
        BY <2>1, <2>6 DEF Eot
      <4>2. Event.time \in Nat
        BY <1>1, <2>1, SongFacts DEF Event
      <4> QED BY <2>1, <4>1, <4>2 DEF Delayed, Event
    <3>2. /\ setup_start_event = 2 /\ setup_stop_event = 3
          /\ \/ silenced = {2, 3}
             \/ /\ silenced = {} /\ is_utau_midifile = 1
                /\ \A i \in 4 .. pos - 1 : song[i].what # "off"
      BY <2>1, <2>6 DEF SilenceOK
    <3>3. setup_start_event' = 2 /\ setup_stop_event' = 3
      BY <2>1, <3>1, <3>2, <1>4
      DEF ReadEvent, PrescanNoteOn, PrescanNoteOff, PrescanLyric, PrescanControl, singerVars
    <3>4. CASE PrescanNoteOff
      <4>1. {setup_start_event, setup_stop_event} \ {None, Stale} = {2, 3}
        BY <3>2 DEF None, Stale
      <4>2. silenced' = {2, 3}
        BY <2>1, <3>1, <3>2, <3>4, <4>1 DEF PrescanNoteOff
      <4> QED BY <3>3, <4>2
    <3>5. CASE ~PrescanNoteOff
      <4>1. /\ Event.what # "off" /\ silenced' = silenced
            /\ (is_utau_midifile = 1 => is_utau_midifile' = 1)
        BY <2>1, <3>5, <1>4
        DEF ReadEvent, PrescanNoteOn, PrescanLyric, PrescanControl, Prescanning, singerVars
      <4>2. (\A i \in 4 .. pos - 1 : song[i].what # "off")
              => \A i \in 4 .. pos : song[i].what # "off"
        BY <2>1, <4>1 DEF Event
      <4> QED BY <3>2, <3>3, <4>1, <4>2
    <3> QED BY <3>4, <3>5
  <2> QED BY <2>1, <2>3, <2>4, <2>5, <2>6
<1>5. CASE ReadEvent /\ pc' # "prescan"
  BY <1>1, <1>3, <1>5, ReadSteps
<1>6. CASE MissingLyrics
  BY <1>3, <1>6 DEF MissingLyrics
<1>7. CASE PrescanEnd
  <2>1. /\ pc = "prescan" /\ pc' = "play" /\ pos = Eot /\ utau /\ song' = song
        /\ silenced' = silenced /\ Exported(song) /\ Delayed(song) /\ Eot \in Nat /\ Eot > 1
        /\ Event.what = "eot"
    BY <1>1, <1>7, EndSteps, SongFacts DEF singerVars, PrescanEnd, Prescanning
  <2>2. PICK i \in 4 .. Eot : song[i].what = "off"
    BY <2>1 DEF Exported, Eot
  <2>3. i \in 4 .. pos - 1
    BY <1>1, <2>1, <2>2, SongFacts
  <2>4. silenced = {2, 3}
    BY <2>1, <2>2, <2>3 DEF SilenceOK
  <2> QED BY <2>1, <2>4 DEF SilenceOK
<1>8. CASE PlayStep \/ UNCHANGED vars
  <2>1. /\ pc' \in {pc, "idle"} /\ (pc' = "prescan" => UNCHANGED vars)
        /\ UNCHANGED <<utau, song, silenced, singerVars>>
    BY <1>8, PlaySteps DEF vars, singerVars
  <2> QED BY <2>1 DEF SilenceOK, vars, singerVars
<1> QED BY <1>2, <1>4, <1>5, <1>6, <1>7, <1>8, NextSteps

-------------------------------------------------------------------------------
(***************************************************************************)
(* The theorems.                                                           *)
(***************************************************************************)
Inv == TypeInv /\ CountOK /\ ReadyOK /\ TextOK /\ LastOK /\ SilenceOK

LEMMA Invariant == Spec => []Inv
<1>1. Init => Inv
  <2> SUFFICES ASSUME Init PROVE Inv
    OBVIOUS
  <2>1. pc = "idle" /\ last = Nothing
    BY DEF Init
  <2> QED BY <2>1, TypeInit DEF Inv, CountOK, ReadyOK, TextOK, LastOK, SilenceOK
<1>2. Inv /\ [Next]_vars => Inv'
  BY TypeStep, CountStep, ReadyStep, TextStep, LastStep, SilenceStep DEF Inv
<1> QED BY <1>1, <1>2, PTL DEF Spec

\* Every variable keeps its type, and no song is played unless there were
\* lyrics for the notes of all songs so far (utau_prescan_off).
THEOREM TypeCorrect == Spec => []TypeOK
<1>1. Inv => TypeOK
  BY DEF Inv, TypeInv
<1> QED BY <1>1, Invariant, PTL

\* A note that has a lyric is sung with it by a sample that has been prepared,
\* and of a song UTAU has exported the setup note alone is silenced
\* (utau_prescan_on, _off, _lyr, utau_set_text, utau_get_sample).
THEOREM WordsSung == Spec => []SungRight
<1>1. Inv => SungRight
  BY DEF Inv, LastOK, SilenceOK, SungRight
<1> QED BY <1>1, Invariant, PTL

\* The cache is filled for the time the notes sound, fits, and holds no key
\* twice and none unheard (resamp_cache_refer_on, _off, _create).
THEOREM CacheFilled == Spec => []CacheRight
<1>1. Inv => CacheRight
  BY DEF Inv, CountOK, CacheRight
<1> QED BY <1>1, Invariant, PTL
===============================================================================
