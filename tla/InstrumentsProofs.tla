--------------------------- MODULE InstrumentsProofs ---------------------------
(***************************************************************************)
(* Theorems about the instruments of the tone banks, for any number of     *)
(* banks, programs, instruments and commands and any songs.                *)
(***************************************************************************)
EXTENDS Instruments, FiniteSetTheorems, TLAPS

-------------------------------------------------------------------------------
(***************************************************************************)
(* The inductive invariant.                                                *)
(***************************************************************************)
\* The place a sound font's instrument was read for.
Home(i) == source[i][3]

\* What is allocated is what a bank or the cache points to.
HeapOK ==
  /\ \A x \in Places : bank[x] > 0 =>
       /\ bank[x] \in live /\ x[1] \in defined
       /\ IsFont(bank[x]) => Home(bank[x]) \in {x, Zero(x)}
  /\ \A e \in cache :
       e[2] \in live /\ source[e[2]] = e[1] /\ e[1][1] \in {"patch", "default"}
  /\ \A i \in live :
       IF IsFont(i) THEN Home(i) \in Places /\ bank[Home(i)] = i
       ELSE <<source[i], i>> \in cache

\* The default instrument is in the cache.
DefaultOK ==
  /\ default # None => default \in live /\ ~IsFont(default)
  /\ config.changes => default = None
  /\ pc = "start" => default = None /\ live = {}
  /\ pc = "default" => config.force # {}

\* A bank other than 0 takes bank 0's name with its instrument, and has no
\* other instrument where it has no name.
NamesOK ==
  /\ 0 \in defined /\ \A f \in config.fonts : f[2] \in defined
  /\ \A x \in Places :
       /\ name[x] # Mute => x[1] \in defined
       /\ \/ name[x] = config.names[x]
          \/ /\ x[1] # 0 /\ config.names[x] = Mute /\ name[x] # Mute
             /\ name[x] = config.names[Zero(x)]

LinksOK ==
  \A x \in Places : x[1] # 0 /\ name[x] = Mute =>
    bank[x] # Error /\ (bank[x] > 0 => bank[x] = bank[Zero(x)])

\* After the user's command fill_bank goes on with a name and nothing else.
FillOK == pc = "fill" => bank[at] = None /\ name[at] # Mute /\ bare

OwnedInv ==
  /\ TypeOK /\ HeapOK /\ DefaultOK /\ NamesOK /\ LinksOK /\ FillOK
  /\ ~twice /\ (late \/ VoicesLive)

-------------------------------------------------------------------------------
(***************************************************************************)
(* Places and sources.                                                     *)
(***************************************************************************)
LEMMA PlaceParts ==
  ASSUME NEW x \in Places
  PROVE  /\ x[1] \in Banks /\ x[2] \in Progs /\ x = <<x[1], x[2]>>
         /\ Zero(x) \in Places /\ Zero(x)[1] = 0 /\ Zero(x)[2] = x[2]
         /\ x[1] = 0 => Zero(x) = x
  BY InstrumentsAssumption DEF Places, Banks, Progs, Zero

LEMMA FoundKind ==
  ASSUME NEW x \in Places
  PROVE  \/ Found(x) = Nothing
         \/ Found(x) # Nothing /\ Found(x)[1] = "font" /\ Found(x)[3] = x
         \/ Found(x) # Nothing /\ Found(x)[1] = "patch"
<1>1. Nothing[1] = "nothing"
  BY DEF Nothing
<1>2. \A o : Font(o, x)[1] = "font" /\ Font(o, x)[3] = x
  BY DEF Font
<1>3. Patch(name[x])[1] = "patch"
  BY DEF Patch
<1> QED BY <1>1, <1>2, <1>3 DEF Found

\* load_instrument returns nothing only if there is nothing; else what it
\* returns was made of what there is, is allocated, and in the cache if it is
\* a patch.
LEMMA Loads ==
  ASSUME TypeOK, HeapOK, NEW x \in Places, NEW i, LoadInstrument(x, i)
  PROVE  /\ i = None => Found(x) = Nothing /\ UNCHANGED heapVars
         /\ i # None =>
              /\ i \in Ids /\ Found(x) # Nothing
              /\ DOMAIN source' = Ids /\ source'[i] = Found(x)
              /\ live' = live \cup {i}
              /\ \A j \in live : source'[j] = source[j]
              /\ IF Found(x)[1] = "font" THEN i \notin live /\ cache' = cache
                 ELSE cache' = cache \cup {<<Found(x), i>>}
         /\ i \in Ids \cup {None}
<1> DEFINE s == Found(x)
<1>1. None \notin Ids /\ DOMAIN source = Ids /\ live \subseteq Ids
  BY InstrumentsAssumption DEF TypeOK
<1>2. CASE s = Nothing /\ i = None /\ UNCHANGED heapVars
  BY <1>2, <1>1
<1>3. CASE <<s, i>> \in cache /\ UNCHANGED heapVars
  <2>1. i \in live /\ source[i] = s /\ s[1] \in {"patch", "default"}
    BY <1>3 DEF HeapOK
  <2>2. s # Nothing /\ s[1] # "font"
    BY <2>1 DEF Nothing
  <2> QED BY <1>1, <1>3, <2>1, <2>2 DEF heapVars
<1>4. CASE /\ s # Nothing /\ \A e \in cache : e[1] # s
           /\ Allocate(i, s)
           /\ cache' = IF s[1] = "patch" THEN cache \cup {<<s, i>>} ELSE cache
  <2>1. i \in Ids /\ i \notin live /\ live' = live \cup {i}
        /\ source' = [source EXCEPT ![i] = s]
    BY <1>4 DEF Allocate, Fresh
  <2>2. s[1] = "font" \/ s[1] = "patch"
    BY <1>4, FoundKind
  <2> QED BY <1>1, <1>4, <2>1, <2>2
<1> QED BY <1>2, <1>3, <1>4 DEF LoadInstrument

-------------------------------------------------------------------------------
(***************************************************************************)
(* What loading and freeing leave.                                         *)
(***************************************************************************)
\* Place z comes to have instrument i, loaded or already its own; places
\* without an instrument may change their mark, and another bank may come to
\* share bank 0's.
Puts(z, i) ==
  /\ z \in Places /\ z[1] \in defined' /\ defined \subseteq defined'
  /\ \/ bank[z] <= 0 /\ LoadInstrument(z, i)
     \/ i = bank[z] /\ UNCHANGED heapVars
  /\ \A w \in Places : bank'[w] \in Int
  /\ i > 0 => bank'[z] = i
  /\ i <= 0 => bank'[z] <= 0
  /\ \A w \in Places \ {z} :
       \/ bank'[w] = bank[w]
       \/ bank[w] <= 0 /\ bank'[w] <= 0
       \/ /\ z = Zero(w) /\ i > 0 /\ bank'[w] = i /\ w[1] \in defined'
          /\ bank[w] <= 0 \/ bank[w] = bank[z]

\* A bank's elements and instruments are numbers.
LEMMA BankNumbers ==
  ASSUME TypeOK
  PROVE  /\ \A x \in Places : bank[x] \in Int
         /\ \A x \in Places : bank[x] > 0 => bank[x] \in Ids
         /\ \A i \in Ids : i \in Nat /\ i > 0
  BY InstrumentsAssumption DEF TypeOK, None, Load, Error

\* What Puts does to the heap.
LEMMA PutsHeap ==
  ASSUME TypeOK, HeapOK, NEW z, NEW i, Puts(z, i)
  PROVE  /\ i \in Int /\ (i > 0 => i \in Ids)
         /\ live' = IF i > 0 THEN live \cup {i} ELSE live
         /\ \A j \in live : source'[j] = source[j]
         /\ cache \subseteq cache'
         /\ \A e \in cache' :
              e \in cache \/ (i > 0 /\ e = <<source'[i], i>> /\ source'[i][1] = "patch")
         /\ i > 0 => \/ IsFont(i)' /\ i \notin live /\ Home(i)' = z
                     \/ IsFont(i)' /\ i = bank[z] /\ i \in live
                     \/ ~IsFont(i)' /\ <<source'[i], i>> \in cache'
         /\ DOMAIN source' = Ids /\ live' \subseteq Ids
<1>1. /\ bank[z] \in Int /\ DOMAIN source = Ids /\ live \subseteq Ids
      /\ bank[z] > 0 => bank[z] \in live
      /\ \A j \in Ids : j \in Nat /\ j > 0
  BY BankNumbers DEF TypeOK, Puts, HeapOK
<1>2. CASE bank[z] <= 0 /\ LoadInstrument(z, i)
  <2>1. CASE i = None
    BY <1>1, <1>2, <2>1, Loads DEF Puts, heapVars, None
  <2>2. CASE i # None
    <3>1. /\ i \in Ids /\ Found(z) # Nothing
          /\ DOMAIN source' = Ids /\ source'[i] = Found(z)
          /\ live' = live \cup {i}
          /\ \A j \in live : source'[j] = source[j]
          /\ IF Found(z)[1] = "font" THEN i \notin live /\ cache' = cache
             ELSE cache' = cache \cup {<<Found(z), i>>}
      BY <1>2, <2>2, Loads DEF Puts
    <3>2. \/ Found(z)[1] = "font" /\ Found(z)[3] = z
          \/ Found(z)[1] = "patch"
      BY <3>1, FoundKind DEF Puts
    <3> QED BY <1>1, <3>1, <3>2 DEF IsFont, Home
  <2> QED BY <2>1, <2>2
<1>3. CASE i = bank[z] /\ UNCHANGED heapVars
  <2>1. i > 0 => IF IsFont(i) THEN i \in live ELSE <<source[i], i>> \in cache
    BY <1>1, <1>3 DEF HeapOK
  <2> QED BY <1>1, <1>3, <2>1 DEF heapVars, IsFont
<1> QED BY <1>2, <1>3 DEF Puts

\* An element keeps its instrument.
LEMMA PutsKeep ==
  ASSUME TypeOK, NEW z, NEW i, Puts(z, i), NEW w \in Places, bank[w] > 0
  PROVE  bank'[w] = bank[w]
<1>1. bank[z] \in Int /\ bank[w] \in Int
  BY BankNumbers DEF Puts
<1>2. bank[z] > 0 => i = bank[z]
  BY <1>1 DEF Puts
<1> QED BY <1>1, <1>2 DEF Puts

LEMMA PutsOK ==
  ASSUME TypeOK, HeapOK, NEW z, NEW i, Puts(z, i)
  PROVE  HeapOK'
<1>0. /\ i \in Int /\ \A j \in live : source'[j] = source[j]
      /\ live' = IF i > 0 THEN live \cup {i} ELSE live
      /\ cache \subseteq cache'
      /\ \A e \in cache' :
           e \in cache \/ (i > 0 /\ e = <<source'[i], i>> /\ source'[i][1] = "patch")
      /\ i > 0 => \/ IsFont(i)' /\ i \notin live /\ Home(i)' = z
                  \/ IsFont(i)' /\ i = bank[z] /\ i \in live
                  \/ ~IsFont(i)' /\ <<source'[i], i>> \in cache'
  BY PutsHeap
<1>1. /\ z \in Places /\ z[1] \in defined' /\ defined \subseteq defined'
      /\ \A x \in Places : bank[x] \in Int
      /\ \A j \in live : source'[j] = source[j]
      /\ live \subseteq live'
  BY <1>0, BankNumbers DEF Puts
<1>2. ASSUME i > 0
      PROVE  /\ i \in live' /\ bank'[z] = i
             /\ IsFont(i)' => Home(i)' \in {z, Zero(z)}
    <2>1. i = bank[z] /\ i \in live =>
            (IsFont(i) => Home(i) \in {z, Zero(z)}) /\ source'[i] = source[i]
      BY <1>1, <1>2 DEF HeapOK
    <2> QED BY <1>0, <1>2, <2>1 DEF Puts, IsFont, Home
<1>3. ASSUME NEW x \in Places, bank'[x] > 0
      PROVE  /\ bank'[x] \in live' /\ x[1] \in defined'
             /\ IsFont(bank[x])' => Home(bank[x])' \in {x, Zero(x)}
  <2>1. CASE x = z
    <3>1. i > 0
      BY <1>0, <1>3, <2>1 DEF Puts
    <3> QED BY <1>1, <1>2, <2>1, <3>1 DEF IsFont, Home
  <2>2. CASE x # z /\ bank'[x] = bank[x]
    BY <1>1, <1>3, <2>2 DEF HeapOK, IsFont, Home
  <2>3. CASE z = Zero(x) /\ i > 0 /\ bank'[x] = i /\ x[1] \in defined'
    <3>1. Zero(z) = z
      BY <2>3, PlaceParts
    <3> QED BY <1>2, <2>3, <3>1 DEF IsFont, Home
  <2> QED BY <1>3, <2>1, <2>2, <2>3 DEF Puts
<1>4. ASSUME NEW e \in cache'
      PROVE  e[2] \in live' /\ source'[e[2]] = e[1] /\ e[1][1] \in {"patch", "default"}
  <2>1. CASE e \in cache
    BY <1>1, <2>1 DEF HeapOK
  <2>2. CASE e \notin cache
    <3>1. i > 0 /\ e = <<source'[i], i>> /\ source'[i][1] = "patch"
      BY <1>0, <1>4, <2>2
    <3> QED BY <1>2, <3>1
  <2> QED BY <2>1, <2>2
<1>5. ASSUME NEW j \in live'
      PROVE  IF IsFont(j)' THEN Home(j)' \in Places /\ bank'[Home(j)'] = j
             ELSE <<source'[j], j>> \in cache'
  <2>1. CASE j \in live
    <3>1. source'[j] = source[j] /\ j > 0 /\ j \in Int
      BY <1>1, <2>1, BankNumbers DEF TypeOK
    <3>2. CASE IsFont(j)
      <4>1. Home(j) \in Places /\ bank[Home(j)] = j
        BY <2>1, <3>2 DEF HeapOK
      <4>2. bank'[Home(j)] = j
        BY <3>1, <4>1, PutsKeep
      <4> QED BY <3>1, <3>2, <4>1, <4>2 DEF IsFont, Home
    <3>3. CASE ~IsFont(j)
      <4>1. <<source[j], j>> \in cache /\ cache \subseteq cache'
        BY <1>0, <2>1, <3>3 DEF HeapOK
      <4> QED BY <3>1, <3>3, <4>1 DEF IsFont
    <3> QED BY <3>2, <3>3
  <2>2. CASE j \notin live
    <3>1. i > 0 /\ j = i
      BY <1>0, <1>5, <2>2
    <3>2. \/ IsFont(i)' /\ Home(i)' = z
          \/ ~IsFont(i)' /\ <<source'[i], i>> \in cache'
      BY <1>0, <2>2, <3>1
    <3> QED BY <1>1, <1>2, <3>1, <3>2 DEF IsFont, Home
  <2> QED BY <2>1, <2>2
<1> QED BY <1>3, <1>4, <1>5 DEF HeapOK, IsFont, Home

\* A sound font's instrument is freed where it was read for, and only there.
LEMMA FontFreed ==
  ASSUME TypeOK, HeapOK
  PROVE  /\ \A x \in FontPlaces : x = Home(bank[x]) /\ bank[x] \in live
         /\ \A i \in live : IsFont(i) => i \in {bank[x] : x \in FontPlaces}
<1>1. ASSUME NEW x \in FontPlaces
      PROVE  x = Home(bank[x]) /\ bank[x] \in live
  <2>1. /\ x \in Places /\ bank[x] > 0 /\ IsFont(bank[x]) /\ bank[x] \in live
        /\ Home(bank[x]) \in {x, Zero(x)} /\ bank[Home(bank[x])] = bank[x]
        /\ x[1] = 0 \/ bank[x] # bank[Zero(x)]
    BY DEF FontPlaces, HeapOK
  <2> QED BY <2>1, PlaceParts
<1>2. ASSUME NEW i \in live, IsFont(i)
      PROVE  i \in {bank[x] : x \in FontPlaces}
  <2> DEFINE h == Home(i)
  <2>1. h \in Places /\ bank[h] = i /\ i > 0 /\ h[1] \in defined
    <3>1. i > 0
      BY BankNumbers DEF TypeOK
    <3> QED BY <1>2, <3>1 DEF HeapOK
  <2>2. Zero(h) \in Places /\ Zero(Zero(h)) = Zero(h) /\ Zero(h)[1] = 0
        /\ (h = Zero(h) => h[1] = 0)
    BY <2>1, PlaceParts
  <2>3. bank[Zero(h)] = i => h = Zero(h)
    BY <1>2, <2>1, <2>2 DEF HeapOK
  <2>4. h \in FontPlaces
    BY <1>2, <2>1, <2>2, <2>3 DEF FontPlaces
  <2> QED BY <2>1, <2>4
<1> QED BY <1>1, <1>2

\* No instrument is freed twice.
LEMMA FreedOnce ==
  ASSUME TypeOK, HeapOK, NEW all, NEW i \in Freed(all)
  PROVE  i \in live /\ ~(Frees(all, i) > 1)
<1> DEFINE P == {x \in FontPlaces : bank[x] = i}
           E == {e \in Entries(all) : e[2] = i}
<1>1. i \in live
  BY FontFreed DEF Freed, Entries, HeapOK
<1>2. P \subseteq {Home(i)} /\ (P # {} => IsFont(i))
  BY FontFreed DEF FontPlaces
<1>3. E \subseteq {<<source[i], i>>} /\ (E # {} => ~IsFont(i))
  BY DEF Entries, HeapOK, TypeOK, IsFont
<1>4. \A S, a : S \subseteq {a} => Cardinality(S) = IF S = {} THEN 0 ELSE 1
  <2>1. ASSUME NEW S, NEW a, S \subseteq {a} PROVE S = {} \/ S = {a}
    BY <2>1
  <2> QED BY <2>1, FS_EmptySet, FS_Singleton
<1>5. Cardinality(P) = IF P = {} THEN 0 ELSE 1
  BY <1>2, <1>4
<1>6. Cardinality(E) = IF E = {} THEN 0 ELSE 1
  BY <1>3, <1>4
<1>7. Frees(all, i) = Cardinality(P) + Cardinality(E)
  BY DEF Frees
<1>8. P = {} \/ E = {}
  BY <1>2, <1>3
<1> HIDE DEF P, E
<1> QED BY <1>1, <1>5, <1>6, <1>7, <1>8

LEMMA FreeOK ==
  ASSUME TypeOK, HeapOK, DefaultOK, ~twice, NEW all \in BOOLEAN, FreeInstruments(all),
         all => config.default = Mute /\ default = None
  PROVE  /\ HeapOK' /\ ~twice' /\ default' = default /\ source' = source
         /\ bank' = [x \in Places |-> None] /\ UNCHANGED <<name, defined>>
         /\ default # None => default \in live' /\ ~IsFont(default)'
         /\ live' \subseteq live /\ cache' \subseteq cache
<1>1. /\ live' = live \ Freed(all) /\ cache' = cache \ Entries(all)
      /\ UNCHANGED <<default, source, name, defined>>
      /\ bank' = [x \in Places |-> None]
      /\ twice' = \E i \in Freed(all) : i \notin live \/ Frees(all, i) > 1
  BY DEF FreeInstruments
<1>2. ~twice'
  BY <1>1, FreedOnce
<1>3. ASSUME NEW e \in cache'
      PROVE  e[2] \in live' /\ source'[e[2]] = e[1] /\ e[1][1] \in {"patch", "default"}
  <2>1. e \in cache /\ e \notin Entries(all)
    BY <1>1, <1>3
  <2>2. e[2] \in live /\ source[e[2]] = e[1] /\ e[1][1] \in {"patch", "default"}
        /\ ~IsFont(e[2])
    BY <2>1 DEF HeapOK, IsFont
  <2>3. \A d \in Entries(all) : d[2] # e[2]
    BY <2>1 DEF Entries
  <2>4. \A x \in FontPlaces : bank[x] # e[2]
    BY <2>2 DEF FontPlaces
  <2> QED BY <1>1, <2>2, <2>3, <2>4 DEF Freed
<1>4. ASSUME NEW i \in live'
      PROVE  ~IsFont(i) /\ <<source[i], i>> \in cache'
  <2>1. i \in live /\ i \notin Freed(all)
    BY <1>1, <1>4
  <2>2. ~IsFont(i)
    BY <2>1, FontFreed DEF Freed
  <2>3. <<source[i], i>> \in cache
    BY <2>1, <2>2 DEF HeapOK
  <2>4. <<source[i], i>> \notin Entries(all)
    BY <2>1 DEF Freed
  <2> QED BY <1>1, <2>2, <2>3, <2>4
<1>5. HeapOK'
  BY <1>1, <1>3, <1>4 DEF HeapOK, IsFont, None
<1>6. default # None => default \in live' /\ ~IsFont(default)'
  <2>1. ASSUME default # None PROVE default \notin Freed(all)
    <3>1. ~IsFont(default) /\ all = FALSE
      BY <2>1 DEF DefaultOK
    <3> QED BY <3>1 DEF Freed, FontPlaces, Entries
  <2> QED BY <1>1, <2>1 DEF DefaultOK, IsFont
<1> QED BY <1>1, <1>2, <1>5, <1>6

\* play_midi_load_instrument loads into the place itself, or into bank 0's.
LEMMA PlaysPut ==
  ASSUME TypeOK, NamesOK, LinksOK, NEW x \in Places, NEW i \in Ids \cup {None, Error},
         PlayMidiLoadInstrument(x, i)
  PROVE  /\ Puts(IF name[x] # Mute THEN x ELSE Zero(x), i)
         /\ bank' \in [Places -> Ids \cup {None, Load, Error}]
         /\ i <= 0 => bank'[IF name[x] # Mute THEN x ELSE Zero(x)] = Error
         /\ name' = [name EXCEPT ![x] = IF name[x] = Mute /\ i > 0 THEN name[Zero(x)]
                                                                   ELSE name[x]]
         /\ name[x] = Mute /\ i > 0 => bank'[x] = bank'[Zero(x)]
         /\ \A w \in Places : \/ w = IF name[x] # Mute THEN x ELSE Zero(x)
                              \/ bank'[w] = bank[w]
                              \/ w = x /\ name[x] = Mute /\ i > 0
<1>1. /\ bank \in [Places -> Ids \cup {None, Load, Error}]
      /\ name \in [Places -> STRING]
      /\ \A w \in Places : bank[w] \in Int
      /\ Zero(x) \in Places /\ Zero(x)[1] = 0 /\ (x[1] = 0 => Zero(x) = x)
  BY BankNumbers, PlaceParts DEF TypeOK
<1>2. /\ defined' = defined \cup {x[1]}
      /\ Error <= 0 /\ Error \in Int /\ None <= 0 /\ None \in Int
      /\ Load <= 0 /\ Load \in Int
      /\ i \in Int /\ (i > 0 => i \in Ids)
  BY BankNumbers DEF PlayMidiLoadInstrument, Error, None, Load
<1>3. ASSUME NEW z \in {x, Zero(x)}, LoadIfMissing(z, i)
      PROVE  /\ \/ bank[z] <= 0 /\ LoadInstrument(z, i)
                \/ i = bank[z] /\ UNCHANGED heapVars
             /\ bank[z] > 0 => i = bank[z]
  <2>1. CASE bank[z] \in {None, Load}
    BY <1>3, <2>1, <1>2 DEF LoadIfMissing
  <2>2. CASE bank[z] \notin {None, Load}
    BY <1>1, <1>3, <2>2 DEF LoadIfMissing
  <2> QED BY <2>1, <2>2
<1>4. CASE name[x] # Mute
  <2>1. /\ LoadIfMissing(x, i) /\ name' = name
        /\ bank' = [bank EXCEPT ![x] = IF i > 0 THEN i ELSE Error]
    BY <1>4 DEF PlayMidiLoadInstrument
  <2>3. /\ bank'[x] = IF i > 0 THEN i ELSE Error
        /\ \A w \in Places \ {x} : bank'[w] = bank[w]
    BY <1>1, <2>1
  <2>4. /\ \A w \in Places : bank'[w] \in Int
        /\ i > 0 => bank'[x] = i
        /\ i <= 0 => bank'[x] <= 0
    BY <1>1, <1>2, <2>3
  <2>5. \/ bank[x] <= 0 /\ LoadInstrument(x, i)
        \/ i = bank[x] /\ UNCHANGED heapVars
    BY <1>3, <2>1
  <2>2. Puts(x, i)
    BY <1>2, <2>3, <2>4, <2>5 DEF Puts
  <2> QED BY <1>1, <1>2, <1>4, <2>1, <2>2
<1>5. CASE name[x] = Mute
  <2> DEFINE y == Zero(x)
  <2>1. /\ LoadIfMissing(y, i)
        /\ IF i > 0 THEN /\ bank' = [bank EXCEPT ![y] = i, ![x] = i]
                         /\ name' = [name EXCEPT ![x] = name[y]]
           ELSE bank' = [bank EXCEPT ![y] = Error] /\ name' = name
    BY <1>5 DEF PlayMidiLoadInstrument
  <2>2. x # y => bank[x] <= 0 \/ bank[x] = bank[y]
    BY <1>1, <1>5 DEF LinksOK
  <2>3. \A w \in Places \ {y} :
          IF i > 0 /\ w = x THEN bank'[w] = i ELSE bank'[w] = bank[w]
    BY <1>1, <2>1
  <2>4. bank'[y] = IF i > 0 THEN i ELSE Error
    BY <1>1, <2>1
  <2>6. /\ \A w \in Places : bank'[w] \in Int
        /\ i > 0 => bank'[y] = i
        /\ i <= 0 => bank'[y] <= 0
    BY <1>1, <1>2, <2>3, <2>4
  <2>7. \/ bank[y] <= 0 /\ LoadInstrument(y, i)
        \/ i = bank[y] /\ UNCHANGED heapVars
    BY <1>3, <2>1
  <2>8. y[1] \in defined' /\ x[1] \in defined'
    BY <1>1, <1>2 DEF NamesOK
  <2>5. Puts(y, i)
    BY <1>1, <1>2, <2>2, <2>3, <2>6, <2>7, <2>8 DEF Puts
  <2> QED BY <1>1, <1>2, <1>5, <2>1, <2>3, <2>4, <2>5
<1> QED BY <1>4, <1>5

\* It keeps the names and the links.
LEMMA PlaysLinks ==
  ASSUME TypeOK, NamesOK, LinksOK, config' = config, NEW x \in Places,
         NEW i \in Ids \cup {None, Error}, PlayMidiLoadInstrument(x, i)
  PROVE  NamesOK' /\ LinksOK' /\ defined' \in SUBSET Banks
<1> DEFINE z == IF name[x] # Mute THEN x ELSE Zero(x)
<1>1. /\ Puts(z, i)
      /\ name' = [name EXCEPT ![x] = IF name[x] = Mute /\ i > 0 THEN name[Zero(x)]
                                                                ELSE name[x]]
      /\ name[x] = Mute /\ i > 0 => bank'[x] = bank'[Zero(x)]
      /\ \A w \in Places : w = z \/ bank'[w] = bank[w] \/ (w = x /\ name[x] = Mute /\ i > 0)
  BY PlaysPut
<1>2. /\ name \in [Places -> STRING] /\ defined' = defined \cup {x[1]}
      /\ x[1] \in Banks /\ defined \in SUBSET Banks
      /\ \A w \in Places : Zero(w) \in Places /\ Zero(w)[1] = 0 /\ (w[1] = 0 => Zero(w) = w)
      /\ \A w \in Places : bank[w] \in Int
  BY PlaceParts, BankNumbers DEF TypeOK, PlayMidiLoadInstrument
<1>3. \A w \in Places : bank[w] > 0 => bank'[w] = bank[w]
  BY <1>1, PutsKeep
<1>4. \A w \in Places : w # x => name'[w] = name[w]
  BY <1>1, <1>2
<1>5. name'[x] = IF name[x] = Mute /\ i > 0 THEN name[Zero(x)] ELSE name[x]
  BY <1>1, <1>2
<1>6. NamesOK'
  <2>1. \A w \in Places : w # x =>
          /\ name'[w] # Mute => w[1] \in defined'
          /\ \/ name'[w] = config.names[w]
             \/ /\ w[1] # 0 /\ config.names[w] = Mute /\ name'[w] # Mute
                /\ name'[w] = config.names[Zero(w)]
    BY <1>2, <1>4 DEF NamesOK
  <2>2. x[1] \in defined'
    BY <1>2
  <2>3. \/ name'[x] = config.names[x]
        \/ /\ x[1] # 0 /\ config.names[x] = Mute /\ name'[x] # Mute
           /\ name'[x] = config.names[Zero(x)]
    BY <1>2, <1>5 DEF NamesOK
  <2> QED BY <1>2, <2>1, <2>2, <2>3 DEF NamesOK
<1>7. ASSUME NEW w \in Places, w[1] # 0, name'[w] = Mute
      PROVE  bank'[w] # Error /\ (bank'[w] > 0 => bank'[w] = bank'[Zero(w)])
  <2>1. name[w] = Mute /\ bank[w] # Error /\ (bank[w] > 0 => bank[w] = bank[Zero(w)])
    <3>1. name[w] = Mute
      BY <1>2, <1>4, <1>5, <1>7
    <3> QED BY <1>7, <3>1 DEF LinksOK
  <2>2. CASE bank[w] > 0
    BY <1>2, <1>3, <2>1, <2>2 DEF Error
  <2>3. CASE ~(bank[w] > 0)
    <3>1. CASE w = z
      <4>1. name[x] # Mute /\ w = x
        BY <1>2, <1>7, <3>1
      <4> QED BY <2>1, <4>1
    <3>2. CASE w # z /\ bank'[w] = bank[w]
      BY <2>1, <2>3, <3>2
    <3>3. CASE w # z /\ bank'[w] # bank[w]
      <4>1. name[x] = Mute /\ w = x /\ i > 0
        BY <1>1, <3>3
      <4>2. bank'[w] = i /\ bank'[Zero(w)] = i
        BY <1>1, <4>1 DEF Puts
      <4> QED BY <4>1, <4>2 DEF Error
    <3> QED BY <3>1, <3>2, <3>3
  <2> QED BY <2>2, <2>3
<1> QED BY <1>2, <1>6, <1>7 DEF LinksOK

-------------------------------------------------------------------------------
(***************************************************************************)
(* The steps.                                                              *)
(***************************************************************************)
\* A step that leaves banks and instruments alone.
LEMMA Framed ==
  ASSUME OwnedInv, UNCHANGED <<config, bankVars, default, heapVars, twice>>,
         TypeOK', pc' \notin {"start", "default", "fill"}, late' \/ VoicesLive'
  PROVE  OwnedInv'
  BY DEF OwnedInv, HeapOK, DefaultOK, NamesOK, LinksOK, FillOK, IsFont, Home, bankVars, heapVars

\* A step that only moves marks.
LEMMA Marks ==
  ASSUME OwnedInv, UNCHANGED <<config, name, defined, default, heapVars, twice>>,
         \A x \in Places :
           bank'[x] = bank[x] \/ (bank[x] <= 0 /\ bank'[x] \in {None, Load}),
         TypeOK', pc' \notin {"start", "default", "fill"}, late' \/ VoicesLive'
  PROVE  OwnedInv'
<1>1. /\ TypeOK /\ HeapOK /\ LinksOK
      /\ \A x \in Places : bank[x] \in Int /\ bank'[x] \in Int /\ Zero(x) \in Places
      /\ None <= 0 /\ Load <= 0 /\ None # Error /\ Load # Error
      /\ \A i \in live : i > 0 /\ i \in Int
  BY BankNumbers, PlaceParts DEF OwnedInv, TypeOK, None, Load, Error
<1>2. \A x \in Places : bank[x] > 0 \/ bank'[x] > 0 => bank'[x] = bank[x]
  BY <1>1 DEF None, Load
<1>3. HeapOK'
  <2>1. \A x \in Places : bank'[x] > 0 =>
          /\ bank[x] \in live /\ x[1] \in defined
          /\ IsFont(bank[x]) => Home(bank[x]) \in {x, Zero(x)}
    BY <1>1, <1>2 DEF HeapOK
  <2>2. \A i \in live : IsFont(i) => Home(i) \in Places /\ bank'[Home(i)] = i
    BY <1>1, <1>2 DEF HeapOK
  <2> QED BY <1>1, <1>2, <2>1, <2>2 DEF HeapOK, IsFont, Home, heapVars
<1>4. LinksOK'
  BY <1>1, <1>2 DEF LinksOK
<1> QED BY <1>3, <1>4 DEF OwnedInv, DefaultOK, NamesOK, FillOK, IsFont, heapVars

\* A step that loads an instrument.
LEMMA PutTyped ==
  ASSUME TypeOK, HeapOK, NEW z, NEW i, Puts(z, i)
  PROVE  /\ \A e \in cache' : e[2] \in Ids /\ e = <<e[1], e[2]>>
         /\ live' \subseteq Ids /\ DOMAIN source' = Ids /\ live \subseteq live'
         /\ i > 0 => i \in live'
<1>1. /\ i > 0 => i \in Ids
      /\ live' = IF i > 0 THEN live \cup {i} ELSE live
      /\ \A e \in cache' :
           e \in cache \/ (i > 0 /\ e = <<source'[i], i>> /\ source'[i][1] = "patch")
      /\ DOMAIN source' = Ids /\ live' \subseteq Ids
  BY PutsHeap
<1> QED BY <1>1 DEF TypeOK

LEMMA PutOwned ==
  ASSUME OwnedInv, NEW z, NEW i, Puts(z, i), UNCHANGED <<config, default, twice>>,
         TypeOK', NamesOK', LinksOK', pc' \notin {"start", "default", "fill"},
         late' \/ VoicesLive'
  PROVE  OwnedInv'
<1>1. HeapOK'
  BY PutsOK DEF OwnedInv
<1>2. live \subseteq live' /\ \A j \in live : source'[j] = source[j]
  BY PutsHeap, PutTyped DEF OwnedInv
<1>3. DefaultOK'
  BY <1>2 DEF OwnedInv, DefaultOK, IsFont
<1> QED BY <1>1, <1>3 DEF OwnedInv, FillOK

LEMMA AdvanceType ==
  ASSUME at \in Places, Advance
  PROVE  at' \in Places /\ pc' \in {"load", "loaded"}
<1>1. at[1] \in Banks /\ at[2] \in Progs
  BY PlaceParts
<1>2. at[2] # MaxProg => <<at[1], at[2] + 1>> \in Places
  BY <1>1, InstrumentsAssumption DEF Places, Banks, Progs
<1>3. at[1] # 0 => <<at[1] - 1, 0>> \in Places
  BY <1>1, InstrumentsAssumption DEF Places, Banks, Progs
<1> QED BY <1>2, <1>3 DEF Advance

\* A sound font has instruments for a place without a patch name in bank 0 only.
LEMMA UnnamedFound ==
  ASSUME OwnedInv, Tidy(config), NEW x \in Places, name[x] = Mute, x[1] # 0
  PROVE  Found(x) = Nothing
<1>1. config.names[x] = Mute /\ x = <<x[1], x[2]>>
  BY PlaceParts DEF OwnedInv, NamesOK
<1>2. ASSUME NEW o, InFont(o, x) PROVE FALSE
  <2>1. <<o, x[1], x[2]>> \in config.fonts
    BY <1>2 DEF InFont
  <2> QED BY <1>1, <2>1 DEF Tidy
<1>3. name[x] \notin config.patches
  BY InstrumentsAssumption DEF OwnedInv, TypeOK
<1> QED BY <1>2, <1>3 DEF Found

(***************************************************************************)
(* The program begins.                                                     *)
(***************************************************************************)
LEMMA ForceOwned ==
  ASSUME OwnedInv, Tidy(config), ForceProgram
  PROVE  OwnedInv'
<1>1. PICK p \in config.force, i \in Ids \cup {None} :
        /\ PlayMidiLoadInstrument(<<0, p>>, i)
        /\ default' = IF i > 0 THEN i ELSE default
  BY DEF ForceProgram
<1> DEFINE x == <<0, p>>
<1>2. /\ pc = "start" /\ config.force # {} /\ default = None /\ live = {}
      /\ pc' = "default"
      /\ UNCHANGED <<config, voices, song, at, reload, commands, history>>
      /\ TypeOK /\ HeapOK /\ NamesOK /\ LinksOK /\ ~twice /\ voices \subseteq Ids
  BY DEF ForceProgram, OwnedInv, DefaultOK, TypeOK
<1>3. x \in Places /\ Zero(x) = x
  <2>1. p \in Progs /\ 0 \in Banks
    BY <1>2, InstrumentsAssumption DEF TypeOK, Banks
  <2> QED BY <2>1 DEF Places, Zero
<1>4. /\ Puts(x, i) /\ bank' \in [Places -> Ids \cup {None, Load, Error}]
      /\ name' = [name EXCEPT ![x] = IF name[x] = Mute /\ i > 0 THEN name[Zero(x)]
                                                                ELSE name[x]]
  BY <1>1, <1>2, <1>3, PlaysPut
<1>5. NamesOK' /\ LinksOK' /\ defined' \in SUBSET Banks
  BY <1>1, <1>2, <1>3, PlaysLinks
<1>6. HeapOK'
  BY <1>2, <1>4, PutsOK
<1>7. i > 0 => i \in Ids /\ i \in live' /\ ~IsFont(i)'
  <2>1. ~IsFont(i)' \/ i <= 0
    <3>1. Found(x)[1] # "font"
      <4>1. ASSUME NEW o PROVE ~InFont(o, x)
        BY DEF InFont, Tidy
      <4> QED BY <4>1 DEF Found, Patch, Nothing
    <3>2. bank[x] <= 0
      BY <1>2, <1>3, BankNumbers DEF HeapOK
    <3>3. CASE LoadInstrument(x, i) /\ i # None
      BY <1>2, <1>3, <3>1, <3>3, Loads DEF IsFont
    <3>4. i = bank[x] => i <= 0
      BY <3>2
    <3>5. LoadInstrument(x, i) \/ i = bank[x]
      BY <1>4 DEF Puts
    <3>6. i = None => i <= 0
      BY DEF None
    <3> QED BY <3>3, <3>4, <3>5, <3>6
  <2>2. i \in Int /\ (i > 0 => i \in Ids)
    BY <1>2, <1>4, PutsHeap
  <2>3. i > 0 => i \in live'
    BY <1>2, <1>4, PutTyped
  <2> QED BY <2>1, <2>2, <2>3
<1>8. DefaultOK'
  <2>1. config' = config /\ ~config.changes /\ config.force # {}
    BY <1>2 DEF Tidy
  <2>2. default' # None => default' = i /\ i > 0
    BY <1>1, <1>2
  <2> QED BY <1>2, <1>7, <2>1, <2>2 DEF DefaultOK, IsFont
<1>9. TypeOK'
  <2>1. name' \in [Places -> STRING]
    <3>1. \A n \in STRING : [name EXCEPT ![x] = n] \in [Places -> STRING]
      BY <1>2 DEF TypeOK
    <3>2. name[x] \in STRING /\ name[Zero(x)] \in STRING
      BY <1>2, <1>3 DEF TypeOK
    <3> QED BY <1>4, <3>1, <3>2
  <2>2. /\ \A e \in cache' : e[2] \in Ids /\ e = <<e[1], e[2]>>
        /\ live' \subseteq Ids /\ DOMAIN source' = Ids
    BY <1>2, <1>4, PutTyped
  <2>3. default' \in Ids \cup {None}
    BY <1>1, <1>2, <1>7
  <2> QED BY <1>2, <1>4, <1>5, <2>1, <2>2, <2>3 DEF TypeOK, history
<1> QED BY <1>2, <1>5, <1>6, <1>8, <1>9 DEF OwnedInv, FillOK, VoicesLive, history

LEMMA DefaultOwned ==
  ASSUME OwnedInv, Tidy(config), SetDefault
  PROVE  OwnedInv'
<1>1. /\ pc \in {"start", "default"} /\ pc' = "idle" /\ (pc = "start" => config.force = {})
      /\ UNCHANGED <<config, bankVars, voices, song, at, reload, commands, history>>
      /\ TypeOK /\ HeapOK /\ NamesOK /\ LinksOK /\ ~twice
  BY DEF SetDefault, OwnedInv
<1>2. CASE UNCHANGED <<default, heapVars>>
  BY <1>1, <1>2, Framed DEF TypeOK, VoicesLive, history, bankVars, heapVars
<1>3. CASE config.default # Mute /\ RenewDefault(live, cache)
  <2>1. pc = "start" /\ default = None /\ live = {} /\ ~config.changes
    BY <1>1, <1>3 DEF OwnedInv, DefaultOK, Tidy
  <2>2. PICK i \in Ids :
          /\ default' = i /\ live' = {i}
          /\ source' = [source EXCEPT ![i] = Preset(config.default)]
          /\ cache' = cache \cup {<<Preset(config.default), i>>}
    <3>1. PICK i \in Ids :
          /\ default' = i /\ live' = (live \cup {i}) \ {default}
          /\ source' = [source EXCEPT ![i] = Preset(config.default)]
          /\ cache' = cache \cup {<<Preset(config.default), i>>}
      BY <1>3 DEF RenewDefault
    <3>2. i # None
      BY InstrumentsAssumption
    <3> QED BY <2>1, <3>1, <3>2
  <2>3. source'[i] = Preset(config.default) /\ DOMAIN source' = Ids /\ ~IsFont(i)'
    BY <1>1, <2>2 DEF TypeOK, Preset, IsFont
  <2>4. cache = {} /\ \A x \in Places : ~(bank[x] > 0)
    BY <1>1, <2>1 DEF HeapOK
  <2>5. HeapOK'
    BY <1>1, <2>2, <2>3, <2>4 DEF HeapOK, Preset, bankVars
  <2>6. DefaultOK'
    BY <1>1, <2>1, <2>2, <2>3 DEF DefaultOK
  <2>7. TypeOK'
    BY <1>1, <2>2, <2>3, <2>4 DEF TypeOK, history, bankVars
  <2> QED BY <1>1, <2>5, <2>6, <2>7
          DEF OwnedInv, NamesOK, LinksOK, FillOK, VoicesLive, bankVars, history
<1> QED BY <1>2, <1>3 DEF SetDefault

(***************************************************************************)
(* A song is read and its instruments are loaded.                          *)
(***************************************************************************)
LEMMA ReadOwned ==
  ASSUME OwnedInv, ReadSong
  PROVE  OwnedInv'
<1>1. /\ TypeOK /\ late' = FALSE /\ bare' = FALSE /\ reload' = FALSE /\ at' = Top
      /\ pc' \in {"load", "loaded"}
      /\ UNCHANGED <<config, name, defined, default, heapVars, voices, commands, twice, sound>>
      /\ song' = song \/ song' \in config.songs
  BY DEF ReadSong, OwnedInv
<1>2. \A x \in Places : bank'[x] = bank[x] \/ (bank[x] = None /\ bank'[x] = Load)
  BY DEF ReadSong
<1>3. bank' \in [Places -> Ids \cup {None, Load, Error}]
  BY <1>1 DEF ReadSong, TypeOK
<1>4. Top \in Places
  BY InstrumentsAssumption DEF Top, Places, Banks, Progs
<1>5. song' \subseteq Places
  BY <1>1, InstrumentsAssumption DEF TypeOK
<1>6. TypeOK'
  BY <1>1, <1>3, <1>4, <1>5 DEF TypeOK, heapVars
<1>7. \A x \in Places :
        bank'[x] = bank[x] \/ (bank[x] <= 0 /\ bank'[x] \in {None, Load})
  BY <1>2 DEF None
<1>8. /\ UNCHANGED <<config, name, defined, default, heapVars, twice>>
      /\ pc' \notin {"start", "default", "fill"} /\ (late' \/ VoicesLive')
  BY <1>1 DEF VoicesLive
<1> QED BY <1>6, <1>7, <1>8, Marks

LEMMA PassOwned ==
  ASSUME OwnedInv, PassOver
  PROVE  OwnedInv'
<1>1. /\ TypeOK /\ at' \in Places /\ pc' \in {"load", "loaded"}
      /\ UNCHANGED <<config, bankVars, default, heapVars, voices, song, reload, commands,
                     history>>
  BY AdvanceType DEF PassOver, OwnedInv, TypeOK
<1>2. TypeOK'
  BY <1>1 DEF TypeOK, bankVars, heapVars, history
<1> QED BY <1>1, <1>2, Framed DEF VoicesLive, history

\* What fill_bank does to an element, whether it was marked or emptied.
LEMMA FillPuts ==
  ASSUME OwnedInv, NEW i \in Ids \cup {None}, bank[at] \in {None, Load}, at[1] \in defined,
         defined' = defined, LoadInstrument(at, i),
         bank' \in [Places -> Ids \cup {None, Load, Error}],
         i # None => bank'[at] = i,
         i = None => bank'[at] \in {None, Error},
         \A w \in Places \ {at} :
           bank'[w] = bank[w] \/ (bank[w] = None /\ bank'[w] = Load)
  PROVE  Puts(at, i)
<1>1. /\ at \in Places /\ \A w \in Places : bank'[w] \in Int
      /\ bank[at] <= 0 /\ (i = None \/ i > 0) /\ i \in Int
      /\ None <= 0 /\ Load <= 0 /\ Error <= 0
  BY InstrumentsAssumption DEF OwnedInv, TypeOK, None, Load, Error
<1>2. i <= 0 => i = None
  BY <1>1
<1>3. i > 0 => i # None
  BY DEF None
<1>4. (i > 0 => bank'[at] = i) /\ (i <= 0 => bank'[at] <= 0)
  BY <1>1, <1>2, <1>3
<1> QED BY <1>1, <1>4 DEF Puts

LEMMA FillLinks ==
  ASSUME OwnedInv, NEW i, Puts(at, i), name' = name,
         name[at] = Mute /\ at[1] # 0 => bank'[at] = None,
         \A w \in Places \ {at} :
           bank'[w] = bank[w] \/ (bank[w] = None /\ bank'[w] = Load)
  PROVE  LinksOK'
<1>1. /\ \A w \in Places : Zero(w) \in Places
      /\ \A w \in Places : bank[w] > 0 => bank'[w] = bank[w]
      /\ LinksOK /\ None # Error /\ Load # Error /\ ~(None > 0) /\ ~(Load > 0)
  BY PlaceParts, PutsKeep DEF OwnedInv, None, Load, Error
<1>2. ASSUME NEW w \in Places, w[1] # 0, name[w] = Mute
      PROVE  bank'[w] # Error /\ (bank'[w] > 0 => bank'[w] = bank'[Zero(w)])
  <2>1. CASE w = at
    BY <1>1, <1>2, <2>1
  <2>2. CASE w # at
    BY <1>1, <1>2, <2>2 DEF LinksOK
  <2> QED BY <2>1, <2>2
<1> QED BY <1>2 DEF LinksOK

LEMMA FillNamedOwned ==
  ASSUME OwnedInv, FillNamed
  PROVE  OwnedInv'
<1>1. PICK i \in Ids \cup {None} :
        LoadInstrument(at, i) /\ bank' = [bank EXCEPT ![at] = i]
  BY DEF FillNamed
<1>2. /\ TypeOK /\ NamesOK /\ at' \in Places /\ pc' \in {"load", "loaded"}
      /\ UNCHANGED <<config, name, defined, default, voices, song, reload, commands, history>>
      /\ name[at] # Mute /\ bank[at] \in {None, Load} /\ at \in Places
  BY AdvanceType DEF FillNamed, OwnedInv, TypeOK, FillOK, Marked
<1>3. /\ bank' \in [Places -> Ids \cup {None, Load, Error}]
      /\ bank'[at] = i /\ \A w \in Places \ {at} : bank'[w] = bank[w]
  BY <1>1, <1>2 DEF TypeOK
<1>4. at[1] \in defined
  BY <1>2 DEF NamesOK
<1>5. Puts(at, i)
  BY <1>1, <1>2, <1>3, <1>4, FillPuts
<1>6. LinksOK'
  BY <1>2, <1>3, <1>5, FillLinks
<1>7. /\ \A e \in cache' : e[2] \in Ids /\ e = <<e[1], e[2]>>
      /\ live' \subseteq Ids /\ DOMAIN source' = Ids
  BY <1>5, PutTyped DEF OwnedInv
<1>8. TypeOK'
  BY <1>2, <1>3, <1>7 DEF TypeOK, history
<1>9. NamesOK'
  BY <1>2 DEF NamesOK
<1> QED BY <1>2, <1>5, <1>6, <1>8, <1>9, PutOwned DEF VoicesLive, history

LEMMA FillUnnamedOwned ==
  ASSUME OwnedInv, Tidy(config), FillUnnamed
  PROVE  OwnedInv'
<1> DEFINE y == Zero(at)
<1>1. PICK i \in Ids \cup {None} :
        /\ LoadInstrument(at, i)
        /\ bank' = CASE i > 0 -> [bank EXCEPT ![at] = i]
                     [] i = None /\ at[1] # 0 ->
                          [bank EXCEPT ![at] = None,
                                       ![y] = IF bank[y] = None THEN Load ELSE bank[y]]
                     [] OTHER -> [bank EXCEPT ![at] = Error]
  BY DEF FillUnnamed
<1>2. /\ TypeOK /\ HeapOK /\ NamesOK /\ at' \in Places /\ pc' \in {"load", "loaded"}
      /\ UNCHANGED <<config, name, defined, default, voices, song, reload, commands, history>>
      /\ name[at] = Mute /\ bank[at] = Load /\ at[1] \in defined /\ at \in Places
  BY AdvanceType DEF FillUnnamed, OwnedInv, TypeOK, Marked
<1>3. /\ y \in Places /\ (at[1] # 0 => at # y)
      /\ i \in Int /\ (i > 0 <=> i # None)
  BY <1>2, PlaceParts, InstrumentsAssumption DEF None
<1>4. at[1] # 0 => i = None
  <2>1. at[1] # 0 => Found(at) = Nothing
    BY <1>2, UnnamedFound
  <2> QED BY <1>1, <1>2, <2>1, Loads
<1>5. /\ bank' \in [Places -> Ids \cup {None, Load, Error}]
      /\ i # None => bank'[at] = i
      /\ i = None => bank'[at] \in {None, Error}
      /\ at[1] # 0 => bank'[at] = None
      /\ \A w \in Places \ {at} : bank'[w] = bank[w] \/ (bank[w] = None /\ bank'[w] = Load)
  <2>1. CASE i # None
    <3>1. bank' = [bank EXCEPT ![at] = i]
      BY <1>1, <1>3, <2>1
    <3> QED BY <1>2, <1>4, <2>1, <3>1 DEF TypeOK
  <2>2. CASE i = None /\ at[1] # 0
    <3>1. bank' = [bank EXCEPT ![at] = None,
                               ![y] = IF bank[y] = None THEN Load ELSE bank[y]]
      BY <1>1, <1>3, <2>2
    <3> QED BY <1>2, <1>3, <2>2, <3>1 DEF TypeOK
  <2>3. CASE i = None /\ at[1] = 0
    <3>1. bank' = [bank EXCEPT ![at] = Error]
      BY <1>1, <1>3, <2>3
    <3> QED BY <1>2, <2>3, <3>1 DEF TypeOK
  <2> QED BY <2>1, <2>2, <2>3
<1>6. Puts(at, i)
  BY <1>1, <1>2, <1>5, FillPuts
<1>7. LinksOK'
  BY <1>2, <1>5, <1>6, FillLinks
<1>8. /\ \A e \in cache' : e[2] \in Ids /\ e = <<e[1], e[2]>>
      /\ live' \subseteq Ids /\ DOMAIN source' = Ids
  BY <1>2, <1>6, PutTyped
<1>9. TypeOK'
  BY <1>2, <1>5, <1>8 DEF TypeOK, history
<1>10. NamesOK'
  BY <1>2 DEF NamesOK
<1> QED BY <1>2, <1>6, <1>7, <1>9, <1>10, PutOwned DEF VoicesLive, history

(***************************************************************************)
(* The song plays and ends.                                                *)
(***************************************************************************)
LEMMA QuietOwned ==
  ASSUME OwnedInv, Begin \/ NoteOnDefault \/ VoiceEnds \/ SongEnds \/ KillAll
  PROVE  OwnedInv'
<1>1. /\ TypeOK /\ pc' \in {"play", "fade", "end"}
      /\ UNCHANGED <<config, bankVars, default, heapVars, song, at, reload, commands, history>>
      /\ late \/ VoicesLive
  BY DEF OwnedInv, Begin, NoteOnDefault, VoiceEnds, SongEnds, KillAll
<1>2. voices' \subseteq Ids /\ (late' \/ VoicesLive')
  <2>1. CASE Begin \/ KillAll
    BY <2>1 DEF Begin, KillAll, VoicesLive
  <2>2. CASE NoteOnDefault
    BY <1>1, <2>2 DEF NoteOnDefault, VoicesLive, OwnedInv, DefaultOK, TypeOK, heapVars, history
  <2>3. CASE VoiceEnds
    BY <1>1, <2>3 DEF VoiceEnds, VoicesLive, TypeOK, heapVars, history
  <2>4. CASE SongEnds
    BY <1>1, <2>4 DEF SongEnds, VoicesLive, TypeOK, heapVars, history
  <2> QED BY <2>1, <2>2, <2>3, <2>4
<1>3. TypeOK'
  BY <1>1, <1>2 DEF TypeOK, bankVars, heapVars, history
<1> QED BY <1>1, <1>2, <1>3, Framed DEF history

LEMMA NoteOnOwned ==
  ASSUME OwnedInv, NEW x \in song, NoteOn(x)
  PROVE  OwnedInv'
<1>1. PICK i \in Ids \cup {None, Error} :
        /\ PlayMidiLoadInstrument(x, i)
        /\ voices' = IF i > 0 THEN voices \cup {i} ELSE voices
        /\ sound' = [sound EXCEPT ![x] = Sounds(i)]
  BY DEF NoteOn
<1>2. /\ pc = "play" /\ x \in Places /\ TypeOK /\ HeapOK /\ NamesOK /\ LinksOK
      /\ UNCHANGED <<config, default, song, pc, at, reload, commands, twice, bare, late>>
      /\ late \/ VoicesLive
  BY DEF NoteOn, OwnedInv, TypeOK
<1> DEFINE z == IF name[x] # Mute THEN x ELSE Zero(x)
<1>3. /\ Puts(z, i) /\ bank' \in [Places -> Ids \cup {None, Load, Error}]
      /\ name' = [name EXCEPT ![x] = IF name[x] = Mute /\ i > 0 THEN name[Zero(x)]
                                                                ELSE name[x]]
  BY <1>1, <1>2, PlaysPut
<1>4. NamesOK' /\ LinksOK' /\ defined' \in SUBSET Banks
  BY <1>1, <1>2, PlaysLinks
<1>5. /\ \A e \in cache' : e[2] \in Ids /\ e = <<e[1], e[2]>>
      /\ live' \subseteq Ids /\ DOMAIN source' = Ids /\ live \subseteq live'
      /\ i > 0 => i \in live'
  BY <1>2, <1>3, PutTyped
<1>6. name' \in [Places -> STRING]
  <2>1. \A n \in STRING : [name EXCEPT ![x] = n] \in [Places -> STRING]
    BY <1>2 DEF TypeOK
  <2>2. name[x] \in STRING /\ name[Zero(x)] \in STRING
    BY <1>2, PlaceParts DEF TypeOK
  <2> QED BY <1>3, <2>1, <2>2
<1>7. voices' \subseteq Ids /\ (late' \/ VoicesLive')
  BY <1>1, <1>2, <1>5 DEF TypeOK, VoicesLive
<1>8. TypeOK'
  BY <1>1, <1>2, <1>3, <1>4, <1>5, <1>6, <1>7 DEF TypeOK
<1> QED BY <1>2, <1>3, <1>4, <1>7, <1>8, PutOwned

\* free_instruments leaves the invariant, wherever the song goes on.
LEMMA FreeOwned ==
  ASSUME OwnedInv, NEW all \in BOOLEAN, FreeInstruments(all), config' = config,
         all => config.default = Mute /\ default = None,
         voices' = voices, song' = song, at' = at, sound' = sound,
         commands' \in 0 .. MaxCommands, {reload', bare', late'} \subseteq BOOLEAN,
         pc' \in {"idle", "fill", "loaded", "play", "fade", "end"},
         pc' = "fill" => name[at] # Mute /\ bare', late' \/ VoicesLive'
  PROVE  OwnedInv'
<1>1. TypeOK /\ HeapOK /\ DefaultOK /\ ~twice /\ twice \in BOOLEAN
  BY DEF OwnedInv, TypeOK
<1>2. /\ HeapOK' /\ ~twice' /\ default' = default /\ source' = source
      /\ bank' = [x \in Places |-> None] /\ UNCHANGED <<name, defined>>
      /\ default # None => default \in live' /\ ~IsFont(default)'
      /\ live' \subseteq live /\ cache' \subseteq cache
  BY <1>1, FreeOK
<1>3. DefaultOK'
  BY <1>1, <1>2 DEF DefaultOK, IsFont
<1>4. NamesOK' /\ LinksOK'
  BY <1>2 DEF OwnedInv, NamesOK, LinksOK, None, Error
<1>5. FillOK'
  BY <1>1, <1>2 DEF FillOK, TypeOK
<1>6. twice' = FALSE
  BY <1>2 DEF FreeInstruments
<1>7. TypeOK'
  BY <1>1, <1>2, <1>6 DEF TypeOK
<1> QED BY <1>2, <1>3, <1>4, <1>5, <1>7 DEF OwnedInv

LEMMA PlayEndOwned ==
  ASSUME OwnedInv, PlayEnd
  PROVE  OwnedInv'
<1>1. /\ TypeOK /\ pc' = "idle"
      /\ UNCHANGED <<config, voices, song, at, reload, commands, bare, late, sound>>
  BY DEF PlayEnd, OwnedInv
<1>2. VoicesLive'
  BY <1>1 DEF VoicesLive
<1>3. CASE FreeInstruments(FALSE)
  BY <1>1, <1>2, <1>3, FreeOwned DEF TypeOK
<1>4. CASE UNCHANGED <<bankVars, default, heapVars, twice>>
  <2>1. TypeOK'
    BY <1>1, <1>4 DEF TypeOK, bankVars, heapVars
  <2> QED BY <1>1, <1>2, <1>4, <2>1, Framed
<1> QED BY <1>3, <1>4 DEF PlayEnd

LEMMA SkipOwned ==
  ASSUME OwnedInv, Skip
  PROVE  OwnedInv'
<1>1. /\ TypeOK /\ pc' = "end" /\ commands' \in 0 .. MaxCommands
      /\ UNCHANGED <<config, name, defined, default, heapVars, voices, song, at, reload,
                     history>>
      /\ ClearMagic \/ UNCHANGED bank
  BY InstrumentsAssumption DEF Skip, Command, OwnedInv, TypeOK
<1>2. /\ \A x \in Places :
           bank'[x] = bank[x] \/ (bank[x] <= 0 /\ bank'[x] \in {None, Load})
      /\ bank' \in [Places -> Ids \cup {None, Load, Error}]
  <2>1. \A x \in Places : bank[x] \in Int /\ (bank[x] < 0 => bank[x] <= 0)
    BY <1>1, BankNumbers
  <2> QED BY <1>1, <2>1 DEF ClearMagic, TypeOK
<1>3. TypeOK'
  BY <1>1, <1>2 DEF TypeOK, heapVars, history
<1>4. /\ UNCHANGED <<config, name, defined, default, heapVars, twice>>
      /\ pc' \notin {"start", "default", "fill"} /\ (late' \/ VoicesLive')
  BY <1>1 DEF VoicesLive, history
<1> QED BY <1>2, <1>3, <1>4, Marks

LEMMA ChangeOwned ==
  ASSUME OwnedInv, Tidy(config), ChangeOutput
  PROVE  OwnedInv'
<1>1. /\ TypeOK /\ FreeInstruments(TRUE) /\ commands' \in 0 .. MaxCommands
      /\ UNCHANGED <<config, voices, song, at, sound>>
  <2>1. TypeOK /\ Command
    BY DEF ChangeOutput, OwnedInv
  <2>2. commands' \in 0 .. MaxCommands
    BY <2>1, InstrumentsAssumption DEF Command, TypeOK
  <2> QED BY <2>1, <2>2 DEF ChangeOutput
<1>3. config.default = Mute /\ default = None
  BY DEF ChangeOutput, OwnedInv, DefaultOK, Tidy
<1>2. /\ {reload', bare', late'} \subseteq BOOLEAN
      /\ pc' \in {"idle", "fill", "loaded", "fade", "end"}
      /\ pc' = "fill" => name[at] # Mute /\ bare'
      /\ late' \/ VoicesLive'
  BY <1>1 DEF ChangeOutput, Asked, TypeOK, VoicesLive
<1> QED BY <1>1, <1>2, <1>3, FreeOwned

(***************************************************************************)
(* The invariant holds.                                                    *)
(***************************************************************************)
LEMMA InitOwned ==
  ASSUME Init
  PROVE  OwnedInv
<1>1. config \in Configs /\ config.names \in [Places -> STRING]
      /\ config.fonts \subseteq {0, 1} \X Banks \X Progs
  BY InstrumentsAssumption DEF Init
<1>2. defined \in SUBSET Banks /\ NamesOK
  <2>1. \A x \in Places : x[1] \in Banks
    BY PlaceParts
  <2>2. \A f \in config.fonts : f[2] \in Banks
    BY <1>1
  <2>3. 0 \in Banks
    BY InstrumentsAssumption DEF Banks
  <2> QED BY <2>1, <2>2, <2>3 DEF Init, NamesOK
<1>3. Top \in Places /\ 0 \in 0 .. MaxCommands
  BY InstrumentsAssumption DEF Top, Places, Banks, Progs
<1>4. TypeOK
  BY <1>1, <1>2, <1>3 DEF Init, TypeOK
<1>5. HeapOK /\ LinksOK
  BY DEF Init, HeapOK, LinksOK, None, Error
<1> QED BY <1>2, <1>4, <1>5 DEF Init, OwnedInv, DefaultOK, FillOK, VoicesLive

LEMMA NextOwned ==
  ASSUME OwnedInv, \A c \in Configs : Tidy(c), [Next]_vars
  PROVE  OwnedInv'
<1>1. Tidy(config)
  BY DEF OwnedInv, TypeOK
<1>2. CASE UNCHANGED vars
  BY <1>2 DEF OwnedInv, TypeOK, HeapOK, DefaultOK, NamesOK, LinksOK, FillOK, VoicesLive,
         IsFont, Home, vars, bankVars, heapVars, history
<1>3. CASE ForceProgram \/ SetDefault
  BY <1>1, <1>3, ForceOwned, DefaultOwned
<1>4. CASE ReadSong \/ PassOver \/ FillUnnamed \/ FillNamed
  BY <1>1, <1>4, ReadOwned, PassOwned, FillUnnamedOwned, FillNamedOwned
<1>5. CASE Begin \/ NoteOnDefault \/ VoiceEnds \/ SongEnds \/ KillAll \/ PlayEnd
  BY <1>5, QuietOwned, PlayEndOwned
<1>6. CASE \E x \in song : NoteOn(x)
  BY <1>6, NoteOnOwned
<1>7. CASE Skip \/ ChangeOutput
  BY <1>1, <1>7, SkipOwned, ChangeOwned
<1> QED BY <1>2, <1>3, <1>4, <1>5, <1>6, <1>7 DEF Next

LEMMA OwnedHolds ==
  ASSUME OwnedInv
  PROVE  Owned
<1>1. ASSUME NEW i \in live PROVE i \in Pointed
  <2>1. CASE IsFont(i)
    <3>1. Home(i) \in Places /\ bank[Home(i)] = i /\ i > 0
      BY <2>1, BankNumbers DEF OwnedInv, HeapOK, TypeOK
    <3> QED BY <3>1 DEF Pointed
  <2>2. CASE ~IsFont(i)
    <3>1. <<source[i], i>> \in cache
      BY <2>2 DEF OwnedInv, HeapOK
    <3> QED BY <3>1 DEF Pointed
  <2> QED BY <2>1, <2>2
<1>2. ASSUME NEW i \in Pointed PROVE i \in live
  BY DEF Pointed, OwnedInv, HeapOK, DefaultOK
<1> QED BY <1>1, <1>2 DEF Owned, OwnedInv

-------------------------------------------------------------------------------
(***************************************************************************)
(* What a place sounds like.                                               *)
(***************************************************************************)
\* What is read for a place under the name the configuration gives it.
Own(x) ==
  IF InFont(0, x) THEN Font(0, x)
  ELSE IF config.names[x] \in config.patches THEN Patch(config.names[x])
  ELSE IF InFont(1, x) THEN Font(1, x)
  ELSE Nothing

\* What a place sounds like, in every song.
Expected(x) == Own(IF config.names[x] # Mute THEN x ELSE Zero(x))

SoundOK ==
  \A x \in Places :
    /\ bank[x] > 0 => source[bank[x]] = Expected(x)
    /\ bank[x] = Error /\ (name[x] # Mute \/ x[1] = 0) => Expected(x) = Nothing
    /\ sound[x] \in {Unheard, Expected(x)}

SoundInv == OwnedInv /\ SoundOK

\* Bank 0's name, copied to another bank, means the same there.
LEMMA FoundExpected ==
  ASSUME OwnedInv, Tidy(config), OneSound(config), NEW x \in Places,
         name[x] # Mute \/ x[1] = 0
  PROVE  Found(x) = Expected(x)
<1>1. /\ x = <<x[1], x[2]>> /\ x[2] \in Progs /\ Zero(x) \in Places
      /\ Zero(x) = <<0, x[2]>> /\ (x[1] = 0 => Zero(x) = x)
  BY PlaceParts DEF Zero
<1>2. CASE name[x] = config.names[x]
  BY <1>1, <1>2 DEF Found, Expected, Own
<1>3. CASE /\ x[1] # 0 /\ config.names[x] = Mute /\ name[x] # Mute
           /\ name[x] = config.names[Zero(x)]
  <2>1. ASSUME NEW o PROVE ~InFont(o, x)
    BY <1>1, <1>3 DEF InFont, Tidy
  <2>2. /\ ~InFont(0, Zero(x))
        /\ InFont(1, Zero(x)) => config.names[Zero(x)] \in config.patches
    BY <1>1, <1>3 DEF InFont, OneSound
  <2>3. Expected(x) = Own(Zero(x))
    BY <1>3 DEF Expected
  <2> QED BY <1>3, <2>1, <2>2, <2>3 DEF Found, Own
<1> QED BY <1>2, <1>3 DEF OwnedInv, NamesOK

\* An unnamed place is expected to sound like bank 0's.
LEMMA UnnamedExpected ==
  ASSUME OwnedInv, NEW x \in Places, name[x] = Mute
  PROVE  Expected(x) = Expected(Zero(x))
<1>1. config.names[x] = Mute /\ Zero(Zero(x)) = Zero(x)
  BY PlaceParts DEF OwnedInv, NamesOK
<1> QED BY <1>1 DEF Expected

LEMMA PutsSound ==
  ASSUME SoundInv, Tidy(config), OneSound(config), NEW z, NEW i, Puts(z, i),
         i > 0 => name[z] # Mute \/ z[1] = 0,
         \A w \in Places \ {z} :
           bank'[w] = bank[w] \/ bank'[w] <= 0 \/ (bank'[w] = i /\ Expected(w) = Expected(z))
  PROVE  /\ i > 0 => source'[i] = Expected(z)
         /\ \A x \in Places : bank'[x] > 0 => source'[bank'[x]] = Expected(x)
<1>1. /\ z \in Places /\ i \in Int /\ \A j \in live : source'[j] = source[j]
      /\ \A x \in Places : bank[x] \in Int /\ bank'[x] \in Int
      /\ \A x \in Places : bank[x] > 0 => bank[x] \in live
  BY PutsHeap, BankNumbers DEF Puts, SoundInv, OwnedInv, HeapOK
<1>2. ASSUME i > 0 PROVE source'[i] = Expected(z)
  <2>1. CASE LoadInstrument(z, i)
    <3>1. i # None
      BY <1>2 DEF None
    <3>2. source'[i] = Found(z)
      BY <1>1, <2>1, <3>1, Loads DEF SoundInv, OwnedInv
    <3> QED BY <1>1, <1>2, <3>2, FoundExpected DEF SoundInv
  <2>2. CASE i = bank[z]
    BY <1>1, <1>2, <2>2 DEF SoundInv, SoundOK
  <2> QED BY <2>1, <2>2 DEF Puts
<1>3. ASSUME NEW x \in Places, bank'[x] > 0
      PROVE  source'[bank'[x]] = Expected(x)
  <2>1. CASE x = z
    <3>1. i > 0 /\ bank'[z] = i
      BY <1>1, <1>3, <2>1 DEF Puts
    <3> QED BY <1>2, <2>1, <3>1
  <2>2. CASE bank'[x] = bank[x]
    BY <1>1, <1>3, <2>2 DEF SoundInv, SoundOK
  <2>3. CASE bank'[x] = i /\ Expected(x) = Expected(z)
    BY <1>2, <1>3, <2>3
  <2>4. ~(bank'[x] <= 0)
    BY <1>1, <1>3
  <2> QED BY <2>1, <2>2, <2>3, <2>4
<1> QED BY <1>2, <1>3

\* A step that loads nothing.
LEMMA SoundFrame ==
  ASSUME SoundInv, UNCHANGED <<config, name, sound>>,
         \A x \in Places : bank'[x] > 0 =>
           bank'[x] = bank[x] /\ source'[bank[x]] = source[bank[x]],
         \A x \in Places : bank'[x] = Error => bank[x] = Error
  PROVE  SoundOK' /\ sound' = sound
<1>1. \A x \in Places : Expected(x)' = Expected(x)
  BY DEF Expected, Own, InFont
<1> QED BY <1>1 DEF SoundInv, SoundOK

LEMMA QuietSound ==
  ASSUME SoundInv,
         SetDefault \/ PassOver \/ Begin \/ NoteOnDefault \/ VoiceEnds \/ SongEnds \/ KillAll
  PROVE  SoundOK' /\ sound' = sound
<1>1. /\ UNCHANGED <<config, name, sound, bank>>
      /\ \A x \in Places : bank[x] > 0 => bank[x] \in live
  BY DEF SoundInv, OwnedInv, HeapOK, SetDefault, PassOver, Begin, NoteOnDefault, VoiceEnds,
         SongEnds, KillAll, bankVars, history
<1>2. \A i \in live : source'[i] = source[i]
  <2>1. CASE source' = source
    BY <2>1
  <2>2. CASE RenewDefault(live, cache)
    BY <2>2 DEF RenewDefault, Fresh, SoundInv, OwnedInv, TypeOK
  <2> QED BY <2>1, <2>2 DEF SetDefault, PassOver, Begin, NoteOnDefault, VoiceEnds,
              SongEnds, KillAll, heapVars
<1> QED BY <1>1, <1>2, SoundFrame

LEMMA MarkSound ==
  ASSUME SoundInv, ReadSong \/ Skip
  PROVE  SoundOK' /\ sound' = sound
<1>1. UNCHANGED <<config, name, sound, source>>
  BY DEF ReadSong, Skip, heapVars, history
<1>2. \A x \in Places : bank'[x] \in {bank[x], None, Load}
  BY DEF ReadSong, Skip, ClearMagic, SoundInv, OwnedInv, TypeOK
<1> QED BY <1>1, <1>2, SoundFrame DEF None, Load, Error

LEMMA FreeSound ==
  ASSUME SoundInv, Tidy(config), PlayEnd \/ ChangeOutput
  PROVE  SoundOK' /\ sound' = sound
<1>1. UNCHANGED <<config, name, sound>>
  BY DEF PlayEnd, ChangeOutput, FreeInstruments, bankVars
<1>2. \/ bank' = [x \in Places |-> None]
      \/ UNCHANGED <<bank, source>>
  BY DEF PlayEnd, ChangeOutput, FreeInstruments, bankVars, heapVars
<1> QED BY <1>1, <1>2, SoundFrame DEF None, Error

LEMMA FillSound ==
  ASSUME SoundInv, Tidy(config), OneSound(config), FillNamed \/ FillUnnamed
  PROVE  SoundOK' /\ sound' = sound
<1>1. /\ OwnedInv /\ TypeOK /\ HeapOK /\ NamesOK /\ at \in Places
      /\ UNCHANGED <<config, name, defined, sound>>
      /\ bank[at] \in {None, Load} /\ at[1] \in defined
  BY DEF SoundInv, OwnedInv, TypeOK, NamesOK, FillOK, FillNamed, FillUnnamed, Marked, history
<1>2. PICK i \in Ids \cup {None} :
        /\ LoadInstrument(at, i)
        /\ bank' \in [Places -> Ids \cup {None, Load, Error}]
        /\ i # None => bank'[at] = i
        /\ i = None => bank'[at] \in {None, Error}
        /\ i # None => name[at] # Mute \/ at[1] = 0
        /\ bank'[at] = Error => i = None /\ (name[at] = Mute => at[1] = 0)
        /\ \A w \in Places \ {at} :
             bank'[w] = bank[w] \/ (bank[w] = None /\ bank'[w] = Load)
  <2>1. CASE FillNamed
    <3>1. PICK i \in Ids \cup {None} :
            LoadInstrument(at, i) /\ bank' = [bank EXCEPT ![at] = i]
      BY <2>1 DEF FillNamed
    <3>2. name[at] # Mute
      BY <1>1, <2>1 DEF FillNamed, FillOK, OwnedInv
    <3>3. i # Error
      BY InstrumentsAssumption DEF Error, None
    <3> QED BY <1>1, <3>1, <3>2, <3>3 DEF TypeOK
  <2>2. CASE FillUnnamed
    <3> DEFINE y == Zero(at)
    <3>1. PICK i \in Ids \cup {None} :
            /\ LoadInstrument(at, i)
            /\ bank' = CASE i > 0 -> [bank EXCEPT ![at] = i]
                         [] i = None /\ at[1] # 0 ->
                              [bank EXCEPT ![at] = None,
                                           ![y] = IF bank[y] = None THEN Load ELSE bank[y]]
                         [] OTHER -> [bank EXCEPT ![at] = Error]
      BY <2>2 DEF FillUnnamed
    <3>2. y \in Places /\ (at[1] # 0 => at # y) /\ (i > 0 <=> i # None)
      BY <1>1, PlaceParts, InstrumentsAssumption DEF None
    <3>3. at[1] # 0 => i = None
      BY <1>1, <2>2, <3>1, UnnamedFound, Loads DEF FillUnnamed
    <3>4. CASE i # None
      <4>1. bank' = [bank EXCEPT ![at] = i]
        BY <3>1, <3>2, <3>4
      <4>2. i # Error /\ at[1] = 0
        BY <3>3, <3>4, InstrumentsAssumption DEF Error, None
      <4> QED BY <1>1, <3>1, <3>4, <4>1, <4>2 DEF TypeOK
    <3>5. CASE i = None /\ at[1] # 0
      <4>1. bank' = [bank EXCEPT ![at] = None,
                                 ![y] = IF bank[y] = None THEN Load ELSE bank[y]]
        BY <3>1, <3>2, <3>5
      <4>2. /\ bank' \in [Places -> Ids \cup {None, Load, Error}]
            /\ bank'[at] = None
            /\ \A w \in Places \ {at} :
                 bank'[w] = bank[w] \/ (bank[w] = None /\ bank'[w] = Load)
        BY <1>1, <3>2, <3>5, <4>1 DEF TypeOK
      <4> QED BY <3>1, <3>5, <4>2 DEF None, Error
    <3>6. CASE i = None /\ at[1] = 0
      <4>1. bank' = [bank EXCEPT ![at] = Error]
        BY <3>1, <3>2, <3>6
      <4> QED BY <1>1, <3>1, <3>6, <4>1 DEF TypeOK
    <3> QED BY <3>4, <3>5, <3>6
  <2> QED BY <2>1, <2>2
<1>3. Puts(at, i)
  BY <1>1, <1>2, FillPuts
<1>4. i > 0 => i # None
  BY DEF None
<1>5. \A w \in Places \ {at} : bank'[w] = bank[w] \/ bank'[w] <= 0
  BY <1>2 DEF Load
<1>6. \A x \in Places : bank'[x] > 0 => source'[bank'[x]] = Expected(x)
  BY <1>2, <1>3, <1>4, <1>5, PutsSound
<1>7. ASSUME NEW x \in Places, bank'[x] = Error, name[x] # Mute \/ x[1] = 0
      PROVE  Expected(x) = Nothing
  <2>1. CASE x = at
    <3>1. Found(x) = Nothing
      BY <1>1, <1>2, <1>7, <2>1, Loads
    <3> QED BY <1>1, <1>7, <3>1, FoundExpected
  <2>2. CASE x # at
    <3>1. bank[x] = Error
      BY <1>2, <1>7, <2>2 DEF Load, Error
    <3> QED BY <1>7, <3>1 DEF SoundInv, SoundOK
  <2> QED BY <2>1, <2>2
<1>8. \A x \in Places : Expected(x)' = Expected(x)
  BY <1>1 DEF Expected, Own, InFont
<1> QED BY <1>1, <1>6, <1>7, <1>8 DEF SoundInv, SoundOK

\* play_midi_load_instrument returns what the place is expected to sound like.
LEMMA PlaysSound ==
  ASSUME SoundInv, Tidy(config), OneSound(config), config' = config, NEW x \in Places,
         NEW i \in Ids \cup {None, Error}, PlayMidiLoadInstrument(x, i)
  PROVE  /\ \A w \in Places :
              /\ bank'[w] > 0 => source'[bank'[w]] = Expected(w)'
              /\ bank'[w] = Error /\ (name'[w] # Mute \/ w[1] = 0) => Expected(w)' = Nothing
         /\ Expected(x) = IF i > 0 THEN source'[i] ELSE Nothing
<1> DEFINE z == IF name[x] # Mute THEN x ELSE Zero(x)
<1>1. /\ OwnedInv /\ TypeOK /\ HeapOK /\ NamesOK /\ LinksOK /\ z \in Places
      /\ Expected(x) = Expected(z)
      /\ name[z] # Mute \/ z[1] = 0
  BY PlaceParts, UnnamedExpected DEF SoundInv, OwnedInv
<1>2. /\ Puts(z, i)
      /\ i <= 0 => bank'[z] = Error
      /\ name' = [name EXCEPT ![x] = IF name[x] = Mute /\ i > 0 THEN name[Zero(x)]
                                                                ELSE name[x]]
      /\ name[x] = Mute /\ i > 0 => bank'[x] = bank'[Zero(x)]
      /\ \A w \in Places : w = z \/ bank'[w] = bank[w] \/ (w = x /\ name[x] = Mute /\ i > 0)
  BY <1>1, PlaysPut
<1>3. i > 0 => bank'[z] = i /\ bank'[x] = i
  BY <1>2 DEF Puts
<1>4. /\ i > 0 => source'[i] = Expected(z)
      /\ \A w \in Places : bank'[w] > 0 => source'[bank'[w]] = Expected(w)
  BY <1>1, <1>2, <1>3, PutsSound
<1>5. ASSUME i <= 0 PROVE Expected(z) = Nothing
  <2>1. LoadIfMissing(z, i)
    BY DEF PlayMidiLoadInstrument
  <2>2. i = None \/ i = Error
    BY <1>5, BankNumbers, <1>1
  <2>3. CASE bank[z] \in {None, Load}
    <3>1. LoadInstrument(z, i)
      BY <2>1, <2>3 DEF LoadIfMissing
    <3>2. i \in Ids \cup {None}
      BY <1>1, <3>1, Loads
    <3>3. i = None
      BY <2>2, <3>2, InstrumentsAssumption DEF None, Error
    <3>4. Found(z) = Nothing
      BY <1>1, <3>1, <3>3, Loads
    <3> QED BY <1>1, <3>4, FoundExpected
  <2>4. CASE bank[z] \notin {None, Load}
    <3>1. bank[z] = Error
      BY <2>1, <2>2, <2>4 DEF LoadIfMissing
    <3> QED BY <1>1, <3>1 DEF SoundInv, SoundOK
  <2> QED BY <2>3, <2>4
<1>6. \A w \in Places : Expected(w)' = Expected(w)
  BY DEF Expected, Own, InFont
<1>7. ASSUME NEW w \in Places, bank'[w] = Error, name'[w] # Mute \/ w[1] = 0
      PROVE  Expected(w) = Nothing
  <2>1. i \in Int /\ ~(Error > 0)
    BY <1>1, BankNumbers DEF None, Error
  <2>2. CASE w = z
    BY <1>3, <1>5, <1>7, <2>1, <2>2
  <2>3. CASE w # z
    <3>1. bank'[w] = bank[w] /\ (w = x => i <= 0)
      BY <1>2, <1>3, <1>7, <2>1, <2>3
    <3>2. name'[w] = name[w]
      BY <1>1, <1>2, <3>1, <2>1 DEF TypeOK
    <3> QED BY <1>7, <3>1, <3>2 DEF SoundInv, SoundOK
  <2> QED BY <2>2, <2>3
<1>8. i \in Int
  BY <1>1, BankNumbers DEF None, Error
<1> QED BY <1>1, <1>4, <1>5, <1>6, <1>7, <1>8

LEMMA NoteSound ==
  ASSUME SoundInv, Tidy(config), OneSound(config), NEW x \in song, NoteOn(x)
  PROVE  SoundOK' /\ \A w \in Places : sound'[w] \in {sound[w], Expected(w)}
<1>1. PICK i \in Ids \cup {None, Error} :
        PlayMidiLoadInstrument(x, i) /\ sound' = [sound EXCEPT ![x] = Sounds(i)]
  BY DEF NoteOn
<1>2. x \in Places /\ DOMAIN sound = Places /\ config' = config
  BY DEF NoteOn, SoundInv, OwnedInv, TypeOK
<1>3. /\ \A w \in Places :
           /\ bank'[w] > 0 => source'[bank'[w]] = Expected(w)'
           /\ bank'[w] = Error /\ (name'[w] # Mute \/ w[1] = 0) => Expected(w)' = Nothing
      /\ Expected(x) = Sounds(i)
  BY <1>1, <1>2, PlaysSound DEF Sounds
<1>4. \A w \in Places : sound'[w] = IF w = x THEN Expected(x) ELSE sound[w]
  BY <1>1, <1>2, <1>3
<1>5. \A w \in Places : Expected(w)' = Expected(w)
  BY <1>2 DEF Expected, Own, InFont
<1> QED BY <1>3, <1>4, <1>5 DEF SoundInv, SoundOK

LEMMA ForceSound ==
  ASSUME SoundInv, Tidy(config), OneSound(config), ForceProgram
  PROVE  SoundOK' /\ sound' = sound
<1>1. PICK p \in config.force, i \in Ids \cup {None} : PlayMidiLoadInstrument(<<0, p>>, i)
  BY DEF ForceProgram
<1>2. config' = config /\ sound' = sound
  BY DEF ForceProgram, history
<1>3. <<0, p>> \in Places
  BY InstrumentsAssumption DEF SoundInv, OwnedInv, TypeOK, Places, Banks
<1>4. \A w \in Places :
        /\ bank'[w] > 0 => source'[bank'[w]] = Expected(w)'
        /\ bank'[w] = Error /\ (name'[w] # Mute \/ w[1] = 0) => Expected(w)' = Nothing
  BY <1>1, <1>2, <1>3, PlaysSound
<1>5. \A w \in Places : Expected(w)' = Expected(w)
  BY <1>2 DEF Expected, Own, InFont
<1> QED BY <1>2, <1>4, <1>5 DEF SoundInv, SoundOK

LEMMA InitSound ==
  ASSUME Init
  PROVE  SoundInv
<1>1. SoundOK
  BY DEF Init, SoundOK, None, Error
<1> QED BY <1>1, InitOwned DEF SoundInv

LEMMA NextSound ==
  ASSUME SoundInv, \A c \in Configs : Tidy(c) /\ OneSound(c), [Next]_vars
  PROVE  SoundInv' /\ \A w \in Places : sound'[w] \in {sound[w], Expected(w)}
<1>1. Tidy(config) /\ OneSound(config) /\ OwnedInv'
  BY NextOwned DEF SoundInv, OwnedInv, TypeOK
<1>2. CASE UNCHANGED vars
  BY <1>1, <1>2, SoundFrame DEF SoundInv, vars, bankVars, heapVars, history
<1>3. CASE SetDefault \/ PassOver \/ Begin \/ NoteOnDefault \/ VoiceEnds \/ SongEnds \/ KillAll
  BY <1>1, <1>3, QuietSound DEF SoundInv
<1>4. CASE ReadSong \/ Skip \/ PlayEnd \/ ChangeOutput
  BY <1>1, <1>4, MarkSound, FreeSound DEF SoundInv
<1>5. CASE FillUnnamed \/ FillNamed \/ ForceProgram
  BY <1>1, <1>5, FillSound, ForceSound DEF SoundInv
<1>6. CASE \E x \in song : NoteOn(x)
  BY <1>1, <1>6, NoteSound DEF SoundInv
<1> QED BY <1>2, <1>3, <1>4, <1>5, <1>6 DEF Next

-------------------------------------------------------------------------------
(***************************************************************************)
(* What is loaded before a song is played.                                 *)
(***************************************************************************)
\* Nothing is read for the place when it is played.
Settled(z) == bank[z] \notin {None, Load} \/ Found(z) = Nothing

\* load_missing_instruments has not passed the place.
Ahead(z) == z[1] < at[1] \/ (z[1] = at[1] /\ z[2] >= at[2])

Coming(z) == pc = "load" /\ bank[z] = Load /\ z[1] \in defined /\ Ahead(z)

\* Where a place without a patch name is marked, fill_bank marks bank 0's.
Prepared(x) ==
  IF name[x] # Mute THEN Settled(x) \/ Coming(x)
  ELSE Settled(Zero(x)) \/ Coming(Zero(x)) \/ Coming(x)

\* The song is to be played without reading an instrument.
Loading == pc \in {"load", "loaded", "play"} /\ ~config.realtime /\ ~bare

SongReady == Loading => \A x \in song : Prepared(x)

ReadyInv == OwnedInv /\ SongReady

LEMMA AheadKept ==
  ASSUME at \in Places, NEW z \in Places, Ahead(z), z # at, Advance
  PROVE  pc' = "load" /\ Ahead(z)'
<1>1. /\ at[1] \in Nat /\ at[2] \in Nat /\ at[2] <= MaxProg /\ at = <<at[1], at[2]>>
      /\ z[1] \in Nat /\ z[2] \in Nat /\ z[2] <= MaxProg /\ z = <<z[1], z[2]>>
      /\ MaxProg \in Nat
  BY PlaceParts, InstrumentsAssumption DEF Banks, Progs
<1>2. CASE z[1] < at[1]
  <2>1. at[1] # 0 /\ at # <<0, MaxProg>>
    BY <1>1, <1>2
  <2>2. pc' = "load" /\ (at' = <<at[1], at[2] + 1>> \/ at' = <<at[1] - 1, 0>>)
    BY <2>1 DEF Advance
  <2> QED BY <1>1, <1>2, <2>2 DEF Ahead
<1>3. CASE z[1] = at[1] /\ z[2] >= at[2]
  <2>1. z[2] # at[2]
    BY <1>1, <1>3
  <2>2. at[2] # MaxProg /\ z[2] >= at[2] + 1
    BY <1>1, <1>3, <2>1
  <2>3. pc' = "load" /\ at' = <<at[1], at[2] + 1>>
    BY <1>1, <2>2 DEF Advance
  <2> QED BY <1>3, <2>2, <2>3 DEF Ahead
<1> QED BY <1>2, <1>3 DEF Ahead

LEMMA FirstAhead ==
  ASSUME NEW z \in Places, at' = Top
  PROVE  Ahead(z)'
<1>1. z[1] \in Nat /\ z[1] <= MaxBank /\ z[2] \in Nat /\ MaxBank \in Nat
  BY PlaceParts, InstrumentsAssumption DEF Banks, Progs
<1> QED BY <1>1 DEF Ahead, Top

\* A step of fill_bank at a place: the other marks stay.
LEMMA FillReady ==
  ASSUME ReadyInv, NEW z, z = at, UNCHANGED <<config, name, defined, song, bare>>, Advance,
         pc = "load",
         \A w \in Places \ {z} :
           bank'[w] = bank[w] \/ (bank[w] = None /\ bank'[w] = Load),
         name[z] # Mute \/ z[1] = 0 \/ ~Marked => Settled(z)' \/ ~Coming(z),
         name[z] = Mute /\ z[1] # 0 /\ Marked =>
           bank'[Zero(z)] # None /\ Found(z) = Nothing,
         Settled(z) => Settled(z)'
  PROVE  SongReady'
<1>1. /\ at \in Places /\ NamesOK /\ SongReady /\ song \subseteq Places
      /\ \A w \in Places : Found(w)' = Found(w)
      /\ \A w \in Places : Zero(w) \in Places /\ Zero(w)[1] = 0 /\ (w[1] = 0 => Zero(w) = w)
      /\ None # Load
  BY PlaceParts DEF ReadyInv, OwnedInv, TypeOK, Found, InFont, None, Load
<1>2. ASSUME NEW w \in Places, Settled(w) PROVE Settled(w)'
  BY <1>1, <1>2 DEF Settled, None, Load
<1>3. ASSUME NEW w \in Places \ {z}, Coming(w) PROVE Coming(w)'
  <2>1. bank'[w] = Load /\ w[1] \in defined' /\ Ahead(w)
    BY <1>1, <1>3 DEF Coming
  <2> QED BY <1>1, <2>1, AheadKept DEF Coming
<1>4. ASSUME NEW x \in song, Prepared(x) PROVE Prepared(x)'
  <2>1. CASE name[x] # Mute
    <3>1. x = z /\ Coming(z) => Settled(z)'
      BY <2>1
    <3> QED BY <1>1, <1>2, <1>3, <1>4, <2>1, <3>1 DEF Prepared
  <2>2. CASE name[x] = Mute /\ (Settled(Zero(x)) \/ Coming(Zero(x)))
    <3>1. Zero(x) = z /\ Coming(z) => Settled(z)'
      BY <1>1
    <3> QED BY <1>1, <1>2, <1>3, <2>2, <3>1 DEF Prepared
  <2>3. CASE name[x] = Mute /\ Coming(x)
    <3>1. CASE x # z
      BY <1>1, <1>3, <2>3, <3>1 DEF Prepared
    <3>2. CASE x = z /\ x[1] = 0
      BY <1>1, <2>3, <3>2 DEF Prepared
    <3>3. CASE x = z /\ x[1] # 0
      <4> DEFINE y == Zero(z)
      <4>1. Marked
        BY <2>3, <3>3 DEF Coming, Marked
      <4>2. bank'[y] # None /\ y # z /\ y \in Places
        BY <1>1, <2>3, <3>3, <4>1
      <4>3. Ahead(y)
        <5>1. at[1] \in Nat /\ y[1] = 0
          BY <1>1, PlaceParts DEF Banks
        <5> QED BY <3>3, <5>1 DEF Ahead
      <4>4. pc' = "load" /\ Ahead(y)'
        BY <1>1, <4>2, <4>3, AheadKept
      <4>5. y[1] \in defined'
        BY <1>1, <4>2 DEF NamesOK
      <4>6. Settled(y)' \/ Coming(y)'
        BY <4>2, <4>4, <4>5 DEF Settled, Coming
      <4> QED BY <2>3, <3>3, <4>6 DEF Prepared
    <3> QED BY <3>1, <3>2, <3>3
  <2> QED BY <1>4, <2>1, <2>2, <2>3 DEF Prepared
<1>5. Loading' => Loading
  BY DEF Loading
<1> QED BY <1>1, <1>4, <1>5 DEF SongReady

LEMMA ReadReady ==
  ASSUME ReadyInv, ReadSong
  PROVE  SongReady'
<1>1. /\ NamesOK /\ LinksOK /\ song' \subseteq Places
      /\ UNCHANGED <<config, name, defined>> /\ at' = Top
      /\ pc' = IF config.realtime THEN "loaded" ELSE "load"
      /\ \A w \in Places : Found(w)' = Found(w)
      /\ \A w \in Places : Zero(w) \in Places /\ Zero(w)[1] = 0 /\ (w[1] = 0 => Zero(w) = w)
      /\ \A w \in Places : bank[w] \in Int
      /\ None # Load /\ None # Error /\ ~(None > 0) /\ ~(Load > 0)
  BY PlaceParts, BankNumbers, InstrumentsAssumption
     DEF ReadSong, ReadyInv, OwnedInv, TypeOK, Found, InFont, None, Load, Error
<1>2. \A w \in Places :
        bank'[w] = IF w \in {Needed(v) : v \in song'} /\ bank[w] = None THEN Load ELSE bank[w]
  BY DEF ReadSong
<1>3. SUFFICES ASSUME Loading', NEW x \in song' PROVE Prepared(x)'
  BY DEF SongReady
<1>4. pc' = "load" /\ x \in Places
  BY <1>1, <1>3 DEF Loading
<1>5. ASSUME NEW w \in Places, w[1] \in defined, bank'[w] = Load PROVE Coming(w)'
  BY <1>1, <1>4, <1>5, FirstAhead DEF Coming
<1>6. ASSUME x[1] \in defined PROVE bank'[x] # None /\ (bank'[x] = Load \/ bank'[x] = bank[x])
  BY <1>1, <1>2, <1>3, <1>4, <1>6 DEF Needed
<1>7. CASE name[x] # Mute
  <2>1. x[1] \in defined
    BY <1>1, <1>4, <1>7 DEF NamesOK
  <2> QED BY <1>1, <1>4, <1>5, <1>6, <1>7, <2>1 DEF Prepared, Settled
<1>8. CASE name[x] = Mute /\ x[1] \notin defined
  <2> DEFINE y == Zero(x)
  <2>1. y \in Places /\ y[1] \in defined /\ bank'[y] # None
    BY <1>1, <1>2, <1>3, <1>4, <1>8 DEF Needed, NamesOK
  <2>2. Settled(y)' \/ Coming(y)'
    BY <1>5, <2>1 DEF Settled
  <2> QED BY <1>1, <1>8, <2>2 DEF Prepared
<1>9. CASE name[x] = Mute /\ x[1] \in defined
  <2> DEFINE y == Zero(x)
  <2>1. CASE bank'[x] = Load
    BY <1>1, <1>4, <1>5, <1>9, <2>1 DEF Prepared
  <2>2. CASE bank'[x] # Load /\ x[1] = 0
    <3>1. Settled(x)' /\ y = x
      BY <1>1, <1>4, <1>6, <1>9, <2>2 DEF Settled
    <3> QED BY <1>1, <1>9, <3>1 DEF Prepared
  <2>3. CASE bank'[x] # Load /\ x[1] # 0
    <3>1. bank'[x] = bank[x] /\ bank[x] \notin {None, Load, Error}
      BY <1>1, <1>4, <1>6, <1>9, <2>3 DEF LinksOK
    <3>2. bank[x] > 0
      BY <1>4, <3>1, InstrumentsAssumption DEF ReadyInv, OwnedInv, TypeOK, None
    <3>3. bank'[y] = bank[x]
      BY <1>1, <1>2, <1>4, <1>9, <2>3, <3>2 DEF LinksOK
    <3>4. Settled(y)'
      BY <3>1, <3>3 DEF Settled
    <3> QED BY <1>1, <1>9, <3>4 DEF Prepared
  <2> QED BY <2>1, <2>2, <2>3
<1> QED BY <1>7, <1>8, <1>9

LEMMA PassReady ==
  ASSUME ReadyInv, PassOver
  PROVE  SongReady'
<1>1. /\ UNCHANGED <<config, name, defined, song, bare, bank>> /\ Advance /\ pc = "load"
      /\ ~Marked
  BY DEF PassOver, bankVars, history
<1>2. PICK z : z = at
  OBVIOUS
<1>3. ~Coming(z)
  BY <1>1, <1>2 DEF Coming, Marked
<1>4. Settled(z) => Settled(z)'
  BY <1>1 DEF Settled, Found, InFont
<1> QED BY <1>1, <1>2, <1>3, <1>4, FillReady

LEMMA NamedReady ==
  ASSUME ReadyInv, FillNamed
  PROVE  SongReady'
<1>1. CASE pc = "fill"
  <2>1. bare /\ bare' = bare
    BY <1>1 DEF FillNamed, ReadyInv, OwnedInv, FillOK, history
  <2> QED BY <2>1 DEF SongReady, Loading
<1>2. CASE pc = "load" /\ Marked /\ name[at] # Mute
  <2>1. PICK z : z = at
    OBVIOUS
  <2>2. /\ UNCHANGED <<config, name, defined, song, bare>> /\ Advance
        /\ z \in Places /\ TypeOK /\ HeapOK
    BY <2>1 DEF FillNamed, ReadyInv, OwnedInv, TypeOK, history
  <2>3. PICK i \in Ids \cup {None} :
          LoadInstrument(z, i) /\ bank' = [bank EXCEPT ![z] = i]
    BY <2>1 DEF FillNamed
  <2>4. i = None => Found(z) = Nothing
    BY <2>2, <2>3, Loads
  <2>5. bank'[z] = i /\ \A w \in Places \ {z} : bank'[w] = bank[w]
    BY <2>2, <2>3 DEF TypeOK
  <2>6. Settled(z)'
    <3>1. i # Load
      BY InstrumentsAssumption DEF None, Load
    <3>2. Found(z)' = Found(z)
      BY <2>2 DEF Found, InFont
    <3> QED BY <2>4, <2>5, <3>1, <3>2 DEF Settled
  <2> QED BY <1>2, <2>1, <2>2, <2>5, <2>6, FillReady
<1> QED BY <1>1, <1>2 DEF FillNamed

LEMMA UnnamedReady ==
  ASSUME ReadyInv, Tidy(config), FillUnnamed
  PROVE  SongReady'
<1>1. PICK z : z = at
  OBVIOUS
<1> DEFINE y == Zero(z)
<1>2. /\ UNCHANGED <<config, name, defined, song, bare>> /\ Advance /\ pc = "load"
      /\ z \in Places /\ TypeOK /\ HeapOK /\ OwnedInv
      /\ name[z] = Mute /\ bank[z] = Load
  BY <1>1 DEF FillUnnamed, Marked, ReadyInv, OwnedInv, TypeOK, history
<1>3. PICK i \in Ids \cup {None} :
        /\ LoadInstrument(z, i)
        /\ bank' = CASE i > 0 -> [bank EXCEPT ![z] = i]
                     [] i = None /\ z[1] # 0 ->
                          [bank EXCEPT ![z] = None,
                                       ![y] = IF bank[y] = None THEN Load ELSE bank[y]]
                     [] OTHER -> [bank EXCEPT ![z] = Error]
  BY <1>1 DEF FillUnnamed
<1>4. /\ y \in Places /\ (z[1] # 0 => z # y) /\ (i > 0 <=> i # None)
      /\ Found(z)' = Found(z)
  BY <1>2, PlaceParts, InstrumentsAssumption DEF None, Found, InFont
<1>5. z[1] # 0 => Found(z) = Nothing /\ i = None
  BY <1>2, <1>3, UnnamedFound, Loads
<1>6. CASE z[1] # 0
  <2>1. bank' = [bank EXCEPT ![z] = None,
                             ![y] = IF bank[y] = None THEN Load ELSE bank[y]]
    BY <1>3, <1>4, <1>5, <1>6
  <2>2. /\ \A w \in Places \ {z} :
             bank'[w] = bank[w] \/ (bank[w] = None /\ bank'[w] = Load)
        /\ bank'[y] # None
    BY <1>2, <1>4, <1>6, <2>1 DEF TypeOK, None, Load
  <2>3. Settled(z)'
    BY <1>4, <1>5, <1>6 DEF Settled
  <2> QED BY <1>1, <1>2, <1>5, <1>6, <2>2, <2>3, FillReady
<1>7. CASE z[1] = 0
  <2>1. /\ \A w \in Places \ {z} : bank'[w] = bank[w]
        /\ bank'[z] \in {i, Error} /\ bank'[z] # None
    <3>1. CASE i # None
      <4>1. bank' = [bank EXCEPT ![z] = i]
        BY <1>3, <1>4, <3>1
      <4> QED BY <1>2, <3>1, <4>1 DEF TypeOK
    <3>2. CASE i = None
      <4>1. bank' = [bank EXCEPT ![z] = Error]
        BY <1>3, <1>4, <1>7, <3>2
      <4> QED BY <1>2, <4>1 DEF TypeOK, None, Error
    <3> QED BY <3>1, <3>2
  <2>2. i # Load /\ Error # Load
    BY InstrumentsAssumption DEF None, Load, Error
  <2>3. Settled(z)'
    BY <2>1, <2>2 DEF Settled
  <2> QED BY <1>1, <1>2, <1>7, <2>1, <2>3, FillReady
<1> QED BY <1>6, <1>7

\* What a settled place plays is there: nothing is read.
LEMMA NoteReady ==
  ASSUME ReadyInv, NEW x \in song, NoteOn(x)
  PROVE  SongReady' /\ (Loading => live' = live)
<1>1. PICK i \in Ids \cup {None, Error} : PlayMidiLoadInstrument(x, i)
  BY DEF NoteOn
<1>0. PICK z : z = IF name[x] # Mute THEN x ELSE Zero(x)
  OBVIOUS
<1>2. /\ pc = "play" /\ UNCHANGED <<config, song, pc, bare>> /\ song \subseteq Places
      /\ x \in Places /\ z \in Places /\ OwnedInv /\ TypeOK /\ HeapOK /\ NamesOK /\ LinksOK
      /\ \A w \in Places : Zero(w) \in Places
      /\ i \in Int /\ i # Load /\ Error # Load /\ Error # None
      /\ i > 0 => i # None
  BY <1>0, PlaceParts, InstrumentsAssumption
     DEF NoteOn, ReadyInv, OwnedInv, TypeOK, None, Load, Error
<1>3. /\ i > 0 => bank'[z] = i
      /\ i <= 0 => bank'[z] = Error
      /\ name' = [name EXCEPT ![x] = IF name[x] = Mute /\ i > 0 THEN name[Zero(x)]
                                                                ELSE name[x]]
      /\ name[x] = Mute /\ i > 0 => bank'[x] = bank'[Zero(x)]
      /\ \A w \in Places : w = z \/ bank'[w] = bank[w] \/ (w = x /\ name[x] = Mute /\ i > 0)
  BY <1>0, <1>1, <1>2, PlaysPut DEF Puts
<1>4. \A w \in Places : w # x => name'[w] = name[w]
  BY <1>2, <1>3 DEF TypeOK
<1>5. name'[x] = IF name[x] = Mute /\ i > 0 THEN name[Zero(x)] ELSE name[x]
  BY <1>2, <1>3 DEF TypeOK
<1>6. Settled(z)'
  BY <1>2, <1>3 DEF Settled
<1>7. name[x] = Mute /\ i > 0 => Settled(x)'
  BY <1>0, <1>2, <1>3 DEF Settled
<1>8. ASSUME NEW w \in Places, Settled(w) PROVE Settled(w)'
  <2>1. CASE w = z \/ (w = x /\ name[x] = Mute /\ i > 0)
    BY <1>6, <1>7, <2>1
  <2>2. CASE ~(w = z \/ (w = x /\ name[x] = Mute /\ i > 0))
    <3>1. bank'[w] = bank[w] /\ name'[w] = name[w]
      BY <1>3, <1>4, <1>5, <2>2
    <3>2. Found(w)' = Found(w)
      BY <1>2, <3>1 DEF Found, InFont
    <3> QED BY <1>8, <3>1, <3>2 DEF Settled
  <2> QED BY <2>1, <2>2
<1>9. \A w : ~Coming(w)
  BY <1>2 DEF Coming
<1>10. ASSUME NEW v \in song, Prepared(v) PROVE Prepared(v)'
  <2>1. v \in Places /\ Zero(v)' = Zero(v)
    BY <1>2 DEF Zero
  <2>2. CASE name'[v] = name[v]
    BY <1>2, <1>8, <1>9, <1>10, <2>1, <2>2 DEF Prepared
  <2>3. CASE name'[v] # name[v]
    <3>1. v = x /\ name[x] = Mute /\ i > 0
      BY <1>4, <1>5, <2>1, <2>3
    <3> QED BY <1>7, <2>3, <3>1 DEF Prepared
  <2> QED BY <2>2, <2>3
<1>11. SongReady'
  BY <1>2, <1>10 DEF SongReady, Loading, ReadyInv
<1>12. ASSUME Loading PROVE live' = live
  <2>1. Settled(z)
    BY <1>0, <1>9, <1>12 DEF SongReady, ReadyInv, Prepared
  <2>2. LoadIfMissing(z, i)
    BY <1>0, <1>1 DEF PlayMidiLoadInstrument
  <2>3. CASE bank[z] \in {None, Load}
    <3>1. LoadInstrument(z, i) /\ Found(z) = Nothing
      BY <2>1, <2>2, <2>3 DEF LoadIfMissing, Settled
    <3> QED BY <1>2, <3>1, Loads DEF heapVars
  <2>4. CASE bank[z] \notin {None, Load}
    BY <2>2, <2>4 DEF LoadIfMissing, heapVars
  <2> QED BY <2>3, <2>4
<1> QED BY <1>11, <1>12

LEMMA OtherReady ==
  ASSUME ReadyInv,
         \/ ForceProgram \/ SetDefault \/ Begin \/ NoteOnDefault \/ VoiceEnds \/ SongEnds
         \/ KillAll \/ PlayEnd \/ Skip \/ ChangeOutput \/ UNCHANGED vars
  PROVE  SongReady' /\ (pc = "play" /\ pc' = "play" => live' = live)
<1>1. CASE ForceProgram \/ SetDefault \/ SongEnds \/ KillAll \/ PlayEnd \/ Skip
  BY <1>1 DEF ForceProgram, SetDefault, SongEnds, KillAll, PlayEnd, Skip, SongReady, Loading
<1>2. CASE ChangeOutput
  BY <1>2 DEF ChangeOutput, Asked, SongReady, Loading
<1>3. CASE Begin \/ NoteOnDefault \/ VoiceEnds \/ UNCHANGED vars
  <2>1. /\ UNCHANGED <<config, bank, name, defined, song, at, bare, live>>
        /\ Loading' => Loading
        /\ pc' = pc \/ (pc = "loaded" /\ pc' = "play")
    BY <1>3 DEF Begin, NoteOnDefault, VoiceEnds, vars, bankVars, heapVars, history, Loading
  <2>2. \A w : Settled(w)' = Settled(w)
    BY <2>1 DEF Settled, Found, InFont
  <2>3. \A w : Coming(w) => Coming(w)'
    BY <2>1 DEF Coming, Ahead
  <2>4. \A x \in song : Prepared(x) => Prepared(x)'
    BY <2>1, <2>2, <2>3 DEF Prepared, Zero
  <2> QED BY <2>1, <2>4 DEF ReadyInv, SongReady
<1> QED BY <1>1, <1>2, <1>3

LEMMA NextReady ==
  ASSUME ReadyInv, \A c \in Configs : Tidy(c), [Next]_vars
  PROVE  ReadyInv' /\ (pc = "play" /\ pc' = "play" /\ Loading => live' = live)
<1>1. Tidy(config) /\ OwnedInv'
  BY NextOwned DEF ReadyInv, OwnedInv, TypeOK
<1>2. CASE ReadSong \/ PassOver \/ FillUnnamed \/ FillNamed
  <2>1. pc # "play"
    BY <1>2 DEF ReadSong, PassOver, FillUnnamed, FillNamed
  <2> QED BY <1>1, <1>2, <2>1, ReadReady, PassReady, UnnamedReady, NamedReady DEF ReadyInv
<1>3. CASE \E x \in song : NoteOn(x)
  BY <1>1, <1>3, NoteReady DEF ReadyInv
<1>4. CASE \/ ForceProgram \/ SetDefault \/ Begin \/ NoteOnDefault \/ VoiceEnds \/ SongEnds
           \/ KillAll \/ PlayEnd \/ Skip \/ ChangeOutput \/ UNCHANGED vars
  BY <1>1, <1>4, OtherReady DEF ReadyInv
<1> QED BY <1>2, <1>3, <1>4 DEF Next

-------------------------------------------------------------------------------
(***************************************************************************)
(* The theorems.                                                           *)
(***************************************************************************)
\* Banks, cache and the song's playing keep their types; the magic values stand
\* only where fill_bank and play_midi_load_instrument put them.
THEOREM TypeCorrect ==
  ASSUME \A c \in Configs : Tidy(c)
  PROVE  Spec => []TypeOK
<1>1. Init => OwnedInv
  BY InitOwned
<1>2. OwnedInv /\ [Next]_vars => OwnedInv'
  BY NextOwned
<1>3. OwnedInv => TypeOK
  BY DEF OwnedInv
<1> QED BY <1>1, <1>2, <1>3, PTL DEF Spec

\* Each instrument is freed once and none is lost, whichever banks share it, and
\* none that a voice plays is freed (free_instruments of timidity/instrum.c,
\* play_midi_load_instrument of timidity/playmidi.c).
THEOREM OwnedOnce ==
  ASSUME \A c \in Configs : Tidy(c)
  PROVE  Spec => []Owned
<1>1. Init => OwnedInv
  BY InitOwned
<1>2. OwnedInv /\ [Next]_vars => OwnedInv'
  BY NextOwned
<1>3. OwnedInv => Owned
  BY OwnedHolds
<1> QED BY <1>1, <1>2, <1>3, PTL DEF Spec

\* A place sounds the same in every song, whichever of groom_list, fill_bank and
\* play_midi_load_instrument had its instrument loaded.
THEOREM SoundsAlike ==
  ASSUME \A c \in Configs : Tidy(c) /\ OneSound(c)
  PROVE  Spec => SoundsSame
<1>1. Init => SoundInv
  BY InitSound
<1>2. SoundInv /\ [Next]_vars => SoundInv'
  BY NextSound
<1>3. SoundInv /\ [Next]_vars =>
        [\A x \in Places : sound[x] # Unheard => sound'[x] = sound[x]]_vars
  <2> SUFFICES ASSUME SoundInv, [Next]_vars, NEW x \in Places, sound[x] # Unheard
               PROVE  sound'[x] = sound[x]
    OBVIOUS
  <2>1. sound[x] = Expected(x) /\ sound'[x] \in {sound[x], Expected(x)}
    BY NextSound DEF SoundInv, SoundOK
  <2> QED BY <2>1
<1> QED BY <1>1, <1>2, <1>3, PTL DEF Spec, SoundsSame

\* Unless the output changed after it was read, a song is played without reading
\* an instrument (load_missing_instruments and fill_bank of timidity/instrum.c).
THEOREM SongsReady ==
  ASSUME \A c \in Configs : Tidy(c)
  PROVE  Spec => Ready
<1>1. Init => ReadyInv
  <2> SUFFICES ASSUME Init PROVE ReadyInv
    OBVIOUS
  <2> QED BY InitOwned DEF Init, ReadyInv, SongReady, Loading
<1>2. ReadyInv /\ [Next]_vars => ReadyInv'
  BY NextReady
<1>3. ReadyInv /\ [Next]_vars =>
        [pc = "play" /\ pc' = "play" /\ ~config.realtime /\ ~bare => live' \subseteq live]_vars
  BY NextReady DEF Loading
<1> QED BY <1>1, <1>2, <1>3, PTL DEF Spec, Ready
================================================================================
