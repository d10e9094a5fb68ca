--------------------------- MODULE SmfTracksProofs ----------------------------
(***************************************************************************)
(* Theorems about the song editor, for any kinds of event and rates of     *)
(* tempo, any number of tracks and events and any pulses and seconds.      *)
(***************************************************************************)
EXTENDS SmfTracks, NumberLemmas, FiniteSetTheorems

-------------------------------------------------------------------------------
(***************************************************************************)
(* Well-formed songs.                                                      *)
(***************************************************************************)
Tempo == [at : Nat, secs : Nat, rate : Nat \ {0}]

\* A tempo map starts at the start of the song, unless it is empty.
Tempos == {m \in Seq(Tempo) : m # <<>> => m[1].at = 0 /\ m[1].secs = 0}

Track == [number : Nat, events : Seq(Events), next : Nat \cup {None}, ahead : Nat]

Songs == [tracks : Seq(Track), tempos : Tempos, sought : Nat \cup {None}]

TimeBefore(events, i) == IF i = 1 THEN 0 ELSE events[i - 1].time

EventsOK(events, t) ==
  \A i \in 1 .. Len(events) :
    /\ events[i].number = i /\ events[i].track = t
    /\ events[i].time = events[i].delta + TimeBefore(events, i)

TrackOK(track, t) ==
  /\ track.number = t
  /\ track.events = <<>> => track.next = None
  /\ EventsOK(track.events, t)

SongOK(s) ==
  /\ s \in Songs
  /\ \A t \in 1 .. Len(s.tracks) : TrackOK(s.tracks[t], t)

-------------------------------------------------------------------------------
(***************************************************************************)
(* The tempo map.                                                          *)
(***************************************************************************)
LEMMA ProductNat == ASSUME NEW a \in Nat, NEW b \in Nat PROVE a * b \in Nat
  OBVIOUS

LEMMA ProductNext ==
  ASSUME NEW a \in Int, NEW b \in Int PROVE (a + 1) * b = a * b + b
  OBVIOUS

LEMMA TempoAt ==
  ASSUME NEW m \in Tempos, NEW k \in 1 .. Len(m)
  PROVE  /\ m[k] \in Tempo /\ m[k].at \in Nat /\ m[k].secs \in Nat
         /\ m[k].rate \in Nat /\ m[k].rate > 0
<1>1. m[k] \in Tempo
  BY DEF Tempos
<1> QED BY <1>1 DEF Tempo

LEMMA TempoMapIn ==
  ASSUME NEW m \in Seq(Tempo), m[1].at = 0, m[1].secs = 0
  PROVE  m \in Tempos
  BY DEF Tempos

LEMMA TempoBeforeIs ==
  ASSUME NEW m \in Tempos, m # <<>>, NEW pulses \in Nat
  PROVE  /\ TempoBefore(m, pulses) \in 1 .. Len(m)
         /\ m[TempoBefore(m, pulses)].at <= pulses
         /\ pulses = 0 => TempoBefore(m, pulses) = 1
         /\ pulses > 0 => /\ m[TempoBefore(m, pulses)].at < pulses
                          /\ \A k \in 1 .. Len(m) :
                               m[k].at < pulses => k <= TempoBefore(m, pulses)
<1>1. m \in Seq(Tempo) /\ Len(m) \in Nat /\ Len(m) >= 1 /\ m[1].at = 0
  BY DEF Tempos
<1>2. CASE pulses = 0
  BY <1>1, <1>2 DEF TempoBefore
<1>3. CASE pulses > 0
  <2> DEFINE I == {k \in 1 .. Len(m) : m[k].at < pulses}
  <2>1. TempoBefore(m, pulses) = IF I # {} THEN Max(I) ELSE 0
    BY <1>3 DEF TempoBefore, SelectLastInSeq
  <2>2. 1 \in I /\ I \subseteq 0 .. Len(m)
    BY <1>1, <1>3
  <2>3. Max(I) \in I /\ \A y \in I : Max(I) >= y
    <3> HIDE DEF I
    <3> QED BY <1>1, <2>2, MaxOf
  <2>4. TempoBefore(m, pulses) \in I /\ \A y \in I : TempoBefore(m, pulses) >= y
    BY <2>1, <2>2, <2>3
  <2>5. \A k \in 1 .. Len(m) : m[k].at \in Nat
    BY TempoAt
  <2> DEFINE b == TempoBefore(m, pulses)
  <2>6. b \in 1 .. Len(m) /\ m[b].at < pulses
    BY <2>4
  <2>7. \A k \in 1 .. Len(m) : m[k].at < pulses => k <= b
    BY <2>4
  <2>8. m[b].at <= pulses
    <3> HIDE DEF b
    <3> QED BY <2>5, <2>6
  <2> QED BY <1>3, <2>6, <2>7, <2>8
<1> QED BY <1>2, <1>3

LEMMA SecondsNat ==
  ASSUME NEW m \in Tempos, m # <<>>, NEW pulses \in Nat
  PROVE  SecondsAt(m, pulses) \in Nat
<1> DEFINE k == TempoBefore(m, pulses)
<1>1. k \in 1 .. Len(m) /\ m[k].at <= pulses
  BY TempoBeforeIs
<1>2. m[k] \in Tempo
  BY <1>1 DEF Tempos
<1>3. SecondsAt(m, pulses) = m[k].secs + (pulses - m[k].at) * m[k].rate
  BY DEF SecondsAt
<1> HIDE DEF k
<1>4. m[k].secs \in Nat /\ m[k].at \in Nat /\ m[k].rate \in Nat
  BY <1>2 DEF Tempo
<1>5. pulses - m[k].at \in Nat
  BY <1>1, <1>4
<1>6. (pulses - m[k].at) * m[k].rate \in Nat
  BY <1>4, <1>5, ProductNat
<1> QED BY <1>3, <1>4, <1>6, SMTT(30)

LEMMA WithTempoOK ==
  ASSUME NEW m \in Tempos, m # <<>>, NEW at \in Nat, NEW rate \in Nat \ {0}
  PROVE  WithTempo(m, at, rate) \in Tempos /\ WithTempo(m, at, rate) # <<>>
<1>1. m \in Seq(Tempo) /\ Len(m) \in Nat /\ Len(m) >= 1 /\ m[1].at = 0 /\ m[1].secs = 0
  BY DEF Tempos
<1>2. CASE Last(m).at = at
  <2> DEFINE n == [m EXCEPT ![Len(m)].rate = rate]
  <2>1. WithTempo(m, at, rate) = n
    BY <1>2 DEF WithTempo
  <2>2. m[Len(m)] \in Tempo
    BY <1>1
  <2>3. [m[Len(m)] EXCEPT !.rate = rate] \in Tempo
    BY <2>2 DEF Tempo
  <2>4. n \in Seq(Tempo) /\ Len(n) = Len(m)
    BY <1>1, <2>3
  <2>5. n[1].at = m[1].at /\ n[1].secs = m[1].secs
    <3>1. CASE Len(m) = 1
      <4>1. n[1] = [m[1] EXCEPT !.rate = rate] /\ m[1] \in Tempo
        BY <1>1, <2>2, <3>1
      <4> QED BY <4>1 DEF Tempo
    <3>2. CASE Len(m) # 1
      BY <1>1, <3>2
    <3> QED BY <3>1, <3>2
  <2>6. n \in Tempos /\ n # <<>>
    <3> HIDE DEF n
    <3> QED BY <1>1, <2>4, <2>5, TempoMapIn
  <2> QED BY <2>1, <2>6
<1>3. CASE Last(m).at # at
  <2> DEFINE new == [at |-> at, rate |-> rate,
                     secs |-> IF at = 0 THEN 0 ELSE SecondsAt(m, at)]
  <2>1. WithTempo(m, at, rate) = Append(m, new)
    BY <1>3 DEF WithTempo
  <2>2. new \in Tempo
    BY SecondsNat DEF Tempo
  <2> HIDE DEF new
  <2>3. Append(m, new) \in Seq(Tempo) /\ Append(m, new)[1] = m[1] /\ Append(m, new) # <<>>
    BY <1>1, <2>2
  <2> QED BY <1>1, <2>1, <2>3 DEF Tempos
<1> QED BY <1>2, <1>3

LEMMA WithoutLastTempoOK ==
  ASSUME NEW m \in Tempos, NEW at \in Nat
  PROVE  WithoutLastTempo(m, at) \in Tempos
<1>1. CASE m # <<>> /\ Last(m).at = at
  <2>1. m \in Seq(Tempo) /\ Len(m) \in Nat /\ Len(m) >= 1 /\ m[1].at = 0 /\ m[1].secs = 0
    BY <1>1 DEF Tempos
  <2>2. WithoutLastTempo(m, at) = SubSeq(m, 1, Len(m) - 1)
    BY <1>1 DEF WithoutLastTempo, Front
  <2>3. SubSeq(m, 1, Len(m) - 1) \in Seq(Tempo)
    BY <2>1
  <2>4. SubSeq(m, 1, Len(m) - 1) # <<>> => SubSeq(m, 1, Len(m) - 1)[1] = m[1]
    BY <2>1
  <2> QED BY <2>1, <2>2, <2>3, <2>4 DEF Tempos
<1>2. CASE ~(m # <<>> /\ Last(m).at = at)
  BY <1>2 DEF WithoutLastTempo
<1> QED BY <1>1, <1>2

LEMMA InitialTempoOK == InitialTempo \in Tempos /\ InitialTempo # <<>>
<1>1. InitialTempo[1] \in Tempo
  BY SongAssumption DEF InitialTempo, Tempo
<1>2. InitialTempo \in Seq(Tempo)
  BY <1>1 DEF InitialTempo
<1> QED BY <1>2 DEF Tempos, InitialTempo

-------------------------------------------------------------------------------
(***************************************************************************)
(* Finite sets in a strict order.                                          *)
(***************************************************************************)
StrictOrder(S, R) ==
  /\ \A x \in S : <<x, x>> \notin R
  /\ \A x, y, z \in S : <<x, y>> \in R /\ <<y, z>> \in R => <<x, z>> \in R
  /\ \A x, y \in S : x # y => <<x, y>> \in R \/ <<y, x>> \in R

Below(S, R, x) == {y \in S : <<y, x>> \in R}

LEMMA LastOfOrder ==
  ASSUME NEW P, NEW R, StrictOrder(P, R),
         NEW S \in SUBSET P, IsFiniteSet(S), S # {}
  PROVE  \E x \in S : \A y \in S \ {x} : <<y, x>> \in R
<1> DEFINE Good(U) == \E x \in U : \A y \in U \ {x} : <<y, x>> \in R
           T == {n \in Nat : \A U \in SUBSET P :
                   IsFiniteSet(U) /\ Cardinality(U) = n /\ U # {} => Good(U)}
<1>1. 0 \in T
  BY FS_EmptySet
<1>2. ASSUME NEW n \in Nat, n \in T PROVE n + 1 \in T
  <2>1. SUFFICES ASSUME NEW U \in SUBSET P, IsFiniteSet(U), Cardinality(U) = n + 1, U # {}
                 PROVE  Good(U)
    OBVIOUS
  <2>2. PICK x \in U : TRUE
    BY <2>1
  <2> DEFINE V == U \ {x}
  <2>3. V \in SUBSET P /\ IsFiniteSet(V) /\ Cardinality(V) = n
    <3>1. IsFiniteSet(V) /\ Cardinality(V) = Cardinality(U) - 1
      BY <2>1, FS_RemoveElement
    <3> QED BY <2>1, <3>1
  <2>4. CASE V = {}
    BY <2>2, <2>4
  <2>5. CASE V # {}
    <3>1. PICK y \in V : \A z \in V \ {y} : <<z, y>> \in R
      BY <1>2, <2>3, <2>5
    <3>2. x \in P /\ y \in P /\ x # y
      BY <2>2
    <3>3. CASE <<x, y>> \in R
      BY <3>1, <3>3
    <3>4. CASE <<y, x>> \in R
      <4>1. \A z \in V : <<z, x>> \in R
        <5> TAKE z \in V
        <5>1. CASE z = y
          BY <3>4, <5>1
        <5>2. CASE z # y
          BY <3>1, <3>2, <3>4, <5>2 DEF StrictOrder
        <5> QED BY <5>1, <5>2
      <4> QED BY <2>2, <4>1
    <3> QED BY <3>2, <3>3, <3>4 DEF StrictOrder
  <2> QED BY <2>4, <2>5
<1>3. Nat \subseteq T
  <2> HIDE DEF T
  <2> QED BY <1>1, <1>2, Induction
<1>4. Cardinality(S) \in Nat
  BY FS_CardinalityType
<1> QED BY <1>3, <1>4

\* For each count there is one that has as many below it.
LEMMA RankedOfOrder ==
  ASSUME NEW P, NEW R, StrictOrder(P, R), IsFiniteSet(P)
  PROVE  \A n \in 1 .. Cardinality(P) :
           \E x \in P : Cardinality(Below(P, R, x)) = n - 1
<1> DEFINE Good(U) == \A n \in 1 .. Cardinality(U) :
                        \E x \in U : Cardinality(Below(U, R, x)) = n - 1
           T == {k \in Nat : \A U \in SUBSET P :
                   IsFiniteSet(U) /\ Cardinality(U) = k => Good(U)}
<1>1. 0 \in T
  OBVIOUS
<1>2. ASSUME NEW k \in Nat, k \in T PROVE k + 1 \in T
  <2>1. SUFFICES ASSUME NEW U \in SUBSET P, IsFiniteSet(U), Cardinality(U) = k + 1,
                        NEW n \in 1 .. k + 1
                 PROVE  \E x \in U : Cardinality(Below(U, R, x)) = n - 1
    OBVIOUS
  <2>2. U # {}
    BY <2>1, FS_EmptySet
  <2>3. PICK last \in U : \A y \in U \ {last} : <<y, last>> \in R
    BY <2>1, <2>2, LastOfOrder
  <2> DEFINE V == U \ {last}
  <2>4. V \in SUBSET P /\ IsFiniteSet(V) /\ Cardinality(V) = k
    <3>1. IsFiniteSet(V) /\ Cardinality(V) = Cardinality(U) - 1
      BY <2>1, FS_RemoveElement
    <3> QED BY <2>1, <3>1
  <2>5. CASE n = k + 1
    <3>1. Below(U, R, last) = V
      BY <2>3 DEF Below, StrictOrder
    <3> QED BY <2>4, <2>5, <3>1
  <2>6. CASE n # k + 1
    <3>1. n \in 1 .. k
      BY <2>6
    <3>2. PICK x \in V : Cardinality(Below(V, R, x)) = n - 1
      BY <1>2, <2>4, <3>1
    <3>3. <<x, last>> \in R
      BY <2>3, <3>2
    <3>4. <<last, x>> \notin R
      <4>1. last \in P /\ x \in P
        BY <2>3, <3>2
      <4> QED BY <3>3, <4>1 DEF StrictOrder
    <3>5. Below(U, R, x) = Below(V, R, x)
      BY <3>4 DEF Below
    <3> QED BY <3>2, <3>5
  <2> QED BY <2>5, <2>6
<1>3. Nat \subseteq T
  <2> HIDE DEF T
  <2> QED BY <1>1, <1>2, Induction
<1>4. Cardinality(P) \in Nat
  BY FS_CardinalityType
<1> QED BY <1>3, <1>4

\* Fewer are below what comes before.
LEMMA BelowGrows ==
  ASSUME NEW P, NEW R, StrictOrder(P, R), IsFiniteSet(P),
         NEW x \in P, NEW y \in P, <<x, y>> \in R
  PROVE  Cardinality(Below(P, R, x)) < Cardinality(Below(P, R, y))
<1>1. Below(P, R, x) \subseteq Below(P, R, y)
  BY DEF Below, StrictOrder
<1>2. x \in Below(P, R, y) /\ x \notin Below(P, R, x)
  BY DEF Below, StrictOrder
<1>3. IsFiniteSet(Below(P, R, y)) /\ IsFiniteSet(Below(P, R, x))
  <2>1. Below(P, R, y) \in SUBSET P /\ Below(P, R, x) \in SUBSET P
    BY DEF Below
  <2> QED BY <2>1, FS_Subset
<1>4. /\ Cardinality(Below(P, R, x)) <= Cardinality(Below(P, R, y))
      /\ Cardinality(Below(P, R, x)) # Cardinality(Below(P, R, y))
  BY <1>1, <1>2, <1>3, FS_Subset
<1>5. Cardinality(Below(P, R, x)) \in Nat /\ Cardinality(Below(P, R, y)) \in Nat
  BY <1>3, FS_CardinalityType
<1> QED BY <1>4, <1>5

LEMMA BelowCount ==
  ASSUME NEW P, NEW R, StrictOrder(P, R), IsFiniteSet(P), NEW x \in P
  PROVE  Cardinality(Below(P, R, x)) \in 0 .. Cardinality(P) - 1
<1>1. Below(P, R, x) \in SUBSET P /\ x \notin Below(P, R, x)
  BY DEF Below, StrictOrder
<1>2. /\ IsFiniteSet(Below(P, R, x))
      /\ Cardinality(Below(P, R, x)) <= Cardinality(P)
      /\ Cardinality(Below(P, R, x)) # Cardinality(P)
  BY <1>1, FS_Subset
<1>3. Cardinality(Below(P, R, x)) \in Nat /\ Cardinality(P) \in Nat
  BY <1>2, FS_CardinalityType
<1> QED BY <1>2, <1>3

-------------------------------------------------------------------------------
(***************************************************************************)
(* The order in which events are played.                                   *)
(***************************************************************************)
LEMMA PositionIs ==
  ASSUME NEW s, NEW p
  PROVE  p \in Positions(s) <=> \E t \in 1 .. Len(s.tracks) :
                                  \E i \in 1 .. Len(s.tracks[t].events) : p = <<t, i>>
  BY DEF Positions

LEMMA PositionOf ==
  ASSUME NEW s, NEW p \in Positions(s)
  PROVE  /\ p[1] \in 1 .. Len(s.tracks)
         /\ p[2] \in 1 .. Len(s.tracks[p[1]].events)
         /\ p = <<p[1], p[2]>>
  BY PositionIs

LEMMA TrackIn ==
  ASSUME NEW s \in Songs, NEW t \in 1 .. Len(s.tracks)
  PROVE  /\ s.tracks[t] \in Track
         /\ s.tracks[t].events \in Seq(Events)
         /\ Len(s.tracks[t].events) \in Nat
         /\ Len(s.tracks) \in Nat
<1>1. s.tracks \in Seq(Track)
  BY DEF Songs
<1>2. s.tracks[t] \in Track
  BY <1>1
<1>3. s.tracks[t].events \in Seq(Events)
  BY <1>2 DEF Track
<1> QED BY <1>1, <1>2, <1>3

LEMMA EventIn ==
  ASSUME NEW s \in Songs, NEW p \in Positions(s)
  PROVE  /\ EventAt(s, p) \in Events
         /\ EventAt(s, p).time \in Nat /\ EventAt(s, p).secs \in Nat
         /\ EventAt(s, p).kind \in Kinds
<1>1. p[1] \in 1 .. Len(s.tracks) /\ p[2] \in 1 .. Len(s.tracks[p[1]].events)
  BY PositionOf
<1>2. s.tracks[p[1]].events \in Seq(Events)
  BY <1>1, TrackIn
<1>3. EventAt(s, p) \in Events
  BY <1>1, <1>2 DEF EventAt
<1> QED BY <1>3 DEF Events

LEMMA UpTo ==
  ASSUME NEW n \in Nat
  PROVE  IsFiniteSet(1 .. n) /\ Cardinality(1 .. n) = n
  BY FS_Interval

LEMMA PositionsFinite ==
  ASSUME NEW s \in Songs
  PROVE  IsFiniteSet(Positions(s)) /\ Cardinality(Positions(s)) \in Nat
<1> DEFINE n == Len(s.tracks)
           F == [t \in 1 .. n |-> {t} \X (1 .. Len(s.tracks[t].events))]
           U == {F[t] : t \in 1 .. n}
<1>1. n \in Nat
  BY DEF Songs
<1>2. IsFiniteSet(1 .. n)
  BY <1>1, FS_Interval
<1>3. F \in Surjection(1 .. n, U)
  BY DEF Surjection
<1>4. IsFiniteSet(U)
  <2> HIDE DEF F, U, n
  <2> QED BY <1>2, <1>3, FS_Surjection
<1>5. \A t \in 1 .. n : IsFiniteSet(F[t])
  <2> TAKE t \in 1 .. n
  <2>1. Len(s.tracks[t].events) \in Nat
    BY TrackIn
  <2>2. IsFiniteSet(1 .. Len(s.tracks[t].events))
    BY <2>1, UpTo
  <2>3. IsFiniteSet({t})
    BY FS_Singleton
  <2>4. IsFiniteSet({t} \X (1 .. Len(s.tracks[t].events)))
    BY <2>2, <2>3, FS_Product
  <2> QED BY <2>4
<1>6. IsFiniteSet(UNION U)
  <2> HIDE DEF F, n
  <2> QED BY <1>4, <1>5, FS_UNION
<1>7. Positions(s) = UNION U
  <2>1. ASSUME NEW p \in Positions(s) PROVE p \in UNION U
    <3>1. p[1] \in 1 .. n /\ p \in F[p[1]]
      BY <2>1, PositionOf
    <3> QED BY <3>1
  <2>2. ASSUME NEW p \in UNION U PROVE p \in Positions(s)
    <3>1. PICK t \in 1 .. n : p \in F[t]
      BY <2>2
    <3>2. PICK i \in 1 .. Len(s.tracks[t].events) : p = <<t, i>>
      BY <3>1
    <3> QED BY <3>2, PositionIs
  <2> QED BY <2>1, <2>2
<1> QED BY <1>6, <1>7, FS_CardinalityType

\* The order as a relation.
Order(s) == {r \in Positions(s) \X Positions(s) : Before(s, r[1], r[2])}

LEMMA OrderIs ==
  ASSUME NEW s, NEW p \in Positions(s), NEW q \in Positions(s)
  PROVE  <<p, q>> \in Order(s) <=> Before(s, p, q)
  BY DEF Order

LEMMA BeforeIs ==
  ASSUME NEW s \in Songs, NEW p \in Positions(s), NEW q \in Positions(s)
  PROVE  /\ Before(s, p, q) => ~ Before(s, q, p)
         /\ p # q => Before(s, p, q) \/ Before(s, q, p)
         /\ \A r \in Positions(s) :
              Before(s, p, q) /\ Before(s, q, r) => Before(s, p, r)
<1>1. \A r \in Positions(s) :
        /\ EventAt(s, r).time \in Nat /\ r[1] \in Nat /\ r[2] \in Nat
        /\ r = <<r[1], r[2]>>
  <2> TAKE r \in Positions(s)
  <2>1. r[1] \in 1 .. Len(s.tracks) /\ r[2] \in 1 .. Len(s.tracks[r[1]].events)
        /\ r = <<r[1], r[2]>>
    BY PositionOf
  <2>2. EventAt(s, r).time \in Nat
    BY EventIn
  <2>3. r[1] \in Nat /\ r[2] \in Nat
    BY <2>1
  <2> QED BY <2>1, <2>2, <2>3
<1>2. Before(s, p, q) => ~ Before(s, q, p)
  BY <1>1 DEF Before
<1>3. p # q => Before(s, p, q) \/ Before(s, q, p)
  <2>1. p # q => p[1] # q[1] \/ p[2] # q[2]
    BY <1>1
  <2> QED BY <1>1, <2>1 DEF Before
<1>4. ASSUME NEW r \in Positions(s), Before(s, p, q), Before(s, q, r)
      PROVE  Before(s, p, r)
  BY <1>1, <1>4 DEF Before
<1> QED BY <1>2, <1>3, <1>4

LEMMA OrderStrict ==
  ASSUME NEW s \in Songs
  PROVE  StrictOrder(Positions(s), Order(s))
<1>1. ASSUME NEW x \in Positions(s) PROVE <<x, x>> \notin Order(s)
  BY OrderIs, BeforeIs
<1>2. ASSUME NEW x \in Positions(s), NEW y \in Positions(s), NEW z \in Positions(s),
             <<x, y>> \in Order(s), <<y, z>> \in Order(s)
      PROVE  <<x, z>> \in Order(s)
  <2>1. Before(s, x, y) /\ Before(s, y, z)
    BY <1>2, OrderIs
  <2>2. Before(s, x, z)
    BY <2>1, BeforeIs
  <2> QED BY <2>2, OrderIs
<1>3. ASSUME NEW x \in Positions(s), NEW y \in Positions(s), x # y
      PROVE  <<x, y>> \in Order(s) \/ <<y, x>> \in Order(s)
  BY <1>3, OrderIs, BeforeIs
<1> QED BY <1>1, <1>2, <1>3 DEF StrictOrder

LEMMA BelowOrder ==
  ASSUME NEW s, NEW p \in Positions(s)
  PROVE  {q \in Positions(s) : Before(s, q, p)} = Below(Positions(s), Order(s), p)
  BY OrderIs DEF Below

\* The order lists every position once, each after those before it.
LEMMA PlayOrderIs ==
  ASSUME NEW s \in Songs
  PROVE  /\ Len(PlayOrder(s)) = Cardinality(Positions(s))
         /\ Len(PlayOrder(s)) \in Nat
         /\ \A n \in 1 .. Len(PlayOrder(s)) : PlayOrder(s)[n] \in Positions(s)
         /\ \A p \in Positions(s) : \E n \in 1 .. Len(PlayOrder(s)) : PlayOrder(s)[n] = p
         /\ \A m, n \in 1 .. Len(PlayOrder(s)) :
              m < n => Before(s, PlayOrder(s)[m], PlayOrder(s)[n])
<1> DEFINE P == Positions(s)
           R == Order(s)
           N == Cardinality(P)
           rank(p) == Cardinality(Below(P, R, p))
           order == PlayOrder(s)
<1>1. IsFiniteSet(P) /\ N \in Nat /\ StrictOrder(P, R)
  BY PositionsFinite, OrderStrict
<1>2. order = [n \in 1 .. N |-> CHOOSE p \in P : rank(p) = n - 1]
  <2> DEFINE F(n) == CHOOSE p \in P : Cardinality({q \in P : Before(s, q, p)}) = n - 1
             G(n) == CHOOSE p \in P : rank(p) = n - 1
  <2>1. \A n \in 1 .. N : F(n) = G(n)
    BY BelowOrder
  <2>2. order = [n \in 1 .. N |-> F(n)]
    BY DEF PlayOrder
  <2> HIDE DEF F, G, order, N
  <2>3. order = [n \in 1 .. N |-> G(n)]
    BY <2>1, <2>2
  <2> QED BY <2>3 DEF G
<1>3. Len(order) = N
  BY <1>1, <1>2
<1>4. ASSUME NEW n \in 1 .. N PROVE order[n] \in P /\ rank(order[n]) = n - 1
  <2>1. \E p \in P : rank(p) = n - 1
    <3> HIDE DEF P, R
    <3> QED BY <1>1, RankedOfOrder
  <2>2. order[n] = CHOOSE p \in P : rank(p) = n - 1
    <3> HIDE DEF order, P
    <3> QED BY <1>2
  <2> QED BY <2>1, <2>2
<1> HIDE DEF order
<1>5. ASSUME NEW p \in P PROVE \E n \in 1 .. N : order[n] = p
  <2> HIDE DEF P, R
  <2>1. rank(p) \in 0 .. N - 1
    BY <1>1, BelowCount
  <2> DEFINE n == rank(p) + 1
  <2>2. n \in 1 .. N /\ n - 1 = rank(p)
    BY <1>1, <2>1
  <2>3. order[n] \in P /\ rank(order[n]) = rank(p)
    BY <1>4, <2>2
  <2>4. rank(p) \in Nat
    BY <2>1
  <2>5. <<order[n], p>> \notin R
    <3>1. <<order[n], p>> \in R => rank(order[n]) < rank(p)
      BY <1>1, <2>3, BelowGrows
    <3> QED BY <2>3, <2>4, <3>1
  <2>6. <<p, order[n]>> \notin R
    <3>1. <<p, order[n]>> \in R => rank(p) < rank(order[n])
      BY <1>1, <2>3, BelowGrows
    <3> QED BY <2>3, <2>4, <3>1
  <2>7. order[n] = p
    BY <1>1, <2>3, <2>5, <2>6 DEF StrictOrder
  <2> QED BY <2>2, <2>7
<1>6. ASSUME NEW m \in 1 .. N, NEW n \in 1 .. N, m < n
      PROVE  Before(s, order[m], order[n])
  <2>1. order[m] \in P /\ order[n] \in P /\ rank(order[m]) = m - 1 /\ rank(order[n]) = n - 1
    BY <1>4
  <2>2. order[m] # order[n]
    BY <1>6, <2>1
  <2>3. <<order[n], order[m]>> \notin R
    <3> HIDE DEF P, R
    <3>1. <<order[n], order[m]>> \in R => rank(order[n]) < rank(order[m])
      BY <1>1, <2>1, BelowGrows
    <3> QED BY <1>6, <2>1, <3>1
  <2>4. <<order[m], order[n]>> \in R
    <3> HIDE DEF P, R
    <3> QED BY <1>1, <2>1, <2>2, <2>3 DEF StrictOrder
  <2> QED BY <2>1, <2>4, OrderIs
<1> QED BY <1>1, <1>3, <1>4, <1>5, <1>6 DEF order

-------------------------------------------------------------------------------
(***************************************************************************)
(* The tempo map that is built from the events.                            *)
(***************************************************************************)
MapAfter(map, e) ==
  IF e.kind \in Rates THEN WithTempo(map, e.time, e.kind) ELSE map

\* map[n] is the tempo map after n events.
IsMap(map, s, n) ==
  map = [i \in 0 .. n |-> IF i = 0 THEN InitialTempo
                          ELSE MapAfter(map[i - 1], EventAt(s, PlayOrder(s)[i]))]

LEMMA MapDef ==
  ASSUME NEW s
  PROVE  TempoMap(s) = (CHOOSE map : IsMap(map, s, Len(PlayOrder(s))))[Len(PlayOrder(s))]
  BY DEF TempoMap, IsMap, MapAfter

LEMMA MapExists ==
  ASSUME NEW s, NEW n \in Nat
  PROVE  \E map : IsMap(map, s, n)
<1> DEFINE T == {m \in Nat : \E map : IsMap(map, s, m)}
           step(map, i) == MapAfter(map, EventAt(s, PlayOrder(s)[i]))
<1>1. 0 \in T
  <2>1. IsMap([i \in 0 .. 0 |-> InitialTempo], s, 0)
    BY DEF IsMap
  <2> QED BY <2>1
<1>2. ASSUME NEW m \in Nat, m \in T PROVE m + 1 \in T
  <2>1. PICK map : IsMap(map, s, m)
    BY <1>2
  <2>2. map = [i \in 0 .. m |-> IF i = 0 THEN InitialTempo ELSE step(map[i - 1], i)]
    BY <2>1 DEF IsMap
  <2> DEFINE r == [i \in 0 .. m + 1 |-> IF i = m + 1 THEN step(map[m], m + 1) ELSE map[i]]
  <2> HIDE DEF step
  <2>3. ASSUME NEW i \in 0 .. m + 1
        PROVE  r[i] = IF i = 0 THEN InitialTempo ELSE step(r[i - 1], i)
    <3>1. CASE i = 0
      BY <2>2, <3>1
    <3>2. CASE i = m + 1
      BY <3>2
    <3>3. CASE i \in 1 .. m
      BY <2>2, <3>3
    <3> QED BY <3>1, <3>2, <3>3
  <2>4. IsMap(r, s, m + 1)
    <3>1. r = [i \in 0 .. m + 1 |-> IF i = 0 THEN InitialTempo ELSE step(r[i - 1], i)]
      BY <2>3
    <3> HIDE DEF r
    <3> QED BY <3>1 DEF IsMap, step
  <2> HIDE DEF r
  <2> QED BY <2>4
<1>3. Nat \subseteq T
  <2> HIDE DEF T
  <2> QED BY <1>1, <1>2, Induction
<1> QED BY <1>3

LEMMA MapIs ==
  ASSUME NEW s \in Songs
  PROVE  \E map : /\ IsMap(map, s, Len(PlayOrder(s)))
                  /\ TempoMap(s) = map[Len(PlayOrder(s))]
<1> DEFINE n == Len(PlayOrder(s))
           r == CHOOSE map : IsMap(map, s, n)
<1>1. n \in Nat
  BY PlayOrderIs
<1>2. IsMap(r, s, n)
  <2> HIDE DEF n
  <2> QED BY <1>1, MapExists, Zenon
<1>3. TempoMap(s) = r[n]
  BY MapDef
<1> QED BY <1>2, <1>3, Zenon

LEMMA MapStep ==
  ASSUME NEW s, NEW map, NEW n \in Nat, IsMap(map, s, n)
  PROVE  /\ map[0] = InitialTempo
         /\ \A i \in Nat : i + 1 <= n =>
              map[i + 1] = MapAfter(map[i], EventAt(s, PlayOrder(s)[i + 1]))
<1> DEFINE step(x, i) == MapAfter(x, EventAt(s, PlayOrder(s)[i]))
<1>1. map = [i \in 0 .. n |-> IF i = 0 THEN InitialTempo ELSE step(map[i - 1], i)]
  BY DEF IsMap
<1> HIDE DEF step
<1>2. map[0] = InitialTempo
  BY <1>1
<1>3. ASSUME NEW i \in Nat, i + 1 <= n PROVE map[i + 1] = step(map[i], i + 1)
  <2>1. i + 1 \in 0 .. n /\ (i + 1) - 1 = i /\ i + 1 # 0
    BY <1>3
  <2> QED BY <1>1, <2>1
<1> QED BY <1>2, <1>3 DEF step

LEMMA TempoMapOK ==
  ASSUME NEW s \in Songs
  PROVE  TempoMap(s) \in Tempos /\ TempoMap(s) # <<>>
<1> DEFINE n == Len(PlayOrder(s))
<1>1. PICK map : IsMap(map, s, n) /\ TempoMap(s) = map[n]
  BY MapIs
<1>2. n \in Nat
  BY PlayOrderIs
<1> DEFINE T == {i \in Nat : i <= n => map[i] \in Tempos /\ map[i] # <<>>}
<1>3. 0 \in T
  <2>1. map[0] = InitialTempo
    <3> HIDE DEF n
    <3> QED BY <1>1, <1>2, MapStep
  <2> QED BY <2>1, InitialTempoOK
<1>4. ASSUME NEW i \in Nat, i \in T PROVE i + 1 \in T
  <2>1. SUFFICES ASSUME i + 1 <= n PROVE map[i + 1] \in Tempos /\ map[i + 1] # <<>>
    OBVIOUS
  <2> DEFINE e == EventAt(s, PlayOrder(s)[i + 1])
  <2>2. map[i + 1] = MapAfter(map[i], e)
    <3> HIDE DEF n
    <3> QED BY <1>1, <1>2, <2>1, MapStep
  <2>3. map[i] \in Tempos /\ map[i] # <<>>
    BY <1>2, <1>4, <2>1
  <2>4. PlayOrder(s)[i + 1] \in Positions(s)
    <3>1. i + 1 \in 1 .. n
      BY <1>2, <2>1
    <3> QED BY <3>1, PlayOrderIs
  <2>5. e.time \in Nat
    BY <2>4, EventIn
  <2>6. e.kind \in Rates => e.kind \in Nat \ {0}
    BY SongAssumption
  <2> HIDE DEF e
  <2> QED BY <2>2, <2>3, <2>5, <2>6, WithTempoOK DEF MapAfter
<1>5. Nat \subseteq T
  <2> HIDE DEF T
  <2> QED BY <1>3, <1>4, Induction
<1> QED BY <1>1, <1>2, <1>5

-------------------------------------------------------------------------------
(***************************************************************************)
(* Songs whose seconds are computed anew.                                  *)
(***************************************************************************)
LEMMA SongIn ==
  ASSUME NEW s \in Songs
  PROVE  /\ s.tracks \in Seq(Track) /\ Len(s.tracks) \in Nat
         /\ s.tempos \in Tempos /\ s.sought \in Nat \cup {None}
         /\ s = [tracks |-> s.tracks, tempos |-> s.tempos, sought |-> s.sought]
  BY DEF Songs

LEMMA EventsAt ==
  ASSUME NEW events \in Seq(Events), NEW i \in 1 .. Len(events)
  PROVE  /\ events[i] \in Events /\ events[i].kind \in Kinds
         /\ events[i].time \in Nat /\ events[i].secs \in Nat
         /\ events[i].delta \in Nat /\ events[i].number \in Nat
         /\ events[i].track \in Nat
<1>1. events[i] \in Events
  OBVIOUS
<1> QED BY <1>1 DEF Events

LEMMA LastPulsesIs ==
  ASSUME NEW track \in Track
  PROVE  /\ LastPulses(track) \in Nat
         /\ track.events # <<>> =>
              LastPulses(track) = track.events[Len(track.events)].time
<1>1. track.events \in Seq(Events) /\ Len(track.events) \in Nat
  BY DEF Track
<1>2. track.events # <<>> => Len(track.events) \in 1 .. Len(track.events)
  BY <1>1
<1>3. track.events # <<>> => track.events[Len(track.events)].time \in Nat
  BY <1>1, <1>2, EventsAt
<1> QED BY <1>3 DEF LastPulses, Last

TimedEvents(events, map) ==
  [i \in 1 .. Len(events) |->
     [events[i] EXCEPT !.secs = SecondsAt(map, events[i].time)]]

TimedTrack(track, map) ==
  [track EXCEPT !.next = None, !.ahead = LastPulses(track),
                !.events = TimedEvents(track.events, map)]

LEMMA TimedEventsOK ==
  ASSUME NEW events \in Seq(Events), NEW map \in Tempos, map # <<>>
  PROVE  /\ TimedEvents(events, map) \in Seq(Events)
         /\ Len(TimedEvents(events, map)) = Len(events)
         /\ \A i \in 1 .. Len(events) :
              LET e == events[i]
                  f == TimedEvents(events, map)[i]
              IN /\ f \in Events /\ f.kind = e.kind /\ f.time = e.time
                 /\ f.delta = e.delta /\ f.number = e.number /\ f.track = e.track
                 /\ f.secs = SecondsAt(map, e.time)
<1> DEFINE n == Len(events)
           F == TimedEvents(events, map)
<1>1. n \in Nat
  OBVIOUS
<1>2. F = [i \in 1 .. n |-> [events[i] EXCEPT !.secs = SecondsAt(map, events[i].time)]]
  BY DEF TimedEvents
<1>3. ASSUME NEW i \in 1 .. n
      PROVE  /\ F[i] \in Events /\ F[i].kind = events[i].kind /\ F[i].time = events[i].time
             /\ F[i].delta = events[i].delta /\ F[i].number = events[i].number
             /\ F[i].track = events[i].track
             /\ F[i].secs = SecondsAt(map, events[i].time)
  <2>1. events[i] \in Events /\ events[i].time \in Nat
    BY EventsAt
  <2> DEFINE x == SecondsAt(map, events[i].time)
  <2>2. x \in Nat
    BY <2>1, SecondsNat
  <2>3. F[i] = [events[i] EXCEPT !.secs = x]
    BY <1>2
  <2> HIDE DEF x, F
  <2>4. [events[i] EXCEPT !.secs = x] \in Events
    BY <2>1, <2>2 DEF Events
  <2>5. /\ F[i].kind = events[i].kind /\ F[i].time = events[i].time
        /\ F[i].delta = events[i].delta /\ F[i].number = events[i].number
        /\ F[i].track = events[i].track
        /\ F[i].secs = x
    BY <2>1, <2>3 DEF Events
  <2> QED BY <2>3, <2>4, <2>5 DEF x
<1> HIDE DEF F
<1>4. Len(F) = n
  BY <1>1, <1>2
<1>5. F \in Seq(Events)
  BY <1>1, <1>2, <1>3
<1> QED BY <1>3, <1>4, <1>5 DEF F

LEMMA TimedTrackOK ==
  ASSUME NEW track \in Track, NEW map \in Tempos, map # <<>>, NEW t, TrackOK(track, t)
  PROVE  /\ TimedTrack(track, map) \in Track
         /\ TrackOK(TimedTrack(track, map), t)
         /\ TimedTrack(track, map).number = track.number
         /\ TimedTrack(track, map).next = None
         /\ TimedTrack(track, map).events = TimedEvents(track.events, map)
<1> DEFINE F == TimedEvents(track.events, map)
           T == TimedTrack(track, map)
<1>1. track.events \in Seq(Events) /\ LastPulses(track) \in Nat
  BY LastPulsesIs DEF Track
<1>2. /\ F \in Seq(Events) /\ Len(F) = Len(track.events)
      /\ \A i \in 1 .. Len(track.events) :
           /\ F[i].time = track.events[i].time /\ F[i].delta = track.events[i].delta
           /\ F[i].number = track.events[i].number /\ F[i].track = track.events[i].track
  BY <1>1, TimedEventsOK
<1>3. T = [track EXCEPT !.next = None, !.ahead = LastPulses(track), !.events = F]
  BY DEF TimedTrack
<1> HIDE DEF F, T
<1>4. T \in Track
  BY <1>1, <1>2, <1>3 DEF Track
<1>5. T.number = track.number /\ T.next = None /\ T.events = F
  BY <1>3 DEF Track
<1>6. EventsOK(F, t)
  <2> SUFFICES ASSUME NEW i \in 1 .. Len(F)
               PROVE  /\ F[i].number = i /\ F[i].track = t
                      /\ F[i].time = F[i].delta + TimeBefore(F, i)
    BY DEF EventsOK
  <2>1. /\ track.events[i].number = i /\ track.events[i].track = t
        /\ track.events[i].time = track.events[i].delta + TimeBefore(track.events, i)
    BY <1>2 DEF TrackOK, EventsOK
  <2>2. TimeBefore(F, i) = TimeBefore(track.events, i)
    <3>1. Len(track.events) \in Nat
      BY <1>1
    <3>2. i # 1 => i - 1 \in 1 .. Len(track.events)
      BY <1>2, <3>1
    <3> QED BY <1>2, <3>2 DEF TimeBefore
  <2> QED BY <1>2, <2>1, <2>2
<1>7. TrackOK(T, t)
  BY <1>5, <1>6 DEF TrackOK
<1> QED BY <1>4, <1>5, <1>7 DEF F, T

LEMMA RebuiltOK ==
  ASSUME NEW s, SongOK(s)
  PROVE  /\ SongOK(Rebuilt(s))
         /\ Rebuilt(s).tempos = TempoMap(s)
         /\ Len(Rebuilt(s).tracks) = Len(s.tracks)
         /\ \A t \in 1 .. Len(s.tracks) :
              Rebuilt(s).tracks[t] = TimedTrack(s.tracks[t], TempoMap(s))
<1> DEFINE map == TempoMap(s)
           n == Len(s.tracks)
           tracks == [t \in 1 .. n |-> TimedTrack(s.tracks[t], map)]
           sought == IF Positions(s) = {} THEN 0 ELSE None
<1>1. s \in Songs /\ n \in Nat
  BY SongIn DEF SongOK
<1>2. map \in Tempos /\ map # <<>>
  BY <1>1, TempoMapOK
<1>3. ASSUME NEW t \in 1 .. n
      PROVE  /\ TimedTrack(s.tracks[t], map) \in Track
             /\ TrackOK(TimedTrack(s.tracks[t], map), t)
  <2>1. s.tracks[t] \in Track /\ TrackOK(s.tracks[t], t)
    BY <1>1, TrackIn DEF SongOK
  <2> QED BY <1>2, <2>1, TimedTrackOK
<1>4. tracks \in Seq(Track) /\ Len(tracks) = n
  BY <1>1, <1>3
<1>5. Rebuilt(s) = [tracks |-> tracks, tempos |-> map, sought |-> sought]
  BY DEF Rebuilt, TimedTrack, TimedEvents
<1>6. sought \in Nat \cup {None}
  OBVIOUS
<1>7. Rebuilt(s) \in Songs
  <2> HIDE DEF tracks, map, sought
  <2> QED BY <1>2, <1>4, <1>5, <1>6 DEF Songs
<1>8. \A t \in 1 .. n : Rebuilt(s).tracks[t] = TimedTrack(s.tracks[t], map)
  BY <1>5
<1> QED BY <1>3, <1>4, <1>5, <1>7, <1>8 DEF SongOK

-------------------------------------------------------------------------------
(***************************************************************************)
(* Events taken out of a track.                                            *)
(***************************************************************************)
LEMMA ConcatIs ==
  ASSUME NEW S, NEW a \in Seq(S), NEW b \in Seq(S)
  PROVE  a \o b \in Seq(S) /\ Len(a \o b) = Len(a) + Len(b)
  OBVIOUS

LEMMA RemoveAtIs ==
  ASSUME NEW S, NEW q \in Seq(S), NEW i \in 1 .. Len(q)
  PROVE  /\ RemoveAt(q, i) \in Seq(S)
         /\ Len(RemoveAt(q, i)) = Len(q) - 1
         /\ \A j \in 1 .. Len(q) - 1 :
              RemoveAt(q, i)[j] = IF j < i THEN q[j] ELSE q[j + 1]
<1> DEFINE a == SubSeq(q, 1, i - 1)
           b == SubSeq(q, i + 1, Len(q))
<1>1. Len(q) \in Nat
  OBVIOUS
<1>2. a \in Seq(S) /\ Len(a) = i - 1 /\ \A j \in 1 .. i - 1 : a[j] = q[j]
  BY <1>1
<1>3. b \in Seq(S) /\ Len(b) = Len(q) - i /\ \A j \in 1 .. Len(q) - i : b[j] = q[j + i]
  BY <1>1
<1>4. RemoveAt(q, i) = a \o b
  BY DEF RemoveAt
<1> HIDE DEF a, b
<1>5. a \o b \in Seq(S) /\ Len(a \o b) = Len(q) - 1
  <2>1. a \o b \in Seq(S)
    BY <1>2, <1>3, ConcatIs
  <2>2. Len(a \o b) = Len(a) + Len(b)
    BY <1>2, <1>3, ConcatIs
  <2>3. (i - 1) + (Len(q) - i) = Len(q) - 1
    BY <1>1
  <2> QED BY <1>2, <1>3, <2>1, <2>2, <2>3
<1>6. ASSUME NEW j \in 1 .. Len(q) - 1
      PROVE  (a \o b)[j] = IF j < i THEN q[j] ELSE q[j + 1]
  <2>1. CASE j < i
    BY <1>1, <1>2, <1>3, <2>1
  <2>2. CASE ~ (j < i)
    <3>1. (a \o b)[j] = b[j - (i - 1)]
      BY <1>1, <1>2, <1>3, <2>2
    <3>2. j - (i - 1) \in 1 .. Len(q) - i /\ (j - (i - 1)) + i = j + 1
      BY <1>1, <2>2
    <3> QED BY <1>3, <2>2, <3>1, <3>2
  <2> QED BY <2>1, <2>2
<1> QED BY <1>4, <1>5, <1>6

\* What is left is the events in their order.
LEMMA WithoutOneOK ==
  ASSUME NEW events \in Seq(Events), NEW i \in 1 .. Len(events),
         NEW t, EventsOK(events, t)
  PROVE  LET left == Renumbered(Closed(events, i), i)
         IN /\ left \in Seq(Events) /\ Len(left) = Len(events) - 1
            /\ EventsOK(left, t)
            /\ \A j \in 1 .. Len(events) - 1 :
                 LET k == IF j < i THEN j ELSE j + 1
                 IN /\ left[j].kind = events[k].kind /\ left[j].time = events[k].time
                    /\ left[j].secs = events[k].secs
<1> DEFINE n == Len(events)
           wide == [j \in 1 .. n |-> IF j = i + 1
                                     THEN [events[j] EXCEPT !.delta = @ + events[i].delta]
                                     ELSE events[j]]
           rest == RemoveAt(wide, i)
           left == Renumbered(rest, i)
           from(j) == IF j < i THEN j ELSE j + 1
<1>1. n \in Nat /\ i \in 1 .. n
  OBVIOUS
<1>2. ASSUME NEW j \in 1 .. n
      PROVE  /\ wide[j] \in Events
             /\ wide[j].kind = events[j].kind /\ wide[j].time = events[j].time
             /\ wide[j].secs = events[j].secs /\ wide[j].number = events[j].number
             /\ wide[j].track = events[j].track
             /\ wide[j].delta = events[j].delta + (IF j = i + 1 THEN events[i].delta ELSE 0)
  <2>1. events[j] \in Events /\ events[j].delta \in Nat /\ events[i].delta \in Nat
    BY EventsAt
  <2> DEFINE x == events[j].delta + events[i].delta
  <2>2. x \in Nat
    BY <2>1
  <2>3. CASE j = i + 1
    <3>1. wide[j] = [events[j] EXCEPT !.delta = x]
      BY <2>3
    <3> HIDE DEF wide, x
    <3>2. wide[j] \in Events /\ wide[j].delta = x
      BY <2>1, <2>2, <3>1 DEF Events
    <3>3. /\ wide[j].kind = events[j].kind /\ wide[j].time = events[j].time
          /\ wide[j].secs = events[j].secs /\ wide[j].number = events[j].number
          /\ wide[j].track = events[j].track
      BY <2>1, <3>1 DEF Events
    <3> QED BY <2>3, <3>2, <3>3 DEF x
  <2>4. CASE j # i + 1
    BY <2>1, <2>4
  <2> QED BY <2>3, <2>4
<1>3. wide \in Seq(Events) /\ Len(wide) = n
  <2>1. wide = [j \in 1 .. n |-> wide[j]]
    OBVIOUS
  <2> HIDE DEF wide
  <2>2. wide \in [1 .. n -> Events]
    BY <1>2, <2>1
  <2> QED BY <1>1, <2>2
<1>4. /\ rest \in Seq(Events) /\ Len(rest) = n - 1
      /\ \A j \in 1 .. n - 1 : rest[j] = wide[from(j)]
  <2> HIDE DEF wide
  <2>1. i \in 1 .. Len(wide)
    BY <1>3
  <2>2. /\ rest \in Seq(Events) /\ Len(rest) = Len(wide) - 1
        /\ \A j \in 1 .. Len(wide) - 1 :
             rest[j] = IF j < i THEN wide[j] ELSE wide[j + 1]
    BY <1>3, <2>1, RemoveAtIs
  <2> QED BY <1>1, <1>3, <2>2
<1> HIDE DEF wide, rest
<1>5. left = [j \in 1 .. n - 1 |-> IF j < i THEN rest[j] ELSE [rest[j] EXCEPT !.number = j]]
  BY <1>4 DEF Renumbered
<1>6. ASSUME NEW j \in 1 .. n - 1
      PROVE  /\ left[j] \in Events /\ left[j].number = j /\ left[j].track = t
             /\ left[j].kind = events[from(j)].kind
             /\ left[j].time = events[from(j)].time
             /\ left[j].secs = events[from(j)].secs
             /\ left[j].delta = wide[from(j)].delta
  <2> DEFINE k == from(j)
  <2>1. k \in 1 .. n /\ j \in Nat
    BY <1>1
  <2>2. events[k].number = k /\ events[k].track = t
    BY <2>1 DEF EventsOK
  <2>3. rest[j] = wide[k] /\ rest[j] \in Events
    BY <1>2, <1>4, <2>1
  <2>4. CASE j < i
    <3>1. left[j] = wide[k] /\ k = j
      BY <1>5, <2>3, <2>4
    <3> HIDE DEF k
    <3>2. left[j] = wide[k] /\ k = j
      BY <3>1
    <3> QED BY <1>2, <2>1, <2>2, <3>2 DEF k
  <2>5. CASE ~ (j < i)
    <3>1. left[j] = [wide[k] EXCEPT !.number = j]
      BY <1>5, <2>3, <2>5
    <3> HIDE DEF k, left
    <3>2. wide[k] \in Events
      BY <1>2, <2>1
    <3>3. left[j] \in Events /\ left[j].number = j /\ left[j].track = wide[k].track
          /\ left[j].kind = wide[k].kind /\ left[j].time = wide[k].time
          /\ left[j].secs = wide[k].secs /\ left[j].delta = wide[k].delta
      BY <2>1, <3>1, <3>2 DEF Events
    <3>4. wide[k].track = events[k].track /\ wide[k].kind = events[k].kind
          /\ wide[k].time = events[k].time /\ wide[k].secs = events[k].secs
      BY <1>2, <2>1
    <3> QED BY <2>2, <3>3, <3>4 DEF k
  <2> QED BY <2>4, <2>5
<1>7. left \in Seq(Events) /\ Len(left) = n - 1
  <2>1. n - 1 \in Nat
    BY <1>1
  <2>2. left = [j \in 1 .. n - 1 |-> left[j]]
    BY <1>5
  <2> HIDE DEF left, from
  <2>3. left \in [1 .. n - 1 -> Events]
    BY <1>6, <2>2
  <2> QED BY <2>1, <2>3
<1>8. EventsOK(left, t)
  <2> SUFFICES ASSUME NEW j \in 1 .. n - 1
               PROVE  left[j].time = left[j].delta + TimeBefore(left, j)
    <3> HIDE DEF left, from
    <3> QED BY <1>6, <1>7 DEF EventsOK
  <2> DEFINE k == from(j)
  <2>1. k \in 1 .. n /\ j \in 1 .. n /\ i \in 1 .. n
    BY <1>1
  <2>2. /\ events[k].time = events[k].delta + TimeBefore(events, k)
        /\ events[i].time = events[i].delta + TimeBefore(events, i)
    BY <2>1 DEF EventsOK
  <2>3. /\ events[k].time \in Nat /\ events[k].delta \in Nat /\ events[i].time \in Nat
        /\ events[i].delta \in Nat
    BY <2>1, EventsAt
  <2>4. /\ left[j].time = events[k].time
        /\ left[j].delta = events[k].delta + (IF k = i + 1 THEN events[i].delta ELSE 0)
    BY <1>2, <1>6, <2>1
  <2>5. j # 1 => left[j - 1].time = events[from(j - 1)].time
    <3>1. j # 1 => j - 1 \in 1 .. n - 1
      BY <1>1
    <3> QED BY <1>6, <3>1
  <2>6. TimeBefore(left, j) = IF j = 1 THEN 0 ELSE events[from(j - 1)].time
    BY <2>5 DEF TimeBefore
  <2> HIDE DEF left
  <2>7. CASE j < i
    <3>1. k = j /\ k # i + 1 /\ (j # 1 => from(j - 1) = j - 1)
      BY <2>1, <2>7
    <3>2. TimeBefore(left, j) = TimeBefore(events, k)
      BY <2>6, <3>1 DEF TimeBefore
    <3> QED BY <2>2, <2>3, <2>4, <3>1, <3>2
  <2>8. CASE j = i
    <3>1. k = i + 1 /\ k # 1 /\ k - 1 = i /\ (j # 1 => from(j - 1) = i - 1)
      BY <2>1, <2>8
    <3>2. TimeBefore(left, j) = TimeBefore(events, i)
      BY <2>6, <2>8, <3>1 DEF TimeBefore
    <3>3. TimeBefore(events, k) = events[i].time
      BY <3>1 DEF TimeBefore
    <3>4. TimeBefore(events, i) \in Nat
      <4>1. i # 1 => i - 1 \in 1 .. n
        BY <2>1
      <4>2. i # 1 => events[i - 1].time \in Nat
        BY <4>1, EventsAt
      <4> QED BY <4>2 DEF TimeBefore
    <3> HIDE DEF k
    <3> QED BY <2>2, <2>3, <2>4, <3>1, <3>2, <3>3, <3>4, SMTT(30)
  <2>9. CASE j > i
    <3>1. k = j + 1 /\ k # i + 1 /\ k # 1 /\ j # 1 /\ from(j - 1) = j /\ k - 1 = j
      BY <2>1, <2>9
    <3>2. TimeBefore(left, j) = TimeBefore(events, k)
      BY <2>6, <3>1 DEF TimeBefore
    <3> QED BY <2>2, <2>3, <2>4, <3>1, <3>2
  <2> QED BY <2>1, <2>7, <2>8, <2>9
<1>9. left = Renumbered(Closed(events, i), i)
  BY DEF Closed, wide, rest
<1> HIDE DEF left
<1> QED BY <1>6, <1>7, <1>8, <1>9

LEMMA WithTrackOK ==
  ASSUME NEW s, SongOK(s), NEW t \in 1 .. Len(s.tracks),
         NEW track \in Track, TrackOK(track, t)
  PROVE  LET r == [s EXCEPT !.tracks[t] = track]
         IN /\ SongOK(r) /\ Len(r.tracks) = Len(s.tracks)
            /\ r.tempos = s.tempos /\ r.sought = s.sought
            /\ r.tracks[t] = track
            /\ \A u \in 1 .. Len(s.tracks) : u # t => r.tracks[u] = s.tracks[u]
<1> DEFINE n == Len(s.tracks)
           tracks == [s.tracks EXCEPT ![t] = track]
           r == [s EXCEPT !.tracks[t] = track]
<1>1. /\ s.tracks \in Seq(Track) /\ n \in Nat
      /\ s.tempos \in Tempos /\ s.sought \in Nat \cup {None}
      /\ s = [tracks |-> s.tracks, tempos |-> s.tempos, sought |-> s.sought]
  BY SongIn DEF SongOK
<1>2. tracks \in Seq(Track) /\ Len(tracks) = n
  BY <1>1
<1>3. tracks[t] = track /\ \A u \in 1 .. n : u # t => tracks[u] = s.tracks[u]
  BY <1>1
<1>4. r = [tracks |-> tracks, tempos |-> s.tempos, sought |-> s.sought]
  <2>1. r = [s EXCEPT !.tracks = tracks]
    OBVIOUS
  <2> HIDE DEF tracks, r
  <2> QED BY <1>1, <2>1
<1> HIDE DEF tracks, r
<1>5. r \in Songs
  BY <1>1, <1>2, <1>4 DEF Songs
<1>6. ASSUME NEW u \in 1 .. n PROVE TrackOK(tracks[u], u)
  <2>1. CASE u = t
    BY <1>3, <2>1
  <2>2. CASE u # t
    BY <1>3, <2>2 DEF SongOK
  <2> QED BY <2>1, <2>2
<1>7. r.tracks = tracks /\ r.tempos = s.tempos /\ r.sought = s.sought
  BY <1>4
<1>8. SongOK(r)
  BY <1>2, <1>5, <1>6, <1>7 DEF SongOK
<1> QED BY <1>2, <1>3, <1>7, <1>8 DEF r

LEMMA WithTemposOK ==
  ASSUME NEW s, SongOK(s), NEW m \in Tempos
  PROVE  /\ SongOK([s EXCEPT !.tempos = m])
         /\ [s EXCEPT !.tempos = m].tracks = s.tracks
         /\ [s EXCEPT !.tempos = m].tempos = m
         /\ [s EXCEPT !.tempos = m].sought = s.sought
<1> DEFINE r == [s EXCEPT !.tempos = m]
<1>1. /\ s.tracks \in Seq(Track) /\ s.sought \in Nat \cup {None}
      /\ s = [tracks |-> s.tracks, tempos |-> s.tempos, sought |-> s.sought]
  BY SongIn DEF SongOK
<1>2. r = [tracks |-> s.tracks, tempos |-> m, sought |-> s.sought]
  BY <1>1
<1> HIDE DEF r
<1>3. r \in Songs /\ r.tracks = s.tracks /\ r.tempos = m /\ r.sought = s.sought
  BY <1>1, <1>2 DEF Songs
<1>4. SongOK(r)
  BY <1>3 DEF SongOK
<1> QED BY <1>3, <1>4 DEF r

\* A song without an event, before its tempo map is looked at.
Left(s, t, i) == Renumbered(Closed(s.tracks[t].events, i), i)

TakenTrack(s, t, i) ==
  [s.tracks[t] EXCEPT !.events = Left(s, t, i),
                      !.next = IF Left(s, t, i) = <<>> THEN None ELSE @]

Taken(s, t, i) == [s EXCEPT !.tracks[t] = TakenTrack(s, t, i)]

LEMMA TakenOK ==
  ASSUME NEW s, SongOK(s), NEW t \in 1 .. Len(s.tracks),
         NEW i \in 1 .. Len(s.tracks[t].events)
  PROVE  /\ SongOK(Taken(s, t, i)) /\ Len(Taken(s, t, i).tracks) = Len(s.tracks)
         /\ Taken(s, t, i).tempos = s.tempos /\ Taken(s, t, i).sought = s.sought
         /\ Taken(s, t, i).tracks[t].events = Left(s, t, i)
         /\ \A u \in 1 .. Len(s.tracks) : u # t => Taken(s, t, i).tracks[u] = s.tracks[u]
<1> DEFINE track == s.tracks[t]
           left == Left(s, t, i)
           new == TakenTrack(s, t, i)
<1>1. s \in Songs
  BY DEF SongOK
<1>2. track \in Track /\ TrackOK(track, t) /\ track.events \in Seq(Events)
  BY <1>1, TrackIn DEF SongOK
<1>3. left \in Seq(Events) /\ EventsOK(left, t)
  BY <1>2, WithoutOneOK DEF TrackOK, Left
<1>4. /\ new = [track EXCEPT !.events = left, !.next = IF left = <<>> THEN None ELSE @]
  BY DEF TakenTrack
<1> HIDE DEF left, new, track
<1>5. new \in Track /\ new.events = left /\ new.number = track.number
      /\ (left = <<>> => new.next = None)
  BY <1>2, <1>3, <1>4 DEF Track
<1>6. TrackOK(new, t)
  BY <1>2, <1>3, <1>5 DEF TrackOK
<1> QED BY <1>5, <1>6, WithTrackOK DEF Taken, left, new, track

LEMMA TakenIs ==
  ASSUME NEW s, SongOK(s), NEW t \in 1 .. Len(s.tracks),
         NEW i \in 1 .. Len(s.tracks[t].events)
  PROVE  Removed(s, t, i) =
           LET event == s.tracks[t].events[i]
           IN IF event.kind \notin Rates THEN Taken(s, t, i)
              ELSE IF IsLast(s, event.time)
              THEN [Taken(s, t, i) EXCEPT !.tempos = WithoutLastTempo(@, event.time)]
              ELSE Rebuilt(Taken(s, t, i))
<1> DEFINE left == Left(s, t, i)
           rest == [s EXCEPT !.tracks[t].events = left,
                             !.tracks[t].next = IF left = <<>> THEN None ELSE @]
<1>1. /\ s.tracks \in Seq(Track)
      /\ s = [tracks |-> s.tracks, tempos |-> s.tempos, sought |-> s.sought]
  BY SongIn DEF SongOK
<1>2. s.tracks[t] \in Track
  BY <1>1
<1> HIDE DEF left
<1>3. rest = Taken(s, t, i)
  BY <1>1, <1>2 DEF Taken, TakenTrack, left, Track
<1> DEFINE event == s.tracks[t].events[i]
<1>4. Removed(s, t, i) =
        IF event.kind \notin Rates THEN rest
        ELSE IF IsLast(s, event.time)
             THEN [rest EXCEPT !.tempos = WithoutLastTempo(@, event.time)]
             ELSE Rebuilt(rest)
  BY DEF Removed, Left, left
<1> HIDE DEF rest
<1> QED BY <1>3, <1>4

LEMMA RemovedOK ==
  ASSUME NEW s, SongOK(s), NEW t \in 1 .. Len(s.tracks),
         NEW i \in 1 .. Len(s.tracks[t].events)
  PROVE  /\ SongOK(Removed(s, t, i))
         /\ Len(Removed(s, t, i).tracks) = Len(s.tracks)
         /\ Len(Removed(s, t, i).tracks[t].events) = Len(s.tracks[t].events) - 1
<1> DEFINE r == Taken(s, t, i)
           event == s.tracks[t].events[i]
<1>1. SongOK(r) /\ Len(r.tracks) = Len(s.tracks) /\ r.tracks[t].events = Left(s, t, i)
  BY TakenOK
<1>2. s \in Songs /\ s.tracks[t].events \in Seq(Events) /\ EventsOK(s.tracks[t].events, t)
  BY TrackIn DEF SongOK, TrackOK
<1>3. Len(Left(s, t, i)) = Len(s.tracks[t].events) - 1
  BY <1>2, WithoutOneOK DEF Left
<1>4. event.time \in Nat
  BY <1>2, EventsAt
<1>5. r.tempos \in Tempos
  BY <1>1, SongIn DEF SongOK
<1> HIDE DEF r, event
<1>6. CASE Removed(s, t, i) = r
  BY <1>1, <1>3, <1>6
<1>7. CASE Removed(s, t, i) = [r EXCEPT !.tempos = WithoutLastTempo(@, event.time)]
  <2>1. SongOK(Removed(s, t, i)) /\ Removed(s, t, i).tracks = r.tracks
    <3> DEFINE m == WithoutLastTempo(r.tempos, event.time)
    <3>1. m \in Tempos
      BY <1>4, <1>5, WithoutLastTempoOK
    <3>2. Removed(s, t, i) = [r EXCEPT !.tempos = m]
      BY <1>7
    <3> HIDE DEF m
    <3> QED BY <1>1, <3>1, <3>2, WithTemposOK
  <2> QED BY <1>1, <1>3, <2>1
<1>8. CASE Removed(s, t, i) = Rebuilt(r)
  <2>1. /\ SongOK(Rebuilt(r)) /\ Len(Rebuilt(r).tracks) = Len(r.tracks)
        /\ Rebuilt(r).tracks[t] = TimedTrack(r.tracks[t], TempoMap(r))
    BY <1>1, RebuiltOK
  <2>2. r \in Songs /\ r.tracks[t] \in Track /\ TrackOK(r.tracks[t], t)
        /\ r.tracks[t].events \in Seq(Events)
    BY <1>1, TrackIn DEF SongOK
  <2>3. TempoMap(r) \in Tempos /\ TempoMap(r) # <<>>
    BY <2>2, TempoMapOK
  <2>4. Rebuilt(r).tracks[t].events = TimedEvents(r.tracks[t].events, TempoMap(r))
    BY <2>1, <2>2, <2>3, TimedTrackOK
  <2>5. Len(Rebuilt(r).tracks[t].events) = Len(r.tracks[t].events)
    BY <2>2, <2>3, <2>4, TimedEventsOK
  <2> QED BY <1>1, <1>3, <1>8, <2>1, <2>5
<1> QED BY <1>6, <1>7, <1>8, TakenIs DEF r, event

-------------------------------------------------------------------------------
(***************************************************************************)
(* Events put into a track.                                                *)
(***************************************************************************)
LEMMA InsertAtIs ==
  ASSUME NEW S, NEW q \in Seq(S), NEW i \in 1 .. Len(q), NEW x \in S
  PROVE  /\ InsertAt(q, i, x) \in Seq(S)
         /\ Len(InsertAt(q, i, x)) = Len(q) + 1
         /\ \A j \in 1 .. Len(q) + 1 :
              InsertAt(q, i, x)[j] = IF j < i THEN q[j] ELSE IF j = i THEN x ELSE q[j - 1]
<1> DEFINE a == SubSeq(q, 1, i - 1)
           b == SubSeq(q, i, Len(q))
           c == a \o <<x>>
<1>1. Len(q) \in Nat
  OBVIOUS
<1>2. a \in Seq(S) /\ Len(a) = i - 1 /\ \A j \in 1 .. i - 1 : a[j] = q[j]
  BY <1>1
<1>3. b \in Seq(S) /\ Len(b) = Len(q) - i + 1
      /\ \A j \in 1 .. Len(q) - i + 1 : b[j] = q[j + i - 1]
  BY <1>1
<1>4. InsertAt(q, i, x) = c \o b
  BY DEF InsertAt
<1> HIDE DEF a, b
<1>5. c \in Seq(S) /\ Len(c) = i /\ c[i] = x /\ \A j \in 1 .. i - 1 : c[j] = q[j]
  <2>1. <<x>> \in Seq(S) /\ Len(<<x>>) = 1 /\ <<x>>[1] = x
    OBVIOUS
  <2>2. c \in Seq(S) /\ Len(c) = Len(a) + 1
    BY <1>2, <2>1, ConcatIs
  <2>3. c[i] = x
    BY <1>1, <1>2
  <2>4. \A j \in 1 .. i - 1 : c[j] = a[j]
    BY <1>1, <1>2
  <2> QED BY <1>1, <1>2, <2>2, <2>3, <2>4
<1> HIDE DEF c
<1>6. c \o b \in Seq(S) /\ Len(c \o b) = Len(q) + 1
  <2>1. c \o b \in Seq(S) /\ Len(c \o b) = Len(c) + Len(b)
    BY <1>3, <1>5, ConcatIs
  <2> QED BY <1>1, <1>3, <1>5, <2>1
<1>7. ASSUME NEW j \in 1 .. Len(q) + 1
      PROVE  (c \o b)[j] = IF j < i THEN q[j] ELSE IF j = i THEN x ELSE q[j - 1]
  <2>1. CASE j <= i
    <3>1. (c \o b)[j] = c[j]
      BY <1>1, <1>3, <1>5, <2>1
    <3> QED BY <1>1, <1>5, <2>1, <3>1
  <2>2. CASE j > i
    <3>1. (c \o b)[j] = b[j - i]
      BY <1>1, <1>3, <1>5, <2>2
    <3>2. j - i \in 1 .. Len(q) - i + 1 /\ (j - i) + i - 1 = j - 1
      BY <1>1, <2>2
    <3> QED BY <1>3, <2>2, <3>1, <3>2
  <2>3. j <= i \/ j > i
    BY <1>1
  <2> QED BY <2>1, <2>2, <2>3
<1> QED BY <1>4, <1>6, <1>7

AtEnd(events, time) == events = <<>> \/ Last(events).time <= time

\* Where an event of that time goes.
PlaceAt(events, time) ==
  IF AtEnd(events, time) THEN Len(events) + 1
  ELSE SelectInSeq(events, LAMBDA x : x.time >= time)

LEMMA PlaceAtIs ==
  ASSUME NEW events \in Seq(Events), NEW time \in Nat, ~ AtEnd(events, time)
  PROVE  /\ PlaceAt(events, time) \in 1 .. Len(events)
         /\ events[PlaceAt(events, time)].time >= time
         /\ \A j \in 1 .. Len(events) :
              j < PlaceAt(events, time) => events[j].time < time
<1> DEFINE I == {j \in 1 .. Len(events) : events[j].time >= time}
           i == PlaceAt(events, time)
<1>1. Len(events) \in Nat /\ Len(events) \in 1 .. Len(events)
      /\ ~ (events[Len(events)].time <= time)
  BY DEF AtEnd, Last
<1>2. \A j \in 1 .. Len(events) : events[j].time \in Nat
  BY EventsAt
<1>3. Len(events) \in I
  BY <1>1, <1>2
<1>4. i = Min(I)
  BY <1>3 DEF PlaceAt, SelectInSeq
<1>5. I \subseteq Nat /\ I # {}
  BY <1>3
<1> HIDE DEF I, i
<1>6. i \in I /\ \A y \in I : i <= y
  BY <1>4, <1>5, MinOf
<1>7. i \in 1 .. Len(events) /\ events[i].time >= time
  BY <1>6 DEF I
<1>8. ASSUME NEW j \in 1 .. Len(events), j < i PROVE events[j].time < time
  <2>1. j \notin I
    BY <1>6, <1>7, <1>8
  <2> QED BY <1>2, <2>1 DEF I
<1> QED BY <1>7, <1>8 DEF i

NewEvent(kind, time, secs, t) ==
  [kind |-> kind, time |-> time, secs |-> secs, delta |-> None, number |-> None,
   track |-> t]

RawEvents ==
  [kind : Kinds, time : Nat, secs : Nat, delta : Int, number : Int, track : Nat]

LEMMA NewEventIs ==
  ASSUME NEW kind \in Kinds, NEW time \in Nat, NEW secs \in Nat, NEW t \in Nat
  PROVE  /\ NewEvent(kind, time, secs, t) \in RawEvents
         /\ NewEvent(kind, time, secs, t).kind = kind
         /\ NewEvent(kind, time, secs, t).time = time
         /\ NewEvent(kind, time, secs, t).secs = secs
         /\ NewEvent(kind, time, secs, t).track = t
  BY DEF NewEvent, RawEvents, None


LEMMA PlacedAtEnd ==
  ASSUME NEW events \in Seq(Events), NEW t \in Nat, EventsOK(events, t),
         NEW kind \in Kinds, NEW time \in Nat, NEW secs \in Nat,
         AtEnd(events, time)
  PROVE  LET all == Placed(events, NewEvent(kind, time, secs, t))
             n == Len(events)
         IN /\ all \in Seq(Events) /\ Len(all) = n + 1
            /\ EventsOK(all, t)
            /\ all[n + 1].kind = kind /\ all[n + 1].time = time /\ all[n + 1].secs = secs
            /\ \A j \in 1 .. n : all[j] = events[j]
<1> DEFINE n == Len(events)
           e == NewEvent(kind, time, secs, t)
           before == IF events = <<>> THEN 0 ELSE Last(events).time
           new == [e EXCEPT !.number = n + 1, !.delta = time - before]
           all == Append(events, new)
<1>1. n \in Nat
  OBVIOUS
<1>2. Placed(events, e) = all
  BY DEF Placed, AtEnd, NewEvent
<1>3. n # 0 => n \in 1 .. n /\ before = events[n].time /\ events[n].time \in Nat
  <2>1. n # 0 => n \in 1 .. n
    BY <1>1
  <2>2. n # 0 => before = events[n].time
    BY DEF Last
  <2> QED BY <2>1, <2>2, EventsAt
<1>4. n = 0 => before = 0
  OBVIOUS
<1>5. before \in Nat /\ before <= time
  BY <1>3, <1>4 DEF AtEnd
<1> HIDE DEF before
<1>7. time - before \in Nat /\ n + 1 \in Nat
  BY <1>1, <1>5
<1>6. /\ new \in Events /\ new.kind = kind /\ new.time = time /\ new.secs = secs
      /\ new.delta = time - before /\ new.number = n + 1 /\ new.track = t
  <2>1. /\ e \in RawEvents /\ e.kind = kind /\ e.time = time /\ e.secs = secs
        /\ e.track = t
    BY NewEventIs
  <2> DEFINE d == time - before
             m == n + 1
  <2>2. new = [e EXCEPT !.number = m, !.delta = d]
    OBVIOUS
  <2>3. d \in Nat /\ m \in Nat
    BY <1>7
  <2> HIDE DEF new, e, d, m
  <2>4. /\ new \in Events /\ new.kind = e.kind /\ new.time = e.time
        /\ new.secs = e.secs /\ new.track = e.track /\ new.delta = d /\ new.number = m
    BY <2>1, <2>2, <2>3 DEF RawEvents, Events
  <2> QED BY <2>1, <2>4 DEF d, m
<1> HIDE DEF new
<1>9. all \in Seq(Events) /\ Len(all) = n + 1 /\ all[n + 1] = new
      /\ \A j \in 1 .. n : all[j] = events[j]
  BY <1>1, <1>6
<1> HIDE DEF all
<1>10. ASSUME NEW j \in 1 .. n + 1
       PROVE  /\ all[j].number = j /\ all[j].track = t
              /\ all[j].time = all[j].delta + TimeBefore(all, j)
  <2>1. CASE j = n + 1
    <3>1. TimeBefore(all, j) = before
      BY <1>1, <1>3, <1>4, <1>9, <2>1 DEF TimeBefore
    <3>2. time = (time - before) + before
      BY <1>5
    <3> QED BY <1>6, <1>9, <2>1, <3>1, <3>2
  <2>2. CASE j # n + 1
    <3>1. j \in 1 .. n /\ (j # 1 => j - 1 \in 1 .. n)
      BY <1>1, <2>2
    <3>2. TimeBefore(all, j) = TimeBefore(events, j)
      BY <1>9, <3>1 DEF TimeBefore
    <3> QED BY <1>9, <3>1, <3>2 DEF EventsOK
  <2> QED BY <2>1, <2>2
<1>11. EventsOK(all, t)
  BY <1>9, <1>10 DEF EventsOK
<1>12. all[n + 1].kind = kind /\ all[n + 1].time = time /\ all[n + 1].secs = secs
  BY <1>6, <1>9
<1> QED BY <1>2, <1>9, <1>11, <1>12

PlacedLast(all, events, kind, time, secs, t) ==
  LET n == Len(events)
  IN /\ all \in Seq(Events) /\ Len(all) = n + 1
     /\ EventsOK(all, t)
     /\ all[n + 1].kind = kind /\ all[n + 1].time = time /\ all[n + 1].secs = secs
     /\ \A j \in 1 .. n : all[j] = events[j]

LEMMA LastPlaced ==
  ASSUME NEW events \in Seq(Events), NEW t \in Nat, EventsOK(events, t),
         NEW kind \in Kinds, NEW time \in Nat, NEW secs \in Nat,
         AtEnd(events, time)
  PROVE  PlacedLast(Placed(events, NewEvent(kind, time, secs, t)),
                    events, kind, time, secs, t)
  BY PlacedAtEnd DEF PlacedLast

LEMMA PlacedBefore ==
  ASSUME NEW events \in Seq(Events), NEW t \in Nat, EventsOK(events, t),
         NEW kind \in Kinds, NEW time \in Nat, NEW secs \in Nat,
         ~ AtEnd(events, time)
  PROVE  LET all == Placed(events, NewEvent(kind, time, secs, t))
             n == Len(events)
             i == PlaceAt(events, time)
         IN /\ all \in Seq(Events) /\ Len(all) = n + 1
            /\ EventsOK(all, t)
            /\ all[i].kind = kind /\ all[i].time = time /\ all[i].secs = secs
            /\ \A j \in 1 .. n + 1 :
                 j # i => LET k == IF j < i THEN j ELSE j - 1
                          IN /\ all[j].kind = events[k].kind
                             /\ all[j].time = events[k].time
                             /\ all[j].secs = events[k].secs
<1> DEFINE n == Len(events)
           i == PlaceAt(events, time)
           e == NewEvent(kind, time, secs, t)
           before == TimeBefore(events, i)
           gap == time - before
           new == [e EXCEPT !.delta = gap]
           late == [events[i] EXCEPT !.delta = @ - gap]
           later == [events EXCEPT ![i] = late]
           wide == InsertAt(later, i, new)
           all == [j \in 1 .. Len(wide) |-> [wide[j] EXCEPT !.number = j]]
<1>1. n \in Nat /\ i \in 1 .. n /\ events[i].time >= time
      /\ \A j \in 1 .. n : j < i => events[j].time < time
  BY PlaceAtIs
<1>2. Placed(events, e) = all
  <2>1. PlaceAt(events, time) = SelectInSeq(events, LAMBDA x : x.time >= e.time)
    BY DEF PlaceAt, NewEvent
  <2>2. Placed(events, e) = Renumbered(wide, 1)
    <3>1. e.time = time
      BY DEF NewEvent
    <3>2. ~ (events = <<>> \/ Last(events).time <= e.time)
      BY <3>1 DEF AtEnd
    <3>3. e.time - (IF i = 1 THEN 0 ELSE events[i - 1].time) = gap
      BY <3>1 DEF TimeBefore
    <3>4. [events EXCEPT ![i].delta = @ - gap] = later
      OBVIOUS
    <3> HIDE DEF i, gap, later, wide, e
    <3> QED BY <2>1, <3>2, <3>3, <3>4 DEF Placed, i, wide
  <2>3. Renumbered(wide, 1) = all
    <3> HIDE DEF wide
    <3>1. \A j \in 1 .. Len(wide) : ~ (j < 1)
      OBVIOUS
    <3> QED BY <3>1 DEF Renumbered
  <2> QED BY <2>2, <2>3
<1>3. \A j \in 1 .. n : /\ events[j] \in Events /\ events[j].time \in Nat
                        /\ events[j].delta \in Nat /\ events[j].number = j
                        /\ events[j].track = t
                        /\ events[j].time = events[j].delta + TimeBefore(events, j)
  BY EventsAt DEF EventsOK
<1>4. before \in Nat /\ gap \in Nat /\ (i = 1 => before = 0)
      /\ (i # 1 => before = events[i - 1].time)
  <2>1. i = 1 => before = 0
    BY DEF TimeBefore
  <2>2. i # 1 => i - 1 \in 1 .. n /\ i - 1 < i /\ before = events[i - 1].time
    BY <1>1 DEF TimeBefore
  <2>3. before \in Nat /\ before <= time
    <3> HIDE DEF before, i
    <3> QED BY <1>1, <1>3, <2>1, <2>2
  <2> QED BY <2>1, <2>2, <2>3
<1> HIDE DEF before, gap, i, new, late, later, wide, all
<1>5. /\ e \in RawEvents /\ e.kind = kind /\ e.time = time /\ e.secs = secs /\ e.track = t
  BY DEF NewEvent, RawEvents, None
<1>6. /\ new \in RawEvents /\ new.kind = kind /\ new.time = time /\ new.secs = secs
      /\ new.track = t /\ new.delta = gap
  <2>1. new = [e EXCEPT !.delta = gap]
    BY DEF new
  <2> HIDE DEF new, e
  <2> QED BY <1>4, <1>5, <2>1 DEF RawEvents
<1>7. /\ late \in RawEvents /\ late.kind = events[i].kind /\ late.time = events[i].time
      /\ late.secs = events[i].secs /\ late.track = t
      /\ late.delta = events[i].time - time /\ late.delta \in Nat
  <2> DEFINE d == events[i].delta - gap
  <2>1. late = [events[i] EXCEPT !.delta = d]
    BY DEF late
  <2>2. d = events[i].time - time /\ d \in Nat
    <3>1. events[i].time = events[i].delta + before
      BY <1>1, <1>3 DEF before
    <3>2. gap = time - before
      BY DEF gap
    <3> QED BY <1>1, <1>3, <1>4, <3>1, <3>2
  <2>3. events[i] \in Events /\ events[i].track = t
    BY <1>1, <1>3
  <2> HIDE DEF d
  <2>6. late.delta = d
    BY <2>1, <2>3 DEF Events
  <2>7. late \in Events
    BY <2>1, <2>2, <2>3 DEF Events
  <2>8. Events \subseteq RawEvents
    BY DEF Events, RawEvents
  <2>4. late.delta = d /\ late \in RawEvents
    BY <2>6, <2>7, <2>8
  <2>5. /\ late.kind = events[i].kind /\ late.time = events[i].time
        /\ late.secs = events[i].secs /\ late.track = events[i].track
    BY <2>1, <2>3 DEF Events
  <2> QED BY <2>2, <2>3, <2>4, <2>5
<1> HIDE DEF e
<1>8. /\ later \in Seq(RawEvents) /\ Len(later) = n /\ later[i] = late
      /\ \A j \in 1 .. n : j # i => later[j] = events[j]
  <2>1. Events \subseteq RawEvents
    BY DEF Events, RawEvents
  <2>2. events \in Seq(RawEvents)
    BY <2>1
  <2> QED BY <1>1, <1>7, <2>2 DEF later
<1>9. /\ Len(wide) = n + 1 /\ wide \in Seq(RawEvents)
      /\ \A j \in 1 .. n + 1 :
           wide[j] = IF j < i THEN later[j] ELSE IF j = i THEN new ELSE later[j - 1]
  <2>1. i \in 1 .. Len(later)
    BY <1>1, <1>8
  <2>2. /\ Len(wide) = Len(later) + 1 /\ wide \in Seq(RawEvents)
        /\ \A j \in 1 .. Len(later) + 1 :
             wide[j] = IF j < i THEN later[j] ELSE IF j = i THEN new ELSE later[j - 1]
    BY <1>6, <1>8, <2>1, InsertAtIs DEF wide
  <2> QED BY <1>8, <2>2
<1> DEFINE from(j) == IF j < i THEN j ELSE j - 1
<1>10. ASSUME NEW j \in 1 .. n + 1
       PROVE  /\ wide[j] \in RawEvents /\ wide[j].track = t /\ wide[j].delta \in Nat
              /\ j = i => wide[j] = new
              /\ j # i => /\ from(j) \in 1 .. n
                          /\ wide[j].kind = events[from(j)].kind
                          /\ wide[j].time = events[from(j)].time
                          /\ wide[j].secs = events[from(j)].secs
              /\ j = i + 1 => wide[j].delta = events[i].time - time
              /\ j # i /\ j # i + 1 => wide[j].delta = events[from(j)].delta
  <2>1. Events \subseteq RawEvents
    BY DEF Events, RawEvents
  <2>2. CASE j < i
    <3>2. j \in 1 .. n /\ j # i /\ from(j) = j /\ j # i + 1
      BY <1>1, <2>2
    <3>3. wide[j] = later[j]
      BY <1>9, <2>2
    <3>1. wide[j] = events[j] /\ j \in 1 .. n /\ from(j) = j /\ j # i + 1
      BY <1>8, <3>2, <3>3
    <3> HIDE DEF from, i
    <3> QED BY <1>3, <2>1, <2>2, <3>1
  <2>3. CASE j = i
    <3>1. wide[j] = new /\ j # i + 1
      BY <1>1, <1>9, <2>3
    <3> HIDE DEF from, i
    <3> QED BY <1>4, <1>6, <2>3, <3>1
  <2>4. CASE j = i + 1
    <3>1. wide[j] = late /\ j # i /\ from(j) = i
      BY <1>1, <1>8, <1>9, <2>4
    <3> HIDE DEF from, i
    <3> QED BY <1>1, <1>7, <2>4, <3>1
  <2>5. CASE j > i + 1
    <3>1. j - 1 \in 1 .. n /\ j - 1 # i /\ from(j) = j - 1 /\ j # i /\ j # i + 1
      BY <1>1, <2>5
    <3>3. ~ (j < i)
      BY <1>1, <2>5
    <3>4. wide[j] = later[j - 1]
      BY <1>9, <3>1, <3>3
    <3>2. wide[j] = events[from(j)]
      <4> HIDE DEF from
      <4> QED BY <1>8, <3>1, <3>4
    <3> HIDE DEF from, i
    <3> QED BY <1>3, <2>1, <3>1, <3>2
  <2> QED BY <1>1, <2>2, <2>3, <2>4, <2>5
<1>11. ASSUME NEW j \in 1 .. n + 1
       PROVE  /\ all[j] \in Events /\ all[j].number = j
              /\ all[j].kind = wide[j].kind /\ all[j].time = wide[j].time
              /\ all[j].secs = wide[j].secs /\ all[j].track = wide[j].track
              /\ all[j].delta = wide[j].delta
  <2>1. all[j] = [wide[j] EXCEPT !.number = j]
    BY <1>9 DEF all
  <2>2. wide[j] \in RawEvents /\ wide[j].delta \in Nat /\ j \in Nat
    BY <1>10
  <2>3. all[j] \in Events /\ all[j].number = j
    BY <2>1, <2>2 DEF RawEvents, Events
  <2> QED BY <2>1, <2>2, <2>3 DEF RawEvents
<1>12. all \in Seq(Events) /\ Len(all) = n + 1
  <2>1. n + 1 \in Nat
    BY <1>1
  <2>2. all = [j \in 1 .. n + 1 |-> all[j]]
    BY <1>9 DEF all
  <2>3. all \in [1 .. n + 1 -> Events]
    BY <1>11, <2>2
  <2> QED BY <2>1, <2>3
<1>13. ASSUME NEW j \in 1 .. n + 1
       PROVE  all[j].time = all[j].delta + TimeBefore(all, j)
  <2>1. all[j].time = wide[j].time /\ all[j].delta = wide[j].delta
    BY <1>11
  <2>2. j # 1 => j - 1 \in 1 .. n + 1 /\ TimeBefore(all, j) = wide[j - 1].time
    <3>1. j # 1 => j - 1 \in 1 .. n + 1
      BY <1>1
    <3> QED BY <1>11, <3>1 DEF TimeBefore
  <2>3. j = 1 => TimeBefore(all, j) = 0
    BY DEF TimeBefore
  <2>4. CASE j = i
    <3>1. j # 1 => TimeBefore(all, j) = before
      <4>1. j # 1 => j - 1 # i /\ from(j - 1) = i - 1 /\ j - 1 \in 1 .. n + 1
        BY <1>1, <2>4
      <4> QED BY <1>4, <1>10, <2>2, <2>4, <4>1
    <3>2. TimeBefore(all, j) = before
      BY <1>4, <2>3, <2>4, <3>1
    <3>3. time = gap + before
      BY <1>4 DEF gap
    <3>4. wide[j].time = time /\ wide[j].delta = gap
      BY <1>6, <1>10, <2>4
    <3> QED BY <2>1, <3>2, <3>3, <3>4
  <2>5. CASE j = i + 1
    <3>1. j # 1 /\ j - 1 = i /\ j # i /\ from(j) = i /\ i \in 1 .. n + 1
      BY <1>1, <2>5
    <3>2. TimeBefore(all, j) = time
      BY <1>6, <1>10, <2>2, <3>1
    <3>3. wide[j].time = events[i].time /\ wide[j].delta = events[i].time - time
      BY <1>10, <2>5, <3>1
    <3>4. events[i].time \in Nat
      BY <1>1, <1>3
    <3> HIDE DEF i
    <3> QED BY <2>1, <3>2, <3>3, <3>4
  <2>6. CASE j # i /\ j # i + 1
    <3> DEFINE k == from(j)
    <3>1. k \in 1 .. n /\ (j = 1 <=> k = 1)
      BY <1>1, <2>6
    <3>2. j # 1 => j - 1 # i /\ from(j - 1) = k - 1 /\ j - 1 \in 1 .. n + 1
      BY <1>1, <2>6
    <3>3. wide[j].time = events[k].time /\ wide[j].delta = events[k].delta
      BY <1>10, <2>6
    <3>4. j # 1 => wide[j - 1].time = events[k - 1].time
      BY <1>10, <3>2
    <3>5. TimeBefore(all, j) = TimeBefore(events, k)
      BY <2>2, <2>3, <3>1, <3>4 DEF TimeBefore
    <3> HIDE DEF k
    <3> QED BY <1>3, <2>1, <3>1, <3>3, <3>5
  <2> QED BY <2>4, <2>5, <2>6
<1>14. EventsOK(all, t)
  BY <1>10, <1>11, <1>12, <1>13 DEF EventsOK
<1>15. all[i].kind = kind /\ all[i].time = time /\ all[i].secs = secs
  <2>1. i \in 1 .. n + 1
    BY <1>1
  <2> HIDE DEF i
  <2> QED BY <1>6, <1>10, <1>11, <2>1
<1>16. ASSUME NEW j \in 1 .. n + 1, j # i
       PROVE  /\ all[j].kind = events[from(j)].kind
              /\ all[j].time = events[from(j)].time
              /\ all[j].secs = events[from(j)].secs
  BY <1>10, <1>11, <1>16
<1> QED BY <1>2, <1>12, <1>14, <1>15, <1>16 DEF e, i

LEMMA PlacedOK ==
  ASSUME NEW events \in Seq(Events), NEW t \in Nat, EventsOK(events, t),
         NEW kind \in Kinds, NEW time \in Nat, NEW secs \in Nat
  PROVE  LET all == Placed(events, NewEvent(kind, time, secs, t))
             n == Len(events)
             i == PlaceAt(events, time)
         IN /\ all \in Seq(Events) /\ Len(all) = n + 1
            /\ EventsOK(all, t)
            /\ i \in 1 .. n + 1
            /\ all[i].kind = kind /\ all[i].time = time /\ all[i].secs = secs
            /\ \A j \in 1 .. n + 1 :
                 j # i => LET k == IF j < i THEN j ELSE j - 1
                          IN /\ all[j].kind = events[k].kind
                             /\ all[j].time = events[k].time
                             /\ all[j].secs = events[k].secs
<1> DEFINE all == Placed(events, NewEvent(kind, time, secs, t))
           n == Len(events)
           i == PlaceAt(events, time)
<1>1. n \in Nat
  OBVIOUS
<1>2. CASE AtEnd(events, time)
  <2>1. i = n + 1
    BY <1>2 DEF PlaceAt
  <2>2. /\ all \in Seq(Events) /\ Len(all) = n + 1
        /\ EventsOK(all, t)
        /\ all[n + 1].kind = kind /\ all[n + 1].time = time /\ all[n + 1].secs = secs
        /\ \A j \in 1 .. n : all[j] = events[j]
    <3>1. PlacedLast(all, events, kind, time, secs, t)
      BY <1>2, LastPlaced, Zenon
    <3> HIDE DEF all, i
    <3> QED BY <3>1 DEF PlacedLast
  <2> HIDE DEF all, i
  <2>3. ASSUME NEW j \in 1 .. n + 1, j # i
        PROVE  j < i /\ all[j] = events[j]
    BY <1>1, <2>1, <2>2, <2>3
  <2> QED BY <1>1, <2>1, <2>2, <2>3 DEF all, i
<1>3. CASE ~ AtEnd(events, time)
  <2>1. i \in 1 .. n
    BY <1>3, PlaceAtIs
  <2>2. i \in 1 .. n + 1
    BY <1>1, <2>1
  <2> QED BY <1>3, <2>2, PlacedBefore
<1> QED BY <1>2, <1>3

LEMMA PlacedEvents ==
  ASSUME NEW events \in Seq(Events), NEW t \in Nat, EventsOK(events, t),
         NEW kind \in Kinds, NEW time \in Nat, NEW secs \in Nat
  PROVE  /\ Placed(events, NewEvent(kind, time, secs, t)) \in Seq(Events)
         /\ Len(Placed(events, NewEvent(kind, time, secs, t))) = Len(events) + 1
         /\ EventsOK(Placed(events, NewEvent(kind, time, secs, t)), t)
  BY PlacedOK, ZenonT(30)

\* A song whose last event of the track may have been taken away.
LEMMA WithoutEotIs ==
  ASSUME NEW s, SongOK(s), NEW t \in 1 .. Len(s.tracks), NEW time \in Nat
  PROVE  LET events == s.tracks[t].events
         IN /\ SongOK(WithoutEot(s, t, time))
            /\ \/ /\ WithoutEot(s, t, time) = s
                  /\ ~ (/\ events # <<>> /\ Last(events).kind = Eot
                        /\ Last(events).time <= time)
               \/ /\ WithoutEot(s, t, time) = Taken(s, t, Len(events))
                  /\ events # <<>> /\ Last(events).kind = Eot
                  /\ Last(events).time <= time
                  /\ Len(events) \in 1 .. Len(events)
<1> DEFINE events == s.tracks[t].events
           n == Len(events)
<1>1. CASE events # <<>> /\ Last(events).kind = Eot /\ Last(events).time <= time
  <2>1. n \in Nat /\ n \in 1 .. n
    BY <1>1, TrackIn DEF SongOK
  <2>2. WithoutEot(s, t, time) = Removed(s, t, n)
    BY <1>1 DEF WithoutEot
  <2>3. events[n].kind \notin Rates
    BY <1>1, SongAssumption DEF Last
  <2>4. Removed(s, t, n) = Taken(s, t, n)
    BY <2>1, <2>3, TakenIs
  <2>5. SongOK(Taken(s, t, n))
    BY <2>1, TakenOK
  <2> QED BY <1>1, <2>1, <2>2, <2>4, <2>5
<1>2. CASE ~ (events # <<>> /\ Last(events).kind = Eot /\ Last(events).time <= time)
  <2>1. WithoutEot(s, t, time) = s
    BY <1>2 DEF WithoutEot
  <2> QED BY <1>2, <2>1
<1> QED BY <1>1, <1>2

LEMMA WithoutEotOK ==
  ASSUME NEW s, SongOK(s), NEW t \in 1 .. Len(s.tracks), NEW time \in Nat
  PROVE  LET base == WithoutEot(s, t, time)
         IN /\ SongOK(base) /\ Len(base.tracks) = Len(s.tracks)
            /\ base.tempos = s.tempos
            /\ \A u \in 1 .. Len(s.tracks) : u # t => base.tracks[u] = s.tracks[u]
<1> DEFINE base == WithoutEot(s, t, time)
           n == Len(s.tracks[t].events)
<1>1. SongOK(base) /\ (base = s \/ (base = Taken(s, t, n) /\ n \in 1 .. n))
  BY WithoutEotIs
<1>2. CASE base = s
  BY <1>1, <1>2
<1>3. CASE base = Taken(s, t, n) /\ n \in 1 .. n
  <2> HIDE DEF base
  <2> QED BY <1>1, <1>3, TakenOK, ZenonT(30) DEF base
<1> QED BY <1>1, <1>2, <1>3

\* A song with an event more, before its tempo map is looked at.
FullTrack(base, t, kind, time, secs) ==
  [base.tracks[t] EXCEPT
     !.events = Placed(@, NewEvent(kind, time, secs, t)),
     !.next = IF base.tracks[t].events = <<>> THEN 1 ELSE @]

Full(base, t, kind, time, secs) ==
  [base EXCEPT !.tracks[t] = FullTrack(base, t, kind, time, secs)]

LEMMA FullOK ==
  ASSUME NEW base, SongOK(base), NEW t \in 1 .. Len(base.tracks),
         NEW kind \in Kinds, NEW time \in Nat, NEW secs \in Nat
  PROVE  LET full == Full(base, t, kind, time, secs)
         IN /\ SongOK(full) /\ Len(full.tracks) = Len(base.tracks)
            /\ full.tempos = base.tempos
            /\ full.tracks[t].events =
                 Placed(base.tracks[t].events, NewEvent(kind, time, secs, t))
            /\ \A u \in 1 .. Len(base.tracks) : u # t => full.tracks[u] = base.tracks[u]
<1> DEFINE track == base.tracks[t]
           all == Placed(track.events, NewEvent(kind, time, secs, t))
           new == FullTrack(base, t, kind, time, secs)
<1>1. track \in Track /\ TrackOK(track, t) /\ track.events \in Seq(Events) /\ t \in Nat
  <2>1. base \in Songs /\ TrackOK(track, t)
    BY DEF SongOK
  <2>2. track \in Track /\ track.events \in Seq(Events) /\ Len(base.tracks) \in Nat
    BY <2>1, TrackIn
  <2>3. t \in Nat
    BY <2>2
  <2> QED BY <2>1, <2>2, <2>3
<1>2. all \in Seq(Events) /\ EventsOK(all, t) /\ Len(all) = Len(track.events) + 1
  <2>1. EventsOK(track.events, t)
    BY <1>1 DEF TrackOK
  <2> HIDE DEF track
  <2> QED BY <1>1, <2>1, PlacedEvents
<1>3. all # <<>>
  <2>1. Len(track.events) \in Nat
    BY <1>1
  <2> HIDE DEF track, all
  <2> QED BY <1>2, <2>1
<1> DEFINE next == IF track.events = <<>> THEN 1 ELSE track.next
<1>4. new = [track EXCEPT !.events = all, !.next = next]
  BY DEF FullTrack
<1>5. next \in Nat \cup {None}
  BY <1>1 DEF Track
<1> HIDE DEF new, all, track, next
<1>6. new \in Track /\ new.events = all /\ new.number = track.number
  BY <1>1, <1>2, <1>4, <1>5 DEF Track
<1>7. TrackOK(new, t)
  BY <1>1, <1>2, <1>3, <1>6 DEF TrackOK
<1> QED BY <1>6, <1>7, WithTrackOK DEF Full, new, track, all

Both(s, t, a, b) == [s EXCEPT !.tracks[t].events = a, !.tracks[t].next = b]

OneTrack(s, t, a, b) ==
  [s EXCEPT !.tracks[t] = [s.tracks[t] EXCEPT !.events = a, !.next = b]]

LEMMA TrackFields ==
  ASSUME NEW s \in Songs, NEW t \in 1 .. Len(s.tracks), NEW a, NEW b
  PROVE  Both(s, t, a, b) = OneTrack(s, t, a, b)
<1>1. /\ s.tracks \in Seq(Track)
      /\ s = [tracks |-> s.tracks, tempos |-> s.tempos, sought |-> s.sought]
  BY SongIn
<1>2. s.tracks[t] \in Track
  BY <1>1
<1> QED BY <1>1, <1>2 DEF Track, Both, OneTrack

LEMMA AddedIs ==
  ASSUME NEW s, SongOK(s), NEW t \in 1 .. Len(s.tracks),
         NEW kind \in Kinds, NEW time \in Nat, NEW secs \in Nat
  PROVE  Added(s, t, kind, time, secs) =
           LET full == Full(WithoutEot(s, t, time), t, kind, time, secs)
           IN IF kind \notin Rates THEN full
              ELSE IF IsLast(full, time)
                   THEN [full EXCEPT !.tempos = WithTempo(@, time, kind)]
                   ELSE Rebuilt(full)
<1> DEFINE base == WithoutEot(s, t, time)
           e == [kind |-> kind, time |-> time, secs |-> secs, delta |-> None,
                 number |-> None, track |-> base.tracks[t].number]
           full == [base EXCEPT
                      !.tracks[t].events = Placed(@, e),
                      !.tracks[t].next = IF base.tracks[t].events = <<>> THEN 1 ELSE @]
<1>1. SongOK(base) /\ t \in 1 .. Len(base.tracks)
  BY WithoutEotOK
<1>2. Added(s, t, kind, time, secs) =
        IF kind \notin Rates THEN full
        ELSE IF IsLast(full, time)
             THEN [full EXCEPT !.tempos = WithTempo(@, time, kind)]
             ELSE Rebuilt(full)
  BY DEF Added
<1> HIDE DEF base
<1>3. base.tracks[t].number = t
  BY <1>1 DEF SongOK, TrackOK
<1>4. e = NewEvent(kind, time, secs, t)
  BY <1>3 DEF NewEvent
<1> DEFINE all == Placed(base.tracks[t].events, NewEvent(kind, time, secs, t))
           next == IF base.tracks[t].events = <<>> THEN 1 ELSE base.tracks[t].next
<1>5. full = Both(base, t, all, next)
  <2> HIDE DEF e
  <2> QED BY <1>4 DEF Both
<1>6. Full(base, t, kind, time, secs) = OneTrack(base, t, all, next)
  BY DEF Full, FullTrack, OneTrack
<1>8. full = Full(base, t, kind, time, secs)
  <2> HIDE DEF all, next, full, e
  <2> QED BY <1>1, <1>5, <1>6, TrackFields DEF SongOK
<1> HIDE DEF full
<1> QED BY <1>2, <1>8 DEF base

LEMMA AddedOK ==
  ASSUME NEW s, SongOK(s), NEW t \in 1 .. Len(s.tracks),
         NEW kind \in Kinds, NEW time \in Nat, NEW secs \in Nat,
         kind \in Rates => s.tempos # <<>>
  PROVE  LET r == Added(s, t, kind, time, secs)
         IN /\ SongOK(r) /\ Len(r.tracks) = Len(s.tracks)
            /\ s.tempos # <<>> => r.tempos # <<>>
            /\ kind \notin Rates =>
                 /\ r.tempos = s.tempos
                 /\ \A u \in 1 .. Len(s.tracks) : u # t => r.tracks[u] = s.tracks[u]
<1> DEFINE r == Added(s, t, kind, time, secs)
           base == WithoutEot(s, t, time)
           full == Full(base, t, kind, time, secs)
<1>1. /\ SongOK(base) /\ Len(base.tracks) = Len(s.tracks) /\ base.tempos = s.tempos
      /\ \A u \in 1 .. Len(s.tracks) : u # t => base.tracks[u] = s.tracks[u]
  BY WithoutEotOK
<1>2. /\ SongOK(full) /\ Len(full.tracks) = Len(base.tracks)
      /\ full.tempos = base.tempos
      /\ \A u \in 1 .. Len(base.tracks) : u # t => full.tracks[u] = base.tracks[u]
  <2> HIDE DEF base
  <2> QED BY <1>1, FullOK
<1>3. r = IF kind \notin Rates THEN full
          ELSE IF IsLast(full, time)
               THEN [full EXCEPT !.tempos = WithTempo(@, time, kind)]
               ELSE Rebuilt(full)
  BY AddedIs
<1> HIDE DEF r, base, full
<1>4. CASE kind \notin Rates
  BY <1>1, <1>2, <1>3, <1>4 DEF r
<1>5. CASE kind \in Rates /\ IsLast(full, time)
  <2> DEFINE m == WithTempo(full.tempos, time, kind)
  <2>1. full.tempos \in Tempos /\ full.tempos # <<>> /\ kind \in Nat \ {0}
    BY <1>1, <1>2, <1>5, SongIn, SongAssumption DEF SongOK
  <2>2. m \in Tempos /\ m # <<>>
    BY <2>1, WithTempoOK
  <2>3. r = [full EXCEPT !.tempos = m]
    BY <1>3, <1>5
  <2> HIDE DEF m
  <2>4. SongOK(r) /\ r.tracks = full.tracks /\ r.tempos = m
    BY <1>2, <2>2, <2>3, WithTemposOK
  <2> QED BY <1>1, <1>2, <1>5, <2>2, <2>4 DEF r
<1>6. CASE kind \in Rates /\ ~ IsLast(full, time)
  <2>1. r = Rebuilt(full)
    BY <1>3, <1>6
  <2>2. SongOK(r) /\ Len(r.tracks) = Len(full.tracks) /\ r.tempos = TempoMap(full)
    BY <1>2, <2>1, RebuiltOK
  <2>3. TempoMap(full) # <<>>
    BY <1>2, TempoMapOK DEF SongOK
  <2> QED BY <1>1, <1>2, <1>6, <2>2, <2>3 DEF r
<1> QED BY <1>4, <1>5, <1>6

-------------------------------------------------------------------------------
(***************************************************************************)
(* Tracks added and deleted.                                               *)
(***************************************************************************)
Sought(s, tracks, sought) == [s EXCEPT !.tracks = tracks, !.sought = sought]

LEMMA SoughtOK ==
  ASSUME NEW s, SongOK(s), NEW tracks \in Seq(Track), NEW sought \in Nat \cup {None},
         \A t \in 1 .. Len(tracks) : TrackOK(tracks[t], t)
  PROVE  /\ SongOK(Sought(s, tracks, sought))
         /\ Sought(s, tracks, sought).tracks = tracks
         /\ Sought(s, tracks, sought).tempos = s.tempos
         /\ Sought(s, tracks, sought).sought = sought
<1> DEFINE r == Sought(s, tracks, sought)
<1>0. r = [s EXCEPT !.tracks = tracks, !.sought = sought]
  BY DEF Sought
<1> HIDE DEF r
<1>1. s.tempos \in Tempos
      /\ s = [tracks |-> s.tracks, tempos |-> s.tempos, sought |-> s.sought]
  BY SongIn DEF SongOK
<1>2. r = [tracks |-> tracks, tempos |-> s.tempos, sought |-> sought]
  BY <1>0, <1>1
<1>3. r \in Songs /\ r.tracks = tracks /\ r.tempos = s.tempos /\ r.sought = sought
  BY <1>1, <1>2 DEF Songs
<1> QED BY <1>3 DEF SongOK, r

LEMMA TracksOf ==
  ASSUME NEW s, SongOK(s), NEW tracks \in Seq(Track),
         \A t \in 1 .. Len(tracks) : TrackOK(tracks[t], t),
         NEW r, r = [s EXCEPT !.tracks = tracks]
  PROVE  SongOK(r) /\ r.tracks = tracks /\ r.tempos = s.tempos /\ r.sought = s.sought
<1>1. s.tempos \in Tempos /\ s.sought \in Nat \cup {None}
      /\ s = [tracks |-> s.tracks, tempos |-> s.tempos, sought |-> s.sought]
  BY SongIn DEF SongOK
<1>2. r = [tracks |-> tracks, tempos |-> s.tempos, sought |-> s.sought]
  BY <1>1
<1>3. r \in Songs /\ r.tracks = tracks /\ r.tempos = s.tempos /\ r.sought = s.sought
  BY <1>1, <1>2 DEF Songs
<1> QED BY <1>3 DEF SongOK

LEMMA EmptyTrackOK ==
  ASSUME NEW t \in Nat
  PROVE  EmptyTrack(t) \in Track /\ TrackOK(EmptyTrack(t), t)
<1>1. <<>> \in Seq(Events)
  OBVIOUS
<1>2. EmptyTrack(t) \in Track
  BY <1>1 DEF EmptyTrack, Track
<1> QED BY <1>2 DEF EmptyTrack, TrackOK, EventsOK

LEMMA NewTrackOK ==
  ASSUME NEW s, SongOK(s)
  PROVE  LET r == WithNewTrack(s)
             n == Len(s.tracks)
         IN /\ SongOK(r) /\ Len(r.tracks) = n + 1 /\ r.tempos = s.tempos
            /\ r.tracks[n + 1] = EmptyTrack(n + 1)
            /\ \A u \in 1 .. n : r.tracks[u] = s.tracks[u]
<1> DEFINE n == Len(s.tracks)
           tracks == Append(s.tracks, EmptyTrack(n + 1))
           r == WithNewTrack(s)
<1>1. s.tracks \in Seq(Track) /\ n \in Nat
  BY SongIn DEF SongOK
<1>2. EmptyTrack(n + 1) \in Track /\ TrackOK(EmptyTrack(n + 1), n + 1)
  BY <1>1, EmptyTrackOK
<1>3. /\ tracks \in Seq(Track) /\ Len(tracks) = n + 1
      /\ tracks[n + 1] = EmptyTrack(n + 1)
      /\ \A u \in 1 .. n : tracks[u] = s.tracks[u]
  BY <1>1, <1>2
<1>4. r = [s EXCEPT !.tracks = tracks]
  BY DEF WithNewTrack
<1> HIDE DEF tracks, r
<1>5. ASSUME NEW u \in 1 .. n + 1 PROVE TrackOK(tracks[u], u)
  <2>1. CASE u = n + 1
    BY <1>2, <1>3, <2>1
  <2>2. CASE u # n + 1
    <3>1. u \in 1 .. n
      BY <1>1, <2>2
    <3> QED BY <1>3, <3>1 DEF SongOK
  <2> QED BY <2>1, <2>2
<1>6. SongOK(r) /\ r.tracks = tracks /\ r.tempos = s.tempos
  BY <1>3, <1>4, <1>5, TracksOf
<1> QED BY <1>3, <1>6 DEF r

LEMMA MovedOK ==
  ASSUME NEW track \in Track, NEW t, TrackOK(track, t), NEW i \in Nat
  PROVE  LET moved == [track EXCEPT
                         !.number = i,
                         !.events = [j \in 1 .. Len(@) |-> [@[j] EXCEPT !.track = i]]]
         IN /\ moved \in Track /\ TrackOK(moved, i)
            /\ Len(moved.events) = Len(track.events) /\ moved.next = track.next
            /\ moved.ahead = track.ahead
            /\ \A j \in 1 .. Len(track.events) :
                 /\ moved.events[j].kind = track.events[j].kind
                 /\ moved.events[j].time = track.events[j].time
                 /\ moved.events[j].secs = track.events[j].secs
<1> DEFINE n == Len(track.events)
           F == [j \in 1 .. n |-> [track.events[j] EXCEPT !.track = i]]
           moved == [track EXCEPT !.number = i, !.events = F]
<1>1. track.events \in Seq(Events) /\ n \in Nat /\ EventsOK(track.events, t)
  BY DEF Track, TrackOK
<1>2. ASSUME NEW j \in 1 .. n
      PROVE  /\ F[j] \in Events /\ F[j].kind = track.events[j].kind
             /\ F[j].time = track.events[j].time /\ F[j].secs = track.events[j].secs
             /\ F[j].delta = track.events[j].delta
             /\ F[j].number = j /\ F[j].track = i
  <2>1. track.events[j] \in Events /\ track.events[j].number = j
    BY <1>1, EventsAt DEF EventsOK
  <2>2. F[j] = [track.events[j] EXCEPT !.track = i]
    OBVIOUS
  <2> HIDE DEF F
  <2>3. F[j] \in Events /\ F[j].track = i
    BY <2>1, <2>2 DEF Events
  <2> QED BY <2>1, <2>2, <2>3 DEF Events
<1>3. F \in Seq(Events) /\ Len(F) = n
  <2>1. F = [j \in 1 .. n |-> F[j]]
    OBVIOUS
  <2> HIDE DEF F
  <2>2. F \in [1 .. n -> Events]
    BY <1>2, <2>1
  <2> QED BY <1>1, <2>2
<1> HIDE DEF F
<1>4. EventsOK(F, i)
  <2> SUFFICES ASSUME NEW j \in 1 .. n
               PROVE  F[j].time = F[j].delta + TimeBefore(F, j)
    BY <1>2, <1>3 DEF EventsOK
  <2>1. j # 1 => j - 1 \in 1 .. n
    BY <1>1
  <2>2. TimeBefore(F, j) = TimeBefore(track.events, j)
    BY <1>2, <2>1 DEF TimeBefore
  <2> QED BY <1>1, <1>2, <2>2 DEF EventsOK
<1>5. /\ moved \in Track /\ moved.number = i /\ moved.events = F
      /\ moved.next = track.next /\ moved.ahead = track.ahead
  BY <1>3 DEF Track
<1>6. F = <<>> => track.events = <<>>
  BY <1>1, <1>3
<1>7. moved = [track EXCEPT
                 !.number = i,
                 !.events = [j \in 1 .. Len(@) |-> [@[j] EXCEPT !.track = i]]]
  BY DEF F
<1> HIDE DEF moved
<1>8. TrackOK(moved, i)
  BY <1>4, <1>5, <1>6 DEF TrackOK
<1> QED BY <1>2, <1>3, <1>5, <1>7, <1>8

MovedTrack(track, i) ==
  [track EXCEPT !.number = i,
                !.events = [j \in 1 .. Len(@) |-> [@[j] EXCEPT !.track = i]]]

LEMMA WithoutTrackOK ==
  ASSUME NEW s, SongOK(s), NEW t \in 1 .. Len(s.tracks)
  PROVE  LET r == WithoutTrack(s, t)
             n == Len(s.tracks)
         IN /\ SongOK(r) /\ Len(r.tracks) = n - 1 /\ r.tempos = s.tempos
            /\ \A u \in 1 .. n - 1 :
                 r.tracks[u] = IF u < t THEN s.tracks[u] ELSE MovedTrack(s.tracks[u + 1], u)
<1> DEFINE n == Len(s.tracks)
           left == RemoveAt(s.tracks, t)
           tracks == [i \in 1 .. n - 1 |-> IF i < t THEN left[i] ELSE MovedTrack(left[i], i)]
           r == WithoutTrack(s, t)
<1>1. s.tracks \in Seq(Track) /\ n \in Nat /\ t \in 1 .. n
  BY SongIn DEF SongOK
<1>2. /\ left \in Seq(Track) /\ Len(left) = n - 1
      /\ \A i \in 1 .. n - 1 : left[i] = IF i < t THEN s.tracks[i] ELSE s.tracks[i + 1]
  BY <1>1, RemoveAtIs
<1> HIDE DEF left
<1>3. ASSUME NEW i \in 1 .. n - 1
      PROVE  /\ tracks[i] = IF i < t THEN s.tracks[i] ELSE MovedTrack(s.tracks[i + 1], i)
             /\ tracks[i] \in Track /\ TrackOK(tracks[i], i)
  <2>1. i \in 1 .. n /\ i + 1 \in 1 .. n /\ i \in Nat
    BY <1>1
  <2>2. CASE i < t
    <3>1. tracks[i] = s.tracks[i]
      BY <1>2, <2>2
    <3>2. s.tracks[i] \in Track /\ TrackOK(s.tracks[i], i)
      BY <1>1, <2>1 DEF SongOK
    <3> HIDE DEF tracks
    <3> QED BY <2>2, <3>1, <3>2
  <2>3. CASE ~ (i < t)
    <3>1. tracks[i] = MovedTrack(s.tracks[i + 1], i)
      BY <1>2, <2>3
    <3>2. s.tracks[i + 1] \in Track /\ TrackOK(s.tracks[i + 1], i + 1)
      BY <1>1, <2>1 DEF SongOK
    <3>3. /\ MovedTrack(s.tracks[i + 1], i) \in Track
          /\ TrackOK(MovedTrack(s.tracks[i + 1], i), i)
      BY <2>1, <3>2, MovedOK DEF MovedTrack
    <3> HIDE DEF tracks
    <3> QED BY <2>3, <3>1, <3>3
  <2> QED BY <2>2, <2>3
<1>4. tracks \in Seq(Track) /\ Len(tracks) = n - 1
  <2>1. n - 1 \in Nat
    BY <1>1
  <2>2. tracks = [i \in 1 .. n - 1 |-> tracks[i]]
    OBVIOUS
  <2> HIDE DEF tracks
  <2>3. tracks \in [1 .. n - 1 -> Track]
    BY <1>3, <2>2
  <2> QED BY <2>1, <2>3
<1>5. r = [s EXCEPT !.tracks = tracks]
  BY <1>2 DEF WithoutTrack, MovedTrack, left
<1> HIDE DEF tracks, r
<1>6. SongOK(r) /\ r.tracks = tracks /\ r.tempos = s.tempos
  BY <1>3, <1>4, <1>5, TracksOf
<1> QED BY <1>3, <1>4, <1>6 DEF r

\* rest[i] is the song after i removals, from the last event to the first.
IsRest(rest, s, t, n) ==
  rest = [i \in 0 .. n |->
            IF i = 0 THEN s
            ELSE Removed(rest[i - 1], t, Len(s.tracks[t].events) + 1 - i)]

LEMMA RestDef ==
  ASSUME NEW s, NEW t
  PROVE  LET n == Len(s.tracks[t].events)
         IN TrackDeleted(s, t) = WithoutTrack((CHOOSE rest : IsRest(rest, s, t, n))[n], t)
  BY DEF TrackDeleted, IsRest

LEMMA RestExists ==
  ASSUME NEW s, NEW t, NEW n \in Nat
  PROVE  \E rest : IsRest(rest, s, t, n)
<1> DEFINE T == {m \in Nat : \E rest : IsRest(rest, s, t, m)}
           step(x, i) == Removed(x, t, Len(s.tracks[t].events) + 1 - i)
<1>1. 0 \in T
  <2>1. IsRest([i \in 0 .. 0 |-> s], s, t, 0)
    BY DEF IsRest
  <2> QED BY <2>1
<1>2. ASSUME NEW m \in Nat, m \in T PROVE m + 1 \in T
  <2>1. PICK rest : IsRest(rest, s, t, m)
    BY <1>2
  <2>2. rest = [i \in 0 .. m |-> IF i = 0 THEN s ELSE step(rest[i - 1], i)]
    BY <2>1 DEF IsRest
  <2> DEFINE r == [i \in 0 .. m + 1 |-> IF i = m + 1 THEN step(rest[m], m + 1) ELSE rest[i]]
  <2> HIDE DEF step
  <2>3. ASSUME NEW i \in 0 .. m + 1
        PROVE  r[i] = IF i = 0 THEN s ELSE step(r[i - 1], i)
    <3>1. CASE i = 0
      BY <2>2, <3>1
    <3>2. CASE i = m + 1
      BY <3>2
    <3>3. CASE i \in 1 .. m
      BY <2>2, <3>3
    <3> QED BY <3>1, <3>2, <3>3
  <2>4. IsRest(r, s, t, m + 1)
    <3>1. r = [i \in 0 .. m + 1 |-> IF i = 0 THEN s ELSE step(r[i - 1], i)]
      BY <2>3
    <3> HIDE DEF r
    <3> QED BY <3>1 DEF IsRest, step
  <2> HIDE DEF r
  <2> QED BY <2>4
<1>3. Nat \subseteq T
  <2> HIDE DEF T
  <2> QED BY <1>1, <1>2, Induction
<1> QED BY <1>3

LEMMA CountDown ==
  ASSUME NEW i \in Nat, NEW k \in Nat, NEW n \in Nat, i + k = n, k # 0
  PROVE  i + 1 <= n /\ n + 1 - (i + 1) = k
  OBVIOUS

LEMMA RestStep ==
  ASSUME NEW s, NEW t, NEW rest, NEW n \in Nat, n = Len(s.tracks[t].events),
         IsRest(rest, s, t, n)
  PROVE  /\ rest[0] = s
         /\ \A i, k \in Nat : i + k = n /\ k # 0 =>
              rest[i + 1] = Removed(rest[i], t, k)
<1> DEFINE step(x, i) == Removed(x, t, n + 1 - i)
<1>1. rest = [i \in 0 .. n |-> IF i = 0 THEN s ELSE step(rest[i - 1], i)]
  BY DEF IsRest
<1> HIDE DEF step
<1>2. rest[0] = s
  BY <1>1
<1>3. ASSUME NEW i \in Nat, i + 1 <= n PROVE rest[i + 1] = step(rest[i], i + 1)
  <2>1. i + 1 \in 0 .. n /\ (i + 1) - 1 = i /\ i + 1 # 0
    BY <1>3
  <2> QED BY <1>1, <2>1
<1>4. ASSUME NEW i \in Nat, NEW k \in Nat, i + k = n, k # 0
      PROVE  rest[i + 1] = Removed(rest[i], t, k)
  <2>1. i + 1 <= n /\ n + 1 - (i + 1) = k
    BY <1>4, CountDown
  <2>2. rest[i + 1] = step(rest[i], i + 1)
    BY <1>3, <2>1
  <2> QED BY <2>1, <2>2 DEF step
<1> QED BY <1>2, <1>4

\* The song before its track is taken out.
LEMMA RestIs ==
  ASSUME NEW s, SongOK(s), NEW t \in 1 .. Len(s.tracks)
  PROVE  LET n == Len(s.tracks[t].events)
         IN \E rest : IsRest(rest, s, t, n) /\ TrackDeleted(s, t) = WithoutTrack(rest[n], t)
<1> DEFINE n == Len(s.tracks[t].events)
           r == CHOOSE rest : IsRest(rest, s, t, n)
<1>1. n \in Nat
  BY TrackIn DEF SongOK
<1>2. IsRest(r, s, t, n)
  <2> HIDE DEF n
  <2> QED BY <1>1, RestExists, Zenon
<1>3. TrackDeleted(s, t) = WithoutTrack(r[n], t)
  BY RestDef
<1> QED BY <1>2, <1>3, Zenon

LEMMA RestOK ==
  ASSUME NEW s, SongOK(s), NEW t \in 1 .. Len(s.tracks), NEW rest,
         IsRest(rest, s, t, Len(s.tracks[t].events)),
         NEW i \in 0 .. Len(s.tracks[t].events)
  PROVE  /\ SongOK(rest[i]) /\ Len(rest[i].tracks) = Len(s.tracks)
         /\ Len(rest[i].tracks[t].events) = Len(s.tracks[t].events) - i
<1> DEFINE n == Len(s.tracks[t].events)
           Good(j) == /\ SongOK(rest[j]) /\ Len(rest[j].tracks) = Len(s.tracks)
                      /\ Len(rest[j].tracks[t].events) = n - j
           T == {j \in Nat : j <= n => Good(j)}
<1>1. n \in Nat
  BY TrackIn DEF SongOK
<1>2. /\ rest[0] = s
      /\ \A j, k \in Nat : j + k = n /\ k # 0 =>
           rest[j + 1] = Removed(rest[j], t, k)
  BY <1>1, RestStep
<1> HIDE DEF n
<1>3. 0 \in T
  BY <1>1, <1>2 DEF n
<1>4. ASSUME NEW j \in Nat, j \in T PROVE j + 1 \in T
  <2>1. SUFFICES ASSUME j + 1 <= n PROVE Good(j + 1)
    OBVIOUS
  <2>2. Good(j)
    BY <1>1, <1>4, <2>1
  <2>3. n - j \in 1 .. n - j /\ n - j \in Nat /\ n - j # 0 /\ j + (n - j) = n
    BY <1>1, <2>1
  <2>4. rest[j + 1] = Removed(rest[j], t, n - j)
    BY <1>2, <2>3
  <2> DEFINE q == rest[j]
             k == n - j
  <2>5. /\ SongOK(Removed(q, t, k))
        /\ Len(Removed(q, t, k).tracks) = Len(q.tracks)
        /\ Len(Removed(q, t, k).tracks[t].events) = Len(q.tracks[t].events) - 1
    <3>1. SongOK(q) /\ t \in 1 .. Len(q.tracks) /\ k \in 1 .. Len(q.tracks[t].events)
      BY <2>2, <2>3
    <3> HIDE DEF q, k
    <3> QED BY <3>1, RemovedOK
  <2>6. (n - j) - 1 = n - (j + 1)
    BY <1>1
  <2> QED BY <2>2, <2>4, <2>5, <2>6
<1>5. Nat \subseteq T
  <2> HIDE DEF T
  <2> QED BY <1>3, <1>4, Induction
<1>6. i \in Nat /\ i <= n
  BY <1>1 DEF n
<1>7. Good(i)
  BY <1>5, <1>6
<1> QED BY <1>7 DEF n

LEMMA TrackDeletedOK ==
  ASSUME NEW s, SongOK(s), NEW t \in 1 .. Len(s.tracks)
  PROVE  SongOK(TrackDeleted(s, t))
<1> DEFINE n == Len(s.tracks[t].events)
<1>1. PICK rest : IsRest(rest, s, t, n) /\ TrackDeleted(s, t) = WithoutTrack(rest[n], t)
  BY RestIs
<1>2. n \in 0 .. n
  BY TrackIn DEF SongOK
<1>3. SongOK(rest[n]) /\ Len(rest[n].tracks) = Len(s.tracks)
  BY <1>1, <1>2, RestOK, ZenonT(30)
<1> HIDE DEF n
<1>4. SongOK(WithoutTrack(rest[n], t))
  BY <1>3, WithoutTrackOK
<1> QED BY <1>1, <1>4

-------------------------------------------------------------------------------
(***************************************************************************)
(* Cursors set in every track.                                             *)
(***************************************************************************)
Cursor(track, n, a) == [track EXCEPT !.next = n, !.ahead = a]

LEMMA CursorOK ==
  ASSUME NEW track \in Track, NEW t, TrackOK(track, t),
         NEW n \in Nat \cup {None}, NEW a \in Nat, track.events = <<>> => n = None
  PROVE  /\ Cursor(track, n, a) \in Track /\ TrackOK(Cursor(track, n, a), t)
         /\ Cursor(track, n, a).events = track.events
         /\ Cursor(track, n, a).next = n /\ Cursor(track, n, a).ahead = a
<1> DEFINE r == Cursor(track, n, a)
<1>1. r = [track EXCEPT !.next = n, !.ahead = a]
  BY DEF Cursor
<1> HIDE DEF r
<1>2. /\ r.number = track.number /\ r.events = track.events
      /\ r.next = n /\ r.ahead = a
  BY <1>1 DEF Track
<1>3. r \in Track
  BY <1>1 DEF Track
<1>4. TrackOK(r, t)
  BY <1>2 DEF TrackOK
<1> QED BY <1>2, <1>3, <1>4 DEF r

\* The song with the cursors N and A.
Cursored(s, N, A, sought) ==
  [s EXCEPT !.tracks = [t \in 1 .. Len(s.tracks) |-> Cursor(s.tracks[t], N[t], A[t])],
            !.sought = sought]

LEMMA CursoredOK ==
  ASSUME NEW s, SongOK(s), NEW sought \in Nat \cup {None}, NEW N, NEW A,
         \A t \in 1 .. Len(s.tracks) :
           /\ N[t] \in Nat \cup {None} /\ A[t] \in Nat
           /\ s.tracks[t].events = <<>> => N[t] = None
  PROVE  LET r == Cursored(s, N, A, sought)
         IN /\ SongOK(r) /\ Len(r.tracks) = Len(s.tracks)
            /\ r.tempos = s.tempos /\ r.sought = sought
            /\ \A t \in 1 .. Len(s.tracks) :
                 /\ r.tracks[t].events = s.tracks[t].events
                 /\ r.tracks[t].next = N[t] /\ r.tracks[t].ahead = A[t]
<1> DEFINE n == Len(s.tracks)
           r == Cursored(s, N, A, sought)
           tracks == [t \in 1 .. n |-> Cursor(s.tracks[t], N[t], A[t])]
<1>1. s.tracks \in Seq(Track) /\ n \in Nat
  BY SongIn DEF SongOK
<1>2. ASSUME NEW t \in 1 .. n
      PROVE  /\ tracks[t] \in Track /\ TrackOK(tracks[t], t)
             /\ tracks[t].events = s.tracks[t].events
             /\ tracks[t].next = N[t] /\ tracks[t].ahead = A[t]
  <2>1. s.tracks[t] \in Track /\ TrackOK(s.tracks[t], t)
    BY <1>1 DEF SongOK
  <2>2. tracks[t] = Cursor(s.tracks[t], N[t], A[t])
    OBVIOUS
  <2> DEFINE track == s.tracks[t]
             a == A[t]
             b == N[t]
  <2>3. /\ b \in Nat \cup {None} /\ a \in Nat
        /\ track.events = <<>> => b = None
        /\ track \in Track /\ TrackOK(track, t)
    BY <2>1
  <2> HIDE DEF tracks, track, a, b
  <2>4. Cursor(track, b, a) \in Track /\ TrackOK(Cursor(track, b, a), t)
    BY <2>3, CursorOK
  <2>5. Cursor(track, b, a).events = track.events
    BY <2>3, CursorOK
  <2>6. Cursor(track, b, a).next = b /\ Cursor(track, b, a).ahead = a
    BY <2>3, CursorOK
  <2> QED BY <2>2, <2>4, <2>5, <2>6 DEF track, a, b
<1>3. tracks = [t \in 1 .. n |-> tracks[t]]
  OBVIOUS
<1>9. r = Sought(s, tracks, sought)
  BY DEF Cursored, Sought
<1> HIDE DEF tracks, r, n
<1>4. tracks \in Seq(Track) /\ Len(tracks) = n
  <2>1. tracks \in [1 .. n -> Track]
    BY <1>2, <1>3
  <2> QED BY <1>1, <2>1
<1>5. \A t \in 1 .. Len(tracks) : TrackOK(tracks[t], t)
  BY <1>2, <1>4
<1>6. SongOK(r) /\ r.tracks = tracks /\ r.tempos = s.tempos /\ r.sought = sought
  BY <1>9, <1>4, <1>5, SoughtOK, SMTT(30)
<1> QED BY <1>2, <1>4, <1>6 DEF r, n

LEMMA RewoundOK ==
  ASSUME NEW s, SongOK(s)
  PROVE  LET r == Rewound(s)
         IN /\ SongOK(r) /\ Len(r.tracks) = Len(s.tracks)
            /\ r.tempos = s.tempos /\ r.sought = 0
            /\ \A t \in 1 .. Len(s.tracks) :
                 /\ r.tracks[t].events = s.tracks[t].events
                 /\ s.tracks[t].events = <<>> => r.tracks[t].next = None
                 /\ s.tracks[t].events # <<>> =>
                      /\ r.tracks[t].next = 1
                      /\ r.tracks[t].ahead = s.tracks[t].events[1].time
<1> DEFINE n == Len(s.tracks)
           E == [t \in 1 .. n |-> s.tracks[t].events]
           N == [t \in 1 .. n |-> IF E[t] = <<>> THEN None ELSE 1]
           A == [t \in 1 .. n |-> IF E[t] = <<>> THEN 0 ELSE E[t][1].time]
<1>1. \A t \in 1 .. n : s.tracks[t].events = E[t]
  OBVIOUS
<1>2. Rewound(s) = Cursored(s, N, A, 0)
  <2> DEFINE C(t) == IF s.tracks[t].events = <<>>
                     THEN [s.tracks[t] EXCEPT !.next = None, !.ahead = 0]
                     ELSE [s.tracks[t] EXCEPT !.next = 1, !.ahead = Head(s.tracks[t].events).time]
  <2>1. ASSUME NEW t \in 1 .. n PROVE C(t) = Cursor(s.tracks[t], N[t], A[t])
    <3>1. CASE E[t] = <<>>
      <4>1. N[t] = None /\ A[t] = 0
        BY <3>1
      <4> QED BY <3>1, <4>1 DEF Cursor
    <3>2. CASE E[t] # <<>>
      <4>1. N[t] = 1 /\ A[t] = Head(s.tracks[t].events).time
        BY <3>2
      <4> QED BY <3>2, <4>1 DEF Cursor
    <3> QED BY <3>1, <3>2
  <2>2. Rewound(s) = [s EXCEPT !.tracks = [t \in 1 .. n |-> C(t)], !.sought = 0]
    BY DEF Rewound
  <2> HIDE DEF N, A, E, C
  <2>3. [t \in 1 .. n |-> C(t)] = [t \in 1 .. n |-> Cursor(s.tracks[t], N[t], A[t])]
    BY <2>1
  <2> QED BY <2>2, <2>3 DEF Cursored
<1>3. ASSUME NEW t \in 1 .. n
      PROVE  /\ N[t] \in Nat \cup {None} /\ A[t] \in Nat
             /\ s.tracks[t].events = <<>> => N[t] = None /\ A[t] = 0
             /\ s.tracks[t].events # <<>> => N[t] = 1 /\ A[t] = s.tracks[t].events[1].time
  <2>1. E[t] \in Seq(Events)
    BY TrackIn DEF SongOK
  <2>2. E[t] # <<>> => E[t][1].time \in Nat
    <3> HIDE DEF E
    <3>1. E[t] # <<>> => 1 \in 1 .. Len(E[t])
      BY <2>1
    <3> QED BY <2>1, <3>1, EventsAt
  <2> HIDE DEF E
  <2> QED BY <1>1, <2>2
<1> HIDE DEF N, A
<1> QED BY <1>2, <1>3, CursoredOK

-------------------------------------------------------------------------------
(***************************************************************************)
(* Reading in time order.                                                  *)
(***************************************************************************)
LEMMA Sorted ==
  ASSUME NEW events \in Seq(Events), NEW t, EventsOK(events, t),
         NEW i \in 1 .. Len(events), NEW j \in 1 .. Len(events), i <= j
  PROVE  events[i].time <= events[j].time
<1> DEFINE n == Len(events)
           time(k) == events[k].time
           T == {d \in Nat : i + d <= n => time(i) <= time(i + d)}
<1>1. n \in Nat /\ i \in 1 .. n /\ j \in 1 .. n
  OBVIOUS
<1>2. \A k \in 1 .. n : time(k) \in Nat
  BY EventsAt
<1>3. ASSUME NEW k \in 1 .. n, k + 1 \in 1 .. n PROVE time(k) <= time(k + 1)
  <2>1. events[k + 1].delta \in Nat /\ events[k].time \in Nat
    BY <1>3, EventsAt
  <2>2. (k + 1) - 1 = k /\ k + 1 # 1
    OBVIOUS
  <2>3. events[k + 1].time = events[k + 1].delta + events[k].time
    BY <1>3, <2>2 DEF EventsOK, TimeBefore
  <2> QED BY <2>1, <2>3
<1> HIDE DEF time, n
<1>4. 0 \in T
  BY <1>1, <1>2
<1>5. ASSUME NEW d \in Nat, d \in T PROVE d + 1 \in T
  <2>1. SUFFICES ASSUME i + (d + 1) <= n PROVE time(i) <= time(i + (d + 1))
    OBVIOUS
  <2>2. i + d \in 1 .. n /\ (i + d) + 1 \in 1 .. n /\ (i + d) + 1 = i + (d + 1)
    BY <1>1, <2>1
  <2>3. time(i) <= time(i + d)
    BY <1>1, <1>5, <2>2
  <2>4. time(i + d) <= time((i + d) + 1)
    BY <1>3, <2>2
  <2>5. time(i) \in Nat /\ time(i + d) \in Nat /\ time((i + d) + 1) \in Nat
    BY <1>1, <1>2, <2>2
  <2> QED BY <2>2, <2>3, <2>4, <2>5
<1>6. Nat \subseteq T
  <2> HIDE DEF T
  <2> QED BY <1>4, <1>5, Induction
<1>7. j - i \in Nat /\ i + (j - i) = j /\ j <= n
  BY <1>1
<1>8. time(i) <= time(j)
  BY <1>6, <1>7
<1> QED BY <1>8 DEF time

LEMMA PositionPair ==
  ASSUME NEW s, NEW t \in 1 .. Len(s.tracks), NEW i \in 1 .. Len(s.tracks[t].events)
  PROVE  <<t, i>> \in Positions(s) /\ EventAt(s, <<t, i>>) = s.tracks[t].events[i]
  BY PositionIs DEF EventAt

LEMMA BeforeInTrack ==
  ASSUME NEW s, SongOK(s), NEW t \in 1 .. Len(s.tracks),
         NEW i \in 1 .. Len(s.tracks[t].events),
         NEW j \in 1 .. Len(s.tracks[t].events), i < j
  PROVE  Before(s, <<t, i>>, <<t, j>>)
<1> DEFINE events == s.tracks[t].events
<1>1. events \in Seq(Events) /\ EventsOK(events, t) /\ Len(events) \in Nat
  BY TrackIn DEF SongOK, TrackOK
<1>2. events[i].time <= events[j].time
  <2> HIDE DEF events
  <2>1. i \in 1 .. Len(events) /\ j \in 1 .. Len(events) /\ i <= j
    BY <1>1 DEF events
  <2> QED BY <1>1, <2>1, Sorted
<1>3. events[i].time \in Nat /\ events[j].time \in Nat
  BY <1>1, EventsAt
<1>4. EventAt(s, <<t, i>>) = events[i] /\ EventAt(s, <<t, j>>) = events[j]
  BY PositionPair
<1>5. /\ <<t, i>>[1] = t /\ <<t, i>>[2] = i
      /\ <<t, j>>[1] = t /\ <<t, j>>[2] = j
  OBVIOUS
<1> HIDE DEF events
<1>6. \/ EventAt(s, <<t, i>>).time < EventAt(s, <<t, j>>).time
      \/ EventAt(s, <<t, i>>).time = EventAt(s, <<t, j>>).time
  BY <1>2, <1>3, <1>4
<1> QED BY <1>5, <1>6 DEF Before

\* The events of a track that come before one are its first ones.
PastIn(s, t, target) == {p \in Positions(s) : p[1] = t /\ Before(s, p, target)}

LEMMA PastIs ==
  ASSUME NEW s, SongOK(s), NEW t \in 1 .. Len(s.tracks), NEW target \in Positions(s)
  PROVE  /\ Cardinality(PastIn(s, t, target)) \in 0 .. Len(s.tracks[t].events)
         /\ \A i \in 1 .. Len(s.tracks[t].events) :
              Before(s, <<t, i>>, target) <=> i <= Cardinality(PastIn(s, t, target))
<1> DEFINE n == Len(s.tracks[t].events)
           S == {i \in 1 .. n : Before(s, <<t, i>>, target)}
           k == IF S = {} THEN 0 ELSE Max(S)
           F == [i \in 1 .. k |-> <<t, i>>]
<1>1. n \in Nat /\ s \in Songs
  BY TrackIn DEF SongOK
<1>2. ASSUME NEW i \in 1 .. n, NEW j \in 1 .. n, i < j, j \in S PROVE i \in S
  <2>1. <<t, i>> \in Positions(s) /\ <<t, j>> \in Positions(s)
    BY PositionPair
  <2>2. Before(s, <<t, i>>, <<t, j>>)
    BY <1>2, BeforeInTrack
  <2>3. Before(s, <<t, j>>, target)
    BY <1>2
  <2>4. Before(s, <<t, i>>, target)
    BY <1>1, <2>1, <2>2, <2>3, BeforeIs
  <2> QED BY <2>4
<1>3. S \subseteq 1 .. n
  OBVIOUS
<1>4. k \in 0 .. n /\ S = 1 .. k
  <2> HIDE DEF S, n
  <2>1. CASE S = {}
    BY <1>1, <2>1
  <2>2. CASE S # {}
    <3>1. k = Max(S)
      BY <2>2
    <3>2. S \subseteq 0 .. n
      BY <1>1, <1>3
    <3>3. k \in S /\ \A y \in S : k >= y
      BY <1>1, <2>2, <3>1, <3>2, MaxOf
    <3> HIDE DEF k
    <3>4. k \in 1 .. n
      BY <1>3, <3>3
    <3>5. \A y \in S : y \in 1 .. k
      BY <1>1, <1>3, <3>3, <3>4
    <3>6. ASSUME NEW y \in 1 .. k PROVE y \in S
      <4>1. y \in 1 .. n /\ (y < k \/ y = k)
        BY <1>1, <3>4
      <4> QED BY <1>2, <3>3, <3>4, <4>1
    <3>7. S = 1 .. k
      BY <3>5, <3>6
    <3>8. k \in 0 .. n
      BY <1>1, <3>4
    <3> QED BY <3>7, <3>8
  <2> QED BY <2>1, <2>2
<1>5. \A i \in 1 .. n : Before(s, <<t, i>>, target) <=> i <= k
  <2>1. \A i \in 1 .. n : Before(s, <<t, i>>, target) <=> i \in S
    OBVIOUS
  <2> HIDE DEF S, k, n
  <2>2. \A i \in 1 .. n : i \in S <=> i <= k
    BY <1>1, <1>4
  <2> QED BY <2>1, <2>2
<1>6. PastIn(s, t, target) = {<<t, i>> : i \in 1 .. k}
  <2>1. ASSUME NEW p \in PastIn(s, t, target) PROVE p \in {<<t, i>> : i \in 1 .. k}
    <3>1. p \in Positions(s) /\ p[1] = t /\ Before(s, p, target)
      BY DEF PastIn
    <3>2. p = <<t, p[2]>> /\ p[2] \in 1 .. n
      BY <3>1, PositionOf
    <3>3. p[2] \in S
      BY <3>1, <3>2
    <3> QED BY <1>4, <3>2, <3>3
  <2>2. ASSUME NEW i \in 1 .. k PROVE <<t, i>> \in PastIn(s, t, target)
    <3>1. i \in S
      BY <1>4
    <3>2. <<t, i>> \in Positions(s) /\ Before(s, <<t, i>>, target)
      BY <3>1, PositionPair
    <3> QED BY <3>2 DEF PastIn
  <2> QED BY <2>1, <2>2
<1>7. Cardinality({<<t, i>> : i \in 1 .. k}) = k
  <2>1. k \in Nat
    BY <1>1, <1>4
  <2> HIDE DEF k, S
  <2>2. F \in Bijection(1 .. k, {<<t, i>> : i \in 1 .. k})
    BY DEF Bijection, Injection, Surjection, IsInjective
  <2>3. IsFiniteSet(1 .. k) /\ Cardinality(1 .. k) = k
    BY <2>1, UpTo
  <2> HIDE DEF F
  <2>4. ExistsBijection(1 .. k, {<<t, i>> : i \in 1 .. k})
    BY <2>2 DEF ExistsBijection
  <2> QED BY <2>3, <2>4, FS_Bijection
<1> HIDE DEF k, S
<1> QED BY <1>4, <1>5, <1>6, <1>7

\* The song with every event before the target skipped.
SkippedTo(s, target, sought) == [Skipped(s, target) EXCEPT !.sought = sought]

LEMMA SkippedOK ==
  ASSUME NEW s, SongOK(s), NEW target \in Positions(s), NEW sought \in Nat \cup {None}
  PROVE  LET r == SkippedTo(s, target, sought)
         IN /\ SongOK(r) /\ Len(r.tracks) = Len(s.tracks)
            /\ r.tempos = s.tempos /\ r.sought = sought
            /\ \A t \in 1 .. Len(s.tracks) :
                 LET k == Cardinality(PastIn(s, t, target))
                     n == Len(s.tracks[t].events)
                 IN /\ r.tracks[t].events = s.tracks[t].events
                    /\ k = n => r.tracks[t].next = None
                    /\ k # n => /\ r.tracks[t].next = k + 1
                                /\ r.tracks[t].ahead = s.tracks[t].events[k + 1].time
<1> DEFINE m == Len(s.tracks)
           E(t) == s.tracks[t].events
           K(t) == Cardinality(PastIn(s, t, target))
           N == [t \in 1 .. m |-> IF K(t) = Len(E(t)) THEN None ELSE K(t) + 1]
           A == [t \in 1 .. m |-> IF K(t) = Len(E(t)) THEN LastPulses(s.tracks[t])
                                  ELSE E(t)[K(t) + 1].time]
           C(t) == IF K(t) = Len(E(t))
                   THEN [s.tracks[t] EXCEPT !.next = None, !.ahead = LastPulses(s.tracks[t])]
                   ELSE [s.tracks[t] EXCEPT !.next = K(t) + 1,
                                            !.ahead = s.tracks[t].events[K(t) + 1].time]
<1>1. SkippedTo(s, target, sought) = Cursored(s, N, A, sought)
  <2>1. ASSUME NEW t \in 1 .. m PROVE C(t) = Cursor(s.tracks[t], N[t], A[t])
    <3>1. CASE K(t) = Len(E(t))
      <4>1. N[t] = None /\ A[t] = LastPulses(s.tracks[t])
        BY <3>1
      <4> HIDE DEF N, A, K
      <4> QED BY <3>1, <4>1 DEF Cursor
    <3>2. CASE K(t) # Len(E(t))
      <4>1. N[t] = K(t) + 1 /\ A[t] = s.tracks[t].events[K(t) + 1].time
        BY <3>2
      <4> HIDE DEF N, A, K
      <4> QED BY <3>2, <4>1 DEF Cursor
    <3> QED BY <3>1, <3>2
  <2>2. Skipped(s, target) = [s EXCEPT !.tracks = [t \in 1 .. m |-> C(t)]]
    BY DEF Skipped, PastIn
  <2> HIDE DEF N, A, C
  <2>3. [t \in 1 .. m |-> C(t)] = [t \in 1 .. m |-> Cursor(s.tracks[t], N[t], A[t])]
    BY <2>1
  <2> DEFINE tracks == [t \in 1 .. m |-> C(t)]
  <2>4. s = [tracks |-> s.tracks, tempos |-> s.tempos, sought |-> s.sought]
    BY SongIn DEF SongOK
  <2>5. Skipped(s, target) = [s EXCEPT !.tracks = tracks]
    BY <2>2
  <2>6. Cursored(s, N, A, sought) = [s EXCEPT !.tracks = tracks, !.sought = sought]
    BY <2>3 DEF Cursored
  <2> HIDE DEF tracks
  <2> QED BY <2>4, <2>5, <2>6 DEF SkippedTo
<1>2. ASSUME NEW t \in 1 .. m
      PROVE  /\ N[t] \in Nat \cup {None} /\ A[t] \in Nat
             /\ E(t) = <<>> => N[t] = None
             /\ K(t) = Len(E(t)) => N[t] = None
             /\ K(t) # Len(E(t)) => N[t] = K(t) + 1 /\ A[t] = E(t)[K(t) + 1].time
  <2>1. K(t) \in 0 .. Len(E(t))
    BY PastIs
  <2>2. s.tracks[t] \in Track /\ E(t) \in Seq(Events) /\ Len(E(t)) \in Nat
    BY TrackIn DEF SongOK
  <2>3. CASE K(t) = Len(E(t))
    <3>1. N[t] = None /\ A[t] = LastPulses(s.tracks[t])
      BY <2>3
    <3>2. A[t] \in Nat
      BY <2>2, <3>1, LastPulsesIs
    <3> QED BY <2>3, <3>1, <3>2
  <2>4. CASE K(t) # Len(E(t))
    <3>1. N[t] = K(t) + 1 /\ A[t] = E(t)[K(t) + 1].time
      BY <2>4
    <3> DEFINE e == E(t)
               k == K(t)
    <3>2. k + 1 \in 1 .. Len(e) /\ k + 1 \in Nat /\ e \in Seq(Events)
      BY <2>1, <2>2, <2>4
    <3> HIDE DEF e, k
    <3>3. e[k + 1].time \in Nat /\ e # <<>>
      BY <3>2, EventsAt
    <3> QED BY <2>4, <3>1, <3>2, <3>3 DEF e, k
  <2> QED BY <2>3, <2>4
<1> DEFINE r == Cursored(s, N, A, sought)
<1> HIDE DEF N, A
<1>3. SongOK(r) /\ Len(r.tracks) = m
  BY <1>2, CursoredOK
<1>4. r.tempos = s.tempos /\ r.sought = sought
  BY <1>2, CursoredOK
<1>5. \A t \in 1 .. m : /\ r.tracks[t].events = s.tracks[t].events
                        /\ r.tracks[t].next = N[t] /\ r.tracks[t].ahead = A[t]
  BY <1>2, CursoredOK
<1> HIDE DEF r
<1> QED BY <1>1, <1>2, <1>3, <1>4, <1>5 DEF r

LEMMA ExhaustedOK ==
  ASSUME NEW s, SongOK(s)
  PROVE  LET r == Exhausted(s)
         IN /\ SongOK(r) /\ Len(r.tracks) = Len(s.tracks) /\ r.tempos = s.tempos
            /\ \A t \in 1 .. Len(s.tracks) : /\ r.tracks[t].events = s.tracks[t].events
                                             /\ r.tracks[t].next = None
<1> DEFINE m == Len(s.tracks)
           N == [t \in 1 .. m |-> None]
           A == [t \in 1 .. m |-> LastPulses(s.tracks[t])]
           sought == IF Positions(s) = {} THEN 0 ELSE None
           r == Cursored(s, N, A, sought)
<1>1. Exhausted(s) = r
  <2>1. ASSUME NEW t \in 1 .. m
        PROVE  [s.tracks[t] EXCEPT !.next = None, !.ahead = LastPulses(s.tracks[t])]
                 = Cursor(s.tracks[t], N[t], A[t])
    <3>1. N[t] = None /\ A[t] = LastPulses(s.tracks[t])
      OBVIOUS
    <3> HIDE DEF N, A
    <3> QED BY <3>1 DEF Cursor
  <2>2. Exhausted(s) =
          [s EXCEPT !.sought = sought,
                    !.tracks = [t \in 1 .. m |->
                                  [s.tracks[t] EXCEPT !.next = None,
                                                      !.ahead = LastPulses(s.tracks[t])]]]
    BY DEF Exhausted
  <2> HIDE DEF N, A
  <2>3. [t \in 1 .. m |-> [s.tracks[t] EXCEPT !.next = None,
                                              !.ahead = LastPulses(s.tracks[t])]]
          = [t \in 1 .. m |-> Cursor(s.tracks[t], N[t], A[t])]
    BY <2>1
  <2> DEFINE tracks == [t \in 1 .. m |-> Cursor(s.tracks[t], N[t], A[t])]
  <2>4. s = [tracks |-> s.tracks, tempos |-> s.tempos, sought |-> s.sought]
    BY SongIn DEF SongOK
  <2>5. Exhausted(s) = [s EXCEPT !.sought = sought, !.tracks = tracks]
    BY <2>2, <2>3
  <2>6. r = [s EXCEPT !.tracks = tracks, !.sought = sought]
    BY DEF Cursored
  <2> HIDE DEF tracks, r, sought
  <2> QED BY <2>4, <2>5, <2>6
<1>2. ASSUME NEW t \in 1 .. m
      PROVE  N[t] = None /\ N[t] \in Nat \cup {None} /\ A[t] \in Nat
  <2>1. s.tracks[t] \in Track
    BY TrackIn DEF SongOK
  <2>2. N[t] = None /\ A[t] = LastPulses(s.tracks[t])
    OBVIOUS
  <2> HIDE DEF N, A
  <2> QED BY <2>1, <2>2, LastPulsesIs
<1>3. sought \in Nat \cup {None}
  OBVIOUS
<1> HIDE DEF N, A, sought
<1>4. SongOK(r) /\ Len(r.tracks) = m /\ r.tempos = s.tempos
  BY <1>2, <1>3, CursoredOK
<1>5. \A t \in 1 .. m : r.tracks[t].events = s.tracks[t].events /\ r.tracks[t].next = None
  BY <1>2, <1>3, CursoredOK
<1> HIDE DEF r
<1> QED BY <1>1, <1>4, <1>5

\* What a save leaves: the song with every cursor at the end.
LEMMA WrittenOK ==
  ASSUME NEW s, SongOK(s)
  PROVE  LET r == Written(s)
         IN /\ SongOK(r) /\ Len(r.tracks) = Len(s.tracks) /\ r.tempos = s.tempos
            /\ \A t \in 1 .. Len(s.tracks) : /\ r.tracks[t].events = s.tracks[t].events
                                             /\ r.tracks[t].next = None
<1> DEFINE e == Exhausted(s)
           r == Written(s)
<1>1. /\ SongOK(e) /\ Len(e.tracks) = Len(s.tracks) /\ e.tempos = s.tempos
      /\ \A t \in 1 .. Len(s.tracks) : /\ e.tracks[t].events = s.tracks[t].events
                                       /\ e.tracks[t].next = None
  BY ExhaustedOK
<1>2. r = [e EXCEPT !.sought = s.sought]
  BY DEF Written
<1>3. s.sought \in Nat \cup {None}
  BY SongIn DEF SongOK
<1> HIDE DEF e, r
<1>4. e \in Songs /\ \A t \in 1 .. Len(e.tracks) : TrackOK(e.tracks[t], t)
  BY <1>1 DEF SongOK
<1>5. r \in Songs /\ r.tracks = e.tracks /\ r.tempos = e.tempos
  BY <1>2, <1>3, <1>4 DEF Songs
<1>6. SongOK(r)
  BY <1>4, <1>5 DEF SongOK
<1> QED BY <1>1, <1>5, <1>6 DEF r

\* A finite set in a strict order has a first member, too.
LEMMA FirstOfOrder ==
  ASSUME NEW P, NEW R, StrictOrder(P, R),
         NEW S \in SUBSET P, IsFiniteSet(S), S # {}
  PROVE  \E x \in S : \A y \in S \ {x} : <<x, y>> \in R
<1> DEFINE Q == {r \in P \X P : <<r[2], r[1]>> \in R}
<1>1. \A x, y \in P : <<x, y>> \in Q <=> <<y, x>> \in R
  OBVIOUS
<1> HIDE DEF Q
<1>2. StrictOrder(P, Q)
  BY <1>1 DEF StrictOrder
<1>3. PICK x \in S : \A y \in S \ {x} : <<y, x>> \in Q
  BY <1>2, LastOfOrder
<1> QED BY <1>1, <1>3

LEMMA FirstOfIs ==
  ASSUME NEW s, SongOK(s), NEW ok \in SUBSET Positions(s), ok # {}
  PROVE  FirstOf(s, ok) \in ok
<1>1. s \in Songs
  BY DEF SongOK
<1>2. IsFiniteSet(ok)
  BY <1>1, PositionsFinite, FS_Subset
<1>3. \E p \in ok : \A q \in ok \ {p} : <<p, q>> \in Order(s)
  BY <1>1, <1>2, OrderStrict, FirstOfOrder
<1>4. \E p \in ok : \A q \in ok \ {p} : Before(s, p, q)
  BY <1>3, OrderIs
<1> QED BY <1>4 DEF FirstOf

\* The track whose cursor is the nearest.
Live(s) == {t \in 1 .. Len(s.tracks) : s.tracks[t].next # None}

Nearer(s, t, u) ==
  \/ s.tracks[t].ahead < s.tracks[u].ahead
  \/ s.tracks[t].ahead = s.tracks[u].ahead /\ t < u

LEMMA NextTrackIs ==
  ASSUME NEW s, SongOK(s), NextTrack(s) # 0
  PROVE  /\ NextTrack(s) \in Live(s)
         /\ \A u \in Live(s) \ {NextTrack(s)} : Nearer(s, NextTrack(s), u)
<1> DEFINE n == Len(s.tracks)
           P == 1 .. n
           R == {r \in P \X P : Nearer(s, r[1], r[2])}
<1>1. n \in Nat /\ \A t \in P : s.tracks[t].ahead \in Nat
  <2>1. n \in Nat /\ \A t \in P : s.tracks[t] \in Track
    BY SongIn, TrackIn DEF SongOK
  <2> QED BY <2>1 DEF Track
<1>2. NextTrack(s) = CHOOSE t \in Live(s) : \A u \in Live(s) \ {t} : Nearer(s, t, u)
  BY DEF NextTrack, Live, Nearer
<1>3. Live(s) # {}
  BY DEF NextTrack, Live
<1>4. Live(s) \in SUBSET P
  BY DEF Live
<1>5. \A t, u \in P : <<t, u>> \in R <=> Nearer(s, t, u)
  OBVIOUS
<1> HIDE DEF R
<1>6. StrictOrder(P, R)
  <2>1. \A t, u, v \in P : Nearer(s, t, u) /\ Nearer(s, u, v) => Nearer(s, t, v)
    BY <1>1, SMTT(30) DEF Nearer
  <2>2. \A t \in P : ~ Nearer(s, t, t)
    BY <1>1 DEF Nearer
  <2>3. \A t, u \in P : t # u => Nearer(s, t, u) \/ Nearer(s, u, t)
    BY <1>1 DEF Nearer
  <2> QED BY <1>5, <2>1, <2>2, <2>3 DEF StrictOrder
<1>7. IsFiniteSet(P)
  BY <1>1, UpTo
<1>8. IsFiniteSet(Live(s))
  BY <1>4, <1>7, FS_Subset
<1> HIDE DEF P
<1>9. \E t \in Live(s) : \A u \in Live(s) \ {t} : <<t, u>> \in R
  BY <1>3, <1>4, <1>6, <1>8, FirstOfOrder
<1>10. \E t \in Live(s) : \A u \in Live(s) \ {t} : Nearer(s, t, u)
  BY <1>4, <1>5, <1>9
<1> QED BY <1>2, <1>10

\* The song with one event read.
Read(s, t) == [s EXCEPT !.tracks[t] = Advanced(@), !.sought = None]

LEMMA ReadOK ==
  ASSUME NEW s, SongOK(s), NEW t \in 1 .. Len(s.tracks),
         s.tracks[t].next # None, s.tracks[t].next <= Len(s.tracks[t].events)
  PROVE  LET r == Read(s, t)
         IN /\ SongOK(r) /\ Len(r.tracks) = Len(s.tracks) /\ r.tempos = s.tempos
            /\ \A u \in 1 .. Len(s.tracks) : u # t => r.tracks[u] = s.tracks[u]
            /\ r.tracks[t].events = s.tracks[t].events
            /\ IF s.tracks[t].next < Len(s.tracks[t].events)
               THEN /\ r.tracks[t].next = s.tracks[t].next + 1
                    /\ r.tracks[t].ahead = s.tracks[t].events[s.tracks[t].next + 1].time
               ELSE r.tracks[t].next = None
<1> DEFINE n == Len(s.tracks)
           track == s.tracks[t]
           events == track.events
           i == track.next
           b == IF i < Len(events) THEN i + 1 ELSE None
           a == IF i < Len(events) THEN events[i + 1].time ELSE track.ahead
           new == Cursor(track, b, a)
           tracks == [s.tracks EXCEPT ![t] = new]
           r == Read(s, t)
<1>1. s.tracks \in Seq(Track) /\ n \in Nat /\ t \in 1 .. n
  BY SongIn DEF SongOK
<1>2. track \in Track /\ TrackOK(track, t)
  BY <1>1 DEF SongOK
<1>3. events \in Seq(Events) /\ i \in Nat /\ Len(events) \in Nat /\ track.ahead \in Nat
  BY <1>2 DEF Track
<1>4. b \in Nat \cup {None}
  BY <1>3
<1>5. a \in Nat
  <2> HIDE DEF events, i
  <2>1. i < Len(events) => i + 1 \in 1 .. Len(events)
    BY <1>3
  <2>2. i < Len(events) => events[i + 1].time \in Nat
    BY <1>3, <2>1, EventsAt
  <2> QED BY <1>3, <2>2
<1>6. events = <<>> => b = None
  BY <1>3
<1>7. Advanced(track) = new
  <2>1. track = [number |-> track.number, events |-> events, next |-> i, ahead |-> track.ahead]
    BY <1>2 DEF Track
  <2>2. CASE i < Len(events)
    BY <2>2 DEF Advanced, Cursor
  <2>3. CASE ~ (i < Len(events))
    <3>1. Advanced(track) = [track EXCEPT !.next = None]
      BY <2>3 DEF Advanced
    <3>2. new = [track EXCEPT !.next = None, !.ahead = track.ahead]
      BY <2>3 DEF Cursor
    <3> HIDE DEF track, new
    <3> QED BY <2>1, <3>1, <3>2
  <2> QED BY <2>2, <2>3
<1>8. new \in Track /\ TrackOK(new, t)
  <2> HIDE DEF track, a, b
  <2> QED BY <1>2, <1>4, <1>5, <1>6, CursorOK
<1>9. new.events = events /\ new.next = b /\ (i < Len(events) => new.ahead = a)
  <2>1. new.events = track.events /\ new.next = b /\ new.ahead = a
    <3> HIDE DEF track, a, b
    <3> QED BY <1>2, <1>4, <1>5, <1>6, CursorOK
  <2> QED BY <2>1
<1>10. r = Sought(s, tracks, None)
  <2>1. s = [tracks |-> s.tracks, tempos |-> s.tempos, sought |-> s.sought]
    BY SongIn DEF SongOK
  <2>2. r = [s EXCEPT !.tracks[t] = new, !.sought = None]
    BY <1>7 DEF Read
  <2> HIDE DEF new, r
  <2> QED BY <2>1, <2>2 DEF Sought
<1> HIDE DEF new
<1>11. tracks \in Seq(Track) /\ Len(tracks) = n
  BY <1>1, <1>8
<1>12. tracks[t] = new /\ \A u \in 1 .. n : u # t => tracks[u] = s.tracks[u]
  BY <1>1
<1>13. \A u \in 1 .. Len(tracks) : TrackOK(tracks[u], u)
  BY <1>8, <1>11, <1>12 DEF SongOK
<1> HIDE DEF tracks, r
<1>14. SongOK(r) /\ r.tracks = tracks /\ r.tempos = s.tempos
  BY <1>10, <1>11, <1>13, SoughtOK
<1>15. IF i < Len(events) THEN new.next = i + 1 /\ new.ahead = events[i + 1].time
       ELSE new.next = None
  BY <1>9
<1> QED BY <1>9, <1>11, <1>12, <1>14, <1>15 DEF r

LEMMA NewSongOK == SongOK(NewSong)
<1>1. <<>> \in Seq(Track)
  OBVIOUS
<1>2. NewSong \in Songs
  BY <1>1, InitialTempoOK DEF NewSong, Songs
<1> QED BY <1>2 DEF SongOK, NewSong

LEMMA QuotientNat ==
  ASSUME NEW a \in Nat, NEW b \in Nat, b > 0 PROVE a \div b \in Nat
  OBVIOUS

\* The tempo that was in force at that many seconds.
TempoAfter(m, secs) ==
  IF secs = 0 THEN 1 ELSE SelectLastInSeq(m, LAMBDA x : x.secs < secs)

LEMMA TempoAfterIs ==
  ASSUME NEW m \in Tempos, m # <<>>, NEW secs \in Nat
  PROVE  /\ TempoAfter(m, secs) \in 1 .. Len(m)
         /\ m[TempoAfter(m, secs)].secs <= secs
         /\ PulsesAt(m, secs) =
              m[TempoAfter(m, secs)].at
                + (secs - m[TempoAfter(m, secs)].secs) \div m[TempoAfter(m, secs)].rate
<1> DEFINE k == TempoAfter(m, secs)
<1>1. m \in Seq(Tempo) /\ Len(m) \in Nat /\ Len(m) >= 1 /\ m[1].secs = 0
  BY DEF Tempos
<1>2. PulsesAt(m, secs) = m[k].at + (secs - m[k].secs) \div m[k].rate
  BY DEF PulsesAt, TempoAfter
<1>3. CASE secs = 0
  BY <1>1, <1>2, <1>3 DEF TempoAfter
<1>4. CASE secs > 0
  <2> DEFINE I == {i \in 1 .. Len(m) : m[i].secs < secs}
  <2>1. k = IF I # {} THEN Max(I) ELSE 0
    BY <1>4 DEF TempoAfter, SelectLastInSeq
  <2>2. 1 \in I /\ I \subseteq 0 .. Len(m)
    BY <1>1, <1>4
  <2>3. Max(I) \in I
    <3> HIDE DEF I
    <3> QED BY <1>1, <2>2, MaxOf
  <2>4. k \in I
    BY <2>1, <2>2, <2>3
  <2>5. k \in 1 .. Len(m) /\ m[k].secs < secs
    BY <2>4
  <2>6. m[k].secs \in Nat
    BY <2>5, TempoAt
  <2> HIDE DEF k
  <2>7. m[k].secs <= secs
    BY <2>5, <2>6
  <2> QED BY <1>2, <2>5, <2>7 DEF k
<1> QED BY <1>3, <1>4

LEMMA PulsesNat ==
  ASSUME NEW m \in Tempos, m # <<>>, NEW secs \in Nat
  PROVE  PulsesAt(m, secs) \in Nat
<1> DEFINE k == TempoAfter(m, secs)
<1>1. /\ k \in 1 .. Len(m) /\ m[k].secs <= secs
      /\ PulsesAt(m, secs) = m[k].at + (secs - m[k].secs) \div m[k].rate
  BY TempoAfterIs
<1>2. m[k].secs \in Nat /\ m[k].at \in Nat /\ m[k].rate \in Nat /\ m[k].rate > 0
  BY <1>1, TempoAt
<1> HIDE DEF k
<1> DEFINE a == secs - m[k].secs
<1>3. a \in Nat
  BY <1>1, <1>2, SMTT(30)
<1> HIDE DEF a
<1>4. a \div m[k].rate \in Nat
  BY <1>2, <1>3, QuotientNat
<1>5. PulsesAt(m, secs) = m[k].at + a \div m[k].rate
  BY <1>1 DEF a
<1> QED BY <1>2, <1>4, <1>5

LEMMA AddedAfterOK ==
  ASSUME NEW s, SongOK(s), NEW t \in 1 .. Len(s.tracks), s.tempos # <<>>,
         NEW kind \in Kinds, NEW delta \in Nat
  PROVE  LET r == AddedAfter(s, t, kind, delta)
         IN /\ SongOK(r) /\ Len(r.tracks) = Len(s.tracks) /\ r.tempos # <<>>
            /\ kind \notin Rates =>
                 /\ r.tempos = s.tempos
                 /\ \A u \in 1 .. Len(s.tracks) : u # t => r.tracks[u] = s.tracks[u]
<1> DEFINE time == LastPulses(s.tracks[t]) + delta
           secs == SecondsAt(s.tempos, time)
<1>1. s.tracks[t] \in Track /\ s.tempos \in Tempos
  BY SongIn, TrackIn DEF SongOK
<1>2. LastPulses(s.tracks[t]) \in Nat
  BY <1>1, LastPulsesIs
<1>3. time \in Nat
  BY <1>2
<1>4. secs \in Nat
  <2> HIDE DEF time
  <2> QED BY <1>1, <1>3, SecondsNat
<1>5. AddedAfter(s, t, kind, delta) = Added(s, t, kind, time, secs)
  BY DEF AddedAfter
<1> HIDE DEF time, secs
<1> DEFINE r == Added(s, t, kind, time, secs)
<1>6. /\ SongOK(r) /\ Len(r.tracks) = Len(s.tracks) /\ r.tempos # <<>>
      /\ kind \notin Rates =>
           /\ r.tempos = s.tempos
           /\ \A u \in 1 .. Len(s.tracks) : u # t => r.tracks[u] = s.tracks[u]
  BY <1>3, <1>4, AddedOK
<1> QED BY <1>5, <1>6

LEMMA AddedAfterKept ==
  ASSUME NEW s, SongOK(s), NEW t \in 1 .. Len(s.tracks), s.tempos # <<>>,
         NEW kind \in Kinds, NEW delta \in Nat
  PROVE  /\ Len(AddedAfter(s, t, kind, delta).tracks) = Len(s.tracks)
         /\ AddedAfter(s, t, kind, delta).tempos # <<>>
  BY AddedAfterOK, Zenon

-------------------------------------------------------------------------------
(***************************************************************************)
(* Songs that are saved.                                                   *)
(***************************************************************************)
EndedStep(x, s, t) ==
  IF HasEot(s.tracks[t].events) THEN x ELSE AddedAfter(x, t, Eot, 0)

\* ended[i] is the song after the first i tracks are ended.
IsEnded(ended, s, n) ==
  ended = [i \in 0 .. n |-> IF i = 0 THEN Rewound(s) ELSE EndedStep(ended[i - 1], s, i)]

LEMMA EndedDef ==
  ASSUME NEW s
  PROVE  LET n == Len(s.tracks)
         IN Completed(s) = (CHOOSE ended : IsEnded(ended, s, n))[n]
  BY DEF Completed, IsEnded, EndedStep

LEMMA EndedExists ==
  ASSUME NEW s, NEW n \in Nat
  PROVE  \E ended : IsEnded(ended, s, n)
<1> DEFINE T == {m \in Nat : \E ended : IsEnded(ended, s, m)}
           step(x, i) == EndedStep(x, s, i)
<1>1. 0 \in T
  <2>1. IsEnded([i \in 0 .. 0 |-> Rewound(s)], s, 0)
    BY DEF IsEnded
  <2> QED BY <2>1
<1>2. ASSUME NEW m \in Nat, m \in T PROVE m + 1 \in T
  <2>1. PICK ended : IsEnded(ended, s, m)
    BY <1>2
  <2>2. ended = [i \in 0 .. m |-> IF i = 0 THEN Rewound(s) ELSE step(ended[i - 1], i)]
    BY <2>1 DEF IsEnded
  <2> DEFINE r == [i \in 0 .. m + 1 |-> IF i = m + 1 THEN step(ended[m], m + 1) ELSE ended[i]]
  <2> HIDE DEF step
  <2>3. ASSUME NEW i \in 0 .. m + 1
        PROVE  r[i] = IF i = 0 THEN Rewound(s) ELSE step(r[i - 1], i)
    <3>1. CASE i = 0
      BY <2>2, <3>1
    <3>2. CASE i = m + 1
      BY <3>2
    <3>3. CASE i \in 1 .. m
      BY <2>2, <3>3
    <3> QED BY <3>1, <3>2, <3>3
  <2>4. IsEnded(r, s, m + 1)
    <3>1. r = [i \in 0 .. m + 1 |-> IF i = 0 THEN Rewound(s) ELSE step(r[i - 1], i)]
      BY <2>3
    <3> HIDE DEF r
    <3> QED BY <3>1 DEF IsEnded, step
  <2> HIDE DEF r
  <2> QED BY <2>4
<1>3. Nat \subseteq T
  <2> HIDE DEF T
  <2> QED BY <1>1, <1>2, Induction
<1> QED BY <1>3

LEMMA EndedIs ==
  ASSUME NEW s, SongOK(s)
  PROVE  LET n == Len(s.tracks)
         IN \E ended : IsEnded(ended, s, n) /\ Completed(s) = ended[n]
<1> DEFINE n == Len(s.tracks)
           r == CHOOSE ended : IsEnded(ended, s, n)
<1>1. n \in Nat
  BY SongIn DEF SongOK
<1>2. IsEnded(r, s, n)
  <2> HIDE DEF n
  <2> QED BY <1>1, EndedExists, Zenon
<1>3. Completed(s) = r[n]
  BY EndedDef
<1> QED BY <1>2, <1>3, Zenon

LEMMA EndedNext ==
  ASSUME NEW s, NEW ended, NEW n \in Nat, IsEnded(ended, s, n)
  PROVE  /\ ended[0] = Rewound(s)
         /\ \A i \in Nat : i + 1 <= n => ended[i + 1] = EndedStep(ended[i], s, i + 1)
<1> DEFINE step(x, i) == EndedStep(x, s, i)
<1>1. ended = [i \in 0 .. n |-> IF i = 0 THEN Rewound(s) ELSE step(ended[i - 1], i)]
  BY DEF IsEnded
<1> HIDE DEF step
<1>2. ended[0] = Rewound(s)
  BY <1>1
<1>3. ASSUME NEW i \in Nat, i + 1 <= n PROVE ended[i + 1] = step(ended[i], i + 1)
  <2>1. i + 1 \in 0 .. n /\ (i + 1) - 1 = i /\ i + 1 # 0
    BY <1>3
  <2> QED BY <1>1, <2>1
<1> QED BY <1>2, <1>3 DEF step

\* Whether the song can be saved: no track is ended without a tempo.
Savable(s) ==
  s.tempos # <<>> \/ \A t \in 1 .. Len(s.tracks) : HasEot(s.tracks[t].events)

LEMMA EotNoRate == Eot \in Kinds /\ Eot \notin Rates
  BY SongAssumption DEF Kinds

LEMMA CompletedOK ==
  ASSUME NEW s, SongOK(s), Savable(s)
  PROVE  LET r == Completed(s)
         IN SongOK(r) /\ Len(r.tracks) = Len(s.tracks) /\ r.tempos = s.tempos
<1> DEFINE n == Len(s.tracks)
           Good(x) == SongOK(x) /\ Len(x.tracks) = n /\ x.tempos = s.tempos
<1>1. n \in Nat
  BY SongIn DEF SongOK
<1>2. PICK ended : IsEnded(ended, s, n) /\ Completed(s) = ended[n]
  BY EndedIs
<1> DEFINE T == {i \in Nat : i <= n => Good(ended[i])}
<1> HIDE DEF n
<1>3. 0 \in T
  <2>1. ended[0] = Rewound(s)
    BY <1>1, <1>2, EndedNext
  <2> QED BY <2>1, RewoundOK DEF n
<1>4. ASSUME NEW i \in Nat, i \in T PROVE i + 1 \in T
  <2>1. SUFFICES ASSUME i + 1 <= n PROVE Good(ended[i + 1])
    OBVIOUS
  <2>2. Good(ended[i])
    BY <1>1, <1>4, <2>1
  <2>3. ended[i + 1] = EndedStep(ended[i], s, i + 1)
    BY <1>1, <1>2, <2>1, EndedNext
  <2>4. CASE HasEot(s.tracks[i + 1].events)
    <3>1. ended[i + 1] = ended[i]
      BY <2>3, <2>4 DEF EndedStep
    <3> QED BY <2>2, <3>1
  <2>5. CASE ~ HasEot(s.tracks[i + 1].events)
    <3> DEFINE x == ended[i]
               t == i + 1
    <3>1. t \in 1 .. n
      BY <1>1, <2>1
    <3>2. s.tempos # <<>>
      BY <2>5, <3>1 DEF Savable, n
    <3>3. ended[i + 1] = AddedAfter(x, t, Eot, 0)
      BY <2>3, <2>5 DEF EndedStep
    <3>4. SongOK(x) /\ t \in 1 .. Len(x.tracks) /\ x.tempos # <<>>
      BY <2>2, <3>1, <3>2
    <3> HIDE DEF x, t
    <3>5. /\ SongOK(AddedAfter(x, t, Eot, 0))
          /\ Len(AddedAfter(x, t, Eot, 0).tracks) = Len(x.tracks)
          /\ AddedAfter(x, t, Eot, 0).tempos = x.tempos
      BY <3>4, EotNoRate, AddedAfterOK
    <3> QED BY <2>2, <3>3, <3>5 DEF x
  <2> QED BY <2>4, <2>5
<1>5. Nat \subseteq T
  <2> HIDE DEF T
  <2> QED BY <1>3, <1>4, Induction
<1>6. Good(ended[n])
  BY <1>1, <1>5
<1> QED BY <1>2, <1>6 DEF n

-------------------------------------------------------------------------------
(***************************************************************************)
(* Where the cursors are after a seek.                                     *)
(***************************************************************************)
CursorsOK(s) ==
  \A t \in 1 .. Len(s.tracks) :
    s.tracks[t].next # None =>
      /\ s.tracks[t].next \in 1 .. Len(s.tracks[t].events)
      /\ s.tracks[t].ahead = s.tracks[t].events[s.tracks[t].next].time

\* Unread, of any song.
ToRead(s) ==
  {p \in Positions(s) : /\ s.tracks[p[1]].next # None
                        /\ p[2] >= s.tracks[p[1]].next}

InOrder(s) == \A p \in ToRead(s), q \in Positions(s) \ ToRead(s) : Before(s, q, p)

\* Songs with the same events.
SameEvents(s, r) ==
  /\ Len(r.tracks) = Len(s.tracks)
  /\ \A t \in 1 .. Len(s.tracks) : r.tracks[t].events = s.tracks[t].events

LEMMA SameEventsIs ==
  ASSUME NEW s, NEW r, SameEvents(s, r)
  PROVE  /\ Positions(r) = Positions(s)
         /\ \A p \in Positions(s) : EventAt(r, p) = EventAt(s, p)
         /\ \A p, q \in Positions(s) : Before(r, p, q) <=> Before(s, p, q)
<1>1. ASSUME NEW p PROVE p \in Positions(r) <=> p \in Positions(s)
  <2>1. p \in Positions(r) <=> \E t \in 1 .. Len(r.tracks) :
                                 \E i \in 1 .. Len(r.tracks[t].events) : p = <<t, i>>
    BY DEF Positions
  <2>2. p \in Positions(s) <=> \E t \in 1 .. Len(s.tracks) :
                                 \E i \in 1 .. Len(s.tracks[t].events) : p = <<t, i>>
    BY DEF Positions
  <2> QED BY <2>1, <2>2 DEF SameEvents
<1>2. Positions(r) = Positions(s)
  BY <1>1
<1>3. \A p \in Positions(s) : EventAt(r, p) = EventAt(s, p)
  BY PositionOf DEF EventAt, SameEvents
<1>4. \A p, q \in Positions(s) : Before(r, p, q) <=> Before(s, p, q)
  BY <1>3 DEF Before
<1> QED BY <1>2, <1>3, <1>4

LEMMA RewoundSeated ==
  ASSUME NEW s, SongOK(s)
  PROVE  CursorsOK(Rewound(s)) /\ InOrder(Rewound(s))
<1> DEFINE r == Rewound(s)
<1>1. /\ Len(r.tracks) = Len(s.tracks)
      /\ \A t \in 1 .. Len(s.tracks) :
           /\ r.tracks[t].events = s.tracks[t].events
           /\ s.tracks[t].events = <<>> => r.tracks[t].next = None
           /\ s.tracks[t].events # <<>> =>
                /\ r.tracks[t].next = 1
                /\ r.tracks[t].ahead = s.tracks[t].events[1].time
  BY RewoundOK
<1> HIDE DEF r
<1>2. ASSUME NEW t \in 1 .. Len(s.tracks), s.tracks[t].events # <<>>
      PROVE  1 \in 1 .. Len(s.tracks[t].events)
  <2>1. s.tracks[t].events \in Seq(Events)
    BY TrackIn DEF SongOK
  <2> QED BY <1>2, <2>1
<1>3. CursorsOK(r)
  BY <1>1, <1>2 DEF CursorsOK
<1>4. Positions(r) \subseteq ToRead(r)
  <2>1. ASSUME NEW p \in Positions(r) PROVE p \in ToRead(r)
    <3>1. /\ p[1] \in 1 .. Len(r.tracks) /\ p[2] \in 1 .. Len(r.tracks[p[1]].events)
      BY PositionOf
    <3>2. r.tracks[p[1]].events # <<>>
      BY <3>1
    <3>3. r.tracks[p[1]].next = 1
      BY <1>1, <3>1, <3>2
    <3> QED BY <3>1, <3>3 DEF ToRead, None
  <2> QED BY <2>1
<1> QED BY <1>3, <1>4 DEF InOrder, r

LEMMA SkippedSeated ==
  ASSUME NEW s, SongOK(s), NEW target \in Positions(s), NEW sought \in Nat \cup {None}
  PROVE  CursorsOK(SkippedTo(s, target, sought)) /\ InOrder(SkippedTo(s, target, sought))
<1> DEFINE r == SkippedTo(s, target, sought)
           n(t) == Len(s.tracks[t].events)
           k(t) == Cardinality(PastIn(s, t, target))
<1>1. /\ Len(r.tracks) = Len(s.tracks)
      /\ \A t \in 1 .. Len(s.tracks) :
           /\ r.tracks[t].events = s.tracks[t].events
           /\ k(t) = n(t) => r.tracks[t].next = None
           /\ k(t) # n(t) => /\ r.tracks[t].next = k(t) + 1
                             /\ r.tracks[t].ahead = s.tracks[t].events[k(t) + 1].time
  BY SkippedOK
<1> HIDE DEF r
<1>2. ASSUME NEW t \in 1 .. Len(s.tracks)
      PROVE  /\ k(t) \in 0 .. n(t) /\ n(t) \in Nat
             /\ \A i \in 1 .. n(t) : Before(s, <<t, i>>, target) <=> i <= k(t)
  <2>1. n(t) \in Nat
    BY TrackIn DEF SongOK
  <2> QED BY <2>1, PastIs
<1> HIDE DEF k
<1>3. CursorsOK(r)
  <2> SUFFICES ASSUME NEW t \in 1 .. Len(r.tracks), r.tracks[t].next # None
               PROVE  /\ r.tracks[t].next \in 1 .. Len(r.tracks[t].events)
                      /\ r.tracks[t].ahead = r.tracks[t].events[r.tracks[t].next].time
    BY DEF CursorsOK
  <2>1. t \in 1 .. Len(s.tracks) /\ r.tracks[t].events = s.tracks[t].events
    BY <1>1
  <2>2. k(t) # n(t) /\ k(t) \in 0 .. n(t) /\ n(t) \in Nat
    BY <1>1, <1>2, <2>1
  <2>3. k(t) + 1 \in 1 .. n(t)
    BY <2>2
  <2> QED BY <1>1, <2>1, <2>2, <2>3
<1>4. SameEvents(s, r)
  BY <1>1 DEF SameEvents
<1>5. ASSUME NEW p \in Positions(s) PROVE p \in ToRead(r) <=> ~ Before(s, p, target)
  <2> DEFINE t == p[1]
             i == p[2]
  <2>1. t \in 1 .. Len(s.tracks) /\ i \in 1 .. n(t) /\ p = <<t, i>>
    BY PositionOf
  <2>2. k(t) \in 0 .. n(t) /\ n(t) \in Nat /\ (Before(s, p, target) <=> i <= k(t))
    BY <1>2, <2>1
  <2>3. p \in ToRead(r) <=> r.tracks[t].next # None /\ i >= r.tracks[t].next
    BY <1>4, SameEventsIs DEF ToRead
  <2>4. CASE k(t) = n(t)
    <3>1. r.tracks[t].next = None /\ i <= k(t)
      BY <1>1, <2>1, <2>2, <2>4
    <3> QED BY <2>2, <2>3, <3>1
  <2>5. CASE k(t) # n(t)
    <3>1. r.tracks[t].next = k(t) + 1
      BY <1>1, <2>1, <2>5
    <3> HIDE DEF i, t
    <3>2. k(t) + 1 # None /\ (i >= k(t) + 1 <=> ~ (i <= k(t)))
      <4>1. k(t) \in Nat /\ i \in Nat
        BY <2>1, <2>2
      <4> QED BY <4>1 DEF None
    <3> QED BY <2>2, <2>3, <3>1, <3>2
  <2> QED BY <2>4, <2>5
<1>6. InOrder(r)
  <2> SUFFICES ASSUME NEW p \in ToRead(r), NEW q \in Positions(r) \ ToRead(r)
               PROVE  Before(r, q, p)
    BY DEF InOrder
  <2>1. p \in Positions(s) /\ q \in Positions(s)
    BY <1>4, SameEventsIs DEF ToRead
  <2>2. ~ Before(s, p, target) /\ Before(s, q, target)
    BY <1>5, <2>1
  <2>3. s \in Songs
    BY DEF SongOK
  <2>4. p = target \/ Before(s, target, p)
    BY <2>1, <2>2, <2>3, BeforeIs
  <2>5. Before(s, q, p)
    BY <2>1, <2>2, <2>3, <2>4, BeforeIs
  <2> QED BY <1>4, <2>1, <2>5, SameEventsIs
<1> QED BY <1>3, <1>6 DEF r

LEMMA ExhaustedSeated ==
  ASSUME NEW s, SongOK(s)
  PROVE  CursorsOK(Exhausted(s)) /\ InOrder(Exhausted(s))
<1> DEFINE r == Exhausted(s)
<1>1. \A t \in 1 .. Len(r.tracks) : r.tracks[t].next = None
  BY ExhaustedOK
<1> HIDE DEF r
<1>2. CursorsOK(r)
  BY <1>1 DEF CursorsOK
<1>3. ToRead(r) = {}
  BY <1>1, PositionOf DEF ToRead
<1>4. InOrder(r)
  BY <1>3 DEF InOrder
<1> QED BY <1>2, <1>4 DEF r

LEMMA WrittenSeated ==
  ASSUME NEW s, SongOK(s)
  PROVE  CursorsOK(Written(s)) /\ InOrder(Written(s))
<1> DEFINE r == Written(s)
<1>1. \A t \in 1 .. Len(r.tracks) : r.tracks[t].next = None
  BY WrittenOK
<1> HIDE DEF r
<1>2. CursorsOK(r)
  BY <1>1 DEF CursorsOK
<1>3. ToRead(r) = {}
  BY <1>1, PositionOf DEF ToRead
<1>4. InOrder(r)
  BY <1>3 DEF InOrder
<1> QED BY <1>2, <1>4 DEF r

\* The event that is read is the first of those that were to come.
LEMMA NearestFirst ==
  ASSUME NEW s, SongOK(s), CursorsOK(s), NextTrack(s) # 0
  PROVE  LET t == NextTrack(s)
             i == s.tracks[t].next
         IN /\ t \in 1 .. Len(s.tracks) /\ i \in 1 .. Len(s.tracks[t].events)
            /\ i # None
            /\ <<t, i>> \in ToRead(s)
            /\ \A q \in ToRead(s) : q # <<t, i>> => Before(s, <<t, i>>, q)
<1> DEFINE t == NextTrack(s)
           i == s.tracks[t].next
<1>1. t \in Live(s) /\ \A u \in Live(s) \ {t} : Nearer(s, t, u)
  BY NextTrackIs
<1>2. /\ t \in 1 .. Len(s.tracks) /\ i # None /\ i \in 1 .. Len(s.tracks[t].events)
      /\ s.tracks[t].ahead = s.tracks[t].events[i].time
  BY <1>1 DEF Live, CursorsOK
<1>3. <<t, i>> \in Positions(s) /\ EventAt(s, <<t, i>>).time = s.tracks[t].ahead
  <2> HIDE DEF t, i
  <2> QED BY <1>2, PositionPair
<1>4. <<t, i>> \in ToRead(s)
  <2>1. <<t, i>>[1] = t /\ <<t, i>>[2] = i
    OBVIOUS
  <2>2. i >= i
    BY <1>2
  <2>3. s.tracks[t].next = i
    OBVIOUS
  <2> HIDE DEF t, i
  <2> QED BY <1>2, <1>3, <2>1, <2>2, <2>3 DEF ToRead
<1> HIDE DEF t
<1>5. ASSUME NEW q \in ToRead(s), q # <<t, i>> PROVE Before(s, <<t, i>>, q)
  <2> DEFINE u == q[1]
             j == s.tracks[u].next
  <2>1. /\ q \in Positions(s) /\ q = <<u, q[2]>> /\ u \in 1 .. Len(s.tracks)
        /\ q[2] \in 1 .. Len(s.tracks[u].events)
        /\ j # None /\ q[2] >= j
    BY PositionOf DEF ToRead
  <2>2. j \in 1 .. Len(s.tracks[u].events) /\ s.tracks[u].ahead = s.tracks[u].events[j].time
    BY <2>1 DEF CursorsOK
  <2>3. CASE u = t
    <3>1. j = i
      BY <2>3
    <3>2. i < q[2]
      <4>1. q[2] # i
        BY <1>5, <2>1, <2>3
      <4> HIDE DEF i, j
      <4>2. q[2] >= i /\ q[2] \in Int /\ i \in Int
        BY <2>1, <2>2, <3>1
      <4> QED BY <4>1, <4>2
    <3> HIDE DEF i
    <3>3. Before(s, <<t, i>>, <<t, q[2]>>)
      <4> DEFINE k == q[2]
      <4>1. k \in 1 .. Len(s.tracks[t].events) /\ i < k
        BY <2>1, <2>3, <3>2
      <4> HIDE DEF k
      <4>2. Before(s, <<t, i>>, <<t, k>>)
        BY <1>2, <4>1, BeforeInTrack
      <4> QED BY <4>2 DEF k
    <3> QED BY <2>1, <2>3, <3>3
  <2>4. CASE u # t
    <3>1. Nearer(s, t, u)
      BY <1>1, <2>1, <2>4 DEF Live
    <3>2. <<u, j>> \in Positions(s) /\ EventAt(s, <<u, j>>).time = s.tracks[u].ahead
      <4> HIDE DEF u, j
      <4> QED BY <2>1, <2>2, PositionPair
    <3>3. Before(s, <<t, i>>, <<u, j>>)
      <4>1. /\ <<t, i>>[1] = t /\ <<t, i>>[2] = i
            /\ <<u, j>>[1] = u /\ <<u, j>>[2] = j
        OBVIOUS
      <4> HIDE DEF u, j, i
      <4> QED BY <1>3, <3>1, <3>2, <4>1 DEF Nearer, Before
    <3>4. CASE q[2] = j
      BY <2>1, <3>3, <3>4
    <3>5. CASE q[2] # j
      <4> DEFINE k == q[2]
      <4>1. j < k
        <5> HIDE DEF j
        <5>1. k >= j /\ k \in Int /\ j \in Int
          BY <2>1, <2>2
        <5> QED BY <3>5, <5>1
      <4>2. k \in 1 .. Len(s.tracks[u].events)
        BY <2>1
      <4> HIDE DEF u, j, k, i
      <4>3. Before(s, <<u, j>>, <<u, k>>)
        BY <2>1, <2>2, <4>1, <4>2, BeforeInTrack
      <4>4. <<u, k>> \in Positions(s) /\ s \in Songs
        BY <2>1 DEF k, SongOK
      <4>5. Before(s, <<t, i>>, <<u, k>>)
        BY <1>3, <3>2, <3>3, <4>3, <4>4, BeforeIs
      <4> QED BY <2>1, <4>5 DEF k
    <3> QED BY <3>4, <3>5
  <2> QED BY <2>3, <2>4
<1> QED BY <1>2, <1>4, <1>5 DEF t

LEMMA ReadSeated ==
  ASSUME NEW s, SongOK(s), CursorsOK(s), InOrder(s), NextTrack(s) # 0
  PROVE  CursorsOK(Read(s, NextTrack(s))) /\ InOrder(Read(s, NextTrack(s)))
<1> DEFINE t == NextTrack(s)
           i == s.tracks[t].next
           r == Read(s, t)
           n == Len(s.tracks[t].events)
<1>1. /\ t \in 1 .. Len(s.tracks) /\ i \in 1 .. n /\ i # None
      /\ <<t, i>> \in ToRead(s)
      /\ \A q \in ToRead(s) : q # <<t, i>> => Before(s, <<t, i>>, q)
  BY NearestFirst
<1>2. n \in Nat
  BY <1>1, TrackIn DEF SongOK
<1>3. i <= n
  BY <1>1, <1>2
<1> HIDE DEF t
<1>4. /\ Len(r.tracks) = Len(s.tracks)
      /\ \A u \in 1 .. Len(s.tracks) : u # t => r.tracks[u] = s.tracks[u]
      /\ r.tracks[t].events = s.tracks[t].events
      /\ IF i < n
         THEN /\ r.tracks[t].next = i + 1
              /\ r.tracks[t].ahead = s.tracks[t].events[i + 1].time
         ELSE r.tracks[t].next = None
  BY <1>1, <1>3, ReadOK
<1> HIDE DEF r
<1>5. CursorsOK(r)
  <2> SUFFICES ASSUME NEW u \in 1 .. Len(s.tracks), r.tracks[u].next # None
               PROVE  /\ r.tracks[u].next \in 1 .. Len(r.tracks[u].events)
                      /\ r.tracks[u].ahead = r.tracks[u].events[r.tracks[u].next].time
    BY <1>4 DEF CursorsOK
  <2>1. CASE u # t
    BY <1>4, <2>1 DEF CursorsOK
  <2>2. CASE u = t
    <3>1. i < n
      BY <1>4, <2>2
    <3>2. i + 1 \in 1 .. n
      <4> HIDE DEF i, n
      <4> QED BY <1>1, <1>2, <3>1
    <3> QED BY <1>4, <2>2, <3>1, <3>2
  <2> QED BY <2>1, <2>2
<1>6. SameEvents(s, r)
  BY <1>4 DEF SameEvents
<1>7. ASSUME NEW p \in Positions(s)
      PROVE  p \in ToRead(r) <=> p \in ToRead(s) /\ p # <<t, i>>
  <2>1. /\ p[1] \in 1 .. Len(s.tracks) /\ p[2] \in 1 .. Len(s.tracks[p[1]].events)
        /\ p = <<p[1], p[2]>>
    BY PositionOf
  <2>2. p \in ToRead(r) <=> r.tracks[p[1]].next # None /\ p[2] >= r.tracks[p[1]].next
    BY <1>6, SameEventsIs DEF ToRead
  <2>3. p \in ToRead(s) <=> s.tracks[p[1]].next # None /\ p[2] >= s.tracks[p[1]].next
    BY DEF ToRead
  <2>4. CASE p[1] # t
    BY <1>4, <2>1, <2>2, <2>3, <2>4
  <2>5. CASE p[1] = t
    <3> DEFINE j == p[2]
    <3>1. p # <<t, i>> <=> j # i
      BY <2>1, <2>5
    <3>2. p \in ToRead(s) <=> j >= i
      BY <1>1, <2>3, <2>5
    <3>3. j \in 1 .. n
      BY <2>1, <2>5
    <3>4. CASE i < n
      <4>1. r.tracks[t].next = i + 1
        BY <1>4, <3>4
      <4>2. p \in ToRead(r) <=> i + 1 # None /\ j >= i + 1
        BY <2>2, <2>5, <4>1
      <4>3. i + 1 # None /\ (j >= i + 1 <=> j >= i /\ j # i)
        <5> HIDE DEF i, j, n
        <5> QED BY <1>1, <1>2, <3>3 DEF None
      <4> QED BY <3>1, <3>2, <4>2, <4>3
    <3>5. CASE ~ (i < n)
      <4>1. r.tracks[t].next = None
        BY <1>4, <3>5
      <4>2. p \notin ToRead(r)
        BY <2>2, <2>5, <4>1
      <4>3. j >= i => j = i
        <5> HIDE DEF i, j, n
        <5> QED BY <1>1, <1>2, <3>3, <3>5
      <4> QED BY <3>1, <3>2, <4>2, <4>3
    <3> QED BY <3>4, <3>5
  <2> QED BY <2>4, <2>5
<1>8. InOrder(r)
  <2> SUFFICES ASSUME NEW p \in ToRead(r), NEW q \in Positions(r) \ ToRead(r)
               PROVE  Before(r, q, p)
    BY DEF InOrder
  <2>1. p \in Positions(s) /\ q \in Positions(s)
    BY <1>6, SameEventsIs DEF ToRead
  <2>2. p \in ToRead(s) /\ p # <<t, i>> /\ ~ (q \in ToRead(s) /\ q # <<t, i>>)
    BY <1>7, <2>1
  <2>3. Before(s, q, p)
    <3>1. CASE q = <<t, i>>
      BY <1>1, <2>2, <3>1
    <3>2. CASE q # <<t, i>>
      BY <2>1, <2>2, <3>2 DEF InOrder
    <3> QED BY <3>1, <3>2
  <2> QED BY <1>6, <2>1, <2>3, SameEventsIs
<1> QED BY <1>5, <1>8 DEF r, t

-------------------------------------------------------------------------------
(***************************************************************************)
(* The song stays well-formed, and its cursors in order until it is edited *)
(***************************************************************************)
EditorInv ==
  /\ SongOK(song)
  /\ aborted \in BOOLEAN /\ seated \in BOOLEAN
  /\ seated => CursorsOK(song) /\ InOrder(song)

LEMMA WiderSeq ==
  ASSUME NEW S, NEW U, S \subseteq U, NEW q \in Seq(S)
  PROVE  q \in Seq(U)
<1>1. Len(q) \in Nat /\ q \in [1 .. Len(q) -> S]
  OBVIOUS
<1>2. q \in [1 .. Len(q) -> U]
  BY <1>1
<1> QED BY <1>1, <1>2

LEMMA NewSongSeated == CursorsOK(NewSong) /\ InOrder(NewSong)
<1>1. CursorsOK(NewSong)
  BY DEF CursorsOK, NewSong
<1>2. Positions(NewSong) = {}
  BY PositionOf DEF NewSong
<1> QED BY <1>1, <1>2 DEF InOrder, ToRead

LEMMA AbortOK == ASSUME Abort PROVE EditorInv'
  BY NewSongOK, NewSongSeated DEF Abort, EditorInv

LEMMA EditOK ==
  ASSUME EditorInv, NEW s, SongOK(s), Edit(s) PROVE EditorInv'
  BY DEF Edit, EditorInv

LEMMA SeatOK ==
  ASSUME EditorInv, NEW s, SongOK(s), CursorsOK(s), InOrder(s), Seat(s) PROVE EditorInv'
  BY DEF Seat, EditorInv

LEMMA NoTempo ==
  ASSUME NEW pulses
  PROVE  TempoBefore(<<>>, pulses) = 0
<1>1. CASE pulses = 0
  BY <1>1 DEF TempoBefore
<1>2. CASE pulses # 0
  <2>1. {i \in 1 .. Len(<<>>) : <<>>[i].at < pulses} = {}
    OBVIOUS
  <2> QED BY <1>2, <2>1 DEF TempoBefore, SelectLastInSeq
<1> QED BY <1>1, <1>2

\* Adding events and taking them away.
LEMMA TrackOKStep ==
  ASSUME EditorInv, NEW t \in 1 .. Len(song.tracks), OnTrack(t)
  PROVE  EditorInv'
<1>1. SongOK(song) /\ song.tempos \in Tempos
  BY SongIn DEF EditorInv, SongOK
<1>2. CASE SmfTrackDelete(t)
  <2>1. SongOK(TrackDeleted(song, t))
    BY <1>1, TrackDeletedOK
  <2> QED BY <1>2, <2>1, EditOK DEF SmfTrackDelete
<1>3. ASSUME NEW k \in Kinds, NEW p \in Pulses, SmfTrackAddEventPulses(t, k, p)
      PROVE  EditorInv'
  <2>1. p \in Nat
    BY SongAssumption DEF Pulses
  <2>2. CASE TempoBefore(song.tempos, p) = 0
    BY <1>3, <2>2, AbortOK DEF SmfTrackAddEventPulses
  <2>3. CASE TempoBefore(song.tempos, p) # 0
    <3>1. song.tempos # <<>>
      BY <2>3, NoTempo
    <3> DEFINE secs == SecondsAt(song.tempos, p)
    <3>2. secs \in Nat
      BY <1>1, <2>1, <3>1, SecondsNat
    <3>3. Edit(Added(song, t, k, p, secs))
      BY <1>3, <2>3 DEF SmfTrackAddEventPulses
    <3> HIDE DEF secs
    <3>4. SongOK(Added(song, t, k, p, secs))
      BY <1>1, <2>1, <3>1, <3>2, AddedOK
    <3> QED BY <3>3, <3>4, EditOK
  <2> QED BY <2>2, <2>3
<1>4. ASSUME NEW k \in Kinds, NEW s \in Seconds, SmfTrackAddEventSeconds(t, k, s)
      PROVE  EditorInv'
  <2>1. s \in Nat
    BY SongAssumption
  <2>2. CASE song.tempos = <<>>
    BY <1>4, <2>2, AbortOK DEF SmfTrackAddEventSeconds
  <2>3. CASE song.tempos # <<>>
    <3> DEFINE p == PulsesAt(song.tempos, s)
    <3>1. p \in Nat
      BY <1>1, <2>1, <2>3, PulsesNat
    <3>2. Edit(Added(song, t, k, p, s))
      BY <1>4, <2>3 DEF SmfTrackAddEventSeconds
    <3> HIDE DEF p
    <3>3. SongOK(Added(song, t, k, p, s))
      BY <1>1, <2>1, <2>3, <3>1, AddedOK
    <3> QED BY <3>2, <3>3, EditOK
  <2> QED BY <2>2, <2>3
<1>5. ASSUME NEW i \in 1 .. Len(song.tracks[t].events), SmfEventRemove(t, i)
      PROVE  EditorInv'
  <2>1. SongOK(Removed(song, t, i))
    BY <1>1, RemovedOK
  <2> QED BY <1>5, <2>1, EditOK DEF SmfEventRemove
<1> QED BY <1>2, <1>3, <1>4, <1>5 DEF OnTrack

LEMMA GetNextStep ==
  ASSUME EditorInv, SmfGetNextEvent
  PROVE  EditorInv'
<1> DEFINE t == NextTrack(song)
           i == song.tracks[t].next
           n == Len(song.tracks[t].events)
<1>1. SongOK(song) /\ t # 0
  BY DEF EditorInv, SmfGetNextEvent
<1>2. t \in 1 .. Len(song.tracks) /\ i # None
  BY <1>1, NextTrackIs DEF Live
<1>3. i \in Nat /\ n \in Nat
  <2>1. song.tracks[t] \in Track /\ n \in Nat
    BY <1>1, <1>2, TrackIn DEF SongOK
  <2> QED BY <1>2, <2>1 DEF Track
<1>4. CASE i > n
  BY <1>4, AbortOK DEF SmfGetNextEvent
<1>5. CASE ~ (i > n)
  <2>1. i <= n
    BY <1>3, <1>5
  <2>2. song' = Read(song, t) /\ UNCHANGED <<aborted, seated>>
    BY <1>5 DEF SmfGetNextEvent, Read
  <2>3. seated => CursorsOK(Read(song, t)) /\ InOrder(Read(song, t))
    BY <1>1, ReadSeated DEF EditorInv
  <2> HIDE DEF t
  <2>4. SongOK(Read(song, t))
    BY <1>1, <1>2, <2>1, ReadOK
  <2> QED BY <2>2, <2>3, <2>4 DEF EditorInv
<1> QED BY <1>4, <1>5

LEMMA SeekStep ==
  ASSUME EditorInv
  PROVE  /\ SmfRewind => EditorInv'
         /\ \A p \in Positions(song) : SmfSeekToEvent(p) => EditorInv'
         /\ \A n \in Pulses : SmfSeekToPulses(n) => EditorInv'
         /\ \A n \in Seconds : SmfSeekToSeconds(n) => EditorInv'
<1>1. SongOK(song)
  BY DEF EditorInv
<1>2. SmfRewind => EditorInv'
  BY <1>1, RewoundOK, RewoundSeated, SeatOK DEF SmfRewind
<1>3. ASSUME NEW p \in Positions(song), NEW sought \in Nat \cup {None},
             Seat([Skipped(song, p) EXCEPT !.sought = sought])
      PROVE  EditorInv'
  <2>1. Seat(SkippedTo(song, p, sought))
    BY <1>3 DEF SkippedTo
  <2>2. SongOK(SkippedTo(song, p, sought))
    BY <1>1, SkippedOK
  <2>3. CursorsOK(SkippedTo(song, p, sought)) /\ InOrder(SkippedTo(song, p, sought))
    BY <1>1, SkippedSeated
  <2> QED BY <2>1, <2>2, <2>3, SeatOK
<1>4. ASSUME Seat(Exhausted(song)) PROVE EditorInv'
  BY <1>1, <1>4, ExhaustedOK, ExhaustedSeated, SeatOK
<1>5. \A p \in Positions(song) : EventAt(song, p).secs \in Nat \cup {None}
  BY <1>1, EventIn DEF SongOK
<1>6. ASSUME NEW p \in Positions(song), SmfSeekToEvent(p) PROVE EditorInv'
  BY <1>3, <1>5, <1>6 DEF SmfSeekToEvent
<1>7. ASSUME NEW n \in Pulses, SmfSeekToPulses(n) PROVE EditorInv'
  <2> DEFINE ok == {p \in Positions(song) : EventAt(song, p).time >= n}
             p == FirstOf(song, ok)
  <2>1. CASE ok = {}
    BY <1>4, <1>7, <2>1 DEF SmfSeekToPulses
  <2>2. CASE ok # {}
    <3>1. Seat([Skipped(song, p) EXCEPT !.sought = EventAt(song, p).secs])
      BY <1>7, <2>2 DEF SmfSeekToPulses
    <3>2. ok \in SUBSET Positions(song)
      OBVIOUS
    <3> HIDE DEF ok
    <3>3. p \in Positions(song)
      BY <1>1, <2>2, <3>2, FirstOfIs
    <3> HIDE DEF p
    <3> QED BY <1>3, <1>5, <3>1, <3>3
  <2> QED BY <2>1, <2>2
<1>8. ASSUME NEW n \in Seconds, SmfSeekToSeconds(n) PROVE EditorInv'
  <2> DEFINE ok == {p \in Positions(song) : EventAt(song, p).secs >= n}
             p == FirstOf(song, ok)
  <2>1. CASE ok = {}
    BY <1>4, <1>8, <2>1 DEF SmfSeekToSeconds
  <2>2. CASE ok # {}
    <3>1. Seat([Skipped(song, p) EXCEPT !.sought = n])
      BY <1>8, <2>2 DEF SmfSeekToSeconds
    <3>2. ok \in SUBSET Positions(song)
      OBVIOUS
    <3> HIDE DEF ok
    <3>3. p \in Positions(song)
      BY <1>1, <2>2, <3>2, FirstOfIs
    <3>4. n \in Nat \cup {None}
      BY SongAssumption
    <3> HIDE DEF p
    <3> QED BY <1>3, <3>1, <3>3, <3>4
  <2> QED BY <2>1, <2>2
<1> QED BY <1>2, <1>6, <1>7, <1>8

LEMMA SaveStep ==
  ASSUME EditorInv, SmfSave
  PROVE  EditorInv'
<1>1. SongOK(song)
  BY DEF EditorInv
<1>2. CASE Savable(song)
  <2> DEFINE r == Completed(song)
  <2>1. Seat(Written(r))
    BY <1>2 DEF SmfSave, Savable
  <2>2. SongOK(r)
    BY <1>1, <1>2, CompletedOK
  <2> HIDE DEF r
  <2>3. SongOK(Written(r)) /\ CursorsOK(Written(r)) /\ InOrder(Written(r))
    BY <2>2, WrittenOK, WrittenSeated
  <2> QED BY <2>1, <2>3, SeatOK
<1>3. CASE ~ Savable(song)
  BY <1>3, AbortOK DEF SmfSave, Savable
<1> QED BY <1>2, <1>3

LEMMA EditorInvHolds == Spec => []EditorInv
<1>1. Init => EditorInv
  BY NewSongOK, NewSongSeated DEF Init, EditorInv
<1>2. EditorInv /\ [Next]_vars => EditorInv'
  <2> SUFFICES ASSUME EditorInv, [Next]_vars PROVE EditorInv'
    OBVIOUS
  <2>1. CASE SmfAddTrack
    <3>1. SongOK(WithNewTrack(song))
      BY NewTrackOK DEF EditorInv
    <3> QED BY <2>1, <3>1, EditOK DEF SmfAddTrack
  <2>2. CASE \E t \in 1 .. Len(song.tracks) : OnTrack(t)
    BY <2>2, TrackOKStep
  <2>3. CASE SmfGetNextEvent
    BY <2>3, GetNextStep
  <2>4. CASE SmfRewind
    BY <2>4, SeekStep
  <2>5. CASE \E p \in Positions(song) : SmfSeekToEvent(p)
    BY <2>5, SeekStep
  <2>6. CASE \E n \in Pulses : SmfSeekToPulses(n)
    BY <2>6, SeekStep
  <2>7. CASE \E s \in Seconds : SmfSeekToSeconds(s) \/ SmfSeekAvoided(s)
    <3>1. PICK s \in Seconds : SmfSeekToSeconds(s) \/ SmfSeekAvoided(s)
      BY <2>7
    <3>2. CASE SmfSeekToSeconds(s)
      BY <3>2, SeekStep
    <3>3. CASE SmfSeekAvoided(s)
      BY <3>3 DEF SmfSeekAvoided, vars, EditorInv
    <3> QED BY <3>1, <3>2, <3>3
  <2>8. CASE SmfSave
    BY <2>8, SaveStep
  <2>9. CASE Restart
    BY <2>9 DEF Restart, EditorInv
  <2>10. CASE UNCHANGED vars
    BY <2>10 DEF vars, EditorInv
  <2> QED BY <2>1, <2>2, <2>3, <2>4, <2>5, <2>6, <2>7, <2>8, <2>9, <2>10 DEF Next
<1> QED BY <1>1, <1>2, PTL DEF Spec

\* Every field of the song has a value of its type, however it was edited,
\* sought, saved or read (smf.c, smf_tempo.c).
THEOREM SongTypes == Spec => []TypeOK
<1>1. EditorInv => TypeOK
  <2> SUFFICES ASSUME EditorInv PROVE TypeOK
    OBVIOUS
  <2>1. song \in Songs
    BY DEF EditorInv, SongOK
  <2>2. \A t \in 1 .. Len(song.tracks) :
          /\ song.tracks[t].number \in Nat
          /\ song.tracks[t].events \in Seq(Events)
          /\ song.tracks[t].next \in Nat \cup {None}
          /\ song.tracks[t].ahead \in Nat
    BY <2>1, TrackIn DEF Track
  <2>3. song.tempos \in Seq([at : Nat, secs : Nat, rate : Nat])
    <3>1. song.tempos \in Seq(Tempo)
      BY <2>1, SongIn DEF Tempos
    <3>2. Tempo \subseteq [at : Nat, secs : Nat, rate : Nat]
      BY DEF Tempo
    <3> QED BY <3>1, <3>2, WiderSeq, ZenonT(30)
  <2> QED BY <2>1, <2>2, <2>3, SongIn DEF EditorInv, TypeOK
<1> QED BY <1>1, EditorInvHolds, PTL

\* smf.h: tracks and events "are numbered consecutively, starting from one",
\* and every event is as far from the one before it as it says
\* (smf_track_add_event, smf_event_remove_from_track, smf_track_remove_from_smf).
THEOREM SongNumbered == Spec => []Numbered
<1>1. EditorInv => Numbered
  BY DEF EditorInv, SongOK, TrackOK, EventsOK, TimeBefore, Numbered
<1> QED BY <1>1, EditorInvHolds, PTL

\* After a seek or a save and until the next edit, smf_get_next_event reads in
\* time order over all tracks and omits nothing.
THEOREM SongNothingSkipped == Spec => []NothingSkipped
<1>1. ToRead(song) = Unread
  BY DEF ToRead, Unread
<1>2. EditorInv => NothingSkipped
  BY <1>1 DEF EditorInv, InOrder, NothingSkipped
<1> QED BY <1>1, <1>2, EditorInvHolds, PTL

-------------------------------------------------------------------------------
(***************************************************************************)
(* The tempo changes of a song and the seconds they make due.              *)
(***************************************************************************)
IsChange(s, p) == EventAt(s, p).kind \in Rates

Change(s, p) == <<EventAt(s, p).time, EventAt(s, p).kind>>

Changes(s) == {Change(s, p) : p \in {q \in Positions(s) : IsChange(s, q)}}

\* No two changes are at one pulse.
Single(s) ==
  \A p, q \in Positions(s) :
    IsChange(s, p) /\ IsChange(s, q) /\ EventAt(s, p).time = EventAt(s, q).time => p = q

Functional(C) == \A c, d \in C : c[1] = d[1] => c = d

\* The rate that the changes C put in force after a pulse.
IsRate(C, n, r) ==
  \/ r = DefaultRate /\ \A c \in C : ~ (c[1] <= n)
  \/ \E c \in C : c[1] <= n /\ c[2] = r /\ \A d \in C : d[1] <= n => d[1] <= c[1]

LEMMA ChangeIs ==
  ASSUME NEW s \in Songs
  PROVE  /\ \A c \in Changes(s) : c[1] \in Nat /\ c[2] \in Rates /\ c[2] \in Nat
         /\ \A p \in Positions(s) : IsChange(s, p) => Change(s, p) \in Changes(s)
         /\ \A c \in Changes(s) : \E p \in Positions(s) : IsChange(s, p) /\ c = Change(s, p)
<1>1. \A p \in Positions(s) : IsChange(s, p) => Change(s, p) \in Changes(s)
  BY DEF Changes
<1>2. \A c \in Changes(s) : \E p \in Positions(s) : IsChange(s, p) /\ c = Change(s, p)
  BY DEF Changes
<1>3. ASSUME NEW c \in Changes(s) PROVE c[1] \in Nat /\ c[2] \in Rates /\ c[2] \in Nat
  <2>1. PICK p \in Positions(s) : IsChange(s, p) /\ c = Change(s, p)
    BY <1>2
  <2>2. c[1] = EventAt(s, p).time /\ c[2] = EventAt(s, p).kind
    BY <2>1 DEF Change
  <2>3. EventAt(s, p).time \in Nat
    BY EventIn
  <2> QED BY <2>1, <2>2, <2>3, SongAssumption DEF IsChange
<1> QED BY <1>1, <1>2, <1>3

LEMMA SingleFunctional ==
  ASSUME NEW s \in Songs, Single(s)
  PROVE  Functional(Changes(s))
<1> SUFFICES ASSUME NEW c \in Changes(s), NEW d \in Changes(s), c[1] = d[1]
             PROVE  c = d
  BY DEF Functional
<1>1. PICK p \in Positions(s) : IsChange(s, p) /\ c = Change(s, p)
  BY ChangeIs
<1>2. PICK q \in Positions(s) : IsChange(s, q) /\ d = Change(s, q)
  BY ChangeIs
<1>3. EventAt(s, p).time = EventAt(s, q).time
  BY <1>1, <1>2 DEF Change
<1>4. p = q
  BY <1>1, <1>2, <1>3 DEF Single
<1> QED BY <1>1, <1>2, <1>4

LEMMA BeforeTimes ==
  ASSUME NEW s \in Songs, NEW p \in Positions(s), NEW q \in Positions(s)
  PROVE  /\ Before(s, p, q) => EventAt(s, p).time <= EventAt(s, q).time
         /\ EventAt(s, p).time < EventAt(s, q).time => Before(s, p, q)
<1>1. EventAt(s, p).time \in Nat /\ EventAt(s, q).time \in Nat
  BY EventIn
<1> QED BY <1>1 DEF Before

LEMMA RateAfterIs ==
  ASSUME NEW s \in Songs, NEW n \in Nat
  PROVE  IsRate(Changes(s), n, RateAfter(s, n)) /\ RateAfter(s, n) \in Nat
<1> DEFINE S == {p \in Positions(s) : EventAt(s, p).kind \in Rates /\ EventAt(s, p).time <= n}
           last == CHOOSE p \in S : \A q \in S \ {p} : Before(s, q, p)
<1>1. RateAfter(s, n) = IF S = {} THEN DefaultRate ELSE EventAt(s, last).kind
  BY DEF RateAfter
<1>2. S \in SUBSET Positions(s)
  OBVIOUS
<1>3. \A p \in Positions(s) : IsChange(s, p) /\ EventAt(s, p).time <= n => p \in S
  BY DEF IsChange
<1>4. \A p \in S : IsChange(s, p) /\ EventAt(s, p).time <= n
  BY DEF IsChange
<1>5. CASE S = {}
  <2>1. RateAfter(s, n) = DefaultRate
    BY <1>1, <1>5
  <2>2. ASSUME NEW c \in Changes(s), c[1] <= n PROVE FALSE
    <3>1. PICK p \in Positions(s) : IsChange(s, p) /\ c = Change(s, p)
      BY ChangeIs
    <3>2. EventAt(s, p).time = c[1]
      BY <3>1 DEF Change
    <3> HIDE DEF S
    <3> QED BY <1>3, <1>5, <2>2, <3>1, <3>2
  <2> QED BY <2>1, <2>2, SongAssumption DEF IsRate
<1>6. CASE S # {}
  <2> HIDE DEF S
  <2>1. IsFiniteSet(S)
    BY <1>2, PositionsFinite, FS_Subset
  <2>2. \E p \in S : \A q \in S \ {p} : <<q, p>> \in Order(s)
    BY <1>2, <1>6, <2>1, OrderStrict, LastOfOrder
  <2>3. \E p \in S : \A q \in S \ {p} : Before(s, q, p)
    BY <1>2, <2>2, OrderIs
  <2>4. last \in S /\ \A q \in S \ {last} : Before(s, q, last)
    BY <2>3
  <2> HIDE DEF last
  <2>5. last \in Positions(s) /\ IsChange(s, last) /\ EventAt(s, last).time <= n
    BY <1>2, <1>4, <2>4
  <2> DEFINE c == Change(s, last)
  <2>6. c \in Changes(s) /\ c[1] = EventAt(s, last).time /\ c[2] = EventAt(s, last).kind
    BY <2>5, ChangeIs DEF Change
  <2>7. ASSUME NEW d \in Changes(s), d[1] <= n PROVE d[1] <= c[1]
    <3>1. PICK p \in Positions(s) : IsChange(s, p) /\ d = Change(s, p)
      BY ChangeIs
    <3>2. d[1] = EventAt(s, p).time
      BY <3>1 DEF Change
    <3>3. p \in S
      BY <1>3, <2>7, <3>1, <3>2
    <3>4. p = last \/ Before(s, p, last)
      BY <2>4, <3>3
    <3>5. EventAt(s, p).time <= EventAt(s, last).time
      <4>1. EventAt(s, p).time \in Nat
        BY EventIn
      <4> QED BY <2>5, <3>4, <4>1, BeforeTimes
    <3> QED BY <2>6, <3>2, <3>5
  <2>8. RateAfter(s, n) = c[2] /\ c[1] <= n /\ c[2] \in Nat
    BY <1>1, <1>6, <2>5, <2>6, ChangeIs
  <2> HIDE DEF c
  <2> QED BY <2>6, <2>7, <2>8 DEF IsRate
<1> QED BY <1>5, <1>6

\* Changes that agree up to a pulse put the same rate in force.
LEMMA RateUnique ==
  ASSUME NEW C, NEW D, Functional(C), NEW n \in Nat, NEW a, NEW b,
         \A c \in C : c[1] \in Nat, \A d \in D : d[1] \in Nat,
         \A c : c[1] <= n => (c \in C <=> c \in D),
         IsRate(C, n, a), IsRate(D, n, b)
  PROVE  a = b
<1>1. CASE a = DefaultRate /\ \A c \in C : ~ (c[1] <= n)
  BY <1>1 DEF IsRate
<1>2. CASE \E c \in C : c[1] <= n /\ c[2] = a /\ \A d \in C : d[1] <= n => d[1] <= c[1]
  <2>1. PICK c \in C : c[1] <= n /\ c[2] = a /\ \A d \in C : d[1] <= n => d[1] <= c[1]
    BY <1>2
  <2>2. c \in D
    BY <2>1
  <2>3. PICK d \in D : d[1] <= n /\ d[2] = b /\ \A e \in D : e[1] <= n => e[1] <= d[1]
    BY <2>1, <2>2 DEF IsRate
  <2>4. d \in C
    BY <2>3
  <2>5. c[1] <= d[1] /\ d[1] <= c[1] /\ c[1] \in Nat /\ d[1] \in Nat
    BY <2>1, <2>2, <2>3, <2>4
  <2>6. c[1] = d[1]
    BY <2>5
  <2> QED BY <2>1, <2>3, <2>4, <2>6 DEF Functional
<1> QED BY <1>1, <1>2 DEF IsRate

\* due[k] is what is due at pulse k.
IsDue(due, s, n) ==
  due = [k \in 0 .. n |-> IF k = 0 THEN 0 ELSE due[k - 1] + RateAfter(s, k - 1)]

LEMMA DueDef ==
  ASSUME NEW s, NEW n
  PROVE  Due(s, n) = (CHOOSE due : IsDue(due, s, n))[n]
  BY DEF Due, IsDue

LEMMA DueExists ==
  ASSUME NEW s, NEW n \in Nat
  PROVE  \E due : IsDue(due, s, n)
<1> DEFINE T == {m \in Nat : \E due : IsDue(due, s, m)}
           step(x, i) == x + RateAfter(s, i - 1)
<1>1. 0 \in T
  <2>1. IsDue([i \in 0 .. 0 |-> 0], s, 0)
    BY DEF IsDue
  <2> QED BY <2>1
<1>2. ASSUME NEW m \in Nat, m \in T PROVE m + 1 \in T
  <2>1. PICK due : IsDue(due, s, m)
    BY <1>2
  <2>2. due = [i \in 0 .. m |-> IF i = 0 THEN 0 ELSE step(due[i - 1], i)]
    BY <2>1 DEF IsDue
  <2> DEFINE r == [i \in 0 .. m + 1 |-> IF i = m + 1 THEN step(due[m], m + 1) ELSE due[i]]
  <2> HIDE DEF step
  <2>3. ASSUME NEW i \in 0 .. m + 1
        PROVE  r[i] = IF i = 0 THEN 0 ELSE step(r[i - 1], i)
    <3>1. CASE i = 0
      BY <2>2, <3>1
    <3>2. CASE i = m + 1
      BY <3>2
    <3>3. CASE i \in 1 .. m
      BY <2>2, <3>3
    <3> QED BY <3>1, <3>2, <3>3
  <2>4. IsDue(r, s, m + 1)
    <3>1. r = [i \in 0 .. m + 1 |-> IF i = 0 THEN 0 ELSE step(r[i - 1], i)]
      BY <2>3
    <3> HIDE DEF r
    <3> QED BY <3>1 DEF IsDue, step
  <2> HIDE DEF r
  <2> QED BY <2>4
<1>3. Nat \subseteq T
  <2> HIDE DEF T
  <2> QED BY <1>1, <1>2, Induction
<1> QED BY <1>3

LEMMA DueNext ==
  ASSUME NEW s, NEW due, NEW n \in Nat, IsDue(due, s, n)
  PROVE  /\ due[0] = 0
         /\ \A i \in Nat : i + 1 <= n => due[i + 1] = due[i] + RateAfter(s, i)
<1> DEFINE step(x, i) == x + RateAfter(s, i - 1)
<1>1. due = [i \in 0 .. n |-> IF i = 0 THEN 0 ELSE step(due[i - 1], i)]
  BY DEF IsDue
<1> HIDE DEF step
<1>2. due[0] = 0
  BY <1>1
<1>3. ASSUME NEW i \in Nat, i + 1 <= n PROVE due[i + 1] = step(due[i], i + 1)
  <2>1. i + 1 \in 0 .. n /\ (i + 1) - 1 = i /\ i + 1 # 0
    BY <1>3
  <2> QED BY <1>1, <2>1
<1>4. \A i \in Nat : (i + 1) - 1 = i
  OBVIOUS
<1> QED BY <1>2, <1>3, <1>4 DEF step

LEMMA DueUnique ==
  ASSUME NEW s, NEW a, NEW b, NEW m \in Nat, NEW n \in Nat,
         IsDue(a, s, m), IsDue(b, s, n), NEW k \in Nat, k <= m, k <= n
  PROVE  a[k] = b[k]
<1> DEFINE T == {i \in Nat : i <= m /\ i <= n => a[i] = b[i]}
<1>1. 0 \in T
  BY DueNext
<1>2. ASSUME NEW i \in Nat, i \in T PROVE i + 1 \in T
  <2>1. SUFFICES ASSUME i + 1 <= m, i + 1 <= n PROVE a[i + 1] = b[i + 1]
    OBVIOUS
  <2>2. a[i + 1] = a[i] + RateAfter(s, i) /\ b[i + 1] = b[i] + RateAfter(s, i)
    BY <2>1, DueNext
  <2>3. a[i] = b[i]
    BY <1>2, <2>1
  <2> QED BY <2>2, <2>3
<1>3. Nat \subseteq T
  <2> HIDE DEF T
  <2> QED BY <1>1, <1>2, Induction
<1> QED BY <1>3

LEMMA DueChosen ==
  ASSUME NEW s, NEW n \in Nat
  PROVE  \E due : IsDue(due, s, n) /\ Due(s, n) = due[n]
<1> DEFINE r == CHOOSE due : IsDue(due, s, n)
<1>1. IsDue(r, s, n)
  BY DueExists, Zenon
<1>2. Due(s, n) = r[n]
  BY DueDef
<1> QED BY <1>1, <1>2, Zenon

LEMMA DueIs ==
  ASSUME NEW s, NEW n \in Nat
  PROVE  Due(s, 0) = 0 /\ Due(s, n + 1) = Due(s, n) + RateAfter(s, n)
<1>1. Due(s, 0) = 0
  <2>1. PICK a : IsDue(a, s, 0) /\ Due(s, 0) = a[0]
    BY DueChosen
  <2> QED BY <2>1, DueNext
<1>2. Due(s, n + 1) = Due(s, n) + RateAfter(s, n)
  <2>1. PICK a : IsDue(a, s, n + 1) /\ Due(s, n + 1) = a[n + 1]
    BY DueChosen
  <2>2. PICK b : IsDue(b, s, n) /\ Due(s, n) = b[n]
    BY DueChosen
  <2>3. a[n + 1] = a[n] + RateAfter(s, n)
    BY <2>1, DueNext
  <2>4. a[n] = b[n]
    <3>1. n + 1 \in Nat /\ n <= n + 1 /\ n <= n
      OBVIOUS
    <3> QED BY <2>1, <2>2, <3>1, DueUnique
  <2> QED BY <2>1, <2>2, <2>3, <2>4
<1> QED BY <1>1, <1>2

LEMMA DueNat ==
  ASSUME NEW s \in Songs, NEW n \in Nat
  PROVE  Due(s, n) \in Nat
<1> DEFINE T == {i \in Nat : Due(s, i) \in Nat}
<1>1. 0 \in T
  BY DueIs
<1>2. ASSUME NEW i \in Nat, i \in T PROVE i + 1 \in T
  <2>1. Due(s, i + 1) = Due(s, i) + RateAfter(s, i) /\ RateAfter(s, i) \in Nat
    BY DueIs, RateAfterIs
  <2> QED BY <1>2, <2>1
<1>3. Nat \subseteq T
  <2> HIDE DEF T
  <2> QED BY <1>1, <1>2, Induction
<1> QED BY <1>3

\* Songs whose changes agree before a pulse have the same due up to it.
LEMMA DueSame ==
  ASSUME NEW r \in Songs, NEW s \in Songs, Single(r), NEW n \in Nat,
         \A c : c[1] < n => (c \in Changes(r) <=> c \in Changes(s)),
         NEW k \in Nat, k <= n
  PROVE  Due(r, k) = Due(s, k)
<1> DEFINE T == {i \in Nat : i <= n => Due(r, i) = Due(s, i)}
<1>1. 0 \in T
  BY DueIs
<1>2. ASSUME NEW i \in Nat, i \in T PROVE i + 1 \in T
  <2>1. SUFFICES ASSUME i + 1 <= n PROVE Due(r, i + 1) = Due(s, i + 1)
    OBVIOUS
  <2>2. Due(r, i) = Due(s, i)
    BY <1>2, <2>1
  <2>3. RateAfter(r, i) = RateAfter(s, i)
    <3>1. \A c \in Changes(r) : c[1] \in Nat
      BY ChangeIs
    <3>2. \A c \in Changes(s) : c[1] \in Nat
      BY ChangeIs
    <3>3. IsRate(Changes(r), i, RateAfter(r, i)) /\ IsRate(Changes(s), i, RateAfter(s, i))
      BY RateAfterIs
    <3>4. Functional(Changes(r))
      BY SingleFunctional
    <3>5. ASSUME NEW c, c[1] <= i PROVE c \in Changes(r) <=> c \in Changes(s)
      <4>1. c \in Changes(r) => c[1] < n
        BY <2>1, <3>1, <3>5
      <4>2. c \in Changes(s) => c[1] < n
        BY <2>1, <3>2, <3>5
      <4> QED BY <4>1, <4>2
    <3> DEFINE a == RateAfter(r, i)
               b == RateAfter(s, i)
               C == Changes(r)
               D == Changes(s)
    <3> HIDE DEF a, b, C, D
    <3>6. a = b
      BY <3>1, <3>2, <3>3, <3>4, <3>5, RateUnique DEF a, b, C, D
    <3> QED BY <3>6 DEF a, b
  <2> QED BY <2>2, <2>3, DueIs
<1>3. Nat \subseteq T
  <2> HIDE DEF T
  <2> QED BY <1>1, <1>2, Induction
<1> QED BY <1>3

-------------------------------------------------------------------------------
(***************************************************************************)
(* Tempo maps that say what is due.                                        *)
(***************************************************************************)
Chained(m) ==
  \A k \in 1 .. Len(m) - 1 :
    /\ m[k].at < m[k + 1].at
    /\ m[k + 1].secs = m[k].secs + (m[k + 1].at - m[k].at) * m[k].rate

\* The tempo map of the changes C.
MapFor(m, C) ==
  /\ Chained(m)
  /\ \A c \in C : \E k \in 1 .. Len(m) : m[k].at = c[1] /\ m[k].rate = c[2]
  /\ \A k \in 1 .. Len(m) : \/ <<m[k].at, m[k].rate>> \in C
                            \/ k = 1 /\ m[1].rate = DefaultRate

LEMMA LenTempos ==
  ASSUME NEW m \in Tempos
  PROVE  /\ m \in Seq(Tempo) /\ Len(m) \in Nat
         /\ m # <<>> => Len(m) >= 1 /\ m[1].at = 0 /\ m[1].secs = 0
  BY DEF Tempos

LEMMA Increasing ==
  ASSUME NEW m \in Tempos, Chained(m),
         NEW i \in 1 .. Len(m), NEW j \in 1 .. Len(m), i < j
  PROVE  m[i].at < m[j].at
<1> DEFINE at(k) == m[k].at
           n == Len(m)
           T == {d \in Nat : (i + 1) + d <= n => at(i) < at((i + 1) + d)}
<1>1. \A k \in 1 .. n : at(k) \in Nat
  BY TempoAt
<1>2. \A k \in 1 .. n - 1 : at(k) < at(k + 1)
  BY DEF Chained
<1>3. n \in Nat /\ i \in 1 .. n /\ j \in 1 .. n
  BY LenTempos
<1> HIDE DEF at, n
<1>4. 0 \in T
  <2>1. SUFFICES ASSUME i + 1 <= n PROVE at(i) < at((i + 1) + 0)
    OBVIOUS
  <2>2. i \in 1 .. n - 1 /\ (i + 1) + 0 = i + 1
    BY <1>3, <2>1
  <2> QED BY <1>2, <2>2
<1>5. ASSUME NEW d \in Nat, d \in T PROVE d + 1 \in T
  <2>1. SUFFICES ASSUME (i + 1) + (d + 1) <= n PROVE at(i) < at((i + 1) + (d + 1))
    OBVIOUS
  <2> DEFINE k == (i + 1) + d
  <2>2. k \in 1 .. n /\ k \in 1 .. n - 1 /\ k + 1 \in 1 .. n /\ (i + 1) + (d + 1) = k + 1
    BY <1>3, <2>1
  <2>3. at(i) < at(k)
    BY <1>5, <2>2
  <2> HIDE DEF k
  <2>4. at(k) < at(k + 1)
    BY <1>2, <2>2
  <2>5. at(i) \in Nat /\ at(k) \in Nat /\ at(k + 1) \in Nat
    BY <1>1, <1>3, <2>2
  <2> QED BY <2>2, <2>3, <2>4, <2>5
<1>6. Nat \subseteq T
  <2> HIDE DEF T
  <2> QED BY <1>4, <1>5, Induction
<1>7. j - (i + 1) \in Nat /\ (i + 1) + (j - (i + 1)) = j /\ j <= n
  BY <1>3
<1>8. at(i) < at(j)
  BY <1>6, <1>7
<1> QED BY <1>8 DEF at

\* A stretch between two tempos, its ends included.
LEMMA SecondsFrom ==
  ASSUME NEW m \in Tempos, Chained(m), NEW k \in 1 .. Len(m), NEW p \in Nat,
         m[k].at <= p, k + 1 \in 1 .. Len(m) => p <= m[k + 1].at
  PROVE  SecondsAt(m, p) = m[k].secs + (p - m[k].at) * m[k].rate
<1> DEFINE n == Len(m)
           b == TempoBefore(m, p)
<1>1. n \in Nat /\ m # <<>> /\ m[1].at = 0 /\ m[1].secs = 0 /\ k \in 1 .. n
  BY LenTempos
<1>2. \A i \in 1 .. n : m[i].at \in Nat /\ m[i].secs \in Nat /\ m[i].rate \in Nat
  BY TempoAt
<1>3. /\ b \in 1 .. n
      /\ m[b].at <= p
      /\ p = 0 => b = 1
      /\ p > 0 => /\ m[b].at < p
                  /\ \A i \in 1 .. n : m[i].at < p => i <= b
  BY <1>1, TempoBeforeIs
<1>4. \A i, j \in 1 .. n : i < j => m[i].at < m[j].at
  BY Increasing
<1>5. SecondsAt(m, p) = m[b].secs + (p - m[b].at) * m[b].rate
  BY DEF SecondsAt
<1>6. k + 1 \in 1 .. n => p <= m[k + 1].at
  OBVIOUS
<1>7. \A i \in 1 .. n - 1 :
        m[i + 1].secs = m[i].secs + (m[i + 1].at - m[i].at) * m[i].rate
  BY DEF Chained
<1> HIDE DEF n, b
<1>8. CASE b = k
  BY <1>5, <1>8
<1>9. CASE b # k
  <2>1. m[k].at = p
    <3>1. SUFFICES ASSUME m[k].at < p PROVE FALSE
      BY <1>1, <1>2
    <3>2. p > 0 /\ k <= b
      BY <1>1, <1>2, <1>3, <3>1
    <3>3. k < b /\ k + 1 \in 1 .. n
      BY <1>1, <1>3, <1>9, <3>2
    <3>4. m[k + 1].at <= m[b].at
      <4>1. CASE k + 1 = b
        <5>1. m[b].at \in Nat
          BY <1>2, <1>3
        <5> QED BY <4>1, <5>1
      <4>2. CASE k + 1 # b
        <5>1. k + 1 < b
          BY <1>1, <1>3, <3>3, <4>2
        <5>2. m[k + 1].at < m[b].at /\ m[k + 1].at \in Nat /\ m[b].at \in Nat
          BY <1>2, <1>3, <1>4, <3>3, <5>1
        <5> QED BY <5>2
      <4> QED BY <4>1, <4>2
    <3>5. m[b].at < p /\ p <= m[k + 1].at /\ m[k + 1].at \in Nat /\ m[b].at \in Nat
      BY <1>2, <1>3, <1>6, <3>2, <3>3
    <3> QED BY <3>4, <3>5
  <2>2. b < k
    <3>1. SUFFICES ASSUME k < b PROVE FALSE
      BY <1>1, <1>3, <1>9
    <3>2. m[k].at < m[b].at /\ m[b].at <= p /\ m[k].at \in Nat /\ m[b].at \in Nat
      BY <1>1, <1>2, <1>3, <1>4, <3>1
    <3> QED BY <2>1, <3>2
  <2>3. p > 0
    <3>1. m[b].at < m[k].at /\ m[b].at \in Nat
      BY <1>1, <1>2, <1>3, <1>4, <2>2
    <3> QED BY <2>1, <3>1
  <2>4. b + 1 = k
    <3>1. SUFFICES ASSUME b + 1 # k PROVE FALSE
      OBVIOUS
    <3>2. b + 1 < k /\ b + 1 \in 1 .. n /\ ~ (b + 1 <= b)
      BY <1>1, <1>3, <2>2, <3>1
    <3>3. m[b + 1].at < p
      BY <1>1, <1>4, <2>1, <3>2
    <3> QED BY <1>3, <2>3, <3>2, <3>3
  <2>5. b \in 1 .. n - 1
    BY <1>1, <1>3, <2>2
  <2>6. m[k].secs = m[b].secs + (p - m[b].at) * m[b].rate
    BY <1>7, <2>1, <2>4, <2>5
  <2>7. (p - m[k].at) * m[k].rate = 0
    <3>1. m[k].rate \in Nat /\ p - m[k].at = 0
      BY <1>1, <1>2, <2>1
    <3> QED BY <3>1
  <2>8. m[k].secs \in Nat
    BY <1>1, <1>2
  <2> QED BY <1>5, <2>6, <2>7, <2>8
<1> QED BY <1>8, <1>9

LEMMA SecondsNext ==
  ASSUME NEW m \in Tempos, m # <<>>, Chained(m), NEW p \in Nat
  PROVE  /\ SecondsAt(m, 0) = 0
         /\ SecondsAt(m, p + 1) = SecondsAt(m, p) + m[TempoBefore(m, p + 1)].rate
<1> DEFINE n == Len(m)
           k == TempoBefore(m, p + 1)
<1>1. n \in Nat /\ n >= 1 /\ m[1].at = 0 /\ m[1].secs = 0
  BY LenTempos
<1>2. \A i \in 1 .. n : m[i].at \in Nat /\ m[i].secs \in Nat /\ m[i].rate \in Nat
  BY TempoAt
<1>3. SecondsAt(m, 0) = 0
  <2>1. TempoBefore(m, 0) = 1
    BY TempoBeforeIs
  <2>2. SecondsAt(m, 0) = 0 + (0 - 0) * m[1].rate
    BY <1>1, <2>1 DEF SecondsAt
  <2>3. m[1].rate \in Nat
    BY <1>1, <1>2
  <2> QED BY <2>2, <2>3
<1>4. /\ k \in 1 .. n /\ m[k].at < p + 1
      /\ \A i \in 1 .. n : m[i].at < p + 1 => i <= k
  <2>1. p + 1 \in Nat /\ p + 1 > 0
    OBVIOUS
  <2> QED BY <2>1, TempoBeforeIs
<1>5. SecondsAt(m, p + 1) = m[k].secs + ((p + 1) - m[k].at) * m[k].rate
  BY DEF SecondsAt
<1> HIDE DEF k
<1>6. m[k].at \in Nat /\ m[k].secs \in Nat /\ m[k].rate \in Nat
  BY <1>2, <1>4
<1>7. m[k].at <= p
  BY <1>4, <1>6
<1>8. k + 1 \in 1 .. n => p <= m[k + 1].at
  <2>1. SUFFICES ASSUME k + 1 \in 1 .. n PROVE p <= m[k + 1].at
    OBVIOUS
  <2>2. ~ (m[k + 1].at < p + 1)
    <3>1. ~ (k + 1 <= k)
      BY <1>4
    <3> QED BY <1>4, <2>1, <3>1
  <2>3. m[k + 1].at \in Nat
    BY <1>2, <2>1
  <2> QED BY <2>2, <2>3
<1>9. SecondsAt(m, p) = m[k].secs + (p - m[k].at) * m[k].rate
  BY <1>4, <1>7, <1>8, SecondsFrom
<1> DEFINE a == p - m[k].at
           r == m[k].rate
<1>10. a \in Int /\ (p + 1) - m[k].at = a + 1
  BY <1>6
<1>11. (a + 1) * r = a * r + r /\ a * r \in Int
  <2>1. r \in Int
    BY <1>6
  <2> HIDE DEF a, r
  <2> QED BY <1>10, <2>1, ProductNext
<1>12. SecondsAt(m, p + 1) = m[k].secs + (a * r + r) /\ SecondsAt(m, p) = m[k].secs + a * r
  BY <1>5, <1>9, <1>10, <1>11
<1> HIDE DEF a
<1>13. SecondsAt(m, p + 1) = SecondsAt(m, p) + r
  BY <1>6, <1>11, <1>12
<1> QED BY <1>3, <1>13 DEF k

LEMMA MapRate ==
  ASSUME NEW m \in Tempos, m # <<>>, NEW C, MapFor(m, C), NEW p \in Nat,
         \A c \in C : c = <<c[1], c[2]>> /\ c[1] \in Nat
  PROVE  IsRate(C, p, m[TempoBefore(m, p + 1)].rate)
<1> DEFINE n == Len(m)
           k == TempoBefore(m, p + 1)
<1>1. \A i \in 1 .. n : m[i].at \in Nat
  BY TempoAt
<1>2. /\ k \in 1 .. n /\ m[k].at < p + 1
      /\ \A i \in 1 .. n : m[i].at < p + 1 => i <= k
  <2>1. p + 1 \in Nat /\ p + 1 > 0
    OBVIOUS
  <2> QED BY <2>1, TempoBeforeIs
<1>3. \A i, j \in 1 .. n : i < j => m[i].at < m[j].at
  BY Increasing DEF MapFor
<1>4. /\ \A c \in C : \E j \in 1 .. n : m[j].at = c[1] /\ m[j].rate = c[2]
      /\ <<m[k].at, m[k].rate>> \in C \/ (k = 1 /\ m[1].rate = DefaultRate)
  BY <1>2 DEF MapFor
<1> HIDE DEF k
<1>5. ASSUME NEW c \in C, c[1] <= p
      PROVE  \E j \in 1 .. k : m[j].at = c[1] /\ m[j].rate = c[2]
  <2>1. PICK j \in 1 .. n : m[j].at = c[1] /\ m[j].rate = c[2]
    BY <1>4
  <2>2. m[j].at < p + 1
    BY <1>5, <2>1
  <2>3. j <= k
    BY <1>2, <2>1, <2>2
  <2>4. j \in 1 .. k
    BY <1>2, <2>1, <2>3
  <2> QED BY <2>1, <2>4
<1>6. CASE <<m[k].at, m[k].rate>> \in C
  <2> DEFINE c == <<m[k].at, m[k].rate>>
  <2>1. c \in C /\ c[1] = m[k].at /\ c[2] = m[k].rate
    BY <1>6
  <2>2. c[1] <= p
    BY <1>1, <1>2, <2>1
  <2>3. ASSUME NEW d \in C, d[1] <= p PROVE d[1] <= c[1]
    <3>1. PICK j \in 1 .. k : m[j].at = d[1] /\ m[j].rate = d[2]
      BY <1>5, <2>3
    <3>2. j = k \/ j < k
      BY <1>2, <3>1
    <3>3. j \in 1 .. n
      BY <1>2, <3>1
    <3>4. m[j].at <= m[k].at
      BY <1>1, <1>2, <1>3, <3>2, <3>3
    <3> QED BY <2>1, <3>1, <3>4
  <2> HIDE DEF c
  <2> QED BY <2>1, <2>2, <2>3 DEF IsRate, k
<1>7. CASE <<m[k].at, m[k].rate>> \notin C
  <2>1. k = 1 /\ m[k].rate = DefaultRate
    BY <1>4, <1>7
  <2>2. ASSUME NEW c \in C, c[1] <= p PROVE FALSE
    <3>1. PICK j \in 1 .. k : m[j].at = c[1] /\ m[j].rate = c[2]
      BY <1>5, <2>2
    <3>2. j = k
      BY <2>1, <3>1
    <3>3. c = <<m[k].at, m[k].rate>>
      BY <3>1, <3>2
    <3> QED BY <1>7, <3>3
  <2> QED BY <2>1, <2>2 DEF IsRate, k
<1> QED BY <1>6, <1>7

\* What the tempo map says is what is due.
LEMMA SecondsDue ==
  ASSUME NEW s \in Songs, Single(s), NEW m \in Tempos, m # <<>>,
         MapFor(m, Changes(s)), NEW p \in Nat
  PROVE  SecondsAt(m, p) = Due(s, p)
<1> DEFINE T == {i \in Nat : SecondsAt(m, i) = Due(s, i)}
<1>1. Chained(m)
  BY DEF MapFor
<1>2. 0 \in T
  BY <1>1, SecondsNext, DueIs
<1>3. ASSUME NEW i \in Nat, i \in T PROVE i + 1 \in T
  <2> DEFINE a == m[TempoBefore(m, i + 1)].rate
             b == RateAfter(s, i)
             C == Changes(s)
  <2>1. SecondsAt(m, i + 1) = SecondsAt(m, i) + a /\ Due(s, i + 1) = Due(s, i) + b
    BY <1>1, SecondsNext, DueIs
  <2>2. \A c \in C : c = <<c[1], c[2]>> /\ c[1] \in Nat
    BY ChangeIs DEF Change
  <2>3. IsRate(C, i, b) /\ Functional(C)
    BY RateAfterIs, SingleFunctional
  <2> HIDE DEF C
  <2>4. IsRate(C, i, a)
    BY <2>2, MapRate DEF C
  <2> HIDE DEF a, b
  <2>5. a = b
    BY <2>2, <2>3, <2>4, RateUnique
  <2> QED BY <1>3, <2>1, <2>5
<1>4. Nat \subseteq T
  <2> HIDE DEF T
  <2> QED BY <1>2, <1>3, Induction
<1> QED BY <1>4

LEMMA QuotientIs ==
  ASSUME NEW a \in Nat, NEW b \in Nat, b > 0
  PROVE  (a \div b) * b <= a /\ a < (a \div b) * b + b
  OBVIOUS

LEMMA ProductLess ==
  ASSUME NEW a \in Int, NEW b \in Int, NEW r \in Nat, r > 0, a * r <= b * r
  PROVE  a <= b
  OBVIOUS

LEMMA TempoAfterLast ==
  ASSUME NEW m \in Tempos, m # <<>>, NEW secs \in Nat, secs > 0,
         NEW i \in 1 .. Len(m), m[i].secs < secs
  PROVE  i <= TempoAfter(m, secs)
<1> DEFINE I == {j \in 1 .. Len(m) : m[j].secs < secs}
<1>1. i \in I /\ I \subseteq 0 .. Len(m) /\ Len(m) \in Nat
  BY LenTempos
<1>2. TempoAfter(m, secs) = IF I # {} THEN Max(I) ELSE 0
  BY DEF TempoAfter, SelectLastInSeq
<1> HIDE DEF I
<1>3. \A j \in I : Max(I) >= j
  BY <1>1, MaxOf
<1>4. TempoAfter(m, secs) >= i
  BY <1>1, <1>2, <1>3
<1>5. TempoAfter(m, secs) \in Int
  BY TempoAfterIs
<1> QED BY <1>4, <1>5

\* The pulse of a number of seconds is early by less than a pulse.
LEMMA PulsesEarly ==
  ASSUME NEW m \in Tempos, m # <<>>, Chained(m), NEW secs \in Nat,
         \A k \in 1 .. Len(m) : m[k].rate - 1 <= Slack
  PROVE  secs \in SecondsAt(m, PulsesAt(m, secs)) .. SecondsAt(m, PulsesAt(m, secs)) + Slack
<1> DEFINE k == TempoAfter(m, secs)
           a == secs - m[k].secs
           r == m[k].rate
           q == a \div r
           p == m[k].at + q
           n == Len(m)
<1>1. /\ k \in 1 .. n /\ m[k].secs <= secs /\ PulsesAt(m, secs) = p
      /\ n \in Nat /\ m[1].at = 0 /\ m[1].secs = 0
  BY TempoAfterIs, LenTempos
<1>2. \A i \in 1 .. n : m[i].at \in Nat /\ m[i].secs \in Nat /\ m[i].rate \in Nat
  BY TempoAt
<1>3. r \in Nat /\ r > 0 /\ r - 1 <= Slack /\ Slack \in Nat
  BY <1>1, TempoAt, SongAssumption
<1>4. secs > 0 => \A i \in 1 .. n : m[i].secs < secs => i <= k
  BY TempoAfterLast
<1>5. secs = 0 => k = 1
  BY DEF TempoAfter
<1> HIDE DEF k
<1>6. a \in Nat /\ m[k].at \in Nat /\ m[k].secs \in Nat
  BY <1>1, <1>2
<1>7. q \in Nat /\ q * r <= a /\ a < q * r + r
  <2> HIDE DEF a, r
  <2> QED BY <1>3, <1>6, QuotientNat, QuotientIs
<1> HIDE DEF q, n
<1>8. p \in Nat /\ m[k].at <= p /\ p - m[k].at = q
  BY <1>6, <1>7
<1>9. k + 1 \in 1 .. n => p <= m[k + 1].at
  <2>1. SUFFICES ASSUME k + 1 \in 1 .. n PROVE p <= m[k + 1].at
    OBVIOUS
  <2> DEFINE d == m[k + 1].at - m[k].at
  <2>2. k \in 1 .. n - 1
    BY <1>1, <2>1
  <2>3. m[k].at < m[k + 1].at /\ m[k + 1].secs = m[k].secs + d * r
    BY <2>2 DEF Chained, n
  <2>4. m[k + 1].at \in Nat /\ m[k + 1].secs \in Nat
    BY <1>2, <2>1
  <2>5. d \in Nat
    BY <1>6, <2>3, <2>4
  <2>6. d * r \in Nat
    <3> HIDE DEF d, r
    <3> QED BY <1>3, <2>5, ProductNat
  <2>7. a <= d * r
    <3>1. CASE secs = 0
      BY <1>1, <1>5, <2>6, <3>1
    <3>2. CASE secs # 0
      <4>1. ~ (m[k + 1].secs < secs)
        <5>1. ~ (k + 1 <= k)
          BY <1>1
        <5> QED BY <1>4, <2>1, <3>2, <5>1
      <4> HIDE DEF d, r
      <4> QED BY <1>6, <2>3, <2>4, <2>6, <4>1
    <3> QED BY <3>1, <3>2
  <2>8. q * r <= d * r
    <3>1. q * r \in Nat
      <4> HIDE DEF r
      <4> QED BY <1>3, <1>7, ProductNat
    <3> HIDE DEF a, d, r
    <3> QED BY <1>6, <1>7, <2>6, <2>7, <3>1
  <2>9. q <= d
    <3> HIDE DEF d, r
    <3> QED BY <1>3, <1>7, <2>5, <2>8, ProductLess
  <2> QED BY <1>6, <1>7, <2>4, <2>9
<1>10. SecondsAt(m, p) = m[k].secs + q * r
  <2>1. SecondsAt(m, p) = m[k].secs + (p - m[k].at) * r
    <3> HIDE DEF p
    <3> QED BY <1>1, <1>8, <1>9, SecondsFrom DEF n
  <2> QED BY <1>8, <2>1
<1>11. q * r \in Nat
  <2> HIDE DEF r
  <2> QED BY <1>3, <1>7, ProductNat
<1>12. /\ secs = m[k].secs + a
       /\ a <= q * r + Slack
  <2> HIDE DEF r
  <2>1. secs = m[k].secs + a
    BY <1>6
  <2> HIDE DEF a
  <2>2. a <= q * r + Slack
    <3> DEFINE x == q * r
    <3> HIDE DEF x
    <3>1. x \in Nat /\ a < x + r
      BY <1>7, <1>11 DEF x
    <3>2. a <= x + Slack
      BY <1>3, <1>6, <3>1
    <3> QED BY <3>2 DEF x
  <2> QED BY <2>1, <2>2
<1> DEFINE x == q * r
           b == m[k].secs
<1>13. secs = b + a /\ x <= a /\ a <= x + Slack /\ x \in Nat /\ b \in Nat
       /\ SecondsAt(m, p) = b + x
  BY <1>6, <1>7, <1>10, <1>11, <1>12
<1> HIDE DEF x, b, a, p
<1>14. secs \in SecondsAt(m, p) .. SecondsAt(m, p) + Slack
  BY <1>3, <1>6, <1>13
<1> QED BY <1>1, <1>14

LEMMA ProductMore ==
  ASSUME NEW u \in Nat, NEW v \in Nat, NEW r \in Nat, u <= v
  PROVE  u * r <= v * r
  OBVIOUS

\* It is the last pulse that does not come after those seconds.
LEMMA PulsesLatest ==
  ASSUME NEW m \in Tempos, m # <<>>, NEW secs \in Nat, NEW q \in Nat,
         PulsesAt(m, secs) < q
  PROVE  secs < SecondsAt(m, q)
<1> DEFINE k == TempoAfter(m, secs)
           a == secs - m[k].secs
           r == m[k].rate
           x == a \div r
           b == TempoBefore(m, q)
           n == Len(m)
<1>1. k \in 1 .. n /\ m[k].secs <= secs /\ PulsesAt(m, secs) = m[k].at + x /\ n \in Nat
  BY TempoAfterIs, LenTempos
<1>2. \A i \in 1 .. n : /\ m[i].at \in Nat /\ m[i].secs \in Nat
                        /\ m[i].rate \in Nat /\ m[i].rate > 0
  BY TempoAt
<1>3. secs > 0 => \A i \in 1 .. n : m[i].secs < secs => i <= k
  BY TempoAfterLast
<1>4. secs = 0 => k = 1
  BY DEF TempoAfter
<1> HIDE DEF k
<1>5. a \in Nat /\ r \in Nat /\ r > 0 /\ m[k].at \in Nat /\ m[k].secs \in Nat
  <2> HIDE DEF x, b, n
  <2> QED BY <1>1, <1>2, SMTT(30)
<1>6. x \in Nat /\ a < x * r + r
  <2> HIDE DEF a, r
  <2> QED BY <1>5, QuotientNat, QuotientIs
<1> HIDE DEF x
<1>7. m[k].at + x < q /\ q > 0 /\ m[k].at < q
  <2>1. x \in Nat
    BY <1>6
  <2> HIDE DEF a, r, b, n
  <2> QED BY <1>1, <1>5, <2>1
<1>8. b \in 1 .. n /\ m[b].at < q /\ k <= b
  <2>1. b \in 1 .. n /\ m[b].at < q /\ \A i \in 1 .. n : m[i].at < q => i <= b
    BY <1>7, TempoBeforeIs
  <2> QED BY <1>1, <1>7, <2>1
<1>9. SecondsAt(m, q) = m[b].secs + (q - m[b].at) * m[b].rate
  BY DEF SecondsAt
<1> HIDE DEF b, n
<1>10. CASE b = k
  <2> DEFINE d == q - m[k].at
  <2>1. d \in Nat /\ x + 1 <= d
    <3>1. x \in Nat /\ m[k].at \in Nat
      BY <1>5, <1>6
    <3> QED BY <1>7, <3>1
  <2>2. SecondsAt(m, q) = m[k].secs + d * r
    BY <1>9, <1>10
  <2>3. secs = m[k].secs + a
    BY <1>1, <1>2, <1>5
  <2> HIDE DEF a, r, d
  <2>4. (x + 1) * r <= d * r
    BY <1>5, <1>6, <2>1, ProductMore
  <2>5. (x + 1) * r = x * r + r
    BY <1>5, <1>6, ProductNext
  <2>6. x * r \in Nat /\ d * r \in Nat
    BY <1>5, <1>6, <2>1, ProductNat
  <2> DEFINE y == x * r
             z == d * r
             w == (x + 1) * r
  <2>7. a < y + r /\ w <= z /\ w = y + r /\ y \in Nat /\ z \in Nat
    BY <1>6, <2>4, <2>5, <2>6
  <2>8. SecondsAt(m, q) = m[k].secs + z
    BY <2>2
  <2> HIDE DEF y, z, w
  <2> QED BY <1>5, <2>3, <2>7, <2>8
<1>11. CASE b # k
  <2> DEFINE d == q - m[b].at
             f == m[b].rate
  <2>1. m[b].secs \in Nat /\ m[b].at \in Nat /\ f \in Nat /\ f > 0
    BY <1>2, <1>8
  <2>2. d \in Nat /\ 1 <= d
    BY <1>7, <1>8, <2>1
  <2>3. ~ (b <= k)
    BY <1>1, <1>8, <1>11 DEF n
  <2>4. secs <= m[b].secs
    <3>1. CASE secs = 0
      BY <2>1, <3>1
    <3>2. CASE secs > 0
      BY <1>3, <1>8, <2>1, <2>3, <3>2
    <3> QED BY <3>1, <3>2
  <2>5. SecondsAt(m, q) = m[b].secs + d * f
    BY <1>9
  <2> HIDE DEF d, f
  <2>6. 1 * f <= d * f /\ 1 * f = f
    BY <2>1, <2>2, ProductMore
  <2>7. d * f \in Nat
    BY <2>1, <2>2, ProductNat
  <2> DEFINE z == d * f
  <2>8. f <= z /\ z \in Nat /\ SecondsAt(m, q) = m[b].secs + z
    BY <2>5, <2>6, <2>7
  <2> HIDE DEF z
  <2> QED BY <2>1, <2>4, <2>8
<1> QED BY <1>10, <1>11

LEMMA InitialMap == MapFor(InitialTempo, {})
<1>1. Len(InitialTempo) = 1 /\ InitialTempo[1].rate = DefaultRate
  BY DEF InitialTempo
<1> QED BY <1>1 DEF MapFor, Chained

\* A tempo change after all others.
LEMMA WithTempoMap ==
  ASSUME NEW m \in Tempos, m # <<>>, NEW C, MapFor(m, C),
         NEW at \in Nat, NEW rate \in Nat \ {0},
         \A c \in C : c[1] < at
  PROVE  MapFor(WithTempo(m, at, rate), C \cup {<<at, rate>>})
<1> DEFINE n == Len(m)
           D == C \cup {<<at, rate>>}
<1>1. m \in Seq(Tempo) /\ n \in Nat /\ n >= 1 /\ m[1].at = 0 /\ m[1].secs = 0
  BY LenTempos
<1>2. \A k \in 1 .. n : m[k].at \in Nat /\ m[k].secs \in Nat /\ m[k].rate \in Nat
  BY TempoAt
<1>3. \A k \in 1 .. n : m[k].at < at \/ (k = 1 /\ <<m[1].at, m[1].rate>> \notin C)
  <2> SUFFICES ASSUME NEW k \in 1 .. n, ~ (k = 1 /\ <<m[1].at, m[1].rate>> \notin C)
               PROVE  m[k].at < at
    OBVIOUS
  <2>1. <<m[k].at, m[k].rate>> \in C
    BY DEF MapFor
  <2> QED BY <2>1
<1>4. CASE Last(m).at = at
  <2>1. m[n].at = at
    BY <1>4 DEF Last
  <2>2. n = 1
    <3>1. n \in 1 .. n /\ ~ (m[n].at < at)
      BY <1>1, <2>1
    <3> QED BY <1>3, <3>1
  <2>3. C = {}
    <3>1. at = 0
      BY <1>1, <2>1, <2>2
    <3>2. <<m[1].at, m[1].rate>> \notin C
      BY <1>1, <1>3, <2>1, <2>2
    <3>3. ASSUME NEW c \in C PROVE FALSE
      <4>1. PICK k \in 1 .. n : m[k].at = c[1]
        BY DEF MapFor
      <4>2. k = 1 /\ c[1] < 0
        BY <2>2, <3>1, <4>1
      <4> QED BY <1>1, <4>1, <4>2
    <3> QED BY <3>3
  <2> DEFINE new == WithTempo(m, at, rate)
  <2>4. new = [m EXCEPT ![n].rate = rate]
    BY <1>4 DEF WithTempo
  <2>5. m[1] \in Tempo
    BY <1>1
  <2> HIDE DEF new
  <2>6. Len(new) = 1 /\ new[1] = [m[1] EXCEPT !.rate = rate]
    BY <1>1, <2>2, <2>4
  <2>7. new[1].at = at /\ new[1].rate = rate
    BY <1>1, <2>1, <2>2, <2>5, <2>6 DEF Tempo
  <2> HIDE DEF n
  <2>8. D = {<<at, rate>>}
    BY <2>3
  <2> HIDE DEF D
  <2>9. Chained(new)
    <3>1. 1 .. Len(new) - 1 = {}
      BY <2>6
    <3> QED BY <3>1 DEF Chained
  <2>10. 1 \in 1 .. Len(new) /\ \A k \in 1 .. Len(new) : k = 1
    BY <2>6
  <2>11. /\ \A c \in D : \E k \in 1 .. Len(new) : new[k].at = c[1] /\ new[k].rate = c[2]
         /\ \A k \in 1 .. Len(new) : <<new[k].at, new[k].rate>> \in D
    BY <2>7, <2>8, <2>10
  <2>12. MapFor(new, D)
    BY <2>9, <2>11 DEF MapFor
  <2> QED BY <2>12 DEF new, D
<1>5. CASE Last(m).at # at
  <2> DEFINE t == [at |-> at, rate |-> rate, secs |-> IF at = 0 THEN 0 ELSE SecondsAt(m, at)]
             new == WithTempo(m, at, rate)
  <2>1. new = Append(m, t)
    BY <1>5 DEF WithTempo
  <2>2. m[n].at < at
    <3>1. m[n].at # at /\ n \in 1 .. n
      BY <1>1, <1>5 DEF Last
    <3>2. n = 1 => m[n].at = 0
      BY <1>1
    <3> QED BY <1>1, <1>2, <1>3, <3>1, <3>2
  <2>3. at # 0
    BY <1>1, <1>2, <2>2
  <2>4. SecondsAt(m, at) = m[n].secs + (at - m[n].at) * m[n].rate
    <3>1. n \in 1 .. n /\ n + 1 \notin 1 .. n /\ m[n].at <= at
      BY <1>1, <1>2, <2>2
    <3> HIDE DEF n
    <3> QED BY <1>2, <3>1, SecondsFrom DEF n, MapFor
  <2>5. t.at = at /\ t.rate = rate /\ t.secs = SecondsAt(m, at) /\ t \in Tempo
    BY <2>3, SecondsNat DEF Tempo
  <2> HIDE DEF t, new
  <2>6. /\ Len(new) = n + 1 /\ new[n + 1] = t
        /\ \A k \in 1 .. n : new[k] = m[k]
    BY <1>1, <2>1, <2>5
  <2>7. Chained(new)
    <3> SUFFICES ASSUME NEW k \in 1 .. n
                 PROVE  /\ new[k].at < new[k + 1].at
                        /\ new[k + 1].secs = new[k].secs + (new[k + 1].at - new[k].at) * new[k].rate
      <4>1. Len(new) - 1 = n
        BY <1>1, <2>6
      <4> QED BY <4>1 DEF Chained
    <3>1. CASE k = n
      <4>1. new[k] = m[n] /\ new[k + 1] = t
        BY <1>1, <2>6, <3>1
      <4> QED BY <2>2, <2>4, <2>5, <4>1
    <3>2. CASE k # n
      <4>1. k \in 1 .. n - 1 /\ k + 1 \in 1 .. n
        BY <1>1, <3>2
      <4>2. new[k] = m[k] /\ new[k + 1] = m[k + 1]
        BY <2>6, <4>1
      <4> QED BY <4>1, <4>2 DEF MapFor, Chained
    <3> QED BY <3>1, <3>2
  <2>8. ASSUME NEW c \in D
        PROVE  \E k \in 1 .. n + 1 : new[k].at = c[1] /\ new[k].rate = c[2]
    <3>1. CASE c \in C
      <4>1. PICK k \in 1 .. n : m[k].at = c[1] /\ m[k].rate = c[2]
        BY <3>1 DEF MapFor
      <4>2. k \in 1 .. n + 1
        BY <1>1
      <4> QED BY <2>6, <4>1, <4>2
    <3>2. CASE c = <<at, rate>>
      <4>1. n + 1 \in 1 .. n + 1
        BY <1>1
      <4> QED BY <2>5, <2>6, <3>2, <4>1
    <3> QED BY <3>1, <3>2
  <2>9. ASSUME NEW k \in 1 .. n + 1
        PROVE  <<new[k].at, new[k].rate>> \in D \/ (k = 1 /\ new[1].rate = DefaultRate)
    <3>1. CASE k = n + 1
      BY <2>5, <2>6, <3>1
    <3>2. CASE k # n + 1
      <4>1. k \in 1 .. n /\ 1 \in 1 .. n
        BY <1>1, <3>2
      <4>2. new[k] = m[k] /\ new[1] = m[1]
        BY <2>6, <4>1
      <4> QED BY <4>1, <4>2 DEF MapFor
    <3> QED BY <3>1, <3>2
  <2> HIDE DEF D, n
  <2>10. MapFor(new, D)
    BY <2>6, <2>7, <2>8, <2>9 DEF MapFor
  <2> QED BY <2>10 DEF new, D
<1> QED BY <1>4, <1>5

LEMMA LenButLast ==
  ASSUME NEW S, NEW m \in Seq(S), Len(m) >= 1
  PROVE  Len(SubSeq(m, 1, Len(m) - 1)) = Len(m) - 1
<1>1. Len(m) \in Nat
  OBVIOUS
<1> DEFINE k == Len(m) - 1
<1>2. k \in Nat /\ k <= Len(m)
  BY <1>1
<1> HIDE DEF k
<1>3. \A j \in 1 .. k : j \in 1 .. Len(m)
  BY <1>1, <1>2
<1>4. Len(SubSeq(m, 1, k)) = k
  BY <1>1, <1>2, <1>3
<1> QED BY <1>4 DEF k

\* The last tempo change taken away.
LEMMA WithoutLastTempoMap ==
  ASSUME NEW m \in Tempos, m # <<>>, NEW C, MapFor(m, C), NEW at \in Nat,
         \A c \in C : c[1] \in Nat /\ c[1] <= at,
         \E c \in C : c[1] = at
  PROVE  LET D == {c \in C : c[1] # at}
             r == WithoutLastTempo(m, at)
         IN IF r = <<>> THEN D = {} ELSE MapFor(r, D)
<1> DEFINE n == Len(m)
           D == {c \in C : c[1] # at}
           r == WithoutLastTempo(m, at)
<1>1. m \in Seq(Tempo) /\ n \in Nat /\ n >= 1 /\ m[1].at = 0
  BY LenTempos
<1>2. \A k \in 1 .. n : m[k].at \in Nat
  BY TempoAt
<1>3. \A k \in 1 .. n : m[k].at <= at
  <2> TAKE k \in 1 .. n
  <2>1. CASE <<m[k].at, m[k].rate>> \in C
    BY <2>1
  <2>2. CASE k = 1
    BY <1>1, <2>2
  <2> QED BY <2>1, <2>2 DEF MapFor
<1>4. \A i, j \in 1 .. n : i < j => m[i].at < m[j].at
  BY Increasing DEF MapFor
<1>5. m[n].at = at
  <2>1. PICK c \in C : c[1] = at
    OBVIOUS
  <2>2. PICK k \in 1 .. n : m[k].at = c[1]
    BY <2>1 DEF MapFor
  <2>3. n \in 1 .. n /\ (k = n \/ k < n)
    BY <1>1
  <2>4. k < n => m[k].at < m[n].at
    BY <1>4, <2>3
  <2>5. m[n].at \in Nat /\ m[n].at <= at
    BY <1>2, <1>3, <2>3
  <2> QED BY <2>1, <2>2, <2>3, <2>4, <2>5
<1>6. r = SubSeq(m, 1, n - 1)
  BY <1>5 DEF WithoutLastTempo, Front, Last
<1> HIDE DEF r
<1>7. Len(r) = n - 1 /\ \A k \in 1 .. n - 1 : r[k] = m[k]
  <2> HIDE DEF n
  <2>1. Len(r) = n - 1
    BY <1>1, <1>6, LenButLast DEF n
  <2>2. ASSUME NEW k \in 1 .. n - 1 PROVE r[k] = m[k]
    BY <1>1, <1>6 DEF n
  <2> QED BY <2>1, <2>2
<1>8. \A k \in 1 .. n - 1 : m[k].at < at
  <2> TAKE k \in 1 .. n - 1
  <2>1. k \in 1 .. n /\ n \in 1 .. n /\ k < n
    BY <1>1
  <2> QED BY <1>4, <1>5, <2>1
<1>9. CASE r = <<>>
  <2>1. n = 1
    BY <1>1, <1>7, <1>9
  <2>2. at = 0
    BY <1>1, <1>5, <2>1
  <2>3. ASSUME NEW c \in D PROVE FALSE
    BY <2>2
  <2> QED BY <1>9, <2>3 DEF r
<1>10. CASE r # <<>>
  <2>1. Chained(r)
    <3> SUFFICES ASSUME NEW k \in 1 .. Len(r) - 1
                 PROVE  /\ r[k].at < r[k + 1].at
                        /\ r[k + 1].secs = r[k].secs + (r[k + 1].at - r[k].at) * r[k].rate
      BY DEF Chained
    <3>1. k \in 1 .. n - 1 /\ k + 1 \in 1 .. n - 1
      BY <1>1, <1>7
    <3>2. r[k] = m[k] /\ r[k + 1] = m[k + 1]
      BY <1>7, <3>1
    <3> QED BY <3>1, <3>2 DEF MapFor, Chained
  <2>2. ASSUME NEW c \in D
        PROVE  \E k \in 1 .. Len(r) : r[k].at = c[1] /\ r[k].rate = c[2]
    <3>1. PICK k \in 1 .. n : m[k].at = c[1] /\ m[k].rate = c[2]
      BY DEF MapFor
    <3>2. k # n
      BY <1>5, <3>1
    <3>3. k \in 1 .. n - 1
      BY <1>1, <3>2
    <3> QED BY <1>7, <3>1, <3>3
  <2>3. ASSUME NEW k \in 1 .. Len(r)
        PROVE  <<r[k].at, r[k].rate>> \in D \/ (k = 1 /\ r[1].rate = DefaultRate)
    <3>1. k \in 1 .. n - 1 /\ k \in 1 .. n /\ 1 \in 1 .. n - 1
      BY <1>1, <1>7
    <3>2. r[k] = m[k] /\ r[1] = m[1] /\ m[k].at < at /\ m[k].at \in Nat
      BY <1>2, <1>7, <1>8, <3>1
    <3>3. <<m[k].at, m[k].rate>> \in C => <<m[k].at, m[k].rate>> \in D
      BY <3>2
    <3> QED BY <3>1, <3>2, <3>3 DEF MapFor
  <2> HIDE DEF D
  <2>4. MapFor(r, D)
    BY <2>1, <2>2, <2>3 DEF MapFor
  <2> QED BY <1>10, <2>4 DEF r, D
<1> QED BY <1>9, <1>10

-------------------------------------------------------------------------------
(***************************************************************************)
(* The tempo map that is built from the events is theirs.                  *)
(***************************************************************************)
\* The changes among the first n events.
FirstChanges(s, n) ==
  {Change(s, PlayOrder(s)[k]) : k \in {j \in 1 .. n : IsChange(s, PlayOrder(s)[j])}}

LEMMA FirstChangesNext ==
  ASSUME NEW s \in Songs, NEW n \in Nat
  PROVE  /\ FirstChanges(s, 0) = {}
         /\ IF IsChange(s, PlayOrder(s)[n + 1])
            THEN FirstChanges(s, n + 1)
                   = FirstChanges(s, n) \cup {Change(s, PlayOrder(s)[n + 1])}
            ELSE FirstChanges(s, n + 1) = FirstChanges(s, n)
<1> DEFINE I(k) == IsChange(s, PlayOrder(s)[k])
           c(k) == Change(s, PlayOrder(s)[k])
<1> HIDE DEF I, c
<1>1. 1 .. 0 = {} /\ 1 .. n + 1 = (1 .. n) \cup {n + 1}
  OBVIOUS
<1>2. {c(k) : k \in {j \in 1 .. 0 : I(j)}} = {}
  BY <1>1
<1>3. CASE I(n + 1)
  <2>1. {j \in 1 .. n + 1 : I(j)} = {j \in 1 .. n : I(j)} \cup {n + 1}
    BY <1>1, <1>3
  <2>2. {c(k) : k \in {j \in 1 .. n + 1 : I(j)}}
          = {c(k) : k \in {j \in 1 .. n : I(j)}} \cup {c(n + 1)}
    BY <2>1
  <2> QED BY <1>2, <1>3, <2>2 DEF FirstChanges, I, c
<1>4. CASE ~ I(n + 1)
  <2>1. {j \in 1 .. n + 1 : I(j)} = {j \in 1 .. n : I(j)}
    BY <1>1, <1>4
  <2>2. {c(k) : k \in {j \in 1 .. n + 1 : I(j)}} = {c(k) : k \in {j \in 1 .. n : I(j)}}
    BY <2>1
  <2> QED BY <1>2, <1>4, <2>2 DEF FirstChanges, I, c
<1> QED BY <1>3, <1>4

LEMMA FirstChangesAll ==
  ASSUME NEW s \in Songs
  PROVE  FirstChanges(s, Len(PlayOrder(s))) = Changes(s)
<1> DEFINE n == Len(PlayOrder(s))
<1>1. ASSUME NEW c \in FirstChanges(s, n) PROVE c \in Changes(s)
  <2>1. PICK k \in 1 .. n : IsChange(s, PlayOrder(s)[k]) /\ c = Change(s, PlayOrder(s)[k])
    BY <1>1 DEF FirstChanges
  <2>2. PlayOrder(s)[k] \in Positions(s)
    BY PlayOrderIs
  <2> QED BY <2>1, <2>2, ChangeIs
<1>2. ASSUME NEW c \in Changes(s) PROVE c \in FirstChanges(s, n)
  <2>1. PICK p \in Positions(s) : IsChange(s, p) /\ c = Change(s, p)
    BY ChangeIs
  <2>2. PICK k \in 1 .. n : PlayOrder(s)[k] = p
    BY PlayOrderIs
  <2> QED BY <2>1, <2>2 DEF FirstChanges
<1> QED BY <1>1, <1>2

\* A change comes after those among the events before it.
LEMMA FirstChangesBefore ==
  ASSUME NEW s \in Songs, Single(s), NEW n \in Nat, n + 1 <= Len(PlayOrder(s)),
         IsChange(s, PlayOrder(s)[n + 1])
  PROVE  \A c \in FirstChanges(s, n) : c[1] < EventAt(s, PlayOrder(s)[n + 1]).time
<1> DEFINE q == PlayOrder(s)[n + 1]
<1> TAKE c \in FirstChanges(s, n)
<1>1. PICK k \in 1 .. n : IsChange(s, PlayOrder(s)[k]) /\ c = Change(s, PlayOrder(s)[k])
  BY DEF FirstChanges
<1> DEFINE p == PlayOrder(s)[k]
<1>2. k \in 1 .. Len(PlayOrder(s)) /\ n + 1 \in 1 .. Len(PlayOrder(s)) /\ k < n + 1
  BY PlayOrderIs
<1>3. p \in Positions(s) /\ q \in Positions(s) /\ Before(s, p, q)
  BY <1>2, PlayOrderIs
<1> HIDE DEF p, q
<1>4. EventAt(s, p).time <= EventAt(s, q).time
  BY <1>3, BeforeTimes
<1>5. p # q
  BY <1>3, BeforeIs
<1>6. EventAt(s, p).time # EventAt(s, q).time
  BY <1>1, <1>3, <1>5 DEF Single, p, q
<1>7. EventAt(s, p).time \in Nat /\ EventAt(s, q).time \in Nat
  BY <1>3, EventIn
<1>8. c[1] = EventAt(s, p).time
  BY <1>1 DEF Change, p
<1> QED BY <1>4, <1>6, <1>7, <1>8 DEF q

LEMMA TempoMapRight ==
  ASSUME NEW s \in Songs, Single(s)
  PROVE  /\ TempoMap(s) \in Tempos /\ TempoMap(s) # <<>>
         /\ MapFor(TempoMap(s), Changes(s))
<1> DEFINE n == Len(PlayOrder(s))
<1>1. PICK map : IsMap(map, s, n) /\ TempoMap(s) = map[n]
  BY MapIs
<1>2. n \in Nat
  BY PlayOrderIs
<1> DEFINE T == {i \in Nat : i <= n => /\ map[i] \in Tempos /\ map[i] # <<>>
                                       /\ MapFor(map[i], FirstChanges(s, i))}
<1>3. 0 \in T
  <2>1. map[0] = InitialTempo
    <3> HIDE DEF n
    <3> QED BY <1>1, <1>2, MapStep
  <2>2. FirstChanges(s, 0) = {}
    BY FirstChangesNext
  <2> QED BY <2>1, <2>2, InitialTempoOK, InitialMap
<1>4. ASSUME NEW i \in Nat, i \in T PROVE i + 1 \in T
  <2>1. SUFFICES ASSUME i + 1 <= n
                 PROVE  /\ map[i + 1] \in Tempos /\ map[i + 1] # <<>>
                        /\ MapFor(map[i + 1], FirstChanges(s, i + 1))
    OBVIOUS
  <2> DEFINE q == PlayOrder(s)[i + 1]
             e == EventAt(s, q)
             C == FirstChanges(s, i)
  <2>2. map[i + 1] = MapAfter(map[i], e)
    <3> HIDE DEF n
    <3> QED BY <1>1, <1>2, <2>1, MapStep
  <2>3. map[i] \in Tempos /\ map[i] # <<>> /\ MapFor(map[i], C)
    BY <1>2, <1>4, <2>1
  <2>4. q \in Positions(s)
    <3>1. i + 1 \in 1 .. n
      BY <1>2, <2>1
    <3> QED BY <3>1, PlayOrderIs
  <2>5. e.time \in Nat
    BY <2>4, EventIn
  <2>6. e.kind \in Rates => e.kind \in Nat \ {0}
    BY SongAssumption
  <2>7. CASE e.kind \in Rates
    <3>1. IsChange(s, q) /\ Change(s, q) = <<e.time, e.kind>>
      BY <2>7 DEF IsChange, Change
    <3>2. FirstChanges(s, i + 1) = C \cup {<<e.time, e.kind>>}
      BY <3>1, FirstChangesNext
    <3>3. \A c \in C : c[1] < e.time
      BY <2>1, <3>1, FirstChangesBefore
    <3>4. map[i + 1] = WithTempo(map[i], e.time, e.kind)
      BY <2>2, <2>7 DEF MapAfter
    <3> DEFINE m == map[i]
               at == e.time
               rate == e.kind
    <3> HIDE DEF e, C, q, m, at, rate
    <3>5. WithTempo(m, at, rate) \in Tempos /\ WithTempo(m, at, rate) # <<>>
      BY <2>3, <2>5, <2>6, <2>7, WithTempoOK DEF m, at, rate
    <3>6. MapFor(WithTempo(m, at, rate), C \cup {<<at, rate>>})
      BY <2>3, <2>5, <2>6, <2>7, <3>3, WithTempoMap DEF m, at, rate
    <3> QED BY <3>2, <3>4, <3>5, <3>6 DEF m, at, rate
  <2>8. CASE e.kind \notin Rates
    <3>1. FirstChanges(s, i + 1) = C
      <4>1. ~ IsChange(s, q)
        BY <2>8 DEF IsChange
      <4> QED BY <4>1, FirstChangesNext
    <3> QED BY <2>2, <2>3, <2>8, <3>1 DEF MapAfter
  <2> QED BY <2>7, <2>8
<1>5. Nat \subseteq T
  <2> HIDE DEF T
  <2> QED BY <1>3, <1>4, Induction
<1> QED BY <1>1, <1>2, <1>5, FirstChangesAll

-------------------------------------------------------------------------------
(***************************************************************************)
(* A song that has the events of another but those at X.                   *)
(***************************************************************************)
Embeds(f, r, s, X) ==
  /\ \A p \in Positions(r) : f[p] \in Positions(s) \ X
  /\ \A p, q \in Positions(r) : f[p] = f[q] => p = q
  /\ \A q \in Positions(s) \ X : \E p \in Positions(r) : f[p] = q
  /\ \A p \in Positions(r) : /\ EventAt(r, p).kind = EventAt(s, f[p]).kind
                             /\ EventAt(r, p).time = EventAt(s, f[p]).time
                             /\ EventAt(r, p).secs = EventAt(s, f[p]).secs

Part(r, s, X) == \E f : Embeds(f, r, s, X)

\* The seconds of every event are due, up to the tolerance.
SecondsOK(s) ==
  \A p \in Positions(s) :
    EventAt(s, p).secs \in Due(s, EventAt(s, p).time) .. Due(s, EventAt(s, p).time) + Slack

LEMMA PartChange ==
  ASSUME NEW r, NEW s, NEW X, NEW f, Embeds(f, r, s, X), NEW p \in Positions(r)
  PROVE  /\ f[p] \in Positions(s) /\ f[p] \notin X
         /\ IsChange(r, p) <=> IsChange(s, f[p])
         /\ Change(r, p) = Change(s, f[p])
  BY DEF Embeds, IsChange, Change

LEMMA PartSingle ==
  ASSUME NEW r, NEW s, NEW X, Part(r, s, X), Single(s)
  PROVE  Single(r)
<1>1. PICK f : Embeds(f, r, s, X)
  BY DEF Part
<1> SUFFICES ASSUME NEW p \in Positions(r), NEW q \in Positions(r),
                    IsChange(r, p), IsChange(r, q), EventAt(r, p).time = EventAt(r, q).time
             PROVE  p = q
  BY DEF Single
<1>2. IsChange(s, f[p]) /\ IsChange(s, f[q]) /\ f[p] \in Positions(s) /\ f[q] \in Positions(s)
  BY <1>1, PartChange
<1>3. EventAt(s, f[p]).time = EventAt(s, f[q]).time
  BY <1>1 DEF Embeds
<1>4. f[p] = f[q]
  BY <1>2, <1>3 DEF Single
<1> QED BY <1>1, <1>4 DEF Embeds

LEMMA PartChanges ==
  ASSUME NEW r \in Songs, NEW s \in Songs, NEW X, Part(r, s, X)
  PROVE  /\ Changes(r) \subseteq Changes(s)
         /\ \A c \in Changes(r) : \E q \in Positions(s) \ X : IsChange(s, q) /\ c = Change(s, q)
         /\ \A q \in Positions(s) \ X : IsChange(s, q) => Change(s, q) \in Changes(r)
<1>1. PICK f : Embeds(f, r, s, X)
  BY DEF Part
<1>2. ASSUME NEW c \in Changes(r)
      PROVE  \E q \in Positions(s) \ X : IsChange(s, q) /\ c = Change(s, q)
  <2>1. PICK p \in Positions(r) : IsChange(r, p) /\ c = Change(r, p)
    BY ChangeIs
  <2>2. f[p] \in Positions(s) \ X /\ IsChange(s, f[p]) /\ c = Change(s, f[p])
    BY <1>1, <2>1, PartChange
  <2> QED BY <2>2
<1>3. ASSUME NEW q \in Positions(s) \ X, IsChange(s, q) PROVE Change(s, q) \in Changes(r)
  <2>1. PICK p \in Positions(r) : f[p] = q
    BY <1>1 DEF Embeds
  <2>2. IsChange(r, p) /\ Change(r, p) = Change(s, q)
    BY <1>1, <1>3, <2>1, PartChange
  <2>3. Change(r, p) \in Changes(r)
    BY <2>2, ChangeIs
  <2> QED BY <2>2, <2>3
<1>4. Changes(r) \subseteq Changes(s)
  BY <1>2, ChangeIs
<1> QED BY <1>2, <1>3, <1>4

\* Nothing but tempo changes counts.
LEMMA PartSame ==
  ASSUME NEW r \in Songs, NEW s \in Songs, NEW X, Part(r, s, X),
         \A x \in X : ~ IsChange(s, x)
  PROVE  /\ Changes(r) = Changes(s)
         /\ Single(r) => Single(s)
<1>1. Changes(r) = Changes(s)
  <2>1. ASSUME NEW c \in Changes(s) PROVE c \in Changes(r)
    <3>1. PICK q \in Positions(s) : IsChange(s, q) /\ c = Change(s, q)
      BY ChangeIs
    <3>2. q \in Positions(s) \ X
      BY <3>1
    <3> QED BY <3>1, <3>2, PartChanges
  <2> QED BY <2>1, PartChanges, ZenonT(30)
<1>2. ASSUME Single(r), NEW p \in Positions(s), NEW q \in Positions(s),
             IsChange(s, p), IsChange(s, q), EventAt(s, p).time = EventAt(s, q).time
      PROVE  p = q
  <2>1. PICK f : Embeds(f, r, s, X)
    BY DEF Part
  <2>2. p \in Positions(s) \ X /\ q \in Positions(s) \ X
    BY <1>2
  <2>3. PICK a \in Positions(r) : f[a] = p
    BY <2>1, <2>2 DEF Embeds
  <2>4. PICK b \in Positions(r) : f[b] = q
    BY <2>1, <2>2 DEF Embeds
  <2>5. IsChange(r, a) /\ IsChange(r, b)
    BY <1>2, <2>1, <2>3, <2>4, PartChange
  <2>6. EventAt(r, a).time = EventAt(r, b).time
    BY <1>2, <2>1, <2>3, <2>4 DEF Embeds
  <2>7. a = b
    BY <1>2, <2>5, <2>6 DEF Single
  <2> QED BY <2>3, <2>4, <2>7
<1> QED BY <1>1, <1>2 DEF Single

\* Without the only change at a pulse.
LEMMA PartLess ==
  ASSUME NEW r \in Songs, NEW s \in Songs, NEW x \in Positions(s), Part(r, s, {x}),
         IsChange(s, x), Single(s)
  PROVE  Changes(r) = {c \in Changes(s) : c[1] # EventAt(s, x).time}
<1>1. ASSUME NEW c \in Changes(r) PROVE c \in Changes(s) /\ c[1] # EventAt(s, x).time
  <2>1. PICK q \in Positions(s) \ {x} : IsChange(s, q) /\ c = Change(s, q)
    BY PartChanges
  <2>2. c[1] = EventAt(s, q).time
    BY <2>1 DEF Change
  <2>3. EventAt(s, q).time # EventAt(s, x).time
    BY <2>1 DEF Single
  <2> QED BY <2>2, <2>3, PartChanges
<1>2. ASSUME NEW c \in Changes(s), c[1] # EventAt(s, x).time PROVE c \in Changes(r)
  <2>1. PICK q \in Positions(s) : IsChange(s, q) /\ c = Change(s, q)
    BY ChangeIs
  <2>2. q # x
    BY <1>2, <2>1 DEF Change
  <2>3. q \in Positions(s) \ {x}
    BY <2>2
  <2> QED BY <2>1, <2>3, PartChanges
<1> QED BY <1>1, <1>2

\* With one more, at a pulse that has none.
LEMMA PartMore ==
  ASSUME NEW r \in Songs, NEW s \in Songs, NEW x \in Positions(s), Part(r, s, {x}),
         IsChange(s, x), Single(r), \A c \in Changes(r) : c[1] # EventAt(s, x).time
  PROVE  Changes(s) = Changes(r) \cup {Change(s, x)} /\ Single(s)
<1>1. \A q \in Positions(s) : q # x /\ IsChange(s, q) =>
        EventAt(s, q).time # EventAt(s, x).time
  <2> SUFFICES ASSUME NEW q \in Positions(s), q # x, IsChange(s, q)
               PROVE  EventAt(s, q).time # EventAt(s, x).time
    OBVIOUS
  <2>1. q \in Positions(s) \ {x}
    OBVIOUS
  <2>2. Change(s, q) \in Changes(r)
    BY <2>1, PartChanges
  <2>3. Change(s, q)[1] = EventAt(s, q).time
    BY DEF Change
  <2> QED BY <2>2, <2>3
<1>2. ASSUME NEW c \in Changes(s), c \notin Changes(r) PROVE c = Change(s, x)
  <2>1. PICK q \in Positions(s) : IsChange(s, q) /\ c = Change(s, q)
    BY ChangeIs
  <2>2. q # x => q \in Positions(s) \ {x}
    OBVIOUS
  <2> QED BY <1>2, <2>1, <2>2, PartChanges
<1>3. Changes(s) = Changes(r) \cup {Change(s, x)}
  <2>1. Changes(r) \subseteq Changes(s)
    BY PartChanges
  <2>2. Change(s, x) \in Changes(s)
    BY ChangeIs
  <2> QED BY <1>2, <2>1, <2>2
<1>4. ASSUME NEW p \in Positions(s), NEW q \in Positions(s),
             IsChange(s, p), IsChange(s, q), EventAt(s, p).time = EventAt(s, q).time
      PROVE  p = q
  <2>1. CASE p = x \/ q = x
    BY <1>1, <1>4, <2>1
  <2>2. CASE p # x /\ q # x
    <3>1. PICK f : Embeds(f, r, s, {x})
      BY DEF Part
    <3>2. p \in Positions(s) \ {x} /\ q \in Positions(s) \ {x}
      BY <2>2
    <3>3. PICK a \in Positions(r) : f[a] = p
      BY <3>1, <3>2 DEF Embeds
    <3>4. PICK b \in Positions(r) : f[b] = q
      BY <3>1, <3>2 DEF Embeds
    <3>5. IsChange(r, a) /\ IsChange(r, b)
      BY <1>4, <3>1, <3>3, <3>4, PartChange
    <3>6. EventAt(r, a).time = EventAt(r, b).time
      BY <1>4, <3>1, <3>3, <3>4 DEF Embeds
    <3>7. a = b
      BY <3>5, <3>6 DEF Single
    <3> QED BY <3>3, <3>4, <3>7
  <2> QED BY <2>1, <2>2
<1> QED BY <1>3, <1>4 DEF Single

LEMMA SecondsDown ==
  ASSUME NEW r, NEW s, NEW X, Part(r, s, X), SecondsOK(s),
         \A p \in Positions(r) : Due(r, EventAt(r, p).time) = Due(s, EventAt(r, p).time)
  PROVE  SecondsOK(r)
<1>1. PICK f : Embeds(f, r, s, X)
  BY DEF Part
<1> SUFFICES ASSUME NEW p \in Positions(r)
             PROVE  EventAt(r, p).secs \in Due(r, EventAt(r, p).time)
                                             .. Due(r, EventAt(r, p).time) + Slack
  BY DEF SecondsOK
<1>2. /\ f[p] \in Positions(s) /\ EventAt(r, p).time = EventAt(s, f[p]).time
      /\ EventAt(r, p).secs = EventAt(s, f[p]).secs
  BY <1>1 DEF Embeds
<1>3. EventAt(s, f[p]).secs \in Due(s, EventAt(s, f[p]).time)
                                  .. Due(s, EventAt(s, f[p]).time) + Slack
  BY <1>2 DEF SecondsOK
<1>4. Due(r, EventAt(r, p).time) = Due(s, EventAt(s, f[p]).time)
  BY <1>2
<1> QED BY <1>2, <1>3, <1>4

LEMMA SecondsUp ==
  ASSUME NEW r, NEW s, NEW x, Part(r, s, {x}), SecondsOK(r),
         \A p \in Positions(r) : Due(r, EventAt(r, p).time) = Due(s, EventAt(r, p).time),
         EventAt(s, x).secs \in Due(s, EventAt(s, x).time) .. Due(s, EventAt(s, x).time) + Slack
  PROVE  SecondsOK(s)
<1>1. PICK f : Embeds(f, r, s, {x})
  BY DEF Part
<1> SUFFICES ASSUME NEW q \in Positions(s), q # x
             PROVE  EventAt(s, q).secs \in Due(s, EventAt(s, q).time)
                                             .. Due(s, EventAt(s, q).time) + Slack
  BY DEF SecondsOK
<1>2. q \in Positions(s) \ {x}
  OBVIOUS
<1>3. PICK p \in Positions(r) : f[p] = q
  BY <1>1, <1>2 DEF Embeds
<1>4. EventAt(r, p).time = EventAt(s, q).time /\ EventAt(r, p).secs = EventAt(s, q).secs
  BY <1>1, <1>3 DEF Embeds
<1>5. EventAt(r, p).secs \in Due(r, EventAt(r, p).time) .. Due(r, EventAt(r, p).time) + Slack
  BY DEF SecondsOK
<1>6. Due(r, EventAt(r, p).time) = Due(s, EventAt(s, q).time)
  BY <1>4
<1> QED BY <1>4, <1>5, <1>6

SameEvent(e, d) == e.kind = d.kind /\ e.time = d.time /\ e.secs = d.secs

\* One track has lost its i-th event.
LEMMA ShiftPart ==
  ASSUME NEW r \in Songs, NEW s \in Songs, Len(r.tracks) = Len(s.tracks),
         NEW t \in 1 .. Len(s.tracks), NEW i \in 1 .. Len(s.tracks[t].events),
         \A u \in 1 .. Len(s.tracks) : u # t => r.tracks[u].events = s.tracks[u].events,
         Len(r.tracks[t].events) = Len(s.tracks[t].events) - 1,
         \A j \in 1 .. Len(r.tracks[t].events) :
           SameEvent(r.tracks[t].events[j], s.tracks[t].events[IF j < i THEN j ELSE j + 1])
  PROVE  Part(r, s, {<<t, i>>})
<1> DEFINE P == Positions(r)
           f == [p \in P |-> IF p[1] = t /\ ~ (p[2] < i) THEN <<t, p[2] + 1>> ELSE p]
           n == Len(s.tracks[t].events)
<1>1. n \in Nat /\ i \in 1 .. n /\ Len(r.tracks[t].events) = n - 1
  BY TrackIn
<1>2. ASSUME NEW p \in P
      PROVE  \/ /\ p[1] = t /\ p[2] \in 1 .. n - 1 /\ p[2] < i /\ p[2] \in 1 .. n
                /\ f[p] = p /\ p = <<t, p[2]>>
             \/ /\ p[1] = t /\ p[2] \in 1 .. n - 1 /\ ~ (p[2] < i) /\ p[2] + 1 \in 1 .. n
                /\ f[p] = <<t, p[2] + 1>> /\ p = <<t, p[2]>>
             \/ /\ p[1] # t /\ p[1] \in 1 .. Len(s.tracks)
                /\ p[2] \in 1 .. Len(s.tracks[p[1]].events)
                /\ f[p] = p /\ p = <<p[1], p[2]>>
  <2>1. /\ p[1] \in 1 .. Len(s.tracks) /\ p[2] \in 1 .. Len(r.tracks[p[1]].events)
        /\ p = <<p[1], p[2]>>
    BY PositionOf
  <2>2. f[p] = IF p[1] = t /\ ~ (p[2] < i) THEN <<t, p[2] + 1>> ELSE p
    BY <1>2
  <2> HIDE DEF f, P, n
  <2>3. CASE p[1] = t
    <3>1. p[2] \in 1 .. n - 1
      BY <1>1, <2>1, <2>3
    <3>2. p[2] \in 1 .. n /\ p[2] + 1 \in 1 .. n
      BY <1>1, <3>1
    <3> QED BY <2>1, <2>2, <2>3, <3>1, <3>2
  <2>4. CASE p[1] # t
    BY <2>1, <2>2, <2>4
  <2> QED BY <2>3, <2>4
<1> HIDE DEF f
<1>3. ASSUME NEW p \in P
      PROVE  /\ f[p] \in Positions(s) \ {<<t, i>>}
             /\ SameEvent(EventAt(r, p), EventAt(s, f[p]))
  <2>1. CASE /\ p[1] = t /\ p[2] \in 1 .. n - 1 /\ p[2] < i /\ p[2] \in 1 .. n
             /\ f[p] = p /\ p = <<t, p[2]>>
    <3>1. /\ f[p] \in Positions(s) /\ p[2] # i
          /\ EventAt(s, f[p]) = s.tracks[t].events[p[2]]
      BY <2>1, PositionPair
    <3>2. EventAt(r, p) = r.tracks[t].events[p[2]]
      BY <2>1 DEF EventAt
    <3>3. SameEvent(r.tracks[t].events[p[2]], s.tracks[t].events[p[2]])
      BY <1>1, <2>1
    <3> QED BY <2>1, <3>1, <3>2, <3>3
  <2>2. CASE /\ p[1] = t /\ p[2] \in 1 .. n - 1 /\ ~ (p[2] < i) /\ p[2] + 1 \in 1 .. n
             /\ f[p] = <<t, p[2] + 1>> /\ p = <<t, p[2]>>
    <3>1. /\ f[p] \in Positions(s) /\ p[2] + 1 # i
          /\ EventAt(s, f[p]) = s.tracks[t].events[p[2] + 1]
      <4>1. p[2] + 1 # i
        BY <1>1, <2>2
      <4> DEFINE k == p[2] + 1
      <4>2. k \in 1 .. Len(s.tracks[t].events) /\ f[p] = <<t, k>>
        BY <2>2
      <4> HIDE DEF k
      <4>3. <<t, k>> \in Positions(s) /\ EventAt(s, <<t, k>>) = s.tracks[t].events[k]
        BY <4>2, PositionPair
      <4> QED BY <4>1, <4>2, <4>3 DEF k
    <3>2. EventAt(r, p) = r.tracks[t].events[p[2]]
      BY <2>2 DEF EventAt
    <3>3. SameEvent(r.tracks[t].events[p[2]], s.tracks[t].events[p[2] + 1])
      BY <1>1, <2>2
    <3> QED BY <2>2, <3>1, <3>2, <3>3
  <2>3. CASE /\ p[1] # t /\ p[1] \in 1 .. Len(s.tracks)
             /\ p[2] \in 1 .. Len(s.tracks[p[1]].events)
             /\ f[p] = p /\ p = <<p[1], p[2]>>
    <3>1. p \in Positions(s) /\ EventAt(s, p) = s.tracks[p[1]].events[p[2]]
      BY <2>3, PositionPair
    <3>2. EventAt(r, p) = s.tracks[p[1]].events[p[2]]
      BY <2>3 DEF EventAt
    <3> QED BY <2>3, <3>1, <3>2 DEF SameEvent
  <2> QED BY <1>2, <2>1, <2>2, <2>3
<1>4. ASSUME NEW p \in P, NEW q \in P, f[p] = f[q] PROVE p = q
  <2> DEFINE a == p[2]
             b == q[2]
  <2>1. (p[1] = t) <=> (q[1] = t)
    BY <1>2, <1>4
  <2>2. CASE p[1] # t
    BY <1>2, <1>4, <2>1, <2>2
  <2>3. CASE p[1] = t
    <3>1. /\ a \in 1 .. n - 1 /\ b \in 1 .. n - 1 /\ p = <<t, a>> /\ q = <<t, b>>
          /\ f[p] = IF a < i THEN <<t, a>> ELSE <<t, a + 1>>
          /\ f[q] = IF b < i THEN <<t, b>> ELSE <<t, b + 1>>
      BY <1>2, <2>1, <2>3
    <3> HIDE DEF a, b
    <3>2. (IF a < i THEN a ELSE a + 1) = (IF b < i THEN b ELSE b + 1)
      BY <1>4, <3>1
    <3>3. a \in Int /\ b \in Int /\ i \in Int
      BY <1>1, <3>1
    <3>4. a = b
      BY <3>2, <3>3
    <3> QED BY <3>1, <3>4
  <2> QED BY <2>2, <2>3
<1>5. ASSUME NEW q \in Positions(s) \ {<<t, i>>} PROVE \E p \in P : f[p] = q
  <2>1. q[1] \in 1 .. Len(s.tracks) /\ q[2] \in 1 .. Len(s.tracks[q[1]].events)
        /\ q = <<q[1], q[2]>>
    BY PositionOf
  <2>2. CASE q[1] # t
    <3>1. q \in P
      <4>1. q[2] \in 1 .. Len(r.tracks[q[1]].events)
        BY <2>1, <2>2
      <4> QED BY <2>1, <4>1, PositionPair, SMTT(30)
    <3>2. f[q] = q
      BY <2>2, <3>1 DEF f
    <3> QED BY <3>1, <3>2
  <2>3. CASE q[1] = t /\ q[2] < i
    <3>1. q[2] \in 1 .. n - 1
      BY <1>1, <2>1, <2>3
    <3>2. q \in P
      <4>1. q[2] \in 1 .. Len(r.tracks[t].events)
        BY <1>1, <3>1
      <4> QED BY <2>1, <2>3, <4>1, PositionPair, SMTT(30)
    <3>3. f[q] = q
      BY <2>3, <3>2 DEF f
    <3> QED BY <3>2, <3>3
  <2>4. CASE q[1] = t /\ ~ (q[2] < i)
    <3> DEFINE k == q[2] - 1
               p == <<t, k>>
    <3>1. q[2] \in 1 .. n /\ q[2] # i /\ i \in 1 .. n
      BY <1>1, <2>1, <2>4
    <3>2. k \in 1 .. n - 1 /\ ~ (k < i) /\ k + 1 = q[2]
      BY <1>1, <2>4, <3>1, SMTT(30)
    <3> HIDE DEF k
    <3>3. p \in P
      <4>1. k \in 1 .. Len(r.tracks[t].events)
        BY <1>1, <3>2
      <4> QED BY <4>1, PositionPair
    <3>4. p[1] = t /\ p[2] = k
      OBVIOUS
    <3>5. f[p] = <<t, k + 1>>
      <4> HIDE DEF p
      <4> QED BY <3>2, <3>3, <3>4 DEF f
    <3>6. f[p] = q
      BY <2>1, <2>4, <3>2, <3>5
    <3> QED BY <3>3, <3>6
  <2> QED BY <2>2, <2>3, <2>4
<1>6. Embeds(f, r, s, {<<t, i>>})
  BY <1>3, <1>4, <1>5 DEF Embeds, SameEvent
<1> QED BY <1>6 DEF Part

LEMMA IdPart ==
  ASSUME NEW r, NEW s, Positions(r) = Positions(s),
         \A p \in Positions(s) : SameEvent(EventAt(r, p), EventAt(s, p))
  PROVE  Part(r, s, {})
<1> DEFINE f == [p \in Positions(r) |-> p]
<1>1. \A p \in Positions(r) : f[p] = p
  OBVIOUS
<1> HIDE DEF f
<1>2. Embeds(f, r, s, {})
  BY <1>1 DEF Embeds, SameEvent
<1> QED BY <1>2 DEF Part

LEMMA TakenPart ==
  ASSUME NEW s, SongOK(s), NEW t \in 1 .. Len(s.tracks),
         NEW i \in 1 .. Len(s.tracks[t].events)
  PROVE  Part(Taken(s, t, i), s, {<<t, i>>})
<1> DEFINE r == Taken(s, t, i)
           events == s.tracks[t].events
           left == Left(s, t, i)
<1>1. /\ SongOK(r) /\ Len(r.tracks) = Len(s.tracks) /\ r.tracks[t].events = left
      /\ \A u \in 1 .. Len(s.tracks) : u # t => r.tracks[u] = s.tracks[u]
  BY TakenOK
<1>2. events \in Seq(Events) /\ EventsOK(events, t) /\ i \in 1 .. Len(events)
      /\ Len(events) \in Nat
  BY TrackIn DEF SongOK, TrackOK
<1>3. /\ Len(left) = Len(events) - 1
      /\ \A j \in 1 .. Len(events) - 1 :
           SameEvent(left[j], events[IF j < i THEN j ELSE j + 1])
  <2> HIDE DEF events
  <2> QED BY <1>2, WithoutOneOK DEF Left, SameEvent, events
<1> HIDE DEF r, left
<1>4. \A j \in 1 .. Len(r.tracks[t].events) :
        SameEvent(r.tracks[t].events[j], s.tracks[t].events[IF j < i THEN j ELSE j + 1])
  BY <1>1, <1>3
<1>5. Part(r, s, {<<t, i>>})
  BY <1>1, <1>3, <1>4, ShiftPart DEF SongOK
<1> QED BY <1>5 DEF r

IsNew(e, kind, time, secs) == e.kind = kind /\ e.time = time /\ e.secs = secs

LEMMA PlacedNew ==
  ASSUME NEW events \in Seq(Events), NEW t \in Nat, EventsOK(events, t),
         NEW kind \in Kinds, NEW time \in Nat, NEW secs \in Nat
  PROVE  IsNew(Placed(events, NewEvent(kind, time, secs, t))[PlaceAt(events, time)],
               kind, time, secs)
<1> DEFINE all == Placed(events, NewEvent(kind, time, secs, t))
           i == PlaceAt(events, time)
<1>1. all[i].kind = kind /\ all[i].time = time /\ all[i].secs = secs
  <2>1. CASE AtEnd(events, time)
    <3>1. i = Len(events) + 1
      BY <2>1 DEF PlaceAt
    <3> QED BY <2>1, <3>1, PlacedAtEnd
  <2>2. CASE ~ AtEnd(events, time)
    BY <2>2, PlacedBefore
  <2> QED BY <2>1, <2>2
<1> HIDE DEF all, i
<1>2. IsNew(all[i], kind, time, secs)
  BY <1>1 DEF IsNew
<1> QED BY <1>2 DEF all, i

LEMMA PlacedSame ==
  ASSUME NEW events \in Seq(Events), NEW t \in Nat, EventsOK(events, t),
         NEW kind \in Kinds, NEW time \in Nat, NEW secs \in Nat
  PROVE  LET all == Placed(events, NewEvent(kind, time, secs, t))
             n == Len(events)
             i == PlaceAt(events, time)
         IN /\ Len(all) = n + 1 /\ i \in 1 .. n + 1
            /\ all[i].kind = kind /\ all[i].time = time /\ all[i].secs = secs
            /\ \A j \in 1 .. n + 1 :
                 j # i => SameEvent(all[j], events[IF j < i THEN j ELSE j - 1])
<1> DEFINE all == Placed(events, NewEvent(kind, time, secs, t))
           n == Len(events)
           i == PlaceAt(events, time)
           k(j) == IF j < i THEN j ELSE j - 1
<1>1. /\ Len(all) = n + 1 /\ i \in 1 .. n + 1
      /\ all[i].kind = kind /\ all[i].time = time /\ all[i].secs = secs
  <2>1. Len(all) = n + 1
    BY PlacedOK
  <2>2. i \in 1 .. n + 1
    BY PlacedOK
  <2>3. IsNew(all[i], kind, time, secs)
    BY PlacedNew
  <2> QED BY <2>1, <2>2, <2>3 DEF IsNew
<1>2. ASSUME NEW j \in 1 .. n + 1, j # i
      PROVE  /\ all[j].kind = events[k(j)].kind
             /\ all[j].time = events[k(j)].time
             /\ all[j].secs = events[k(j)].secs
  <2>1. all[j].kind = events[k(j)].kind
    BY <1>2, PlacedOK
  <2>2. all[j].time = events[k(j)].time
    BY <1>2, PlacedOK
  <2>3. all[j].secs = events[k(j)].secs
    BY <1>2, PlacedOK
  <2> QED BY <2>1, <2>2, <2>3
<1> HIDE DEF all, n, i
<1>3. \A j \in 1 .. n + 1 : j # i => SameEvent(all[j], events[IF j < i THEN j ELSE j - 1])
  BY <1>2 DEF SameEvent
<1> QED BY <1>1, <1>3 DEF all, n, i

\* The song full is base with a new event.
OneMore(base, full, kind, time, secs) ==
  \E x \in Positions(full) :
    Part(base, full, {x}) /\ IsNew(EventAt(full, x), kind, time, secs)

LEMMA FullPart ==
  ASSUME NEW base, SongOK(base), NEW t \in 1 .. Len(base.tracks),
         NEW kind \in Kinds, NEW time \in Nat, NEW secs \in Nat
  PROVE  OneMore(base, Full(base, t, kind, time, secs), kind, time, secs)
<1> DEFINE full == Full(base, t, kind, time, secs)
           events == base.tracks[t].events
           all == Placed(events, NewEvent(kind, time, secs, t))
           i == PlaceAt(events, time)
           n == Len(events)
<1>1. /\ SongOK(full) /\ Len(full.tracks) = Len(base.tracks) /\ full.tracks[t].events = all
      /\ \A u \in 1 .. Len(base.tracks) : u # t => full.tracks[u] = base.tracks[u]
  BY FullOK
<1>2. events \in Seq(Events) /\ EventsOK(events, t) /\ n \in Nat /\ t \in Nat
  BY TrackIn, SongIn DEF SongOK, TrackOK
<1> HIDE DEF events
<1>3. /\ Len(all) = n + 1 /\ i \in 1 .. n + 1
      /\ all[i].kind = kind /\ all[i].time = time /\ all[i].secs = secs
      /\ \A j \in 1 .. n + 1 : j # i => SameEvent(all[j], events[IF j < i THEN j ELSE j - 1])
  BY <1>2, PlacedSame
<1> HIDE DEF full, all, i, n
<1>4. ASSUME NEW j \in 1 .. n
      PROVE  SameEvent(events[j], all[IF j < i THEN j ELSE j + 1])
  <2> DEFINE k == IF j < i THEN j ELSE j + 1
  <2>1. /\ k \in 1 .. n + 1 /\ k # i /\ (k < i <=> j < i)
        /\ j = IF k < i THEN k ELSE k - 1
    BY <1>2, <1>3
  <2> HIDE DEF k
  <2>2. SameEvent(all[k], events[j])
    BY <1>3, <2>1
  <2> QED BY <2>2 DEF SameEvent, k
<1>5. Len(base.tracks[t].events) = Len(full.tracks[t].events) - 1
  BY <1>1, <1>2, <1>3 DEF n, events
<1>6. i \in 1 .. Len(full.tracks[t].events)
  BY <1>1, <1>3
<1>7. \A j \in 1 .. Len(base.tracks[t].events) :
        SameEvent(base.tracks[t].events[j], full.tracks[t].events[IF j < i THEN j ELSE j + 1])
  BY <1>1, <1>4 DEF n, events
<1>8. Part(base, full, {<<t, i>>})
  BY <1>1, <1>5, <1>6, <1>7, ShiftPart DEF SongOK
<1>9. <<t, i>> \in Positions(full) /\ EventAt(full, <<t, i>>) = all[i]
  BY <1>1, <1>6, PositionPair, SMTT(30)
<1>10. OneMore(base, full, kind, time, secs)
  BY <1>3, <1>8, <1>9 DEF OneMore, IsNew
<1> QED BY <1>10 DEF full

LEMMA WithoutTrackPart ==
  ASSUME NEW s, SongOK(s), NEW t \in 1 .. Len(s.tracks), s.tracks[t].events = <<>>
  PROVE  Part(WithoutTrack(s, t), s, {})
<1> DEFINE r == WithoutTrack(s, t)
           n == Len(s.tracks)
           P == Positions(r)
           f == [p \in P |-> IF p[1] < t THEN p ELSE <<p[1] + 1, p[2]>>]
<1>1. /\ Len(r.tracks) = n - 1 /\ n \in Nat /\ t \in 1 .. n
      /\ \A u \in 1 .. n - 1 :
           r.tracks[u] = IF u < t THEN s.tracks[u] ELSE MovedTrack(s.tracks[u + 1], u)
  BY WithoutTrackOK, SongIn DEF SongOK
<1> HIDE DEF r, n
<1>2. ASSUME NEW u \in 1 .. n - 1
      PROVE  LET v == IF u < t THEN u ELSE u + 1
             IN /\ v \in 1 .. n /\ v # t
                /\ Len(r.tracks[u].events) = Len(s.tracks[v].events)
                /\ \A i \in 1 .. Len(s.tracks[v].events) :
                     SameEvent(r.tracks[u].events[i], s.tracks[v].events[i])
  <2> DEFINE v == IF u < t THEN u ELSE u + 1
  <2>1. v \in 1 .. n /\ v # t /\ u \in Nat
    BY <1>1
  <2>2. CASE u < t
    BY <1>1, <2>1, <2>2 DEF SameEvent
  <2>3. CASE ~ (u < t)
    <3>1. v = u + 1 /\ r.tracks[u] = MovedTrack(s.tracks[v], u)
      BY <1>1, <2>3
    <3> HIDE DEF v
    <3> DEFINE track == s.tracks[v]
    <3>2. track \in Track /\ TrackOK(track, v)
      BY <2>1, TrackIn DEF SongOK, n
    <3> HIDE DEF track
    <3>3. /\ Len(MovedTrack(track, u).events) = Len(track.events)
          /\ \A i \in 1 .. Len(track.events) :
               SameEvent(MovedTrack(track, u).events[i], track.events[i])
      BY <2>1, <3>2, MovedOK DEF MovedTrack, SameEvent
    <3> QED BY <2>1, <3>1, <3>3 DEF track, v
  <2> QED BY <2>2, <2>3
<1>3. ASSUME NEW p \in P
      PROVE  /\ p[1] \in 1 .. n - 1 /\ p[2] \in 1 .. Len(r.tracks[p[1]].events)
             /\ p = <<p[1], p[2]>>
             /\ f[p] = <<IF p[1] < t THEN p[1] ELSE p[1] + 1, p[2]>>
  <2>1. /\ p[1] \in 1 .. n - 1 /\ p[2] \in 1 .. Len(r.tracks[p[1]].events)
        /\ p = <<p[1], p[2]>>
    BY <1>1, PositionOf
  <2> QED BY <2>1
<1>4. ASSUME NEW p \in P
      PROVE  f[p] \in Positions(s) /\ SameEvent(EventAt(r, p), EventAt(s, f[p]))
  <2> DEFINE u == p[1]
             i == p[2]
             v == IF u < t THEN u ELSE u + 1
  <2>1. u \in 1 .. n - 1 /\ i \in 1 .. Len(r.tracks[u].events) /\ f[p] = <<v, i>>
    BY <1>3
  <2>2. /\ v \in 1 .. n /\ i \in 1 .. Len(s.tracks[v].events)
        /\ SameEvent(r.tracks[u].events[i], s.tracks[v].events[i])
    BY <1>2, <2>1
  <2>3. EventAt(r, p) = r.tracks[u].events[i]
    BY DEF EventAt
  <2> HIDE DEF u, i, v, f
  <2>4. <<v, i>> \in Positions(s) /\ EventAt(s, <<v, i>>) = s.tracks[v].events[i]
    BY <2>2, PositionPair DEF n
  <2> QED BY <2>1, <2>2, <2>3, <2>4
<1>5. ASSUME NEW p \in P, NEW q \in P, f[p] = f[q] PROVE p = q
  <2> DEFINE a == p[1]
             b == q[1]
  <2> HIDE DEF f
  <2>1. /\ a \in Int /\ b \in Int /\ p = <<a, p[2]>> /\ q = <<b, q[2]>>
        /\ f[p] = <<IF a < t THEN a ELSE a + 1, p[2]>>
        /\ f[q] = <<IF b < t THEN b ELSE b + 1, q[2]>>
    <3>1. a \in 1 .. n - 1 /\ p = <<a, p[2]>> /\ f[p] = <<IF a < t THEN a ELSE a + 1, p[2]>>
      BY <1>3
    <3>2. b \in 1 .. n - 1 /\ q = <<b, q[2]>> /\ f[q] = <<IF b < t THEN b ELSE b + 1, q[2]>>
      BY <1>3
    <3> HIDE DEF a, b
    <3>3. a \in Int /\ b \in Int
      BY <1>1, <3>1, <3>2
    <3> QED BY <3>1, <3>2, <3>3
  <2> DEFINE c == IF a < t THEN a ELSE a + 1
             d == IF b < t THEN b ELSE b + 1
  <2> HIDE DEF a, b, c, d
  <2>2. c = d /\ p[2] = q[2]
    <3>1. <<c, p[2]>> = <<d, q[2]>>
      BY <1>5, <2>1 DEF c, d
    <3> QED BY <3>1
  <2>3. a = b
    BY <1>1, <2>1, <2>2 DEF c, d
  <2> QED BY <2>1, <2>2, <2>3
<1>6. ASSUME NEW q \in Positions(s) PROVE \E p \in P : f[p] = q
  <2> DEFINE v == q[1]
             i == q[2]
             u == IF v < t THEN v ELSE v - 1
             p == <<u, i>>
  <2>1. v \in 1 .. n /\ i \in 1 .. Len(s.tracks[v].events) /\ q = <<v, i>>
    BY PositionOf DEF n
  <2>2. v # t
    BY <2>1
  <2>3. u \in 1 .. n - 1 /\ v = IF u < t THEN u ELSE u + 1
    BY <1>1, <2>1, <2>2
  <2> HIDE DEF u
  <2>4. i \in 1 .. Len(r.tracks[u].events)
    BY <1>2, <2>1, <2>3
  <2>5. p \in P /\ p[1] = u /\ p[2] = i
    BY <1>1, <2>3, <2>4, PositionPair
  <2> HIDE DEF p, f, v, i
  <2>6. f[p] = <<IF u < t THEN u ELSE u + 1, i>>
    BY <1>3, <2>5
  <2> QED BY <2>1, <2>3, <2>5, <2>6
<1> HIDE DEF f
<1>7. Embeds(f, r, s, {})
  BY <1>4, <1>5, <1>6 DEF Embeds, SameEvent
<1> QED BY <1>7 DEF Part, r

LEMMA NewTrackPart ==
  ASSUME NEW s, SongOK(s)
  PROVE  Part(WithNewTrack(s), s, {})
<1> DEFINE r == WithNewTrack(s)
           n == Len(s.tracks)
<1>1. /\ Len(r.tracks) = n + 1 /\ n \in Nat /\ r.tracks[n + 1].events = <<>>
      /\ \A u \in 1 .. n : r.tracks[u] = s.tracks[u]
  <2>1. n \in Nat
    BY SongIn DEF SongOK
  <2>2. /\ Len(r.tracks) = n + 1 /\ r.tracks[n + 1] = EmptyTrack(n + 1)
        /\ \A u \in 1 .. n : r.tracks[u] = s.tracks[u]
    BY NewTrackOK
  <2>3. EmptyTrack(n + 1).events = <<>>
    BY DEF EmptyTrack
  <2> QED BY <2>1, <2>2, <2>3
<1> HIDE DEF r
<1>2. ASSUME NEW p PROVE p \in Positions(r) <=> p \in Positions(s)
  <2>1. ASSUME p \in Positions(r) PROVE p \in Positions(s)
    <3>1. p[1] \in 1 .. n + 1 /\ p[2] \in 1 .. Len(r.tracks[p[1]].events) /\ p = <<p[1], p[2]>>
      BY <1>1, <2>1, PositionOf
    <3>2. p[1] # n + 1
      BY <1>1, <3>1
    <3>3. p[1] \in 1 .. n
      BY <1>1, <3>1, <3>2
    <3> QED BY <1>1, <3>1, <3>3, PositionPair
  <2>2. ASSUME p \in Positions(s) PROVE p \in Positions(r)
    <3>1. p[1] \in 1 .. n /\ p[2] \in 1 .. Len(s.tracks[p[1]].events) /\ p = <<p[1], p[2]>>
      BY <2>2, PositionOf
    <3>2. p[1] \in 1 .. n + 1
      BY <1>1, <3>1
    <3> QED BY <1>1, <3>1, <3>2, PositionPair
  <2> QED BY <2>1, <2>2
<1>3. \A p \in Positions(s) : EventAt(r, p) = EventAt(s, p)
  BY <1>1, PositionOf DEF EventAt
<1>4. Part(r, s, {})
  BY <1>2, <1>3, IdPart DEF SameEvent
<1> QED BY <1>4 DEF r

LEMMA SameEventsPart ==
  ASSUME NEW s, NEW r, SameEvents(s, r)
  PROVE  Part(r, s, {})
  BY SameEventsIs, IdPart DEF SameEvent

LEMMA PartTracks ==
  ASSUME NEW a, NEW b, NEW s, NEW X, a.tracks = b.tracks
  PROVE  /\ Part(a, s, X) <=> Part(b, s, X)
         /\ Part(s, a, X) <=> Part(s, b, X)
         /\ Positions(a) = Positions(b)
         /\ \A p : EventAt(a, p) = EventAt(b, p)
<1>1. Positions(a) = Positions(b)
  BY DEF Positions
<1>2. \A p : EventAt(a, p) = EventAt(b, p)
  BY DEF EventAt
<1>3. \A f : Embeds(f, a, s, X) <=> Embeds(f, b, s, X)
  BY <1>1, <1>2 DEF Embeds
<1>4. \A f : Embeds(f, s, a, X) <=> Embeds(f, s, b, X)
  BY <1>1, <1>2 DEF Embeds
<1> QED BY <1>1, <1>2, <1>3, <1>4 DEF Part

\* smf_event_is_last.
LEMMA LastIs ==
  ASSUME NEW s, SongOK(s), NEW time \in Nat, IsLast(s, time), NEW p \in Positions(s)
  PROVE  EventAt(s, p).time <= time
<1> DEFINE events == s.tracks[p[1]].events
           n == Len(events)
<1>1. /\ p[1] \in 1 .. Len(s.tracks) /\ p[2] \in 1 .. n
  BY PositionOf
<1>2. /\ s.tracks[p[1]] \in Track /\ events \in Seq(Events) /\ n \in Nat
      /\ EventsOK(events, p[1])
  BY <1>1, TrackIn DEF SongOK, TrackOK
<1>3. n \in 1 .. n /\ events # <<>> /\ p[2] <= n
  BY <1>1, <1>2
<1>4. LastPulses(s.tracks[p[1]]) = events[n].time /\ LastPulses(s.tracks[p[1]]) <= time
  BY <1>1, <1>2, <1>3, LastPulsesIs DEF IsLast
<1>5. events[p[2]].time <= events[n].time
  <2> HIDE DEF events
  <2> QED BY <1>1, <1>2, <1>3, Sorted
<1>6. events[p[2]].time \in Nat /\ events[n].time \in Nat
  BY <1>1, <1>2, <1>3, EventsAt
<1>7. EventAt(s, p).time = events[p[2]].time
  BY DEF EventAt
<1> HIDE DEF events, n
<1> QED BY <1>4, <1>5, <1>6, <1>7

-------------------------------------------------------------------------------
(***************************************************************************)
(* The seconds of a song are right: its tempo map is the one of its        *)
(* changes and every event has the seconds that are due.                   *)
(***************************************************************************)
MapOK(s) == IF s.tempos = <<>> THEN Changes(s) = {} ELSE MapFor(s.tempos, Changes(s))

SongRight(s) == SongOK(s) /\ Single(s) /\ MapOK(s) /\ SecondsOK(s)

LEMMA DueEqual ==
  ASSUME NEW r \in Songs, NEW s \in Songs, Single(r), Changes(r) = Changes(s), NEW n \in Nat
  PROVE  Due(r, n) = Due(s, n)
  BY DueSame

LEMMA RightSame ==
  ASSUME NEW r, NEW s, NEW X, SongRight(s), SongOK(r), Part(r, s, X),
         \A x \in X : ~ IsChange(s, x), r.tempos = s.tempos
  PROVE  SongRight(r) /\ Changes(r) = Changes(s)
<1>1. r \in Songs /\ s \in Songs /\ Single(s) /\ MapOK(s) /\ SecondsOK(s)
  BY DEF SongRight, SongOK
<1>2. Changes(r) = Changes(s) /\ Single(r)
  BY <1>1, PartSame, PartSingle
<1>3. MapOK(r)
  BY <1>1, <1>2 DEF MapOK
<1>4. \A p \in Positions(r) : Due(r, EventAt(r, p).time) = Due(s, EventAt(r, p).time)
  BY <1>1, <1>2, DueEqual, EventIn
<1>5. SecondsOK(r)
  BY <1>1, <1>4, SecondsDown
<1> QED BY <1>2, <1>3, <1>5 DEF SongRight

LEMMA RebuiltRight ==
  ASSUME NEW s, SongOK(s), Single(s)
  PROVE  SongRight(Rebuilt(s)) /\ Changes(Rebuilt(s)) = Changes(s)
<1> DEFINE r == Rebuilt(s)
           map == TempoMap(s)
<1>1. s \in Songs
  BY DEF SongOK
<1>2. /\ SongOK(r) /\ r \in Songs /\ r.tempos = map /\ Len(r.tracks) = Len(s.tracks)
      /\ \A t \in 1 .. Len(s.tracks) : r.tracks[t] = TimedTrack(s.tracks[t], map)
  BY RebuiltOK DEF SongOK
<1>3. map \in Tempos /\ map # <<>> /\ MapFor(map, Changes(s))
  BY <1>1, TempoMapRight
<1> HIDE DEF r, map
<1>4. ASSUME NEW t \in 1 .. Len(s.tracks)
      PROVE  /\ Len(r.tracks[t].events) = Len(s.tracks[t].events)
             /\ \A i \in 1 .. Len(s.tracks[t].events) :
                  LET e == s.tracks[t].events[i]
                      d == r.tracks[t].events[i]
                  IN d.kind = e.kind /\ d.time = e.time /\ d.secs = SecondsAt(map, e.time)
  <2> DEFINE track == s.tracks[t]
  <2>1. track \in Track /\ track.events \in Seq(Events) /\ TrackOK(track, t)
    BY <1>1, TrackIn DEF SongOK
  <2> HIDE DEF track
  <2>2. TimedTrack(track, map).events = TimedEvents(track.events, map)
    BY <1>3, <2>1, TimedTrackOK
  <2>3. r.tracks[t].events = TimedEvents(track.events, map)
    BY <1>2, <2>2 DEF track
  <2>4. /\ Len(TimedEvents(track.events, map)) = Len(track.events)
        /\ \A i \in 1 .. Len(track.events) :
             LET e == track.events[i]
                 d == TimedEvents(track.events, map)[i]
             IN d.kind = e.kind /\ d.time = e.time /\ d.secs = SecondsAt(map, e.time)
    BY <1>3, <2>1, TimedEventsOK
  <2> QED BY <2>3, <2>4 DEF track
<1>5. ASSUME NEW p PROVE p \in Positions(r) <=> p \in Positions(s)
  <2>1. ASSUME p \in Positions(r) PROVE p \in Positions(s)
    <3>1. p[1] \in 1 .. Len(s.tracks) /\ p[2] \in 1 .. Len(r.tracks[p[1]].events)
          /\ p = <<p[1], p[2]>>
      BY <1>2, <2>1, PositionOf
    <3>2. p[2] \in 1 .. Len(s.tracks[p[1]].events)
      BY <1>4, <3>1
    <3> QED BY <3>1, <3>2, PositionPair
  <2>2. ASSUME p \in Positions(s) PROVE p \in Positions(r)
    <3>1. p[1] \in 1 .. Len(s.tracks) /\ p[2] \in 1 .. Len(s.tracks[p[1]].events)
          /\ p = <<p[1], p[2]>>
      BY <2>2, PositionOf
    <3>2. p[1] \in 1 .. Len(r.tracks) /\ p[2] \in 1 .. Len(r.tracks[p[1]].events)
      BY <1>2, <1>4, <3>1
    <3> QED BY <3>1, <3>2, PositionPair
  <2> QED BY <2>1, <2>2
<1>6. ASSUME NEW p \in Positions(s)
      PROVE  /\ EventAt(r, p).kind = EventAt(s, p).kind
             /\ EventAt(r, p).time = EventAt(s, p).time
             /\ EventAt(r, p).secs = SecondsAt(map, EventAt(s, p).time)
  <2>1. p[1] \in 1 .. Len(s.tracks) /\ p[2] \in 1 .. Len(s.tracks[p[1]].events)
    BY PositionOf
  <2> QED BY <1>4, <2>1 DEF EventAt
<1>7. Positions(r) = Positions(s)
  BY <1>5
<1>8. \A p \in Positions(s) : (IsChange(r, p) <=> IsChange(s, p)) /\ Change(r, p) = Change(s, p)
  BY <1>6 DEF IsChange, Change
<1>9. Changes(r) = Changes(s)
  <2>1. \A c : c \in Changes(r) <=> c \in Changes(s)
    BY <1>7, <1>8 DEF Changes
  <2> QED BY <2>1
<1>10. Single(r)
  BY <1>6, <1>7, <1>8 DEF Single
<1>11. MapOK(r)
  BY <1>2, <1>3, <1>9 DEF MapOK
<1>12. SecondsOK(r)
  <2> SUFFICES ASSUME NEW p \in Positions(r)
               PROVE  EventAt(r, p).secs \in Due(r, EventAt(r, p).time)
                                               .. Due(r, EventAt(r, p).time) + Slack
    BY DEF SecondsOK
  <2> DEFINE n == EventAt(r, p).time
             d == Due(r, n)
  <2>1. n \in Nat /\ EventAt(r, p).secs = SecondsAt(map, n)
    BY <1>2, <1>6, <1>7, EventIn
  <2>2. SecondsAt(map, n) = d
    <3> HIDE DEF n
    <3> QED BY <1>2, <1>3, <1>9, <1>10, <2>1, SecondsDue
  <2>3. d \in Nat
    BY <1>2, <2>1, DueNat
  <2> HIDE DEF n, d
  <2>4. d \in d .. d + Slack
    BY <2>3, SongAssumption
  <2> QED BY <2>1, <2>2, <2>4 DEF n, d
<1> QED BY <1>2, <1>9, <1>10, <1>11, <1>12 DEF SongRight, r

\* smf_event_remove_from_track.
LEMMA RemovedRight ==
  ASSUME NEW s, SongRight(s), NEW t \in 1 .. Len(s.tracks),
         NEW i \in 1 .. Len(s.tracks[t].events)
  PROVE  SongRight(Removed(s, t, i))
<1> DEFINE r == Taken(s, t, i)
           x == <<t, i>>
           e == s.tracks[t].events[i]
           at == e.time
<1>1. SongOK(s) /\ s \in Songs /\ Single(s) /\ MapOK(s) /\ SecondsOK(s) /\ s.tempos \in Tempos
  BY SongIn DEF SongRight, SongOK
<1>2. SongOK(r) /\ r \in Songs /\ r.tempos = s.tempos
  BY <1>1, TakenOK DEF SongOK
<1>3. Part(r, s, {x})
  BY <1>1, TakenPart
<1>4. x \in Positions(s) /\ EventAt(s, x) = e
  BY PositionPair
<1>5. at \in Nat
  BY <1>1, <1>4, EventIn
<1>6. CASE e.kind \notin Rates
  <2>1. Removed(s, t, i) = r
    BY <1>1, <1>6, TakenIs
  <2>2. \A y \in {x} : ~ IsChange(s, y)
    BY <1>4, <1>6 DEF IsChange
  <2>3. SongRight(r)
    <3> HIDE DEF r, x
    <3> QED BY <1>2, <1>3, <2>2, RightSame
  <2> QED BY <2>1, <2>3
<1>7. CASE e.kind \in Rates /\ ~ IsLast(s, at)
  <2>1. Removed(s, t, i) = Rebuilt(r)
    BY <1>1, <1>7, TakenIs
  <2>2. Single(r)
    <3> HIDE DEF r, x
    <3> QED BY <1>1, <1>3, PartSingle
  <2>3. SongRight(Rebuilt(r))
    <3> HIDE DEF r
    <3> QED BY <1>2, <2>2, RebuiltRight
  <2> QED BY <2>1, <2>3
<1>8. CASE e.kind \in Rates /\ IsLast(s, at)
  <2> DEFINE m == WithoutLastTempo(s.tempos, at)
             w == [r EXCEPT !.tempos = m]
             C == Changes(s)
             D == {c \in C : c[1] # at}
  <2>1. Removed(s, t, i) = w
    <3>1. Removed(s, t, i) = [r EXCEPT !.tempos = WithoutLastTempo(@, at)]
      BY <1>1, <1>8, TakenIs
    <3> QED BY <1>2, <3>1
  <2>2. m \in Tempos
    BY <1>1, <1>5, WithoutLastTempoOK
  <2> HIDE DEF m
  <2>3. SongOK(w) /\ w.tracks = r.tracks /\ w.tempos = m
    <3> HIDE DEF r
    <3> QED BY <1>2, <2>2, WithTemposOK
  <2> HIDE DEF w
  <2>4. Part(w, s, {x}) /\ w \in Songs
    <3> HIDE DEF x, r
    <3> QED BY <1>3, <2>3, PartTracks DEF SongOK
  <2>5. IsChange(s, x)
    BY <1>4, <1>8 DEF IsChange
  <2>6. Changes(w) = D /\ Single(w)
    <3> HIDE DEF x
    <3> QED BY <1>1, <1>4, <2>4, <2>5, PartLess, PartSingle
  <2>7. \A c \in C : c[1] \in Nat /\ c[1] <= at
    <3> SUFFICES ASSUME NEW c \in C PROVE c[1] \in Nat /\ c[1] <= at
      OBVIOUS
    <3>1. PICK p \in Positions(s) : IsChange(s, p) /\ c = Change(s, p)
      BY <1>1, ChangeIs
    <3>2. EventAt(s, p).time <= at
      BY <1>1, <1>5, <1>8, LastIs
    <3>3. EventAt(s, p).time \in Nat
      BY <1>1, EventIn
    <3> QED BY <3>1, <3>2, <3>3 DEF Change
  <2>8. Change(s, x) \in C /\ Change(s, x)[1] = at
    <3> HIDE DEF x
    <3> QED BY <1>1, <1>4, <2>5, ChangeIs DEF Change
  <2>9. s.tempos # <<>> /\ MapFor(s.tempos, C)
    BY <1>1, <2>8 DEF MapOK
  <2>10. MapOK(w)
    <3>1. IF m = <<>> THEN D = {} ELSE MapFor(m, D)
      <4> HIDE DEF C, at
      <4> QED BY <1>1, <1>5, <2>7, <2>8, <2>9, WithoutLastTempoMap DEF m
    <3> QED BY <2>3, <2>6, <3>1 DEF MapOK
  <2>11. \A p \in Positions(w) : EventAt(w, p).time \in Nat /\ EventAt(w, p).time <= at
    <3> SUFFICES ASSUME NEW p \in Positions(w)
                 PROVE  EventAt(w, p).time \in Nat /\ EventAt(w, p).time <= at
      OBVIOUS
    <3>1. PICK f : Embeds(f, w, s, {x})
      BY <2>4 DEF Part
    <3>2. f[p] \in Positions(s) /\ EventAt(w, p).time = EventAt(s, f[p]).time
      BY <3>1 DEF Embeds
    <3>3. EventAt(s, f[p]).time <= at /\ EventAt(s, f[p]).time \in Nat
      BY <1>1, <1>5, <1>8, <3>2, LastIs, EventIn
    <3> QED BY <3>2, <3>3
  <2>12. ASSUME NEW n \in Nat, n <= at PROVE Due(w, n) = Due(s, n)
    <3>1. \A c : c[1] < at => (c \in Changes(w) <=> c \in Changes(s))
      <4>1. \A c : c[1] < at /\ c \in C => c[1] # at
        BY <1>5, <2>7
      <4> QED BY <2>6, <4>1
    <3> HIDE DEF at
    <3> QED BY <1>1, <1>5, <2>4, <2>6, <2>12, <3>1, DueSame
  <2>13. SecondsOK(w)
    <3>1. \A p \in Positions(w) : Due(w, EventAt(w, p).time) = Due(s, EventAt(w, p).time)
      BY <2>11, <2>12
    <3> HIDE DEF x
    <3> QED BY <1>1, <2>4, <3>1, SecondsDown
  <2> QED BY <2>1, <2>3, <2>6, <2>10, <2>13 DEF SongRight
<1> QED BY <1>6, <1>7, <1>8

\* remove_eot_if_before_pulses.
LEMMA WithoutEotRight ==
  ASSUME NEW s, SongRight(s), NEW t \in 1 .. Len(s.tracks), NEW time \in Nat
  PROVE  LET base == WithoutEot(s, t, time)
         IN /\ SongRight(base) /\ Changes(base) = Changes(s)
            /\ base.tempos = s.tempos /\ Len(base.tracks) = Len(s.tracks)
<1> DEFINE base == WithoutEot(s, t, time)
           n == Len(s.tracks[t].events)
           x == <<t, n>>
<1>1. SongOK(s)
  BY DEF SongRight
<1>2. SongOK(base) /\ base.tempos = s.tempos /\ Len(base.tracks) = Len(s.tracks)
  BY <1>1, WithoutEotOK
<1>3. \/ base = s
      \/ base = Taken(s, t, n) /\ n \in 1 .. n /\ Last(s.tracks[t].events).kind = Eot
  BY <1>1, WithoutEotIs
<1> HIDE DEF base
<1>4. CASE base = s
  BY <1>2, <1>4 DEF base
<1>5. CASE base = Taken(s, t, n) /\ n \in 1 .. n /\ Last(s.tracks[t].events).kind = Eot
  <2>1. Part(base, s, {x})
    BY <1>1, <1>5, TakenPart
  <2>2. EventAt(s, x).kind = Eot
    BY <1>5 DEF EventAt, Last
  <2>3. \A y \in {x} : ~ IsChange(s, y)
    BY <2>2, EotNoRate DEF IsChange
  <2> HIDE DEF x
  <2>4. SongRight(base) /\ Changes(base) = Changes(s)
    BY <1>2, <2>1, <2>3, RightSame
  <2> QED BY <1>2, <2>4 DEF base
<1> QED BY <1>3, <1>4, <1>5

\* smf_track_add_event.
LEMMA AddedRight ==
  ASSUME NEW s, SongRight(s), NEW t \in 1 .. Len(s.tracks),
         NEW kind \in Kinds, NEW time \in Nat, NEW secs \in Nat,
         kind \in Rates => s.tempos # <<>> /\ \A c \in Changes(s) : c[1] # time,
         secs \in Due(s, time) .. Due(s, time) + Slack
  PROVE  /\ SongRight(Added(s, t, kind, time, secs))
         /\ kind \notin Rates => Changes(Added(s, t, kind, time, secs)) = Changes(s)
         /\ kind \in Rates =>
              Changes(Added(s, t, kind, time, secs)) = Changes(s) \cup {<<time, kind>>}
<1> DEFINE base == WithoutEot(s, t, time)
           full == Full(base, t, kind, time, secs)
           C == Changes(s)
           D == C \cup {<<time, kind>>}
           r == Added(s, t, kind, time, secs)
<1>1. SongOK(s) /\ s \in Songs /\ s.tempos \in Tempos
  BY SongIn DEF SongRight, SongOK
<1>2. /\ SongRight(base) /\ Changes(base) = C /\ base.tempos = s.tempos
      /\ Len(base.tracks) = Len(s.tracks)
  BY WithoutEotRight
<1>3. r = IF kind \notin Rates THEN full
          ELSE IF IsLast(full, time)
               THEN [full EXCEPT !.tempos = WithTempo(@, time, kind)]
               ELSE Rebuilt(full)
  BY <1>1, AddedIs
<1> HIDE DEF r, base
<1>4. /\ SongOK(base) /\ base \in Songs /\ Single(base) /\ SecondsOK(base) /\ MapOK(base)
      /\ t \in 1 .. Len(base.tracks)
  BY <1>2 DEF SongRight, SongOK
<1>5. SongOK(full) /\ full \in Songs /\ full.tempos = s.tempos
  BY <1>2, <1>4, FullOK DEF SongOK
<1>6. PICK x \in Positions(full) : /\ Part(base, full, {x})
                                   /\ EventAt(full, x).kind = kind
                                   /\ EventAt(full, x).time = time
                                   /\ EventAt(full, x).secs = secs
  <2>1. OneMore(base, full, kind, time, secs)
    BY <1>4, FullPart
  <2> HIDE DEF full
  <2> QED BY <2>1 DEF OneMore, IsNew
<1> HIDE DEF full
<1>7. \A n \in Nat : Due(base, n) = Due(s, n)
  BY <1>1, <1>2, <1>4, DueEqual
<1>8. \A p \in Positions(base) : EventAt(base, p).time \in Nat
  BY <1>4, EventIn
<1>9. CASE kind \notin Rates
  <2>1. \A y \in {x} : ~ IsChange(full, y)
    BY <1>6, <1>9 DEF IsChange
  <2>2. Changes(full) = C /\ Single(full)
    BY <1>2, <1>4, <1>5, <1>6, <2>1, PartSame
  <2>3. MapOK(full)
    BY <1>2, <1>4, <1>5, <2>2 DEF MapOK
  <2>4. \A n \in Nat : Due(base, n) = Due(full, n)
    BY <1>2, <1>4, <1>5, <2>2, DueEqual
  <2>5. EventAt(full, x).secs \in Due(full, EventAt(full, x).time)
                                    .. Due(full, EventAt(full, x).time) + Slack
    BY <1>6, <1>7, <2>4
  <2>6. SecondsOK(full)
    BY <1>4, <1>6, <1>8, <2>4, <2>5, SecondsUp
  <2>7. r = full
    BY <1>3, <1>9
  <2> QED BY <1>5, <1>9, <2>2, <2>3, <2>6, <2>7 DEF SongRight, r
<1>10. CASE kind \in Rates
  <2>1. IsChange(full, x) /\ Change(full, x) = <<time, kind>>
    BY <1>6, <1>10 DEF IsChange, Change
  <2>2. \A c \in Changes(base) : c[1] # EventAt(full, x).time
    BY <1>2, <1>6, <1>10
  <2>3. Changes(full) = D /\ Single(full)
    BY <1>2, <1>4, <1>5, <1>6, <2>1, <2>2, PartMore
  <2>4. CASE ~ IsLast(full, time)
    <3>1. r = Rebuilt(full)
      BY <1>3, <1>10, <2>4
    <3>2. SongRight(r) /\ Changes(r) = D
      BY <1>5, <2>3, <3>1, RebuiltRight
    <3> QED BY <1>10, <3>2 DEF r
  <2>5. CASE IsLast(full, time)
    <3> DEFINE m == WithTempo(s.tempos, time, kind)
    <3>1. r = [full EXCEPT !.tempos = m]
      BY <1>3, <1>5, <1>10, <2>5
    <3>2. kind \in Nat \ {0} /\ s.tempos # <<>>
      BY <1>10, SongAssumption
    <3>3. m \in Tempos /\ m # <<>>
      BY <1>1, <3>2, WithTempoOK
    <3>4. \A c \in C : c[1] < time
      <4> SUFFICES ASSUME NEW c \in C PROVE c[1] < time
        OBVIOUS
      <4>1. c \in Changes(full) /\ c[1] # time
        BY <1>10, <2>3
      <4>2. PICK p \in Positions(full) : IsChange(full, p) /\ c = Change(full, p)
        BY <1>5, <4>1, ChangeIs
      <4>3. c[1] = EventAt(full, p).time /\ EventAt(full, p).time \in Nat
        BY <1>5, <4>2, EventIn DEF Change
      <4>4. EventAt(full, p).time <= time
        BY <1>5, <2>5, LastIs
      <4> QED BY <4>1, <4>3, <4>4
    <3>5. MapFor(s.tempos, C)
      BY <1>2, <1>4, <3>2 DEF MapOK
    <3>6. MapFor(m, D)
      <4> HIDE DEF C
      <4> QED BY <1>1, <3>2, <3>4, <3>5, WithTempoMap
    <3> HIDE DEF m
    <3>7. SongOK(r) /\ r.tracks = full.tracks /\ r.tempos = m
      BY <1>5, <3>1, <3>3, WithTemposOK
    <3>8. r \in Songs
      BY <3>7 DEF SongOK
    <3>9. /\ Part(base, r, {x}) /\ x \in Positions(r)
          /\ EventAt(r, x) = EventAt(full, x)
      BY <1>6, <3>7, PartTracks
    <3>10. Changes(r) = D /\ Single(r)
      <4>1. IsChange(r, x) /\ Change(r, x) = <<time, kind>>
        BY <2>1, <3>9 DEF IsChange, Change
      <4>2. \A c \in Changes(base) : c[1] # EventAt(r, x).time
        BY <2>2, <3>9
      <4> QED BY <1>2, <1>4, <3>8, <3>9, <4>1, <4>2, PartMore
    <3>11. MapOK(r)
      BY <3>3, <3>6, <3>7, <3>10 DEF MapOK
    <3>12. ASSUME NEW n \in Nat, n <= time PROVE Due(base, n) = Due(r, n)
      <4>1. \A c : c[1] < time => (c \in Changes(base) <=> c \in Changes(r))
        BY <1>2, <3>10
      <4> QED BY <1>4, <3>8, <3>12, <4>1, DueSame
    <3>13. ASSUME NEW p \in Positions(base)
           PROVE  EventAt(base, p).time \in Nat /\ EventAt(base, p).time <= time
      <4>1. PICK f : Embeds(f, base, full, {x})
        BY <1>6 DEF Part
      <4>2. f[p] \in Positions(full) /\ EventAt(base, p).time = EventAt(full, f[p]).time
        BY <4>1 DEF Embeds
      <4>3. EventAt(full, f[p]).time <= time
        BY <1>5, <2>5, <4>2, LastIs
      <4> QED BY <1>8, <4>2, <4>3
    <3>14. \A p \in Positions(base) :
             Due(base, EventAt(base, p).time) = Due(r, EventAt(base, p).time)
      BY <3>12, <3>13
    <3>15. EventAt(r, x).secs \in Due(r, EventAt(r, x).time) .. Due(r, EventAt(r, x).time) + Slack
      <4>1. Due(r, time) = Due(s, time)
        BY <1>7, <3>12
      <4> QED BY <1>6, <3>9, <4>1
    <3>16. SecondsOK(r)
      BY <1>4, <3>9, <3>14, <3>15, SecondsUp
    <3> QED BY <1>10, <3>7, <3>10, <3>11, <3>16 DEF SongRight, r
  <2> QED BY <2>4, <2>5
<1> QED BY <1>9, <1>10

\* The seconds that the tempo map gives, and those a caller names.
LEMMA SecondsGiven ==
  ASSUME NEW s, SongRight(s), s.tempos # <<>>, NEW n \in Nat
  PROVE  /\ SecondsAt(s.tempos, n) \in Nat
         /\ SecondsAt(s.tempos, n) \in Due(s, n) .. Due(s, n) + Slack
         /\ PulsesAt(s.tempos, n) \in Nat
         /\ PulsesShort =>
              n \in Due(s, PulsesAt(s.tempos, n)) .. Due(s, PulsesAt(s.tempos, n)) + Slack
<1> DEFINE m == s.tempos
           C == Changes(s)
<1>1. s \in Songs /\ m \in Tempos /\ Single(s) /\ MapFor(m, C)
  BY SongIn DEF SongRight, SongOK, MapOK
<1>2. SecondsAt(m, n) = Due(s, n) /\ Due(s, n) \in Nat /\ Slack \in Nat
  BY <1>1, SecondsDue, DueNat, SongAssumption
<1>3. SecondsAt(m, n) \in Due(s, n) .. Due(s, n) + Slack
  <2> DEFINE d == Due(s, n)
  <2> HIDE DEF d
  <2>1. d \in d .. d + Slack
    BY <1>2 DEF d
  <2> QED BY <1>2, <2>1 DEF d
<1>4. ASSUME PulsesShort PROVE \A k \in 1 .. Len(m) : m[k].rate - 1 <= Slack
  <2> SUFFICES ASSUME NEW k \in 1 .. Len(m) PROVE m[k].rate - 1 <= Slack
    OBVIOUS
  <2>1. <<m[k].at, m[k].rate>> \in C => m[k].rate \in Rates
    <3>1. <<m[k].at, m[k].rate>> \in C => <<m[k].at, m[k].rate>>[2] \in Rates
      BY <1>1, ChangeIs
    <3> QED BY <3>1
  <2>2. m[k].rate \in Rates \cup {DefaultRate}
    BY <1>1, <2>1 DEF MapFor
  <2> QED BY <1>4, <2>2 DEF PulsesShort
<1>5. PulsesAt(m, n) \in Nat
  BY <1>1, PulsesNat
<1>6. ASSUME PulsesShort
      PROVE  n \in SecondsAt(m, PulsesAt(m, n)) .. SecondsAt(m, PulsesAt(m, n)) + Slack
  <2> HIDE DEF m
  <2> QED BY <1>1, <1>4, <1>6, PulsesEarly DEF m, MapFor
<1>7. SecondsAt(m, PulsesAt(m, n)) = Due(s, PulsesAt(m, n))
  BY <1>1, <1>5, SecondsDue
<1> QED BY <1>2, <1>3, <1>5, <1>6, <1>7

-------------------------------------------------------------------------------
(***************************************************************************)
(* An End Of Track event is the last one of its track.                     *)
(***************************************************************************)
EotLast(s) ==
  \A t \in 1 .. Len(s.tracks) : \A i \in 1 .. Len(s.tracks[t].events) :
    s.tracks[t].events[i].kind = Eot => i = Len(s.tracks[t].events)

\* Songs with the same kinds of event at the same pulses.
Alike(r, s) ==
  /\ Len(r.tracks) = Len(s.tracks)
  /\ \A t \in 1 .. Len(s.tracks) :
       /\ Len(r.tracks[t].events) = Len(s.tracks[t].events)
       /\ \A i \in 1 .. Len(s.tracks[t].events) :
            /\ r.tracks[t].events[i].kind = s.tracks[t].events[i].kind
            /\ r.tracks[t].events[i].time = s.tracks[t].events[i].time

LEMMA AlikeEot ==
  ASSUME NEW r, NEW s, Alike(r, s), EotLast(s)
  PROVE  EotLast(r)
<1> SUFFICES ASSUME NEW t \in 1 .. Len(r.tracks), NEW i \in 1 .. Len(r.tracks[t].events),
                    r.tracks[t].events[i].kind = Eot
             PROVE  i = Len(r.tracks[t].events)
  BY DEF EotLast
<1>1. t \in 1 .. Len(s.tracks)
  BY DEF Alike
<1>2. Len(r.tracks[t].events) = Len(s.tracks[t].events)
  BY <1>1 DEF Alike
<1>3. i \in 1 .. Len(s.tracks[t].events)
  BY <1>2
<1>4. s.tracks[t].events[i].kind = Eot
  BY <1>1, <1>3 DEF Alike
<1> QED BY <1>1, <1>2, <1>3, <1>4 DEF EotLast

LEMMA RebuiltAlike ==
  ASSUME NEW s, SongOK(s)
  PROVE  Alike(Rebuilt(s), s)
<1> DEFINE r == Rebuilt(s)
           map == TempoMap(s)
<1>1. /\ Len(r.tracks) = Len(s.tracks)
      /\ \A t \in 1 .. Len(s.tracks) : r.tracks[t] = TimedTrack(s.tracks[t], map)
  BY RebuiltOK
<1>2. map \in Tempos /\ map # <<>>
  BY TempoMapOK DEF SongOK
<1> HIDE DEF r, map
<1>3. ASSUME NEW t \in 1 .. Len(s.tracks)
      PROVE  /\ Len(r.tracks[t].events) = Len(s.tracks[t].events)
             /\ \A i \in 1 .. Len(s.tracks[t].events) :
                  /\ r.tracks[t].events[i].kind = s.tracks[t].events[i].kind
                  /\ r.tracks[t].events[i].time = s.tracks[t].events[i].time
  <2> DEFINE track == s.tracks[t]
  <2>1. track \in Track /\ track.events \in Seq(Events) /\ TrackOK(track, t)
    BY TrackIn DEF SongOK
  <2> HIDE DEF track
  <2>2. TimedTrack(track, map).events = TimedEvents(track.events, map)
    BY <1>2, <2>1, TimedTrackOK
  <2>3. r.tracks[t].events = TimedEvents(track.events, map)
    BY <1>1, <2>2 DEF track
  <2>4. /\ Len(TimedEvents(track.events, map)) = Len(track.events)
        /\ \A i \in 1 .. Len(track.events) :
             /\ TimedEvents(track.events, map)[i].kind = track.events[i].kind
             /\ TimedEvents(track.events, map)[i].time = track.events[i].time
    BY <1>2, <2>1, TimedEventsOK
  <2> QED BY <2>3, <2>4 DEF track
<1> QED BY <1>1, <1>3 DEF Alike, r

LEMMA SelfAlike ==
  ASSUME NEW r, NEW s, Len(r.tracks) = Len(s.tracks),
         \A t \in 1 .. Len(s.tracks) : r.tracks[t].events = s.tracks[t].events
  PROVE  Alike(r, s)
  BY DEF Alike

LEMMA RemovedAlike ==
  ASSUME NEW s, SongOK(s), NEW t \in 1 .. Len(s.tracks),
         NEW i \in 1 .. Len(s.tracks[t].events)
  PROVE  Alike(Removed(s, t, i), Taken(s, t, i))
<1> DEFINE r == Taken(s, t, i)
           at == s.tracks[t].events[i].time
           m == WithoutLastTempo(r.tempos, at)
           w == [r EXCEPT !.tempos = m]
<1>1. Removed(s, t, i) \in {r, w, Rebuilt(r)}
  BY TakenIs
<1>2. SongOK(r)
  BY TakenOK
<1>3. r.tempos \in Tempos /\ at \in Nat
  <2>1. s.tracks[t].events \in Seq(Events)
    BY TrackIn DEF SongOK
  <2>2. at \in Nat
    BY <2>1, EventsAt
  <2> QED BY <1>2, <2>2, SongIn DEF SongOK
<1> HIDE DEF r, at
<1>4. m \in Tempos
  BY <1>3, WithoutLastTempoOK
<1> HIDE DEF m
<1>5. w.tracks = r.tracks
  BY <1>2, <1>4, WithTemposOK
<1> HIDE DEF w
<1>6. Alike(r, r) /\ Alike(w, r) /\ Alike(Rebuilt(r), r)
  BY <1>2, <1>5, SelfAlike, RebuiltAlike
<1> QED BY <1>1, <1>6 DEF r

LEMMA AddedAlike ==
  ASSUME NEW s, SongOK(s), NEW t \in 1 .. Len(s.tracks),
         NEW kind \in Kinds, NEW time \in Nat, NEW secs \in Nat,
         kind \in Rates => s.tempos # <<>>
  PROVE  Alike(Added(s, t, kind, time, secs),
               Full(WithoutEot(s, t, time), t, kind, time, secs))
<1> DEFINE base == WithoutEot(s, t, time)
           r == Full(base, t, kind, time, secs)
           m == WithTempo(r.tempos, time, kind)
           w == [r EXCEPT !.tempos = m]
           a == Added(s, t, kind, time, secs)
<1>1. a = r \/ (kind \in Rates /\ a = w) \/ a = Rebuilt(r)
  BY AddedIs
<1>2. SongOK(base) /\ base.tempos = s.tempos /\ t \in 1 .. Len(base.tracks)
  BY WithoutEotOK
<1> HIDE DEF base, a
<1>3. SongOK(r) /\ r.tempos = s.tempos
  BY <1>2, FullOK
<1> HIDE DEF r
<1>4. kind \in Rates => w.tracks = r.tracks
  <2> SUFFICES ASSUME kind \in Rates PROVE w.tracks = r.tracks
    OBVIOUS
  <2>1. kind \in Nat \ {0} /\ r.tempos \in Tempos /\ r.tempos # <<>>
    BY <1>3, SongIn, SongAssumption DEF SongOK
  <2>2. m \in Tempos
    BY <2>1, WithTempoOK
  <2> HIDE DEF m
  <2> QED BY <1>3, <2>2, WithTemposOK
<1> HIDE DEF w
<1>5. Alike(r, r) /\ (kind \in Rates => Alike(w, r)) /\ Alike(Rebuilt(r), r)
  BY <1>3, <1>4, SelfAlike, RebuiltAlike
<1>6. Alike(a, r)
  BY <1>1, <1>5
<1> QED BY <1>6 DEF a, r, base

LEMMA TakenEot ==
  ASSUME NEW s, SongOK(s), EotLast(s), NEW t \in 1 .. Len(s.tracks),
         NEW i \in 1 .. Len(s.tracks[t].events)
  PROVE  /\ EotLast(Taken(s, t, i))
         /\ i = Len(s.tracks[t].events) => ~ HasEot(Taken(s, t, i).tracks[t].events)
<1> DEFINE r == Taken(s, t, i)
           events == s.tracks[t].events
           left == Left(s, t, i)
           n == Len(events)
<1>1. /\ Len(r.tracks) = Len(s.tracks) /\ r.tracks[t].events = left
      /\ \A u \in 1 .. Len(s.tracks) : u # t => r.tracks[u] = s.tracks[u]
  BY TakenOK
<1>2. events \in Seq(Events) /\ EventsOK(events, t) /\ i \in 1 .. n /\ n \in Nat
  BY TrackIn DEF SongOK, TrackOK
<1>3. /\ Len(left) = n - 1
      /\ \A j \in 1 .. n - 1 : left[j].kind = events[IF j < i THEN j ELSE j + 1].kind
  <2> HIDE DEF events
  <2> QED BY <1>2, WithoutOneOK DEF Left, events
<1>4. \A k \in 1 .. n : events[k].kind = Eot => k = n
  BY DEF EotLast
<1> HIDE DEF r, events, left, n
<1>5. ASSUME NEW j \in 1 .. n - 1, left[j].kind = Eot
      PROVE  j = n - 1 /\ i # n
  <2> DEFINE k == IF j < i THEN j ELSE j + 1
  <2>1. k \in 1 .. n /\ (k = n => j = n - 1 /\ i # n)
    BY <1>2
  <2> HIDE DEF k
  <2>2. events[k].kind = Eot
    BY <1>3, <1>5 DEF k
  <2> QED BY <1>4, <2>1, <2>2
<1>6. EotLast(r)
  <2> SUFFICES ASSUME NEW u \in 1 .. Len(r.tracks), NEW j \in 1 .. Len(r.tracks[u].events),
                      r.tracks[u].events[j].kind = Eot
               PROVE  j = Len(r.tracks[u].events)
    BY DEF EotLast
  <2>1. CASE u = t
    BY <1>1, <1>3, <1>5, <2>1
  <2>2. CASE u # t
    BY <1>1, <2>2 DEF EotLast
  <2> QED BY <2>1, <2>2
<1>7. i = n => ~ HasEot(left)
  BY <1>3, <1>5 DEF HasEot
<1> QED BY <1>1, <1>6, <1>7 DEF r, n, events

\* Where a new event comes last, no End Of Track event is left.
LEMMA WithoutEotEot ==
  ASSUME NEW s, SongOK(s), EotLast(s), NEW t \in 1 .. Len(s.tracks), NEW time \in Nat
  PROVE  LET base == WithoutEot(s, t, time)
         IN /\ EotLast(base)
            /\ AtEnd(base.tracks[t].events, time) => ~ HasEot(base.tracks[t].events)
<1> DEFINE base == WithoutEot(s, t, time)
           events == s.tracks[t].events
           n == Len(events)
<1>1. \/ base = s /\ ~ (events # <<>> /\ Last(events).kind = Eot /\ Last(events).time <= time)
      \/ base = Taken(s, t, n) /\ n \in 1 .. n
  BY WithoutEotIs
<1> HIDE DEF base
<1>2. CASE base = s /\ ~ (events # <<>> /\ Last(events).kind = Eot /\ Last(events).time <= time)
  <2>1. ASSUME AtEnd(events, time), HasEot(events) PROVE FALSE
    <3>1. PICK i \in 1 .. Len(events) : events[i].kind = Eot
      BY <2>1 DEF HasEot
    <3>2. i = n /\ events # <<>>
      BY <3>1 DEF EotLast
    <3>3. Last(events).kind = Eot
      BY <3>1, <3>2 DEF Last
    <3> QED BY <1>2, <2>1, <3>2, <3>3 DEF AtEnd
  <2> QED BY <1>2, <2>1 DEF base
<1>3. CASE base = Taken(s, t, n) /\ n \in 1 .. n
  <2>1. EotLast(base) /\ ~ HasEot(base.tracks[t].events)
    BY <1>3, TakenEot
  <2> QED BY <2>1 DEF base
<1> QED BY <1>1, <1>2, <1>3

LEMMA FullEot ==
  ASSUME NEW base, SongOK(base), EotLast(base), NEW t \in 1 .. Len(base.tracks),
         NEW kind \in Kinds, NEW time \in Nat, NEW secs \in Nat,
         AtEnd(base.tracks[t].events, time) => ~ HasEot(base.tracks[t].events),
         kind = Eot => AtEnd(base.tracks[t].events, time)
  PROVE  EotLast(Full(base, t, kind, time, secs))
<1> DEFINE full == Full(base, t, kind, time, secs)
           events == base.tracks[t].events
           all == Placed(events, NewEvent(kind, time, secs, t))
           i == PlaceAt(events, time)
           n == Len(events)
<1>1. /\ Len(full.tracks) = Len(base.tracks) /\ full.tracks[t].events = all
      /\ \A u \in 1 .. Len(base.tracks) : u # t => full.tracks[u] = base.tracks[u]
  BY FullOK
<1>2. events \in Seq(Events) /\ EventsOK(events, t) /\ n \in Nat /\ t \in Nat
  BY TrackIn, SongIn DEF SongOK, TrackOK
<1>3. \A k \in 1 .. n : events[k].kind = Eot => k = n
  BY DEF EotLast
<1>4. /\ AtEnd(events, time) => \A k \in 1 .. n : events[k].kind # Eot
      /\ kind = Eot => AtEnd(events, time)
  BY DEF HasEot
<1>5. AtEnd(events, time) => i = n + 1
  BY DEF PlaceAt
<1>6. ~ AtEnd(events, time) => i \in 1 .. n
  <2> HIDE DEF events
  <2>1. ASSUME ~ AtEnd(events, time) PROVE PlaceAt(events, time) \in 1 .. Len(events)
    BY <1>2, <2>1, PlaceAtIs, Zenon
  <2> QED BY <2>1
<1> HIDE DEF full, events
<1>7. /\ Len(all) = n + 1 /\ all[i].kind = kind
      /\ \A j \in 1 .. n + 1 : j # i => SameEvent(all[j], events[IF j < i THEN j ELSE j - 1])
  <2>1. /\ Len(all) = n + 1 /\ i \in 1 .. n + 1
        /\ all[i].kind = kind /\ all[i].time = time /\ all[i].secs = secs
        /\ \A j \in 1 .. n + 1 :
             j # i => SameEvent(all[j], events[IF j < i THEN j ELSE j - 1])
    BY <1>2, PlacedSame, ZenonT(30)
  <2> HIDE DEF all, i, n
  <2> QED BY <2>1
<1> HIDE DEF all, i, n
<1>8. ASSUME NEW j \in 1 .. n + 1, all[j].kind = Eot PROVE j = n + 1
  <2>1. CASE j = i
    BY <1>4, <1>5, <1>7, <1>8, <2>1
  <2>2. CASE j # i
    <3> DEFINE k == IF j < i THEN j ELSE j - 1
    <3>1. i \in 1 .. n + 1
      BY <1>2, <1>5, <1>6
    <3>2. k \in 1 .. n
      BY <1>2, <2>2, <3>1
    <3>3. SameEvent(all[j], events[k])
      BY <1>7, <2>2
    <3>4. (j < i => k = j) /\ (~ (j < i) => k = j - 1)
      OBVIOUS
    <3> HIDE DEF k
    <3>5. events[k].kind = Eot
      BY <1>8, <3>3 DEF SameEvent
    <3>6. k = n /\ ~ AtEnd(events, time)
      BY <1>3, <1>4, <3>2, <3>5
    <3>7. i \in 1 .. n
      BY <1>6, <3>6
    <3> QED BY <1>2, <3>4, <3>6, <3>7
  <2> QED BY <2>1, <2>2
<1>9. EotLast(full)
  <2> SUFFICES ASSUME NEW u \in 1 .. Len(full.tracks),
                      NEW j \in 1 .. Len(full.tracks[u].events),
                      full.tracks[u].events[j].kind = Eot
               PROVE  j = Len(full.tracks[u].events)
    BY DEF EotLast
  <2>1. CASE u = t
    BY <1>1, <1>7, <1>8, <2>1
  <2>2. CASE u # t
    BY <1>1, <2>2 DEF EotLast
  <2> QED BY <2>1, <2>2
<1> QED BY <1>9 DEF full

LEMMA RemovedEot ==
  ASSUME NEW s, SongOK(s), EotLast(s), NEW t \in 1 .. Len(s.tracks),
         NEW i \in 1 .. Len(s.tracks[t].events)
  PROVE  EotLast(Removed(s, t, i))
  BY TakenEot, RemovedAlike, AlikeEot

\* What is left of a track without its last event ends no later.
LEMMA LeftAtEnd ==
  ASSUME NEW events \in Seq(Events), NEW t, EventsOK(events, t),
         NEW n, n = Len(events), n \in 1 .. n, NEW time \in Nat, events[n].time <= time
  PROVE  AtEnd(Renumbered(Closed(events, n), n), time)
<1> DEFINE left == Renumbered(Closed(events, n), n)
<1>1. n \in 1 .. Len(events) /\ n \in Nat
  OBVIOUS
<1>2. left \in Seq(Events) /\ Len(left) = n - 1
  BY <1>1, WithoutOneOK
<1>3. ASSUME NEW j \in 1 .. n - 1 PROVE left[j].time = events[j].time
  <2>1. j < n /\ j \in 1 .. Len(events) - 1
    BY <1>1, <1>3
  <2> QED BY <1>1, <2>1, WithoutOneOK
<1> HIDE DEF left
<1>4. CASE n - 1 = 0
  <2>1. left = <<>>
    BY <1>2, <1>4
  <2> QED BY <2>1 DEF AtEnd, left
<1>5. CASE n - 1 # 0
  <2>1. n - 1 \in 1 .. n - 1 /\ n - 1 <= n /\ n - 1 \in 1 .. Len(events)
    BY <1>1, <1>5
  <2>2. Last(left).time = events[n - 1].time
    BY <1>2, <1>3, <2>1 DEF Last
  <2>3. events[n - 1].time <= events[n].time
    BY <1>1, <2>1, Sorted
  <2>4. events[n - 1].time \in Nat /\ events[n].time \in Nat
    BY <1>1, <2>1, EventsAt
  <2>5. Last(left).time <= time
    BY <2>2, <2>3, <2>4
  <2> QED BY <2>5 DEF AtEnd, left
<1> QED BY <1>4, <1>5

\* An End Of Track event is only added after the last event.
LEMMA AddedEot ==
  ASSUME NEW s, SongOK(s), EotLast(s), NEW t \in 1 .. Len(s.tracks),
         NEW kind \in Kinds, NEW time \in Nat, NEW secs \in Nat,
         kind \in Rates => s.tempos # <<>>,
         kind = Eot => LastPulses(s.tracks[t]) <= time
  PROVE  EotLast(Added(s, t, kind, time, secs))
<1> DEFINE base == WithoutEot(s, t, time)
           full == Full(base, t, kind, time, secs)
           events == s.tracks[t].events
           n == Len(events)
<1>1. SongOK(base) /\ Len(base.tracks) = Len(s.tracks)
  BY WithoutEotOK
<1>2. /\ EotLast(base)
      /\ AtEnd(base.tracks[t].events, time) => ~ HasEot(base.tracks[t].events)
  BY WithoutEotEot
<1>3. kind = Eot => AtEnd(base.tracks[t].events, time)
  <2> SUFFICES ASSUME kind = Eot PROVE AtEnd(base.tracks[t].events, time)
    OBVIOUS
  <2>1. base = s \/ (base = Taken(s, t, n) /\ n \in 1 .. n)
    BY WithoutEotIs
  <2>2. CASE base = s
    <3>1. events = <<>> \/ LastPulses(s.tracks[t]) = Last(events).time
      BY DEF LastPulses
    <3> HIDE DEF base
    <3> QED BY <2>2, <3>1 DEF AtEnd
  <2>3. CASE base = Taken(s, t, n) /\ n \in 1 .. n
    <3>1. base.tracks[t].events = Left(s, t, n)
      BY <2>3, TakenOK
    <3>2. events \in Seq(Events) /\ EventsOK(events, t) /\ n \in 1 .. Len(events)
      BY <2>3, TrackIn DEF SongOK, TrackOK
    <3>3. events[n].time <= time
      BY <2>3 DEF LastPulses, Last
    <3>4. AtEnd(Left(s, t, n), time)
      <4> HIDE DEF events, n
      <4> QED BY <3>2, <3>3, LeftAtEnd DEF Left, events, n
    <3> QED BY <3>1, <3>4
  <2> QED BY <2>1, <2>2, <2>3
<1> HIDE DEF base
<1>4. EotLast(full)
  BY <1>1, <1>2, <1>3, FullEot
<1>5. Alike(Added(s, t, kind, time, secs), full)
  BY AddedAlike DEF base
<1> HIDE DEF full
<1> QED BY <1>4, <1>5, AlikeEot

\* smf_track_add_event_delta_pulses.
LEMMA AddedAfterRight ==
  ASSUME NEW s, SongRight(s), NEW t \in 1 .. Len(s.tracks), s.tempos # <<>>,
         NEW kind \in Kinds, NEW delta \in Nat,
         kind \in Rates => \A c \in Changes(s) : c[1] # LastPulses(s.tracks[t]) + delta
  PROVE  LET r == AddedAfter(s, t, kind, delta)
             time == LastPulses(s.tracks[t]) + delta
         IN /\ SongRight(r)
            /\ kind \notin Rates => Changes(r) = Changes(s)
            /\ kind \in Rates => Changes(r) = Changes(s) \cup {<<time, kind>>}
<1> DEFINE time == LastPulses(s.tracks[t]) + delta
           secs == SecondsAt(s.tempos, time)
           r == AddedAfter(s, t, kind, delta)
<1>1. s.tracks[t] \in Track
  BY TrackIn DEF SongRight, SongOK
<1>2. LastPulses(s.tracks[t]) \in Nat
  BY <1>1, LastPulsesIs
<1>3. time \in Nat
  BY <1>2
<1>4. r = Added(s, t, kind, time, secs)
  BY DEF AddedAfter
<1>5. kind \in Rates => \A c \in Changes(s) : c[1] # time
  OBVIOUS
<1> HIDE DEF time, r
<1>6. secs \in Nat /\ secs \in Due(s, time) .. Due(s, time) + Slack
  BY <1>3, SecondsGiven
<1> HIDE DEF secs
<1>7. /\ SongRight(r)
      /\ kind \notin Rates => Changes(r) = Changes(s)
      /\ kind \in Rates => Changes(r) = Changes(s) \cup {<<time, kind>>}
  BY <1>3, <1>4, <1>5, <1>6, AddedRight
<1> QED BY <1>7 DEF r, time

LEMMA CursorsRight ==
  ASSUME NEW s, SongRight(s), NEW r, SongOK(r), Len(r.tracks) = Len(s.tracks),
         \A t \in 1 .. Len(s.tracks) : r.tracks[t].events = s.tracks[t].events,
         r.tempos = s.tempos
  PROVE  SongRight(r) /\ Changes(r) = Changes(s)
<1>1. Part(r, s, {})
  BY SameEventsPart DEF SameEvents
<1> QED BY <1>1, RightSame

LEMMA NewSongRight == SongRight(NewSong) /\ Changes(NewSong) = {}
<1>1. Positions(NewSong) = {}
  BY PositionOf DEF NewSong
<1>2. Changes(NewSong) = {} /\ Single(NewSong) /\ SecondsOK(NewSong)
  BY <1>1 DEF Changes, Single, SecondsOK
<1>3. NewSong.tempos = InitialTempo
  BY DEF NewSong
<1>4. MapOK(NewSong)
  BY <1>2, <1>3, InitialTempoOK, InitialMap DEF MapOK
<1> QED BY <1>2, <1>4, NewSongOK DEF SongRight

LEMMA NewTrackRight ==
  ASSUME NEW s, SongRight(s)
  PROVE  SongRight(WithNewTrack(s)) /\ Changes(WithNewTrack(s)) = Changes(s)
<1>1. SongOK(s)
  BY DEF SongRight
<1>2. SongOK(WithNewTrack(s)) /\ WithNewTrack(s).tempos = s.tempos
  BY <1>1, NewTrackOK
<1>3. Part(WithNewTrack(s), s, {})
  BY <1>1, NewTrackPart
<1> QED BY <1>2, <1>3, RightSame

-------------------------------------------------------------------------------
(***************************************************************************)
(* What every call keeps: the seconds are right, and nothing comes after   *)
(* the End Of Track event of a track.                                      *)
(***************************************************************************)
Whole(s) == SongRight(s) /\ EotLast(s)

LEMMA CursorsWhole ==
  ASSUME NEW s, Whole(s), NEW r, SongOK(r), Len(r.tracks) = Len(s.tracks),
         \A t \in 1 .. Len(s.tracks) : r.tracks[t].events = s.tracks[t].events,
         r.tempos = s.tempos
  PROVE  Whole(r)
<1>1. SongRight(s) /\ EotLast(s)
  BY DEF Whole
<1>2. SongRight(r)
  BY <1>1, CursorsRight
<1>3. EotLast(r)
  BY <1>1, SelfAlike, AlikeEot
<1> QED BY <1>2, <1>3 DEF Whole

LEMMA WrittenWhole ==
  ASSUME NEW s, Whole(s)
  PROVE  Whole(Written(s))
<1> DEFINE r == Written(s)
<1>1. SongOK(s)
  BY DEF Whole, SongRight
<1>2. /\ SongOK(r) /\ Len(r.tracks) = Len(s.tracks) /\ r.tempos = s.tempos
      /\ \A t \in 1 .. Len(s.tracks) : r.tracks[t].events = s.tracks[t].events
  BY <1>1, WrittenOK
<1> HIDE DEF r
<1>3. Whole(r)
  BY <1>2, CursorsWhole
<1> QED BY <1>3 DEF r

LEMMA NewSongWhole == Whole(NewSong)
<1>1. EotLast(NewSong)
  BY DEF EotLast, NewSong
<1> QED BY <1>1, NewSongRight DEF Whole

LEMMA NewTrackWhole ==
  ASSUME NEW s, Whole(s)
  PROVE  Whole(WithNewTrack(s))
<1> DEFINE r == WithNewTrack(s)
           n == Len(s.tracks)
<1>1. SongRight(s) /\ EotLast(s) /\ SongOK(s) /\ n \in Nat
  BY SongIn DEF Whole, SongRight, SongOK
<1>2. /\ Len(r.tracks) = n + 1 /\ r.tracks[n + 1] = EmptyTrack(n + 1)
      /\ \A u \in 1 .. n : r.tracks[u] = s.tracks[u]
  BY <1>1, NewTrackOK
<1>3. SongRight(r)
  BY <1>1, NewTrackRight
<1> HIDE DEF r
<1>4. EotLast(r)
  <2> SUFFICES ASSUME NEW u \in 1 .. Len(r.tracks), NEW i \in 1 .. Len(r.tracks[u].events),
                      r.tracks[u].events[i].kind = Eot
               PROVE  i = Len(r.tracks[u].events)
    BY DEF EotLast
  <2>1. CASE u = n + 1
    BY <1>2, <2>1 DEF EmptyTrack
  <2>2. CASE u # n + 1
    <3>1. u \in 1 .. n
      BY <1>1, <1>2, <2>2
    <3> QED BY <1>1, <1>2, <3>1 DEF EotLast
  <2> QED BY <2>1, <2>2
<1> QED BY <1>3, <1>4 DEF Whole, r

LEMMA RemovedWhole ==
  ASSUME NEW s, Whole(s), NEW t \in 1 .. Len(s.tracks),
         NEW i \in 1 .. Len(s.tracks[t].events)
  PROVE  Whole(Removed(s, t, i))
<1>1. SongRight(s) /\ EotLast(s) /\ SongOK(s)
  BY DEF Whole, SongRight
<1>2. SongRight(Removed(s, t, i))
  BY <1>1, RemovedRight
<1>3. EotLast(Removed(s, t, i))
  BY <1>1, RemovedEot
<1> QED BY <1>2, <1>3 DEF Whole

LEMMA AddedWhole ==
  ASSUME NEW s, Whole(s), NEW t \in 1 .. Len(s.tracks), s.tempos # <<>>,
         NEW kind \in Kinds, NEW time \in Nat, NEW secs \in Nat,
         kind \in Rates => \A c \in Changes(s) : c[1] # time,
         secs \in Due(s, time) .. Due(s, time) + Slack,
         kind = Eot => LastPulses(s.tracks[t]) <= time
  PROVE  Whole(Added(s, t, kind, time, secs))
<1>1. SongRight(s) /\ EotLast(s) /\ SongOK(s)
  BY DEF Whole, SongRight
<1>2. SongRight(Added(s, t, kind, time, secs))
  BY <1>1, AddedRight
<1>3. EotLast(Added(s, t, kind, time, secs))
  BY <1>1, AddedEot
<1> QED BY <1>2, <1>3 DEF Whole

\* smf_validate: an End Of Track event right after the last event.
LEMMA EndedWhole ==
  ASSUME NEW s, Whole(s), NEW t \in 1 .. Len(s.tracks), s.tempos # <<>>
  PROVE  Whole(AddedAfter(s, t, Eot, 0))
<1> DEFINE time == LastPulses(s.tracks[t]) + 0
           secs == SecondsAt(s.tempos, time)
<1>1. SongRight(s) /\ s.tracks[t] \in Track
  BY TrackIn DEF Whole, SongRight, SongOK
<1>2. LastPulses(s.tracks[t]) \in Nat
  BY <1>1, LastPulsesIs
<1>3. time \in Nat /\ LastPulses(s.tracks[t]) <= time
  BY <1>2
<1>4. AddedAfter(s, t, Eot, 0) = Added(s, t, Eot, time, secs)
  BY DEF AddedAfter
<1> HIDE DEF time
<1>5. secs \in Nat /\ secs \in Due(s, time) .. Due(s, time) + Slack
  BY <1>1, <1>3, SecondsGiven
<1> HIDE DEF secs
<1>6. Whole(Added(s, t, Eot, time, secs))
  BY <1>3, <1>5, EotNoRate, AddedWhole
<1> QED BY <1>4, <1>6

LEMMA WithoutTrackEot ==
  ASSUME NEW s, SongOK(s), EotLast(s), NEW t \in 1 .. Len(s.tracks)
  PROVE  EotLast(WithoutTrack(s, t))
<1> DEFINE r == WithoutTrack(s, t)
           n == Len(s.tracks)
<1>1. /\ Len(r.tracks) = n - 1
      /\ \A u \in 1 .. n - 1 :
           r.tracks[u] = IF u < t THEN s.tracks[u] ELSE MovedTrack(s.tracks[u + 1], u)
  BY WithoutTrackOK
<1>2. n \in Nat /\ t \in 1 .. n
  BY SongIn DEF SongOK
<1> HIDE DEF r
<1>3. ASSUME NEW u \in 1 .. n - 1, NEW i \in 1 .. Len(r.tracks[u].events),
             r.tracks[u].events[i].kind = Eot
      PROVE  i = Len(r.tracks[u].events)
  <2>1. CASE u < t
    <3>1. r.tracks[u] = s.tracks[u] /\ u \in 1 .. n
      BY <1>1, <1>2, <2>1
    <3> QED BY <1>3, <3>1 DEF EotLast
  <2>2. CASE ~ (u < t)
    <3> DEFINE track == s.tracks[u + 1]
    <3>1. u + 1 \in 1 .. n /\ r.tracks[u] = MovedTrack(track, u)
      BY <1>1, <1>2, <2>2
    <3>2. track \in Track /\ track.events \in Seq(Events) /\ Len(track.events) \in Nat
      BY <3>1, TrackIn DEF SongOK
    <3>3. \A k \in 1 .. Len(track.events) : track.events[k].kind = Eot => k = Len(track.events)
      BY <3>1 DEF EotLast
    <3> HIDE DEF track
    <3>4. MovedTrack(track, u).events =
            [k \in 1 .. Len(track.events) |-> [track.events[k] EXCEPT !.track = u]]
      BY <3>2 DEF MovedTrack, Track
    <3>5. /\ Len(r.tracks[u].events) = Len(track.events)
          /\ \A k \in 1 .. Len(track.events) :
               r.tracks[u].events[k] = [track.events[k] EXCEPT !.track = u]
      BY <3>1, <3>2, <3>4
    <3>6. track.events[i] \in Events /\ r.tracks[u].events[i] = [track.events[i] EXCEPT !.track = u]
      BY <1>3, <3>2, <3>5
    <3>7. track.events[i].kind = Eot
      BY <1>3, <3>6 DEF Events
    <3> QED BY <1>3, <3>3, <3>5, <3>7
  <2> QED BY <2>1, <2>2
<1>4. EotLast(r)
  BY <1>1, <1>3 DEF EotLast
<1> QED BY <1>4 DEF r

\* An End Of Track event that is added by its seconds comes last.
LEMMA EotSeconds ==
  ASSUME NEW s, SongRight(s), s.tempos # <<>>, NEW t \in 1 .. Len(s.tracks),
         NEW secs \in Nat,
         s.tracks[t].events # <<>> => Last(s.tracks[t].events).secs <= secs
  PROVE  LastPulses(s.tracks[t]) <= PulsesAt(s.tempos, secs)
<1> DEFINE m == s.tempos
           events == s.tracks[t].events
           n == Len(events)
           x == <<t, n>>
           last == LastPulses(s.tracks[t])
           p == PulsesAt(m, secs)
<1>1. /\ s \in Songs /\ m \in Tempos /\ m # <<>> /\ Single(s)
      /\ MapFor(m, Changes(s)) /\ SecondsOK(s)
  BY SongIn DEF SongRight, SongOK, MapOK
<1>2. s.tracks[t] \in Track /\ events \in Seq(Events)
  BY <1>1, TrackIn
<1>3. last \in Nat /\ (events # <<>> => last = events[n].time)
  BY <1>2, LastPulsesIs
<1>4. p \in Nat
  BY <1>1, PulsesNat
<1>5. CASE events = <<>>
  <2>1. last = 0
    BY <1>5 DEF LastPulses
  <2> HIDE DEF last, p
  <2> QED BY <1>4, <2>1 DEF last, p
<1>6. CASE events # <<>>
  <2>1. n \in 1 .. n /\ Last(events) = events[n]
    BY <1>2, <1>6 DEF Last
  <2>2. x \in Positions(s) /\ EventAt(s, x) = events[n]
    BY <2>1, PositionPair
  <2>3. EventAt(s, x).secs \in Due(s, EventAt(s, x).time) .. Due(s, EventAt(s, x).time) + Slack
    BY <1>1, <2>2 DEF SecondsOK
  <2>4. EventAt(s, x).time = last /\ EventAt(s, x).secs <= secs /\ EventAt(s, x).secs \in Nat
    BY <1>1, <1>3, <1>6, <2>1, <2>2, EventIn
  <2> HIDE DEF last, p, x
  <2>5. SecondsAt(m, last) = Due(s, last) /\ Due(s, last) \in Nat
    BY <1>1, <1>3, SecondsDue, DueNat
  <2>6. Due(s, last) <= secs
    BY <2>3, <2>4, <2>5, SongAssumption
  <2>7. ~ (p < last)
    <3>1. p < last => secs < SecondsAt(m, last)
      <4> HIDE DEF m
      <4> QED BY <1>1, <1>3, PulsesLatest DEF p
    <3> QED BY <2>5, <2>6, <3>1
  <2>8. last <= p
    BY <1>3, <1>4, <2>7
  <2> QED BY <2>8 DEF last, p
<1> QED BY <1>5, <1>6

\* smf_track_delete: each event is removed, and then the track.
LEMMA TrackDeletedWhole ==
  ASSUME NEW s, Whole(s), NEW t \in 1 .. Len(s.tracks)
  PROVE  Whole(TrackDeleted(s, t))
<1> DEFINE n == Len(s.tracks[t].events)
<1>1. SongOK(s) /\ n \in Nat
  BY TrackIn DEF Whole, SongRight, SongOK
<1>2. PICK rest : IsRest(rest, s, t, n) /\ TrackDeleted(s, t) = WithoutTrack(rest[n], t)
  BY <1>1, RestIs
<1>3. /\ rest[0] = s
      /\ \A j, k \in Nat : j + k = n /\ k # 0 => rest[j + 1] = Removed(rest[j], t, k)
  BY <1>1, <1>2, RestStep
<1>4. \A j \in 0 .. n : /\ SongOK(rest[j]) /\ Len(rest[j].tracks) = Len(s.tracks)
                        /\ Len(rest[j].tracks[t].events) = n - j
  BY <1>1, <1>2, RestOK
<1> DEFINE T == {j \in Nat : j <= n => Whole(rest[j])}
<1> HIDE DEF n
<1>5. 0 \in T
  BY <1>3
<1>6. ASSUME NEW j \in Nat, j \in T PROVE j + 1 \in T
  <2>1. SUFFICES ASSUME j + 1 <= n PROVE Whole(rest[j + 1])
    OBVIOUS
  <2> DEFINE q == rest[j]
             k == n - j
  <2>2. Whole(q) /\ j \in 0 .. n
    BY <1>1, <1>6, <2>1
  <2>3. k \in Nat /\ k # 0 /\ j + k = n /\ k \in 1 .. k
    BY <1>1, <2>1
  <2>4. rest[j + 1] = Removed(q, t, k)
    BY <1>3, <2>3
  <2>5. t \in 1 .. Len(q.tracks) /\ k \in 1 .. Len(q.tracks[t].events)
    BY <1>4, <2>2, <2>3
  <2> HIDE DEF q, k
  <2> QED BY <2>2, <2>4, <2>5, RemovedWhole
<1>7. Nat \subseteq T
  <2> HIDE DEF T
  <2> QED BY <1>5, <1>6, Induction
<1> DEFINE r == rest[n]
<1>8. Whole(r)
  BY <1>1, <1>7
<1>9. n \in 0 .. n /\ n - n = 0
  BY <1>1
<1>10. SongOK(r) /\ t \in 1 .. Len(r.tracks) /\ Len(r.tracks[t].events) = 0
  BY <1>4, <1>9
<1> HIDE DEF r
<1>11. r.tracks[t].events = <<>>
  <2>1. r.tracks[t].events \in Seq(Events)
    BY <1>10, TrackIn DEF SongOK
  <2> QED BY <1>10, <2>1
<1>12. Part(WithoutTrack(r, t), r, {})
  BY <1>10, <1>11, WithoutTrackPart
<1>13. SongOK(WithoutTrack(r, t)) /\ WithoutTrack(r, t).tempos = r.tempos
  BY <1>10, WithoutTrackOK
<1>14. Whole(WithoutTrack(r, t))
  <2>1. SongRight(r) /\ EotLast(r)
    BY <1>8 DEF Whole
  <2>2. SongRight(WithoutTrack(r, t))
    BY <1>12, <1>13, <2>1, RightSame
  <2>3. EotLast(WithoutTrack(r, t))
    BY <1>10, <2>1, WithoutTrackEot
  <2> QED BY <2>2, <2>3 DEF Whole
<1> QED BY <1>2, <1>14 DEF r

\* smf_save: the tracks that have no End Of Track event are given one.
LEMMA CompletedWhole ==
  ASSUME NEW s, Whole(s), Savable(s)
  PROVE  Whole(Completed(s))
<1> DEFINE n == Len(s.tracks)
           Good(x) == Whole(x) /\ Len(x.tracks) = n /\ x.tempos = s.tempos
<1>1. n \in Nat /\ SongOK(s)
  BY SongIn DEF Whole, SongRight, SongOK
<1>2. PICK ended : IsEnded(ended, s, n) /\ Completed(s) = ended[n]
  BY <1>1, EndedIs
<1> DEFINE T == {i \in Nat : i <= n => Good(ended[i])}
<1> HIDE DEF n
<1>3. 0 \in T
  <2>1. ended[0] = Rewound(s)
    BY <1>1, <1>2, EndedNext
  <2>2. /\ SongOK(Rewound(s)) /\ Len(Rewound(s).tracks) = Len(s.tracks)
        /\ Rewound(s).tempos = s.tempos
        /\ \A t \in 1 .. Len(s.tracks) : Rewound(s).tracks[t].events = s.tracks[t].events
    BY <1>1, RewoundOK
  <2>3. Whole(Rewound(s))
    BY <2>2, CursorsWhole
  <2> QED BY <2>1, <2>2, <2>3 DEF n
<1>4. ASSUME NEW i \in Nat, i \in T PROVE i + 1 \in T
  <2>1. SUFFICES ASSUME i + 1 <= n PROVE Good(ended[i + 1])
    OBVIOUS
  <2>2. Good(ended[i])
    BY <1>1, <1>4, <2>1
  <2>3. ended[i + 1] = EndedStep(ended[i], s, i + 1)
    BY <1>1, <1>2, <2>1, EndedNext
  <2>4. CASE HasEot(s.tracks[i + 1].events)
    <3>1. ended[i + 1] = ended[i]
      BY <2>3, <2>4 DEF EndedStep
    <3> QED BY <2>2, <3>1
  <2>5. CASE ~ HasEot(s.tracks[i + 1].events)
    <3> DEFINE x == ended[i]
               t == i + 1
    <3>1. t \in 1 .. n
      BY <1>1, <2>1
    <3>2. s.tempos # <<>>
      BY <2>5, <3>1 DEF Savable, n
    <3>3. ended[i + 1] = AddedAfter(x, t, Eot, 0)
      BY <2>3, <2>5 DEF EndedStep
    <3>4. Whole(x) /\ SongOK(x) /\ t \in 1 .. Len(x.tracks) /\ x.tempos # <<>>
      BY <2>2, <3>1, <3>2 DEF Whole, SongRight
    <3> HIDE DEF x, t
    <3>5. /\ Len(AddedAfter(x, t, Eot, 0).tracks) = Len(x.tracks)
          /\ AddedAfter(x, t, Eot, 0).tempos = x.tempos
      BY <3>4, EotNoRate, AddedAfterOK
    <3>6. Whole(AddedAfter(x, t, Eot, 0))
      BY <3>4, EndedWhole
    <3> QED BY <2>2, <3>3, <3>5, <3>6 DEF x
  <2> QED BY <2>4, <2>5
<1>5. Nat \subseteq T
  <2> HIDE DEF T
  <2> QED BY <1>3, <1>4, Induction
<1>6. Good(ended[n])
  BY <1>1, <1>5
<1> QED BY <1>2, <1>6

\* The caller adds no tempo change where there is one.
LEMMA AdmittedIs ==
  ASSUME SharedTempo = FALSE, SongOK(song), NEW kind, NEW time, Admitted(kind, time)
  PROVE  kind \in Rates => \A c \in Changes(song) : c[1] # time
<1> SUFFICES ASSUME kind \in Rates, NEW c \in Changes(song)
             PROVE  c[1] # time
  OBVIOUS
<1>1. PICK p \in Positions(song) : IsChange(song, p) /\ c = Change(song, p)
  BY ChangeIs DEF SongOK
<1>2. EventAt(song, p).time # time
  BY <1>1 DEF Admitted, IsChange
<1> QED BY <1>1, <1>2 DEF Change

LEMMA AddWholeStep ==
  ASSUME SharedTempo = FALSE, PulsesShort, Whole(song), NEW t \in 1 .. Len(song.tracks),
         NEW k \in Kinds
  PROVE  /\ \A p \in Pulses : SmfTrackAddEventPulses(t, k, p) => Whole(song)'
         /\ \A s \in Seconds : SmfTrackAddEventSeconds(t, k, s) => Whole(song)'
<1>1. SongRight(song) /\ SongOK(song)
  BY DEF Whole, SongRight
<1>2. Abort => Whole(song)'
  BY NewSongWhole DEF Abort
<1>3. ASSUME NEW p \in Nat, NEW secs \in Nat, song.tempos # <<>>,
             secs \in Due(song, p) .. Due(song, p) + Slack, Admitted(k, p),
             k = Eot => LastPulses(song.tracks[t]) <= p,
             Edit(Added(song, t, k, p, secs))
      PROVE  Whole(song)'
  <2>1. k \in Rates => \A c \in Changes(song) : c[1] # p
    BY <1>1, <1>3, AdmittedIs
  <2>2. Whole(Added(song, t, k, p, secs))
    BY <1>3, <2>1, AddedWhole
  <2> QED BY <1>3, <2>2 DEF Edit
<1>4. ASSUME NEW p \in Pulses, SmfTrackAddEventPulses(t, k, p)
      PROVE  Whole(song)'
  <2>1. p \in Nat
    BY SongAssumption DEF Pulses
  <2>2. CASE TempoBefore(song.tempos, p) = 0
    BY <1>2, <1>4, <2>2 DEF SmfTrackAddEventPulses
  <2>3. CASE TempoBefore(song.tempos, p) # 0
    <3> DEFINE secs == SecondsAt(song.tempos, p)
    <3>1. song.tempos # <<>>
      BY <2>3, NoTempo
    <3>2. secs \in Nat /\ secs \in Due(song, p) .. Due(song, p) + Slack
      BY <1>1, <2>1, <3>1, SecondsGiven
    <3>3. /\ Admitted(k, p) /\ Edit(Added(song, t, k, p, secs))
          /\ k = Eot => LastPulses(song.tracks[t]) <= p
      BY <1>4, <2>3 DEF SmfTrackAddEventPulses
    <3> HIDE DEF secs
    <3> QED BY <1>3, <2>1, <3>1, <3>2, <3>3
  <2> QED BY <2>2, <2>3
<1>5. ASSUME NEW s \in Seconds, SmfTrackAddEventSeconds(t, k, s)
      PROVE  Whole(song)'
  <2>1. s \in Nat
    BY SongAssumption
  <2>2. CASE song.tempos = <<>>
    BY <1>2, <1>5, <2>2 DEF SmfTrackAddEventSeconds
  <2>3. CASE song.tempos # <<>>
    <3> DEFINE p == PulsesAt(song.tempos, s)
    <3>1. p \in Nat /\ s \in Due(song, p) .. Due(song, p) + Slack
      BY <1>1, <2>1, <2>3, SecondsGiven
    <3>2. Admitted(k, p) /\ Edit(Added(song, t, k, p, s))
      BY <1>5, <2>3 DEF SmfTrackAddEventSeconds
    <3>3. k = Eot => LastPulses(song.tracks[t]) <= p
      <4> SUFFICES ASSUME k = Eot PROVE LastPulses(song.tracks[t]) <= p
        OBVIOUS
      <4>1. song.tracks[t].events # <<>> => Last(song.tracks[t].events).secs <= s
        BY <1>5 DEF SmfTrackAddEventSeconds
      <4> QED BY <2>1, <2>3, <4>1, EotSeconds DEF Whole
    <3> HIDE DEF p
    <3> QED BY <1>3, <2>1, <2>3, <3>1, <3>2, <3>3
  <2> QED BY <2>2, <2>3
<1> QED BY <1>4, <1>5

LEMMA TrackWholeStep ==
  ASSUME SharedTempo = FALSE, PulsesShort, Whole(song),
         NEW t \in 1 .. Len(song.tracks), OnTrack(t)
  PROVE  Whole(song)'
<1>1. CASE SmfTrackDelete(t)
  BY <1>1, TrackDeletedWhole DEF SmfTrackDelete, Edit
<1>2. CASE \E k \in Kinds : \E p \in Pulses : SmfTrackAddEventPulses(t, k, p)
  BY <1>2, AddWholeStep
<1>3. CASE \E k \in Kinds : \E s \in Seconds : SmfTrackAddEventSeconds(t, k, s)
  BY <1>3, AddWholeStep
<1>4. CASE \E i \in 1 .. Len(song.tracks[t].events) : SmfEventRemove(t, i)
  BY <1>4, RemovedWhole DEF SmfEventRemove, Edit
<1> QED BY <1>1, <1>2, <1>3, <1>4 DEF OnTrack

LEMMA GetNextWholeStep ==
  ASSUME Whole(song), SmfGetNextEvent
  PROVE  Whole(song)'
<1> DEFINE t == NextTrack(song)
           i == song.tracks[t].next
           n == Len(song.tracks[t].events)
<1>1. SongOK(song) /\ t # 0
  BY DEF Whole, SongRight, SmfGetNextEvent
<1>2. t \in 1 .. Len(song.tracks) /\ i # None
  BY <1>1, NextTrackIs DEF Live
<1>3. i \in Nat /\ n \in Nat
  <2>1. song.tracks[t] \in Track /\ n \in Nat
    BY <1>1, <1>2, TrackIn DEF SongOK
  <2> QED BY <1>2, <2>1 DEF Track
<1>4. CASE i > n
  BY <1>4, NewSongWhole DEF SmfGetNextEvent, Abort
<1>5. CASE ~ (i > n)
  <2>1. i <= n
    BY <1>3, <1>5
  <2>2. song' = Read(song, t)
    BY <1>5 DEF SmfGetNextEvent, Read
  <2> HIDE DEF t
  <2> DEFINE r == Read(song, t)
  <2>3. /\ SongOK(r) /\ Len(r.tracks) = Len(song.tracks) /\ r.tempos = song.tempos
        /\ \A u \in 1 .. Len(song.tracks) : r.tracks[u].events = song.tracks[u].events
    BY <1>1, <1>2, <2>1, ReadOK
  <2> HIDE DEF r
  <2>4. Whole(r)
    BY <2>3, CursorsWhole
  <2> QED BY <2>2, <2>4 DEF r
<1> QED BY <1>4, <1>5

LEMMA SeekWholeStep ==
  ASSUME Whole(song)
  PROVE  /\ SmfRewind => Whole(song)'
         /\ \A p \in Positions(song) : SmfSeekToEvent(p) => Whole(song)'
         /\ \A n \in Pulses : SmfSeekToPulses(n) => Whole(song)'
         /\ \A n \in Seconds : SmfSeekToSeconds(n) => Whole(song)'
<1>1. SongOK(song)
  BY DEF Whole, SongRight
<1>2. Whole(Rewound(song)) /\ Whole(Exhausted(song))
  <2>1. Whole(Rewound(song))
    <3> DEFINE r == Rewound(song)
    <3>1. /\ SongOK(r) /\ Len(r.tracks) = Len(song.tracks) /\ r.tempos = song.tempos
          /\ \A t \in 1 .. Len(song.tracks) : r.tracks[t].events = song.tracks[t].events
      BY <1>1, RewoundOK
    <3> HIDE DEF r
    <3> QED BY <3>1, CursorsWhole DEF r
  <2>2. Whole(Exhausted(song))
    <3> DEFINE r == Exhausted(song)
    <3>1. /\ SongOK(r) /\ Len(r.tracks) = Len(song.tracks) /\ r.tempos = song.tempos
          /\ \A t \in 1 .. Len(song.tracks) : r.tracks[t].events = song.tracks[t].events
      BY <1>1, ExhaustedOK
    <3> HIDE DEF r
    <3> QED BY <3>1, CursorsWhole DEF r
  <2> QED BY <2>1, <2>2
<1>3. ASSUME NEW p \in Positions(song), NEW sought \in Nat \cup {None},
             Seat([Skipped(song, p) EXCEPT !.sought = sought])
      PROVE  Whole(song)'
  <2> DEFINE r == SkippedTo(song, p, sought)
  <2>1. song' = r
    BY <1>3 DEF SkippedTo, Seat
  <2>2. /\ SongOK(r) /\ Len(r.tracks) = Len(song.tracks) /\ r.tempos = song.tempos
        /\ \A t \in 1 .. Len(song.tracks) : r.tracks[t].events = song.tracks[t].events
    BY <1>1, SkippedOK
  <2> HIDE DEF r
  <2>3. Whole(r)
    BY <2>2, CursorsWhole
  <2> QED BY <2>1, <2>3
<1>4. \A p \in Positions(song) : EventAt(song, p).secs \in Nat \cup {None}
  BY <1>1, EventIn DEF SongOK
<1>5. ASSUME NEW n \in Pulses, SmfSeekToPulses(n) PROVE Whole(song)'
  <2> DEFINE ok == {p \in Positions(song) : EventAt(song, p).time >= n}
             p == FirstOf(song, ok)
  <2>1. CASE ok = {}
    BY <1>2, <1>5, <2>1 DEF SmfSeekToPulses, Seat
  <2>2. CASE ok # {}
    <3>1. Seat([Skipped(song, p) EXCEPT !.sought = EventAt(song, p).secs])
      BY <1>5, <2>2 DEF SmfSeekToPulses
    <3>2. ok \in SUBSET Positions(song)
      OBVIOUS
    <3> HIDE DEF ok
    <3>3. p \in Positions(song)
      BY <1>1, <2>2, <3>2, FirstOfIs
    <3> HIDE DEF p
    <3> QED BY <1>3, <1>4, <3>1, <3>3
  <2> QED BY <2>1, <2>2
<1>6. ASSUME NEW n \in Seconds, SmfSeekToSeconds(n) PROVE Whole(song)'
  <2> DEFINE ok == {p \in Positions(song) : EventAt(song, p).secs >= n}
             p == FirstOf(song, ok)
  <2>1. CASE ok = {}
    BY <1>2, <1>6, <2>1 DEF SmfSeekToSeconds, Seat
  <2>2. CASE ok # {}
    <3>1. Seat([Skipped(song, p) EXCEPT !.sought = n])
      BY <1>6, <2>2 DEF SmfSeekToSeconds
    <3>2. ok \in SUBSET Positions(song)
      OBVIOUS
    <3> HIDE DEF ok
    <3>3. p \in Positions(song)
      BY <1>1, <2>2, <3>2, FirstOfIs
    <3>4. n \in Nat \cup {None}
      BY SongAssumption
    <3> HIDE DEF p
    <3> QED BY <1>3, <3>1, <3>3, <3>4
  <2> QED BY <2>1, <2>2
<1>7. SmfRewind => Whole(song)'
  BY <1>2 DEF SmfRewind, Seat
<1>8. ASSUME NEW p \in Positions(song), SmfSeekToEvent(p) PROVE Whole(song)'
  BY <1>3, <1>4, <1>8 DEF SmfSeekToEvent
<1> QED BY <1>5, <1>6, <1>7, <1>8

LEMMA SongWhole ==
  ASSUME SharedTempo = FALSE, PulsesShort
  PROVE  Spec => []Whole(song)
<1>1. Init => Whole(song)
  BY NewSongWhole DEF Init
<1>2. Whole(song) /\ [Next]_vars => Whole(song)'
  <2> SUFFICES ASSUME Whole(song), [Next]_vars PROVE Whole(song)'
    OBVIOUS
  <2>1. CASE SmfAddTrack
    BY <2>1, NewTrackWhole DEF SmfAddTrack, Edit
  <2>2. CASE \E t \in 1 .. Len(song.tracks) : OnTrack(t)
    BY <2>2, TrackWholeStep
  <2>3. CASE SmfGetNextEvent
    BY <2>3, GetNextWholeStep
  <2>4. CASE SmfRewind
    BY <2>4, SeekWholeStep
  <2>5. CASE \E p \in Positions(song) : SmfSeekToEvent(p)
    BY <2>5, SeekWholeStep
  <2>6. CASE \E n \in Pulses : SmfSeekToPulses(n)
    BY <2>6, SeekWholeStep
  <2>7. CASE \E s \in Seconds : SmfSeekToSeconds(s) \/ SmfSeekAvoided(s)
    <3>1. PICK s \in Seconds : SmfSeekToSeconds(s) \/ SmfSeekAvoided(s)
      BY <2>7
    <3>2. CASE SmfSeekToSeconds(s)
      BY <3>2, SeekWholeStep
    <3>3. CASE SmfSeekAvoided(s)
      BY <3>3 DEF SmfSeekAvoided, vars
    <3> QED BY <3>1, <3>2, <3>3
  <2>8. CASE SmfSave
    <3>1. CASE Savable(song)
      <4>1. Seat(Written(Completed(song)))
        BY <2>8, <3>1 DEF SmfSave, Savable
      <4>2. Whole(Written(Completed(song)))
        BY <3>1, CompletedWhole, WrittenWhole
      <4> QED BY <4>1, <4>2 DEF Seat
    <3>2. CASE ~ Savable(song)
      BY <2>8, <3>2, NewSongWhole DEF SmfSave, Savable, Abort
    <3> QED BY <3>1, <3>2
  <2>9. CASE Restart
    BY <2>9 DEF Restart
  <2>10. CASE UNCHANGED vars
    BY <2>10 DEF vars
  <2> QED BY <2>1, <2>2, <2>3, <2>4, <2>5, <2>6, <2>7, <2>8, <2>9, <2>10 DEF Next
<1> QED BY <1>1, <1>2, PTL DEF Spec

\* Whatever tempo changes are added and removed, before events or after them,
\* every event has the seconds they make due, up to the part of a pulse it may
\* be off (smf_event_is_last, add_tempo, remove_last_tempo_with_pulses,
\* smf_create_tempo_map_and_compute_seconds).  Where two tempo changes share a
\* pulse this does not hold, so the editor is taken not to add such a pair;
\* nor does it where a pulse is longer than the tolerance and an event is added
\* by its seconds.
THEOREM SongSecondsRight ==
  ASSUME SharedTempo = FALSE, PulsesShort
  PROVE  Spec => []SecondsRight
<1>1. Whole(song) => SecondsRight
  BY DEF Whole, SongRight, SecondsOK, SecondsRight
<1> QED BY <1>1, SongWhole, PTL

-------------------------------------------------------------------------------
(***************************************************************************)
(* A song that is read back from its file.                                 *)
(***************************************************************************)
\* The first n events of a track, read back.
ReadEvents(a, b, n) ==
  /\ Len(a) = n
  /\ \A i \in 1 .. n : a[i].kind = b[i].kind /\ a[i].time = b[i].time

\* The song x has been read from the file of s: all of its first t tracks.
TracksRead(x, s, t) ==
  /\ SongRight(x) /\ x.tempos # <<>> /\ Len(x.tracks) = t
  /\ \A u \in 1 .. t :
       ReadEvents(x.tracks[u].events, s.tracks[u].events, Len(s.tracks[u].events))

\* The same, of track t only the first i events.
EventsRead(x, s, t, i) ==
  /\ SongRight(x) /\ x.tempos # <<>> /\ Len(x.tracks) = t
  /\ \A u \in 1 .. t :
       ReadEvents(x.tracks[u].events, s.tracks[u].events,
                  IF u = t THEN i ELSE Len(s.tracks[u].events))

\* What is to be read is no tempo change at the pulse of one that was read.
LEMMA ReadSingle ==
  ASSUME NEW s, SongOK(s), Single(s), NEW t \in 1 .. Len(s.tracks),
         NEW i \in Nat, i + 1 <= Len(s.tracks[t].events),
         s.tracks[t].events[i + 1].kind \in Rates,
         NEW x, EventsRead(x, s, t, i)
  PROVE  \A c \in Changes(x) : c[1] # s.tracks[t].events[i + 1].time
<1> DEFINE q == <<t, i + 1>>
           n == Len(s.tracks[t].events)
<1>1. s \in Songs /\ x \in Songs /\ Len(x.tracks) = t
  BY DEF SongOK, SongRight, EventsRead
<1>2. n \in Nat /\ t \in 1 .. t /\ Len(s.tracks) \in Nat
  BY <1>1, TrackIn
<1>3. i + 1 \in 1 .. n
  BY <1>2
<1>4. q \in Positions(s) /\ EventAt(s, q) = s.tracks[t].events[i + 1]
  BY <1>3, PositionPair
<1> SUFFICES ASSUME NEW c \in Changes(x), c[1] = EventAt(s, q).time PROVE FALSE
  BY <1>4
<1>5. PICK p \in Positions(x) : IsChange(x, p) /\ c = Change(x, p)
  BY <1>1, ChangeIs
<1> DEFINE u == p[1]
           j == p[2]
           m == IF u = t THEN i ELSE Len(s.tracks[u].events)
<1>6. u \in 1 .. t /\ j \in 1 .. Len(x.tracks[u].events) /\ p = <<u, j>>
  BY <1>1, PositionOf
<1>7. ReadEvents(x.tracks[u].events, s.tracks[u].events, m)
  BY <1>6 DEF EventsRead
<1>8. m \in Nat /\ m <= Len(s.tracks[u].events) /\ u \in 1 .. Len(s.tracks)
      /\ Len(s.tracks[u].events) \in Nat
  <2>1. u \in 1 .. Len(s.tracks)
    BY <1>2, <1>6
  <2>2. Len(s.tracks[u].events) \in Nat
    BY <1>1, <2>1, TrackIn
  <2> QED BY <1>2, <2>1, <2>2
<1>9. j \in 1 .. m /\ j \in 1 .. Len(s.tracks[u].events)
  BY <1>6, <1>7, <1>8, SMTT(30) DEF ReadEvents
<1>10. p \in Positions(s) /\ EventAt(s, p) = s.tracks[u].events[j]
  BY <1>6, <1>8, <1>9, PositionPair, SMTT(30)
<1>11. EventAt(x, p).kind = EventAt(s, p).kind /\ EventAt(x, p).time = EventAt(s, p).time
  <2>1. EventAt(x, p) = x.tracks[u].events[j]
    BY DEF EventAt
  <2> QED BY <1>7, <1>9, <1>10, <2>1 DEF ReadEvents
<1>12. p # q
  <2>1. u = t => j # i + 1
    BY <1>9
  <2> QED BY <1>6, <2>1
<1> HIDE DEF q, u, j, m
<1>13. IsChange(s, p) /\ IsChange(s, q) /\ EventAt(s, p).time = EventAt(s, q).time
  BY <1>4, <1>5, <1>11 DEF IsChange, Change
<1> QED BY <1>4, <1>10, <1>12, <1>13 DEF Single

\* Track t of full is the one of x with an event more.
Appended(full, x, t, kind, time) ==
  /\ Len(full.tracks) = Len(x.tracks)
  /\ Len(full.tracks[t].events) = Len(x.tracks[t].events) + 1
  /\ full.tracks[t].events[Len(x.tracks[t].events) + 1].kind = kind
  /\ full.tracks[t].events[Len(x.tracks[t].events) + 1].time = time
  /\ \A j \in 1 .. Len(x.tracks[t].events) :
       full.tracks[t].events[j] = x.tracks[t].events[j]
  /\ \A u \in 1 .. Len(x.tracks) : u # t => full.tracks[u] = x.tracks[u]

LEMMA FullAppended ==
  ASSUME NEW x, SongOK(x), NEW t \in 1 .. Len(x.tracks),
         NEW kind \in Kinds, NEW time \in Nat, NEW secs \in Nat,
         AtEnd(x.tracks[t].events, time)
  PROVE  Appended(Full(x, t, kind, time, secs), x, t, kind, time)
<1> DEFINE full == Full(x, t, kind, time, secs)
           to == x.tracks[t].events
           all == Placed(to, NewEvent(kind, time, secs, t))
<1>1. /\ Len(full.tracks) = Len(x.tracks) /\ full.tracks[t].events = all
      /\ \A u \in 1 .. Len(x.tracks) : u # t => full.tracks[u] = x.tracks[u]
  BY FullOK
<1>2. to \in Seq(Events) /\ EventsOK(to, t) /\ t \in Nat
  BY TrackIn, SongIn DEF SongOK, TrackOK
<1> HIDE DEF full
<1>3. /\ Len(all) = Len(to) + 1
      /\ all[Len(to) + 1].kind = kind /\ all[Len(to) + 1].time = time
      /\ \A j \in 1 .. Len(to) : all[j] = to[j]
  <2>1. AtEnd(to, time)
    OBVIOUS
  <2> HIDE DEF to
  <2> QED BY <1>2, <2>1, PlacedAtEnd
<1> HIDE DEF all
<1> QED BY <1>1, <1>3 DEF Appended, full

\* An event that is read goes to the end of its track.
LEMMA EventReadNext ==
  ASSUME NEW s, SongOK(s), Single(s), EotLast(s), NEW t \in 1 .. Len(s.tracks),
         NEW i \in Nat, i + 1 <= Len(s.tracks[t].events),
         NEW x, EventsRead(x, s, t, i)
  PROVE  LET e == s.tracks[t].events[i + 1]
         IN EventsRead(AddedAfter(x, t, e.kind, e.delta), s, t, i + 1)
<1> DEFINE from == s.tracks[t].events
           e == from[i + 1]
           kind == e.kind
           delta == e.delta
           to == x.tracks[t].events
           time == LastPulses(x.tracks[t]) + delta
           secs == SecondsAt(x.tempos, time)
           r == AddedAfter(x, t, kind, delta)
           full == Full(x, t, kind, time, secs)
<1>1. /\ SongRight(x) /\ SongOK(x) /\ x \in Songs /\ x.tempos # <<>> /\ x.tempos \in Tempos
      /\ Len(x.tracks) = t /\ t \in Nat /\ t \in 1 .. Len(x.tracks)
  <2>1. SongRight(x) /\ SongOK(x) /\ x \in Songs /\ x.tempos # <<>> /\ Len(x.tracks) = t
    BY DEF EventsRead, SongRight, SongOK
  <2>2. x.tempos \in Tempos /\ Len(s.tracks) \in Nat
    BY <2>1, SongIn DEF SongOK
  <2>3. t \in Nat /\ t \in 1 .. t
    BY <2>2
  <2> QED BY <2>1, <2>2, <2>3
<1>2. from \in Seq(Events) /\ EventsOK(from, t) /\ Len(from) \in Nat
  BY TrackIn DEF SongOK, TrackOK
<1>3. i + 1 \in 1 .. Len(from) /\ (i # 0 => i \in 1 .. Len(from) /\ i # Len(from))
  BY <1>2
<1>4. e \in Events /\ kind \in Kinds /\ delta \in Nat /\ e.time \in Nat
  <2>1. e \in Events
    <3> HIDE DEF from
    <3> QED BY <1>2, <1>3
  <2> HIDE DEF e
  <2> QED BY <2>1 DEF Events
<1>5. x.tracks[t] \in Track /\ to \in Seq(Events) /\ EventsOK(to, t)
  BY <1>1, TrackIn DEF SongOK, TrackOK
<1>6. ReadEvents(to, from, i)
  <2>1. t \in 1 .. t
    BY <1>1
  <2> QED BY <2>1 DEF EventsRead
<1>7. Len(to) = i /\ \A j \in 1 .. i : to[j].kind = from[j].kind /\ to[j].time = from[j].time
  BY <1>6 DEF ReadEvents
<1>8. \A j \in 1 .. Len(from) : from[j].kind = Eot => j = Len(from)
  BY DEF EotLast
<1>9. LastPulses(x.tracks[t]) = TimeBefore(from, i + 1) /\ LastPulses(x.tracks[t]) \in Nat
  <2>1. LastPulses(x.tracks[t]) \in Nat /\ (to # <<>> => LastPulses(x.tracks[t]) = to[Len(to)].time)
    BY <1>5, LastPulsesIs
  <2>2. CASE i = 0
    <3>1. to = <<>>
      BY <1>5, <1>7, <2>2
    <3> QED BY <2>1, <2>2, <3>1 DEF LastPulses, TimeBefore
  <2>3. CASE i # 0
    <3>1. to # <<>> /\ i \in 1 .. i /\ i + 1 # 1 /\ (i + 1) - 1 = i
      BY <1>5, <1>7, <2>3
    <3>2. LastPulses(x.tracks[t]) = from[i].time
      BY <1>7, <2>1, <3>1
    <3> HIDE DEF from, to
    <3> QED BY <2>1, <3>1, <3>2 DEF TimeBefore
  <2> QED BY <2>2, <2>3
<1>10. e.time = delta + TimeBefore(from, i + 1)
  BY <1>2, <1>3 DEF EventsOK
<1>11. time = e.time /\ time \in Nat
  <2> HIDE DEF e, from
  <2> QED BY <1>4, <1>9, <1>10 DEF e
<1>12. secs \in Nat
  <2> HIDE DEF time
  <2> QED BY <1>1, <1>11, SecondsNat
<1>13. AtEnd(to, time)
  <2>1. to # <<>> => LastPulses(x.tracks[t]) = Last(to).time
    BY DEF LastPulses
  <2>2. LastPulses(x.tracks[t]) <= time
    <3> HIDE DEF delta
    <3> QED BY <1>4, <1>9
  <2> HIDE DEF to, time
  <2> QED BY <2>1, <2>2 DEF AtEnd
<1>14. to # <<>> => Last(to).kind # Eot
  <2> SUFFICES ASSUME to # <<>> PROVE Last(to).kind # Eot
    OBVIOUS
  <2>1. i # 0 /\ i \in 1 .. i
    BY <1>5, <1>7
  <2>2. Last(to).kind = from[i].kind
    BY <1>7, <2>1 DEF Last
  <2> HIDE DEF from, to
  <2> QED BY <1>3, <1>8, <2>1, <2>2
<1>15. WithoutEot(x, t, time) = x
  BY <1>14 DEF WithoutEot
<1>16. r = Added(x, t, kind, time, secs)
  BY DEF AddedAfter
<1>17. kind \in Rates => \A c \in Changes(x) : c[1] # time
  <2> SUFFICES ASSUME kind \in Rates PROVE \A c \in Changes(x) : c[1] # e.time
    BY <1>11
  <2> QED BY ReadSingle
<1>18. SongRight(r) /\ r.tempos # <<>> /\ Len(r.tracks) = t
  <2> HIDE DEF kind, delta
  <2>1. SongRight(r)
    BY <1>1, <1>4, <1>17, AddedAfterRight
  <2>2. Len(r.tracks) = Len(x.tracks) /\ r.tempos # <<>>
    BY <1>1, <1>4, AddedAfterKept, SMTT(30), ZenonT(30)
  <2> QED BY <1>1, <2>1, <2>2
<1> HIDE DEF from, e, kind, delta, to, time, secs, r
<1>19. Alike(r, full)
  BY <1>1, <1>4, <1>11, <1>12, <1>15, <1>16, AddedAlike
<1> DEFINE all == full.tracks[t].events
<1>20. Appended(full, x, t, kind, time)
  <2>1. AtEnd(x.tracks[t].events, time)
    BY <1>13 DEF to
  <2> QED BY <1>1, <1>4, <1>11, <1>12, <2>1, FullAppended
<1> HIDE DEF full
<1>21. /\ Len(full.tracks) = t
       /\ Len(all) = i + 1 /\ all[i + 1].kind = kind /\ all[i + 1].time = time
       /\ \A j \in 1 .. i : all[j] = to[j]
       /\ \A u \in 1 .. t : u # t => full.tracks[u] = x.tracks[u]
  BY <1>1, <1>7, <1>20 DEF Appended, to
<1> HIDE DEF all
<1>22. ASSUME NEW j \in 1 .. i + 1
       PROVE  all[j].kind = from[j].kind /\ all[j].time = from[j].time
  <2>1. CASE j = i + 1
    BY <1>11, <1>21, <2>1 DEF kind, e
  <2>2. CASE j # i + 1
    <3>1. j \in 1 .. i
      BY <2>2
    <3> QED BY <1>7, <1>21, <3>1
  <2> QED BY <2>1, <2>2
<1>23. ASSUME NEW u \in 1 .. t
       PROVE  ReadEvents(r.tracks[u].events, s.tracks[u].events,
                         IF u = t THEN i + 1 ELSE Len(s.tracks[u].events))
  <2>1. /\ Len(r.tracks[u].events) = Len(full.tracks[u].events)
        /\ \A j \in 1 .. Len(full.tracks[u].events) :
             /\ r.tracks[u].events[j].kind = full.tracks[u].events[j].kind
             /\ r.tracks[u].events[j].time = full.tracks[u].events[j].time
    BY <1>19, <1>21 DEF Alike
  <2>2. CASE u = t
    <3>1. Len(r.tracks[t].events) = i + 1
      BY <1>21, <2>1, <2>2 DEF all
    <3>2. \A j \in 1 .. i + 1 : /\ r.tracks[t].events[j].kind = from[j].kind
                                /\ r.tracks[t].events[j].time = from[j].time
      BY <1>21, <1>22, <2>1, <2>2 DEF all
    <3> QED BY <2>2, <3>1, <3>2 DEF ReadEvents, from
  <2>3. CASE u # t
    <3> DEFINE n == Len(s.tracks[u].events)
    <3>1. full.tracks[u] = x.tracks[u]
      BY <1>21, <2>3
    <3>2. ReadEvents(x.tracks[u].events, s.tracks[u].events, n)
      BY <2>3 DEF EventsRead
    <3> HIDE DEF n
    <3>3. Len(full.tracks[u].events) = n
      BY <3>1, <3>2 DEF ReadEvents
    <3>4. ASSUME NEW j \in 1 .. n
          PROVE  /\ r.tracks[u].events[j].kind = s.tracks[u].events[j].kind
                 /\ r.tracks[u].events[j].time = s.tracks[u].events[j].time
      <4>1. /\ r.tracks[u].events[j].kind = full.tracks[u].events[j].kind
            /\ r.tracks[u].events[j].time = full.tracks[u].events[j].time
        BY <2>1, <3>3, Zenon
      <4>2. /\ x.tracks[u].events[j].kind = s.tracks[u].events[j].kind
            /\ x.tracks[u].events[j].time = s.tracks[u].events[j].time
        BY <3>2, Zenon DEF ReadEvents
      <4> QED BY <3>1, <4>1, <4>2, Zenon
    <3>5. ReadEvents(r.tracks[u].events, s.tracks[u].events, n)
      BY <2>1, <3>3, <3>4, Zenon DEF ReadEvents
    <3> QED BY <2>3, <3>5 DEF n
  <2> QED BY <2>2, <2>3
<1>24. EventsRead(r, s, t, i + 1)
  BY <1>18, <1>23 DEF EventsRead
<1> QED BY <1>24 DEF r, kind, delta, e, from

\* A track is stored whole: its End Of Track event is its last.
LEMMA StoredWhole ==
  ASSUME NEW s, SongOK(s), EotLast(s), NEW t \in 1 .. Len(s.tracks),
         HasEot(s.tracks[t].events)
  PROVE  Stored(s.tracks[t].events) = s.tracks[t].events
<1> DEFINE events == s.tracks[t].events
           n == Len(events)
           I == {i \in 1 .. n : events[i].kind = Eot}
<1>1. events \in Seq(Events) /\ n \in Nat
  BY TrackIn DEF SongOK
<1>2. \A i \in 1 .. n : events[i].kind = Eot => i = n
  BY DEF EotLast
<1>3. PICK k \in 1 .. n : events[k].kind = Eot
  BY DEF HasEot
<1>4. I = {n}
  BY <1>2, <1>3
<1>5. SelectInSeq(events, LAMBDA e : e.kind = Eot) = IF I # {} THEN Min(I) ELSE 0
  BY DEF SelectInSeq
<1> HIDE DEF events
<1>6. Min(I) = n
  <2>1. n \in Nat /\ n # 0
    BY <1>1, <1>3
  <2>2. Min({n}) \in {n}
    BY <2>1, MinOf
  <2> QED BY <1>4, <2>2
<1>7. I # {} /\ n # 0
  BY <1>1, <1>3, <1>4
<1>8. SelectInSeq(events, LAMBDA e : e.kind = Eot) = n
  BY <1>5, <1>6, <1>7
<1>9. Stored(events) = SubSeq(events, 1, n)
  BY <1>7, <1>8 DEF Stored
<1>10. SubSeq(events, 1, n) = events
  BY <1>1
<1> QED BY <1>9, <1>10 DEF events

ReadStep(x, t, stored, i) == AddedAfter(x, t, stored[i].kind, stored[i].delta)

\* read[i] is the song after the first i events of a track.
IsRead(read, s, t, stored, n) ==
  read = [i \in 0 .. n |->
            IF i = 0 THEN WithNewTrack(s) ELSE ReadStep(read[i - 1], t, stored, i)]

LEMMA ReadDef ==
  ASSUME NEW s, NEW t, NEW stored
  PROVE  LET n == Len(stored)
         IN WithStored(s, t, stored) = (CHOOSE read : IsRead(read, s, t, stored, n))[n]
  BY DEF WithStored, IsRead, ReadStep

LEMMA ReadExists ==
  ASSUME NEW s, NEW t, NEW stored, NEW n \in Nat
  PROVE  \E read : IsRead(read, s, t, stored, n)
<1> DEFINE T == {m \in Nat : \E read : IsRead(read, s, t, stored, m)}
           step(x, i) == ReadStep(x, t, stored, i)
           first == WithNewTrack(s)
<1>1. 0 \in T
  <2>1. IsRead([i \in 0 .. 0 |-> first], s, t, stored, 0)
    BY DEF IsRead
  <2> QED BY <2>1
<1>2. ASSUME NEW m \in Nat, m \in T PROVE m + 1 \in T
  <2>1. PICK read : IsRead(read, s, t, stored, m)
    BY <1>2
  <2>2. read = [i \in 0 .. m |-> IF i = 0 THEN first ELSE step(read[i - 1], i)]
    BY <2>1 DEF IsRead
  <2> DEFINE r == [i \in 0 .. m + 1 |-> IF i = m + 1 THEN step(read[m], m + 1) ELSE read[i]]
  <2> HIDE DEF step, first
  <2>3. ASSUME NEW i \in 0 .. m + 1
        PROVE  r[i] = IF i = 0 THEN first ELSE step(r[i - 1], i)
    <3>1. CASE i = 0
      BY <2>2, <3>1
    <3>2. CASE i = m + 1
      BY <3>2
    <3>3. CASE i \in 1 .. m
      BY <2>2, <3>3
    <3> QED BY <3>1, <3>2, <3>3
  <2>4. IsRead(r, s, t, stored, m + 1)
    <3>1. r = [i \in 0 .. m + 1 |-> IF i = 0 THEN first ELSE step(r[i - 1], i)]
      BY <2>3
    <3> HIDE DEF r
    <3> QED BY <3>1 DEF IsRead, step, first
  <2> HIDE DEF r
  <2> QED BY <2>4
<1>3. Nat \subseteq T
  <2> HIDE DEF T
  <2> QED BY <1>1, <1>2, Induction
<1> QED BY <1>3

LEMMA ReadIs ==
  ASSUME NEW s, NEW t, NEW stored, Len(stored) \in Nat
  PROVE  LET n == Len(stored)
         IN \E read : IsRead(read, s, t, stored, n) /\ WithStored(s, t, stored) = read[n]
<1> DEFINE n == Len(stored)
           r == CHOOSE read : IsRead(read, s, t, stored, n)
<1>1. IsRead(r, s, t, stored, n)
  <2>1. n \in Nat
    OBVIOUS
  <2> HIDE DEF n
  <2> QED BY <2>1, ReadExists, Zenon
<1>2. WithStored(s, t, stored) = r[n]
  BY ReadDef
<1> QED BY <1>1, <1>2, Zenon

LEMMA ReadNext ==
  ASSUME NEW s, NEW t, NEW stored, NEW read, NEW n \in Nat, IsRead(read, s, t, stored, n)
  PROVE  /\ read[0] = WithNewTrack(s)
         /\ \A i \in Nat : i + 1 <= n => read[i + 1] = ReadStep(read[i], t, stored, i + 1)
<1> DEFINE step(x, i) == ReadStep(x, t, stored, i)
           first == WithNewTrack(s)
<1>1. read = [i \in 0 .. n |-> IF i = 0 THEN first ELSE step(read[i - 1], i)]
  BY DEF IsRead
<1> HIDE DEF step, first
<1>2. read[0] = first
  BY <1>1
<1>3. ASSUME NEW i \in Nat, i + 1 <= n PROVE read[i + 1] = step(read[i], i + 1)
  <2>1. i + 1 \in 0 .. n /\ (i + 1) - 1 = i /\ i + 1 # 0
    BY <1>3
  <2> QED BY <1>1, <2>1
<1> QED BY <1>2, <1>3 DEF step, first

\* One track more is read.
LEMMA TrackReadNext ==
  ASSUME NEW s, SongOK(s), Single(s), EotLast(s), NEW t \in Nat, t + 1 \in 1 .. Len(s.tracks),
         HasEot(s.tracks[t + 1].events), NEW x, TracksRead(x, s, t)
  PROVE  TracksRead(WithStored(x, t + 1, Stored(s.tracks[t + 1].events)), s, t + 1)
<1> DEFINE u == t + 1
           events == s.tracks[u].events
           n == Len(events)
<1>1. n \in Nat
  BY TrackIn DEF SongOK
<1>2. Stored(events) = events
  BY StoredWhole
<1>3. PICK read : IsRead(read, x, u, events, n) /\ WithStored(x, u, events) = read[n]
  BY <1>1, ReadIs
<1>4. /\ read[0] = WithNewTrack(x)
      /\ \A i \in Nat : i + 1 <= n => read[i + 1] = ReadStep(read[i], u, events, i + 1)
  BY <1>1, <1>3, ReadNext
<1> DEFINE T == {i \in Nat : i <= n => EventsRead(read[i], s, u, i)}
<1>5. 0 \in T
  <2> DEFINE r == WithNewTrack(x)
  <2>1. SongRight(x) /\ SongOK(x) /\ x.tempos # <<>> /\ Len(x.tracks) = t
    BY DEF TracksRead, SongRight
  <2>2. /\ Len(r.tracks) = Len(x.tracks) + 1 /\ r.tempos = x.tempos
        /\ r.tracks[Len(x.tracks) + 1] = EmptyTrack(Len(x.tracks) + 1)
        /\ \A v \in 1 .. Len(x.tracks) : r.tracks[v] = x.tracks[v]
    BY <2>1, NewTrackOK
  <2>3. SongRight(r)
    BY <2>1, NewTrackRight
  <2> HIDE DEF r
  <2>4. ASSUME NEW v \in 1 .. t + 1
        PROVE  ReadEvents(r.tracks[v].events, s.tracks[v].events,
                          IF v = t + 1 THEN 0 ELSE Len(s.tracks[v].events))
    <3>1. CASE v = t + 1
      BY <2>1, <2>2, <3>1 DEF EmptyTrack, ReadEvents
    <3>2. CASE v # t + 1
      <4>1. v \in 1 .. t
        BY <3>2
      <4>2. r.tracks[v] = x.tracks[v]
        BY <2>1, <2>2, <4>1
      <4>3. ReadEvents(x.tracks[v].events, s.tracks[v].events, Len(s.tracks[v].events))
        BY <4>1 DEF TracksRead
      <4> QED BY <3>2, <4>2, <4>3
    <3> QED BY <3>1, <3>2
  <2>5. EventsRead(r, s, t + 1, 0)
    BY <2>1, <2>2, <2>3, <2>4 DEF EventsRead
  <2> QED BY <1>4, <2>5 DEF r
<1>6. ASSUME NEW i \in Nat, i \in T PROVE i + 1 \in T
  <2>1. SUFFICES ASSUME i + 1 <= n PROVE EventsRead(read[i + 1], s, u, i + 1)
    OBVIOUS
  <2>2. EventsRead(read[i], s, u, i)
    BY <1>1, <1>6, <2>1
  <2>3. read[i + 1] = AddedAfter(read[i], u, events[i + 1].kind, events[i + 1].delta)
    BY <1>4, <2>1 DEF ReadStep
  <2> DEFINE y == read[i]
  <2>4. EventsRead(y, s, u, i) /\ u \in 1 .. Len(s.tracks) /\ i + 1 <= Len(s.tracks[u].events)
    BY <2>1, <2>2
  <2> HIDE DEF y, u
  <2>5. EventsRead(AddedAfter(y, u, s.tracks[u].events[i + 1].kind, s.tracks[u].events[i + 1].delta),
                   s, u, i + 1)
    BY <2>4, EventReadNext
  <2> QED BY <2>3, <2>5 DEF y
<1>7. Nat \subseteq T
  <2> HIDE DEF T
  <2> QED BY <1>5, <1>6, Induction
<1>8. EventsRead(read[n], s, u, n)
  BY <1>1, <1>7
<1>9. TracksRead(read[n], s, u)
  <2> DEFINE y == read[n]
  <2>1. EventsRead(y, s, u, n)
    BY <1>8
  <2> HIDE DEF y
  <2>2. ASSUME NEW v \in 1 .. u
        PROVE  ReadEvents(y.tracks[v].events, s.tracks[v].events, Len(s.tracks[v].events))
    <3>1. (IF v = u THEN n ELSE Len(s.tracks[v].events)) = Len(s.tracks[v].events)
      OBVIOUS
    <3> HIDE DEF n
    <3> QED BY <2>1, <3>1 DEF EventsRead
  <2>3. TracksRead(y, s, u)
    BY <2>1, <2>2 DEF EventsRead, TracksRead
  <2> QED BY <2>3 DEF y
<1> QED BY <1>2, <1>3, <1>9

LoadStep(x, s, t) == WithStored(x, t, Stored(s.tracks[t].events))

\* loaded[t] is the song after the first t tracks.
IsLoaded(loaded, s, n) ==
  loaded = [t \in 0 .. n |-> IF t = 0 THEN NewSong ELSE LoadStep(loaded[t - 1], s, t)]

LEMMA LoadedDef ==
  ASSUME NEW s
  PROVE  LET n == Len(s.tracks)
         IN Loaded(s) = Rewound((CHOOSE loaded : IsLoaded(loaded, s, n))[n])
  BY DEF Loaded, IsLoaded, LoadStep

LEMMA LoadedExists ==
  ASSUME NEW s, NEW n \in Nat
  PROVE  \E loaded : IsLoaded(loaded, s, n)
<1> DEFINE T == {m \in Nat : \E loaded : IsLoaded(loaded, s, m)}
           step(x, i) == LoadStep(x, s, i)
           first == NewSong
<1>1. 0 \in T
  <2>1. IsLoaded([i \in 0 .. 0 |-> first], s, 0)
    BY DEF IsLoaded
  <2> QED BY <2>1
<1>2. ASSUME NEW m \in Nat, m \in T PROVE m + 1 \in T
  <2>1. PICK loaded : IsLoaded(loaded, s, m)
    BY <1>2
  <2>2. loaded = [i \in 0 .. m |-> IF i = 0 THEN first ELSE step(loaded[i - 1], i)]
    BY <2>1 DEF IsLoaded
  <2> DEFINE r == [i \in 0 .. m + 1 |->
                     IF i = m + 1 THEN step(loaded[m], m + 1) ELSE loaded[i]]
  <2> HIDE DEF step, first
  <2>3. ASSUME NEW i \in 0 .. m + 1
        PROVE  r[i] = IF i = 0 THEN first ELSE step(r[i - 1], i)
    <3>1. CASE i = 0
      BY <2>2, <3>1
    <3>2. CASE i = m + 1
      BY <3>2
    <3>3. CASE i \in 1 .. m
      BY <2>2, <3>3
    <3> QED BY <3>1, <3>2, <3>3
  <2>4. IsLoaded(r, s, m + 1)
    <3>1. r = [i \in 0 .. m + 1 |-> IF i = 0 THEN first ELSE step(r[i - 1], i)]
      BY <2>3
    <3> HIDE DEF r
    <3> QED BY <3>1 DEF IsLoaded, step, first
  <2> HIDE DEF r
  <2> QED BY <2>4
<1>3. Nat \subseteq T
  <2> HIDE DEF T
  <2> QED BY <1>1, <1>2, Induction
<1> QED BY <1>3

LEMMA LoadedIs ==
  ASSUME NEW s, SongOK(s)
  PROVE  LET n == Len(s.tracks)
         IN \E loaded : IsLoaded(loaded, s, n) /\ Loaded(s) = Rewound(loaded[n])
<1> DEFINE n == Len(s.tracks)
           r == CHOOSE loaded : IsLoaded(loaded, s, n)
<1>1. n \in Nat
  BY SongIn DEF SongOK
<1>2. IsLoaded(r, s, n)
  <2> HIDE DEF n
  <2> QED BY <1>1, LoadedExists, Zenon
<1>3. Loaded(s) = Rewound(r[n])
  BY LoadedDef
<1> QED BY <1>2, <1>3, Zenon

LEMMA LoadedNext ==
  ASSUME NEW s, NEW loaded, NEW n \in Nat, IsLoaded(loaded, s, n)
  PROVE  /\ loaded[0] = NewSong
         /\ \A i \in Nat : i + 1 <= n => loaded[i + 1] = LoadStep(loaded[i], s, i + 1)
<1> DEFINE step(x, i) == LoadStep(x, s, i)
           first == NewSong
<1>1. loaded = [i \in 0 .. n |-> IF i = 0 THEN first ELSE step(loaded[i - 1], i)]
  BY DEF IsLoaded
<1> HIDE DEF step, first
<1>2. loaded[0] = first
  BY <1>1
<1>3. ASSUME NEW i \in Nat, i + 1 <= n PROVE loaded[i + 1] = step(loaded[i], i + 1)
  <2>1. i + 1 \in 0 .. n /\ (i + 1) - 1 = i /\ i + 1 # 0
    BY <1>3
  <2> QED BY <1>1, <2>1
<1> QED BY <1>2, <1>3 DEF step, first

\* What smf_load makes of the file is the whole of s, rewound.
LEMMA LoadedRead ==
  ASSUME NEW s, SongOK(s), Single(s), EotLast(s),
         \A t \in 1 .. Len(s.tracks) : HasEot(s.tracks[t].events)
  PROVE  \E x : TracksRead(x, s, Len(s.tracks)) /\ Loaded(s) = Rewound(x)
<1> DEFINE n == Len(s.tracks)
<1>1. n \in Nat
  BY SongIn DEF SongOK
<1>2. PICK loaded : IsLoaded(loaded, s, n) /\ Loaded(s) = Rewound(loaded[n])
  BY LoadedIs
<1>3. /\ loaded[0] = NewSong
      /\ \A i \in Nat : i + 1 <= n => loaded[i + 1] = LoadStep(loaded[i], s, i + 1)
  <2> HIDE DEF n
  <2> QED BY <1>1, <1>2, LoadedNext
<1> DEFINE T == {i \in Nat : i <= n => TracksRead(loaded[i], s, i)}
<1>4. 0 \in T
  <2>1. NewSong.tempos # <<>> /\ Len(NewSong.tracks) = 0
    BY InitialTempoOK DEF NewSong
  <2>2. TracksRead(NewSong, s, 0)
    BY <2>1, NewSongRight DEF TracksRead
  <2> QED BY <1>3, <2>2
<1>5. ASSUME NEW i \in Nat, i \in T PROVE i + 1 \in T
  <2>1. SUFFICES ASSUME i + 1 <= n PROVE TracksRead(loaded[i + 1], s, i + 1)
    OBVIOUS
  <2> DEFINE x == loaded[i]
  <2>2. TracksRead(x, s, i) /\ i + 1 \in 1 .. n
    BY <1>1, <1>5, <2>1
  <2>3. loaded[i + 1] = LoadStep(x, s, i + 1)
    BY <1>3, <2>1
  <2> HIDE DEF x
  <2>4. TracksRead(WithStored(x, i + 1, Stored(s.tracks[i + 1].events)), s, i + 1)
    BY <2>2, TrackReadNext
  <2> QED BY <2>3, <2>4 DEF LoadStep
<1>6. Nat \subseteq T
  <2> HIDE DEF T
  <2> QED BY <1>4, <1>5, Induction
<1>7. TracksRead(loaded[n], s, n)
  BY <1>1, <1>6
<1> QED BY <1>2, <1>7

\* To rewind changes no event.
LEMMA RewoundRead ==
  ASSUME NEW s, NEW t, NEW x, TracksRead(x, s, t)
  PROVE  TracksRead(Rewound(x), s, t)
<1> DEFINE r == Rewound(x)
<1>1. SongRight(x) /\ SongOK(x) /\ Len(x.tracks) = t /\ x.tempos # <<>>
  BY DEF TracksRead, SongRight
<1>2. /\ SongOK(r) /\ Len(r.tracks) = Len(x.tracks) /\ r.tempos = x.tempos
      /\ \A u \in 1 .. Len(x.tracks) : r.tracks[u].events = x.tracks[u].events
  BY <1>1, RewoundOK
<1> HIDE DEF r
<1>3. SongRight(r)
  BY <1>1, <1>2, CursorsRight
<1>4. TracksRead(r, s, t)
  BY <1>1, <1>2, <1>3 DEF TracksRead
<1> QED BY <1>4 DEF r

\* Every track of r is the one of s, as far as it is stored.
LEMMA ReadEvent ==
  ASSUME NEW s, SongOK(s), NEW r, TracksRead(r, s, Len(s.tracks))
  PROVE  /\ \A t \in 1 .. Len(s.tracks) :
              Len(r.tracks[t].events) = Len(s.tracks[t].events)
         /\ Positions(r) = Positions(s)
         /\ \A p \in Positions(s) :
              /\ EventAt(r, p).kind = EventAt(s, p).kind
              /\ EventAt(r, p).time = EventAt(s, p).time
<1>1. Len(r.tracks) = Len(s.tracks)
      /\ \A t \in 1 .. Len(s.tracks) :
           ReadEvents(r.tracks[t].events, s.tracks[t].events, Len(s.tracks[t].events))
  BY DEF TracksRead
<1>2. \A t \in 1 .. Len(s.tracks) : Len(r.tracks[t].events) = Len(s.tracks[t].events)
  BY <1>1 DEF ReadEvents
<1>3. Positions(r) = Positions(s)
  <2>1. ASSUME NEW p \in Positions(s) PROVE p \in Positions(r)
    BY <1>1, <1>2, PositionOf, PositionPair, SMTT(30)
  <2>2. ASSUME NEW p \in Positions(r) PROVE p \in Positions(s)
    BY <1>1, <1>2, PositionOf, PositionPair, SMTT(30)
  <2> QED BY <2>1, <2>2
<1>4. ASSUME NEW p \in Positions(s)
      PROVE  /\ EventAt(r, p).kind = EventAt(s, p).kind
             /\ EventAt(r, p).time = EventAt(s, p).time
  <2>1. p[1] \in 1 .. Len(s.tracks) /\ p[2] \in 1 .. Len(s.tracks[p[1]].events)
    BY PositionOf
  <2> QED BY <1>1, <2>1 DEF ReadEvents, EventAt
<1> QED BY <1>2, <1>3, <1>4

\* The fields of an event that come from its place in its track.
LEMMA PlaceOf ==
  ASSUME NEW s, SongOK(s), NEW p \in Positions(s)
  PROVE  /\ EventAt(s, p).number = p[2] /\ EventAt(s, p).track = p[1]
         /\ EventAt(s, p).time \in Nat /\ EventAt(s, p).delta \in Nat
         /\ EventAt(s, p).time =
              EventAt(s, p).delta
                + (IF p[2] = 1 THEN 0 ELSE EventAt(s, <<p[1], p[2] - 1>>).time)
         /\ p[2] # 1 => <<p[1], p[2] - 1>> \in Positions(s)
         /\ p[2] \in Nat
<1> DEFINE t == p[1]
           i == p[2]
           events == s.tracks[t].events
<1>1. t \in 1 .. Len(s.tracks) /\ i \in 1 .. Len(events) /\ p = <<t, i>>
  BY PositionOf
<1>2. events \in Seq(Events) /\ Len(events) \in Nat /\ EventsOK(events, t)
  BY <1>1, TrackIn DEF SongOK, TrackOK
<1>3. EventAt(s, p) = events[i]
  BY DEF EventAt
<1>4. i # 1 => <<t, i - 1>> \in Positions(s) /\ EventAt(s, <<t, i - 1>>) = events[i - 1]
  <2>1. SUFFICES ASSUME i # 1
                 PROVE  <<t, i - 1>> \in Positions(s) /\ EventAt(s, <<t, i - 1>>) = events[i - 1]
    OBVIOUS
  <2>2. i - 1 \in 1 .. Len(events)
    BY <1>1, <1>2, <2>1
  <2> DEFINE j == i - 1
  <2> HIDE DEF j
  <2>3. j \in 1 .. Len(events)
    BY <2>2 DEF j
  <2>4. <<t, j>> \in Positions(s) /\ EventAt(s, <<t, j>>) = s.tracks[t].events[j]
    BY <1>1, <2>3, PositionPair
  <2> QED BY <2>4 DEF j
<1> HIDE DEF events
<1>5. /\ events[i].number = i /\ events[i].track = t
      /\ events[i].time = events[i].delta + TimeBefore(events, i)
  BY <1>1, <1>2 DEF EventsOK
<1>6. events[i] \in Events
  BY <1>1, <1>2
<1>7. events[i].time \in Nat /\ events[i].delta \in Nat
  BY <1>6 DEF Events
<1> QED BY <1>1, <1>2, <1>3, <1>4, <1>5, <1>7 DEF TimeBefore

LEMMA ReadIdentical ==
  ASSUME NEW s, SongRight(s), NEW r, TracksRead(r, s, Len(s.tracks))
  PROVE  Identical(s, r)
<1>1. SongRight(r) /\ SongOK(r) /\ SongOK(s) /\ Len(r.tracks) = Len(s.tracks)
  BY DEF TracksRead, SongRight
<1>2. r \in Songs /\ s \in Songs /\ Single(r)
  BY <1>1 DEF SongRight, SongOK
<1>3. /\ \A t \in 1 .. Len(s.tracks) :
           Len(r.tracks[t].events) = Len(s.tracks[t].events)
      /\ Positions(r) = Positions(s)
      /\ \A p \in Positions(s) : /\ EventAt(r, p).kind = EventAt(s, p).kind
                                 /\ EventAt(r, p).time = EventAt(s, p).time
  BY <1>1, ReadEvent
<1>4. Changes(r) = Changes(s)
  BY <1>3 DEF Changes, Change, IsChange
<1>5. ASSUME NEW t \in 1 .. Len(s.tracks)
      PROVE  s.tracks[t].number = r.tracks[t].number
  BY <1>1 DEF SongOK, TrackOK
<1>6. ASSUME NEW p \in Positions(s)
      PROVE  /\ EventAt(s, p).number = EventAt(r, p).number
             /\ EventAt(s, p).track = EventAt(r, p).track
             /\ EventAt(s, p).delta = EventAt(r, p).delta
  <2> DEFINE q == <<p[1], p[2] - 1>>
             e == EventAt(s, p)
             f == EventAt(r, p)
  <2>1. /\ e.number = p[2] /\ e.track = p[1] /\ e.time \in Nat /\ e.delta \in Nat
        /\ e.time = e.delta + (IF p[2] = 1 THEN 0 ELSE EventAt(s, q).time)
        /\ p[2] # 1 => q \in Positions(s)
    BY <1>1, PlaceOf
  <2>2. /\ f.number = p[2] /\ f.track = p[1] /\ f.time \in Nat /\ f.delta \in Nat
        /\ f.time = f.delta + (IF p[2] = 1 THEN 0 ELSE EventAt(r, q).time)
    BY <1>1, <1>3, PlaceOf
  <2>3. e.time = f.time /\ (p[2] # 1 => EventAt(s, q).time = EventAt(r, q).time)
    BY <1>3, <2>1
  <2>4. p[2] # 1 => EventAt(s, q).time \in Nat
    BY <1>2, <2>1, EventIn
  <2> HIDE DEF q, e, f
  <2>5. e.delta = f.delta
    BY <2>1, <2>2, <2>3, <2>4
  <2> QED BY <2>1, <2>2, <2>5 DEF e, f
<1>7. ASSUME NEW p \in Positions(s)
      PROVE  EventAt(s, p).secs - EventAt(r, p).secs \in -Slack .. Slack
  <2> DEFINE n == EventAt(s, p).time
             due == Due(s, n)
             a == EventAt(s, p).secs
             b == EventAt(r, p).secs
  <2>1. n \in Nat /\ EventAt(r, p).time = n
    BY <1>2, <1>3, EventIn
  <2>2. Due(r, n) = due
    BY <1>2, <1>4, <2>1, DueEqual
  <2>3. due \in Nat
    BY <1>2, <2>1, DueNat
  <2>4. a \in due .. due + Slack
    BY DEF SongRight, SecondsOK
  <2>5. b \in due .. due + Slack
    <3>1. b \in Due(r, n) .. Due(r, n) + Slack
      BY <1>1, <1>3, <2>1 DEF SongRight, SecondsOK
    <3> QED BY <2>2, <3>1
  <2> HIDE DEF due, a, b
  <2>6. a - b \in -Slack .. Slack
    BY <2>3, <2>4, <2>5, SongAssumption
  <2> QED BY <2>6 DEF a, b
<1> QED BY <1>1, <1>3, <1>5, <1>6, <1>7 DEF Identical

LEMMA SavedLoads ==
  ASSUME NEW s, Whole(s), \A t \in 1 .. Len(s.tracks) : HasEot(s.tracks[t].events)
  PROVE  Identical(s, Loaded(s))
<1>1. SongRight(s) /\ SongOK(s) /\ Single(s) /\ EotLast(s)
  BY DEF Whole, SongRight
<1>2. PICK x : TracksRead(x, s, Len(s.tracks)) /\ Loaded(s) = Rewound(x)
  BY <1>1, LoadedRead
<1>3. TracksRead(Rewound(x), s, Len(s.tracks))
  BY <1>2, RewoundRead
<1>4. Identical(s, Rewound(x))
  BY <1>1, <1>3, ReadIdentical
<1> QED BY <1>2, <1>4

\* What smf_save asserts of the file it has written (smf_load of it passes
\* assert_smf_is_identical): a song in which every track is ended loads as one
\* with the same tracks, event by event, though the one was edited in any order
\* and the other is built from its start, with seconds that differ by the
\* tolerance at most.  Where two tempo changes share a pulse the seconds may
\* differ, so the editor is taken not to add such a pair; so they may where an
\* event was added by its seconds and a pulse is longer than the tolerance.
THEOREM SongSavedIdentical ==
  ASSUME SharedTempo = FALSE, PulsesShort
  PROVE  Spec => []SavedIdentical
<1>1. Whole(song) => SavedIdentical
  BY SavedLoads DEF SavedIdentical
<1> QED BY <1>1, SongWhole, PTL
===============================================================================
