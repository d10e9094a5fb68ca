---------------------------- MODULE JackRingProofs ----------------------------
(***************************************************************************)
(* Theorems about the ring between the player's thread and JACK's, for     *)
(* every size of ring and period and every length of write.                *)
(***************************************************************************)
EXTENDS JackRing, TLAPS

-------------------------------------------------------------------------------
(***************************************************************************)
(* Positions and the slots of the ring they fall on.                       *)
(***************************************************************************)
LEMMA ModRange == \A a \in Int : a % Size \in 0 .. Size - 1
  BY RingAssumption

LEMMA DivType == \A a \in Int : a \div Size \in Int
  BY RingAssumption

LEMMA ModDiv == \A a \in Int : a = (a \div Size) * Size + (a % Size)
  BY RingAssumption

LEMMA AtLeastARing == \A q \in Int : q >= 1 => q * Size >= Size
  BY RingAssumption

LEMMA ModUnique ==
  ASSUME NEW a \in Int, NEW q \in Int, NEW r \in 0 .. Size - 1,
         a = q * Size + r
  PROVE  a % Size = r
<1> DEFINE p == a \div Size
           s == a % Size
<1>1. p \in Int /\ s \in 0 .. Size - 1 /\ a = p * Size + s
  BY RingAssumption, ModDiv, ModRange, DivType
<1> HIDE DEF p, s
<1>2. (q - p) * Size = s - r /\ (p - q) * Size = r - s
  BY <1>1, RingAssumption
<1>3. ~(q - p >= 1) /\ ~(p - q >= 1)
  BY <1>1, <1>2, AtLeastARing, RingAssumption
<1>4. q = p
  BY <1>1, <1>3
<1>5. s = r
  BY <1>1, <1>2, <1>4, RingAssumption
<1> QED BY <1>5 DEF s

\* Two positions less than the ring apart never fall on the same slot.
LEMMA SlotsDiffer ==
  ASSUME NEW a \in Int, NEW b \in Int, a % Size = b % Size,
         a <= b, b < a + Size
  PROVE  a = b
<1> DEFINE p == a \div Size
           q == b \div Size
           r == a % Size
<1>1. /\ p \in Int /\ q \in Int /\ r \in 0 .. Size - 1
      /\ a = p * Size + r /\ b = q * Size + r
  BY ModDiv, ModRange, DivType
<1> HIDE DEF p, q, r
<1>2. b - a = (q - p) * Size /\ a - b = (p - q) * Size
  BY <1>1, RingAssumption
<1>3. ~(q - p >= 1) /\ ~(p - q >= 1)
  BY <1>1, <1>2, AtLeastARing, RingAssumption
<1>4. q = p
  BY <1>1, <1>3
<1> QED BY <1>1, <1>4

\* The place of a slot in a stretch written from p on is found again from p.
LEMMA SlotBack ==
  ASSUME NEW p \in Nat, NEW i \in 0 .. Size - 1
  PROVE  (((p + i) % Size) - p) % Size = i
<1> DEFINE a == p + i
           q == a \div Size
           r == a % Size
<1>1. a \in Int /\ a = p + i
  BY RingAssumption
<1> HIDE DEF a
<1>2. q \in Int /\ r \in 0 .. Size - 1 /\ a = q * Size + r
  BY <1>1, ModDiv, ModRange, DivType
<1> HIDE DEF q, r
<1>3. r - p \in Int /\ r - p = (0 - q) * Size + i
  BY <1>1, <1>2, RingAssumption
<1>4. (r - p) % Size = i
  BY <1>1, <1>2, <1>3, ModUnique
<1> QED BY <1>4 DEF r, a

\* ringbuf_bound_readable and ringbuf_bound_writable take no more than they
\* are given, and something of it if it is not nothing.
LEMMA BoundRange ==
  ASSUME NEW p \in Nat, NEW n \in Nat
  PROVE  Bound(p, n) \in 0 .. n /\ (n > 0 => Bound(p, n) > 0)
  BY ModRange, RingAssumption DEF Bound

-------------------------------------------------------------------------------
(***************************************************************************)
(* The inductive invariant.                                                *)
(***************************************************************************)
\* A callback needs an active client to begin and is over before the ring is
\* destroyed; the player's thread clears the ring with running unset, so that
\* none begins between the two stores of a clear.
Living ==
  /\ pc \in {"destroy", "closed"} => cb = "off" /\ client # "active"
  /\ pc = "close" => client = "inactive"
  /\ pc = "exit" => cb = "off" /\ client = "lost"
  /\ pc \in {"clear", "cleared"} => ~running

\* There is room for what write_jack has decided to write.  Only the player
\* can fill the ring, so the room it has seen can but grow; between the two
\* stores of a clear it does not look.
Sized ==
  /\ pc \notin {"cleared", "exit"} => Available <= Size
  /\ pc \in {"copy", "advance", "run"} => size <= Empty /\ size <= nframes

\* The callback reads something, from where rdptr was unless a clear has set
\* it back since.
Loaded ==
  /\ cb \in {"read", "consume"} => cbsize > 0
  /\ cb = "consume" => rdptr = cbrd \/ (raced /\ rdptr = 0)

\* Slots from position p to position q hold the samples of those positions.
Holds(p, q) == \A k \in p .. q - 1 : ring[k % Size] = k + 1

\* While no clear has fallen within a callback: the pointers are in order, the
\* callback has no more to read than is between them, and between the two
\* stores of a clear no callback is at work.
Ordered ==
  ~raced =>
    /\ pc = "cleared" => rdptr = 0 /\ ~InCallback
    /\ pc \notin {"cleared", "exit"} =>
         /\ 0 <= Available
         /\ cb \in {"read", "consume"} => cbsize <= Available

\* What is between the pointers is then what was written there, and so is
\* what has been copied and wrptr is yet to take in.
Kept ==
  ~raced =>
    /\ pc \notin {"cleared", "exit"} => Holds(rdptr, wrptr)
    /\ pc = "advance" => Holds(wrptr, wrptr + Bound(wrptr, size))

\* Until running is set the ring is empty, and so it is once a flush has found
\* nothing available.
Drained ==
  ~raced =>
    /\ pc \in {"idle", "look", "copy", "advance", "doze", "asleep"} /\ ~running
         => rdptr = wrptr
    /\ pc \in {"stop", "clear"} /\ request = "flush" => rdptr = wrptr

Inv == TypeOK /\ Living /\ Sized /\ Loaded /\ Ordered /\ Kept /\ Drained

-------------------------------------------------------------------------------
(***************************************************************************)
(* No step breaks the invariant: one lemma per part of it.                 *)
(***************************************************************************)
\* What a callback takes it takes from the front: rdptr only goes forward, by
\* what has been read when no clear comes between its load and its store.
LEMMA Consumes ==
  ASSUME TypeOK, Loaded, CallbackConsume
  PROVE  /\ Bound(cbrd, cbsize) \in 1 .. cbsize
         /\ \E n \in Nat : rdptr' = rdptr + n
         /\ ~raced => rdptr' = rdptr + Bound(cbrd, cbsize) /\ rdptr = cbrd
<1> DEFINE n == Bound(cbrd, cbsize)
<1>1. /\ rdptr \in Nat /\ cbrd \in Nat /\ cbsize \in Nat /\ cbsize > 0
      /\ rdptr' \in {cbrd + n, rdptr + n}
      /\ rdptr = cbrd \/ (raced /\ rdptr = 0)
  BY DEF TypeOK, Loaded, CallbackConsume
<1>2. n \in 1 .. cbsize
  BY <1>1, BoundRange
<1> HIDE DEF n
<1>3. \E k \in Nat : rdptr' = rdptr + k
  <2>1. CASE rdptr = cbrd
    BY <1>1, <1>2, <2>1
  <2>2. CASE rdptr = 0
    <3>1. cbrd + n \in Nat /\ n \in Nat /\ rdptr + (cbrd + n) = cbrd + n
      BY <1>1, <1>2, <2>2
    <3> QED BY <1>1, <3>1
  <2> QED BY <1>1, <2>1, <2>2
<1>4. ~raced => rdptr' = rdptr + n /\ rdptr = cbrd
  BY <1>1
<1> QED BY <1>2, <1>3, <1>4 DEF n

LEMMA TypeStep == Inv /\ [Next]_vars => TypeOK'
<1> SUFFICES ASSUME Inv, [Next]_vars PROVE TypeOK'
  OBVIOUS
<1> USE RingAssumption DEF Inv, ringVars, playerVars, cbVars, clientVars,
       TypeOK
<1>1. CASE \E n \in 1 .. MaxWrite : Write(n)
  BY <1>1 DEF Write
<1>2. CASE \E r \in Requests : Actl(r)
  BY <1>2 DEF Actl
<1>3. CASE WriteLook
  BY <1>3 DEF WriteLook, Lesser, Empty, Available, Sized
<1>4. CASE WriteCopy
  <2>1. \A i \in 0 .. Size - 1 : wrptr + ((i - wrptr) % Size) + 1 \in Nat
    BY ModRange
  <2>2. ring' \in [0 .. Size - 1 -> Nat]
    BY <1>4, <2>1 DEF WriteCopy
  <2> QED BY <1>4, <2>2 DEF WriteCopy
<1>5. CASE WriteAdvance
  <2>1. Bound(wrptr, size) \in 0 .. size /\ size <= nframes
    BY <1>5, BoundRange DEF Sized, WriteAdvance
  <2> QED BY <1>5, <2>1 DEF WriteAdvance
<1>6. CASE WriteRun
  BY <1>6 DEF WriteRun
<1>7. CASE Doze
  BY <1>7 DEF Doze
<1>8. CASE FlushLook
  BY <1>8 DEF FlushLook
<1>9. CASE Stop
  BY <1>9 DEF Stop
<1>10. CASE ClearRead
  BY <1>10 DEF ClearRead, InCallback
<1>11. CASE ClearWrite
  BY <1>11 DEF ClearWrite
<1>12. CASE CloseStop
  BY <1>12 DEF CloseStop
<1>13. CASE Deactivate
  BY <1>13 DEF Deactivate
<1>14. CASE ClientClose
  BY <1>14 DEF ClientClose
<1>15. CASE Destroy
  BY <1>15 DEF Destroy
<1>16. CASE Callback
  BY <1>16 DEF Callback
<1>17. CASE CallbackLook
  BY <1>17 DEF CallbackLook, Lesser, Available
<1>18. CASE CallbackRead
  BY <1>18 DEF CallbackRead
<1>19. CASE CallbackConsume
  <2>1. cbsize \in Nat
    BY <1>19 DEF Loaded, CallbackConsume
  <2>2. Bound(cbrd, cbsize) \in 0 .. cbsize
    BY <2>1, BoundRange
  <2> QED BY <1>19, <2>1, <2>2 DEF CallbackConsume
<1>20. CASE Signal
  BY <1>20 DEF Signal, Awake
<1>21. CASE ShutdownCallback
  BY <1>21 DEF ShutdownCallback
<1>22. CASE Open
  <2>1. ring' \in [0 .. Size - 1 -> Nat]
    BY <1>22 DEF Open
  <2>2. pc' \in {"idle", "closed"} /\ client' \in {"active", "none", "stale"}
    BY <1>22 DEF Open
  <2>3. pc' \in {"idle", "look", "copy", "advance", "run", "doze", "asleep",
             "flush", "doze_flush", "asleep_flush", "stop", "clear", "cleared",
             "closing", "deactivate", "close", "destroy", "closed", "exit"}
    BY <2>2
  <2>4. /\ rdptr' = 0 /\ wrptr' = 0 /\ running' = FALSE /\ shutdown' = FALSE
        /\ raced' = FALSE /\ request' = "none" /\ nframes' = 0 /\ size' = 0
        /\ cbsize' = 0 /\ cbrd' = 0 /\ cb' = cb
    BY <1>22 DEF Open
  <2>5. running' \in BOOLEAN /\ shutdown' \in BOOLEAN /\ raced' \in BOOLEAN
    BY <2>4
  <2>6. /\ rdptr' \in Nat /\ wrptr' \in Nat /\ nframes' \in Nat
        /\ size' \in Nat /\ cbsize' \in Int /\ cbrd' \in Nat
        /\ request' \in Requests \cup {"none"}
        /\ cb' \in {"off", "look", "read", "consume", "signal"}
    BY <2>4
  <2> QED BY <2>1, <2>2, <2>3, <2>5, <2>6
<1>23. CASE Close
  BY <1>23 DEF Close
<1>24. CASE SpuriousWakeup
  BY <1>24 DEF SpuriousWakeup, Awake
<1>25. CASE ServerGone
  BY <1>25 DEF ServerGone
<1>26. CASE Exited
  BY <1>26 DEF Exited, vars
<1>27. CASE UNCHANGED vars
  BY <1>27 DEF vars
<1> QED
  BY <1>1, <1>2, <1>3, <1>4, <1>5, <1>6, <1>7, <1>8, <1>9, <1>10, <1>11, <1>12,
     <1>13, <1>14, <1>15, <1>16, <1>17, <1>18, <1>19, <1>20, <1>21, <1>22,
     <1>23, <1>24, <1>25, <1>26, <1>27 DEF Next, Player, Jack

LEMMA LivingStep == Inv /\ [Next]_vars => Living'
<1> SUFFICES ASSUME Inv, [Next]_vars PROVE Living'
  OBVIOUS
<1> USE RingAssumption DEF Inv, ringVars, playerVars, cbVars, clientVars,
       Living
<1>1. CASE \E n \in 1 .. MaxWrite : Write(n)
  BY <1>1 DEF Write
<1>2. CASE \E r \in Requests : Actl(r)
  BY <1>2 DEF Actl
<1>3. CASE WriteLook
  BY <1>3 DEF WriteLook
<1>4. CASE WriteCopy
  BY <1>4 DEF WriteCopy
<1>5. CASE WriteAdvance
  BY <1>5 DEF WriteAdvance
<1>6. CASE WriteRun
  BY <1>6 DEF WriteRun
<1>7. CASE Doze
  BY <1>7 DEF Doze
<1>8. CASE FlushLook
  BY <1>8 DEF FlushLook
<1>9. CASE Stop
  BY <1>9 DEF Stop
<1>10. CASE ClearRead
  BY <1>10 DEF ClearRead
<1>11. CASE ClearWrite
  BY <1>11 DEF ClearWrite
<1>12. CASE CloseStop
  BY <1>12 DEF CloseStop
<1>13. CASE Deactivate
  BY <1>13 DEF Deactivate
<1>14. CASE ClientClose
  BY <1>14 DEF ClientClose
<1>15. CASE Destroy
  BY <1>15 DEF Destroy
<1>16. CASE Callback
  BY <1>16 DEF Callback
<1>17. CASE CallbackLook
  BY <1>17 DEF CallbackLook
<1>18. CASE CallbackRead
  BY <1>18 DEF CallbackRead
<1>19. CASE CallbackConsume
  BY <1>19 DEF CallbackConsume
<1>20. CASE Signal
  BY <1>20 DEF Signal, Awake
<1>21. CASE ShutdownCallback
  BY <1>21 DEF ShutdownCallback
<1>22. CASE Open
  BY <1>22 DEF Open
<1>23. CASE Close
  BY <1>23 DEF Close
<1>24. CASE SpuriousWakeup
  BY <1>24 DEF SpuriousWakeup, Awake
<1>25. CASE ServerGone
  BY <1>25 DEF ServerGone
<1>26. CASE Exited
  BY <1>26 DEF Exited, vars
<1>27. CASE UNCHANGED vars
  BY <1>27 DEF vars
<1> QED
  BY <1>1, <1>2, <1>3, <1>4, <1>5, <1>6, <1>7, <1>8, <1>9, <1>10, <1>11, <1>12,
     <1>13, <1>14, <1>15, <1>16, <1>17, <1>18, <1>19, <1>20, <1>21, <1>22,
     <1>23, <1>24, <1>25, <1>26, <1>27 DEF Next, Player, Jack

LEMMA SizedStep == Inv /\ [Next]_vars => Sized'
<1> SUFFICES ASSUME Inv, [Next]_vars PROVE Sized'
  OBVIOUS
<1>5. CASE WriteAdvance
  <2> DEFINE n == Bound(wrptr, size)
  <2>1. /\ pc = "advance" /\ pc' = "run" /\ rdptr' = rdptr /\ wrptr' = wrptr + n
        /\ nframes' = nframes - n /\ size' = size - n
    BY <1>5 DEF WriteAdvance
  <2>2. /\ wrptr \in Nat /\ rdptr \in Nat /\ size \in Nat /\ nframes \in Nat
        /\ size <= Size - (wrptr - rdptr) /\ size <= nframes
    BY <2>1, RingAssumption DEF Inv, TypeOK, Sized, Empty, Available
  <2>3. n \in 0 .. size
    BY <2>2, BoundRange
  <2> HIDE DEF n
  <2>4. /\ wrptr' - rdptr' <= Size /\ size' <= Size - (wrptr' - rdptr')
        /\ size' <= nframes'
    BY <2>1, <2>2, <2>3, RingAssumption
  <2> QED BY <2>1, <2>4 DEF Sized, Empty, Available
<1> USE RingAssumption DEF Inv, ringVars, playerVars, cbVars, clientVars,
       TypeOK, Sized, Available, Empty
<1>1. CASE \E n \in 1 .. MaxWrite : Write(n)
  BY <1>1 DEF Write
<1>2. CASE \E r \in Requests : Actl(r)
  BY <1>2 DEF Actl
<1>3. CASE WriteLook
  BY <1>3 DEF WriteLook, Lesser
<1>4. CASE WriteCopy
  BY <1>4 DEF WriteCopy
<1>6. CASE WriteRun
  BY <1>6 DEF WriteRun
<1>7. CASE Doze
  BY <1>7 DEF Doze
<1>8. CASE FlushLook
  BY <1>8 DEF FlushLook
<1>9. CASE Stop
  BY <1>9 DEF Stop
<1>10. CASE ClearRead
  BY <1>10 DEF ClearRead
<1>11. CASE ClearWrite
  BY <1>11 DEF ClearWrite
<1>12. CASE CloseStop
  BY <1>12 DEF CloseStop
<1>13. CASE Deactivate
  BY <1>13 DEF Deactivate
<1>14. CASE ClientClose
  BY <1>14 DEF ClientClose
<1>15. CASE Destroy
  BY <1>15 DEF Destroy
<1>16. CASE Callback
  BY <1>16 DEF Callback
<1>17. CASE CallbackLook
  BY <1>17 DEF CallbackLook
<1>18. CASE CallbackRead
  BY <1>18 DEF CallbackRead
<1>19. CASE CallbackConsume
  <2>1. PICK n \in Nat : rdptr' = rdptr + n
    BY <1>19, Consumes
  <2>2. UNCHANGED <<wrptr, pc, nframes, size>>
    BY <1>19 DEF CallbackConsume
  <2> QED BY <2>1, <2>2
<1>20. CASE Signal
  BY <1>20 DEF Signal, Awake
<1>21. CASE ShutdownCallback
  BY <1>21 DEF ShutdownCallback
<1>22. CASE Open
  BY <1>22 DEF Open
<1>23. CASE Close
  BY <1>23 DEF Close
<1>24. CASE SpuriousWakeup
  BY <1>24 DEF SpuriousWakeup, Awake
<1>25. CASE ServerGone
  BY <1>25 DEF ServerGone
<1>26. CASE Exited
  BY <1>26 DEF Exited, vars
<1>27. CASE UNCHANGED vars
  BY <1>27 DEF vars
<1> QED
  BY <1>1, <1>2, <1>3, <1>4, <1>5, <1>6, <1>7, <1>8, <1>9, <1>10, <1>11, <1>12,
     <1>13, <1>14, <1>15, <1>16, <1>17, <1>18, <1>19, <1>20, <1>21, <1>22,
     <1>23, <1>24, <1>25, <1>26, <1>27 DEF Next, Player, Jack

LEMMA LoadedStep == Inv /\ [Next]_vars => Loaded'
<1> SUFFICES ASSUME Inv, [Next]_vars PROVE Loaded'
  OBVIOUS
<1> USE RingAssumption DEF Inv, ringVars, playerVars, cbVars, clientVars,
       TypeOK, Loaded, Living
<1>1. CASE \E n \in 1 .. MaxWrite : Write(n)
  BY <1>1 DEF Write
<1>2. CASE \E r \in Requests : Actl(r)
  BY <1>2 DEF Actl
<1>3. CASE WriteLook
  BY <1>3 DEF WriteLook
<1>4. CASE WriteCopy
  BY <1>4 DEF WriteCopy
<1>5. CASE WriteAdvance
  BY <1>5 DEF WriteAdvance
<1>6. CASE WriteRun
  BY <1>6 DEF WriteRun
<1>7. CASE Doze
  BY <1>7 DEF Doze
<1>8. CASE FlushLook
  BY <1>8 DEF FlushLook
<1>9. CASE Stop
  BY <1>9 DEF Stop
<1>10. CASE ClearRead
  BY <1>10 DEF ClearRead, InCallback
<1>11. CASE ClearWrite
  BY <1>11 DEF ClearWrite
<1>12. CASE CloseStop
  BY <1>12 DEF CloseStop
<1>13. CASE Deactivate
  BY <1>13 DEF Deactivate
<1>14. CASE ClientClose
  BY <1>14 DEF ClientClose
<1>15. CASE Destroy
  BY <1>15 DEF Destroy
<1>16. CASE Callback
  BY <1>16 DEF Callback
<1>17. CASE CallbackLook
  BY <1>17 DEF CallbackLook
<1>18. CASE CallbackRead
  BY <1>18 DEF CallbackRead
<1>19. CASE CallbackConsume
  <2>1. Bound(cbrd, cbsize) \in 0 .. cbsize
    BY <1>19, BoundRange DEF CallbackConsume
  <2> QED BY <1>19, <2>1 DEF CallbackConsume
<1>20. CASE Signal
  BY <1>20 DEF Signal, Awake
<1>21. CASE ShutdownCallback
  BY <1>21 DEF ShutdownCallback
<1>22. CASE Open
  BY <1>22 DEF Open
<1>23. CASE Close
  BY <1>23 DEF Close
<1>24. CASE SpuriousWakeup
  BY <1>24 DEF SpuriousWakeup, Awake
<1>25. CASE ServerGone
  BY <1>25 DEF ServerGone
<1>26. CASE Exited
  BY <1>26 DEF Exited, vars
<1>27. CASE UNCHANGED vars
  BY <1>27 DEF vars
<1> QED
  BY <1>1, <1>2, <1>3, <1>4, <1>5, <1>6, <1>7, <1>8, <1>9, <1>10, <1>11, <1>12,
     <1>13, <1>14, <1>15, <1>16, <1>17, <1>18, <1>19, <1>20, <1>21, <1>22,
     <1>23, <1>24, <1>25, <1>26, <1>27 DEF Next, Player, Jack

LEMMA Writes == TypeOK => Bound(wrptr, size) \in 0 .. size /\ size \in Nat
<1> SUFFICES ASSUME TypeOK PROVE Bound(wrptr, size) \in 0 .. size /\ size \in Nat
  OBVIOUS
<1>1. wrptr \in Nat /\ size \in Nat
  BY DEF TypeOK
<1> QED BY <1>1, BoundRange

\* write_jack overwrites nothing that is still to be read, and puts each sample
\* where the callback will look for it.
LEMMA Copies ==
  ASSUME TypeOK, WriteCopy, rdptr <= wrptr, size <= Empty,
         Holds(rdptr, wrptr)
  PROVE  Holds(rdptr, wrptr)' /\ Holds(wrptr, wrptr + Bound(wrptr, size))'
<1>0. /\ size \in Nat /\ rdptr \in Nat /\ wrptr \in Nat
      /\ Size \in Nat /\ ring \in [0 .. Size - 1 -> Nat]
  BY RingAssumption DEF TypeOK
<1>1. PICK n \in 0 .. size : n = Bound(wrptr, size)
  BY Writes
<1>2. wrptr - rdptr + size <= Size
  BY <1>0 DEF Empty, Available
<1>3. /\ rdptr' = rdptr /\ wrptr' = wrptr /\ size' = size
      /\ ring' = [i \in 0 .. Size - 1 |->
                    IF i \in Slots(wrptr, n)
                    THEN wrptr + ((i - wrptr) % Size) + 1 ELSE ring[i]]
  BY <1>0, <1>1 DEF WriteCopy
<1>4. ASSUME NEW k \in rdptr .. wrptr - 1
      PROVE  ring'[k % Size] = k + 1
  <2>0. k \in Int
    BY <1>0, <1>1, <1>2
  <2>1. k % Size \in 0 .. Size - 1
    BY <2>0, ModRange
  <2>2. k % Size \notin Slots(wrptr, n)
    <3> SUFFICES ASSUME NEW i \in 0 .. n - 1, k % Size = (wrptr + i) % Size
                 PROVE  FALSE
      BY DEF Slots
    <3>1. wrptr + i \in Int /\ k <= wrptr + i /\ wrptr + i < k + Size
      BY <1>0, <1>1, <1>2
    <3>2. k = wrptr + i
      BY <2>0, <3>1, SlotsDiffer
    <3> QED BY <1>0, <1>1, <1>2, <3>2
  <2>3. ring'[k % Size] = ring[k % Size]
    BY <1>3, <2>1, <2>2
  <2> QED BY <2>3 DEF Holds
<1>5. ASSUME NEW k \in wrptr .. (wrptr + n) - 1
      PROVE  ring'[k % Size] = k + 1
  <2>0. k \in Int
    BY <1>0, <1>1, <1>2
  <2>1. k % Size \in 0 .. Size - 1
    BY <2>0, ModRange
  <2>2. PICK i \in 0 .. n - 1 : k = wrptr + i
    <3>1. k - wrptr \in 0 .. n - 1 /\ k = wrptr + (k - wrptr)
      BY <1>0, <1>1, <1>2
    <3> QED BY <3>1
  <2>3. k % Size \in Slots(wrptr, n)
    BY <2>2 DEF Slots
  <2>4. i \in 0 .. Size - 1
    BY <1>0, <1>1, <1>2, <2>2
  <2>5. ((k % Size) - wrptr) % Size = i
    BY <1>0, <2>2, <2>4, SlotBack
  <2>6. ring'[k % Size] = wrptr + (((k % Size) - wrptr) % Size) + 1
    BY <1>3, <2>1, <2>3
  <2> QED BY <1>0, <1>1, <1>2, <2>2, <2>5, <2>6
<1>6. Holds(rdptr, wrptr)'
  BY <1>3, <1>4, Zenon DEF Holds
<1>7. Holds(wrptr, wrptr + Bound(wrptr, size))'
  <2>1. wrptr' + Bound(wrptr', size') = wrptr + n
    BY <1>1, <1>3, Zenon
  <2>2. wrptr' = wrptr
    BY <1>3
  <2> QED BY <1>5, <2>1, <2>2, Zenon DEF Holds
<1> QED BY <1>6, <1>7

LEMMA OrderedStep == Inv /\ [Next]_vars => Ordered'
<1> SUFFICES ASSUME Inv, [Next]_vars PROVE Ordered'
  OBVIOUS
<1> USE RingAssumption DEF Inv, ringVars, playerVars, cbVars, clientVars,
       TypeOK, Ordered, Living, Available, InCallback
<1>1. CASE \E n \in 1 .. MaxWrite : Write(n)
  BY <1>1 DEF Write
<1>2. CASE \E r \in Requests : Actl(r)
  BY <1>2 DEF Actl
<1>3. CASE WriteLook
  BY <1>3 DEF WriteLook
<1>4. CASE WriteCopy
  BY <1>4 DEF WriteCopy
<1>5. CASE WriteAdvance
  <2> SUFFICES ASSUME ~raced PROVE Ordered'
    BY <1>5 DEF WriteAdvance
  <2>1. PICK n \in Nat : wrptr' = wrptr + n
    <3>1. Bound(wrptr, size) \in Nat
      BY Writes
    <3> QED BY <1>5, <3>1 DEF WriteAdvance
  <2>2. /\ pc = "advance" /\ pc' = "run"
        /\ UNCHANGED <<rdptr, cb, cbsize, raced>>
    BY <1>5 DEF WriteAdvance
  <2> QED BY <2>1, <2>2
<1>6. CASE WriteRun
  BY <1>6 DEF WriteRun
<1>7. CASE Doze
  BY <1>7 DEF Doze
<1>8. CASE FlushLook
  BY <1>8 DEF FlushLook
<1>9. CASE Stop
  BY <1>9 DEF Stop
<1>10. CASE ClearRead
  BY <1>10 DEF ClearRead
<1>11. CASE ClearWrite
  BY <1>11 DEF ClearWrite
<1>12. CASE CloseStop
  BY <1>12 DEF CloseStop
<1>13. CASE Deactivate
  BY <1>13 DEF Deactivate
<1>14. CASE ClientClose
  BY <1>14 DEF ClientClose
<1>15. CASE Destroy
  BY <1>15 DEF Destroy
<1>16. CASE Callback
  BY <1>16 DEF Callback
<1>17. CASE CallbackLook
  BY <1>17 DEF CallbackLook, Lesser
<1>18. CASE CallbackRead
  BY <1>18 DEF CallbackRead
<1>19. CASE CallbackConsume
  <2> SUFFICES ASSUME ~raced PROVE Ordered'
    BY <1>19 DEF CallbackConsume
  <2> DEFINE n == Bound(cbrd, cbsize)
  <2>1. /\ n \in 1 .. cbsize /\ rdptr' = rdptr + n /\ cbsize' = cbsize - n
        /\ UNCHANGED <<wrptr, pc, raced>>
    BY <1>19, Consumes DEF CallbackConsume
  <2>2. pc # "cleared" /\ cb = "consume"
    BY <1>19 DEF CallbackConsume, InCallback
  <2> HIDE DEF n
  <2> QED BY <2>1, <2>2
<1>20. CASE Signal
  BY <1>20 DEF Signal, Awake
<1>21. CASE ShutdownCallback
  BY <1>21 DEF ShutdownCallback
<1>22. CASE Open
  BY <1>22 DEF Open
<1>23. CASE Close
  BY <1>23 DEF Close
<1>24. CASE SpuriousWakeup
  BY <1>24 DEF SpuriousWakeup, Awake
<1>25. CASE ServerGone
  BY <1>25 DEF ServerGone
<1>26. CASE Exited
  BY <1>26 DEF Exited, vars
<1>27. CASE UNCHANGED vars
  BY <1>27 DEF vars
<1> QED
  BY <1>1, <1>2, <1>3, <1>4, <1>5, <1>6, <1>7, <1>8, <1>9, <1>10, <1>11, <1>12,
     <1>13, <1>14, <1>15, <1>16, <1>17, <1>18, <1>19, <1>20, <1>21, <1>22,
     <1>23, <1>24, <1>25, <1>26, <1>27 DEF Next, Player, Jack

LEMMA KeptStep == Inv /\ [Next]_vars => Kept'
<1> SUFFICES ASSUME Inv, [Next]_vars PROVE Kept'
  OBVIOUS
<1> USE RingAssumption DEF Inv, ringVars, playerVars, cbVars, clientVars,
       TypeOK, Kept, Living
<1>1. CASE \E n \in 1 .. MaxWrite : Write(n)
  BY <1>1 DEF Write, Holds
<1>2. CASE \E r \in Requests : Actl(r)
  BY <1>2 DEF Actl, Holds
<1>3. CASE WriteLook
  BY <1>3 DEF WriteLook, Holds
<1>4. CASE WriteCopy
  <2> SUFFICES ASSUME ~raced PROVE Kept'
    BY <1>4 DEF WriteCopy
  <2>1. rdptr <= wrptr /\ size <= Empty /\ Holds(rdptr, wrptr)
    BY <1>4 DEF WriteCopy, Sized, Ordered, Available
  <2>2. Holds(rdptr, wrptr)' /\ Holds(wrptr, wrptr + Bound(wrptr, size))'
    BY <1>4, <2>1, Copies
  <2> QED BY <1>4, <2>1, <2>2 DEF WriteCopy
<1>5. CASE WriteAdvance
  <2> SUFFICES ASSUME ~raced PROVE Kept'
    BY <1>5 DEF WriteAdvance
  <2> DEFINE n == Bound(wrptr, size)
  <2>1. /\ wrptr' = wrptr + n /\ pc' = "run" /\ UNCHANGED <<rdptr, ring>>
    BY <1>5 DEF WriteAdvance
  <2>2. Holds(rdptr, wrptr) /\ Holds(wrptr, wrptr + n)
    BY <1>5 DEF WriteAdvance
  <2>3. n \in Nat
    BY Writes
  <2> HIDE DEF n
  <2>4. ASSUME NEW k \in rdptr .. (wrptr + n) - 1
        PROVE  ring[k % Size] = k + 1
    <3>1. k \in rdptr .. wrptr - 1 \/ k \in wrptr .. (wrptr + n) - 1
      BY <2>3
    <3> QED BY <2>2, <3>1 DEF Holds
  <2>5. Holds(rdptr, wrptr)'
    BY <2>1, <2>4, Zenon DEF Holds
  <2> QED BY <2>1, <2>5
<1>6. CASE WriteRun
  BY <1>6 DEF WriteRun, Holds
<1>7. CASE Doze
  BY <1>7 DEF Doze, Holds
<1>8. CASE FlushLook
  BY <1>8 DEF FlushLook, Holds
<1>9. CASE Stop
  BY <1>9 DEF Stop, Holds
<1>10. CASE ClearRead
  BY <1>10 DEF ClearRead, Holds
<1>11. CASE ClearWrite
  <2> SUFFICES ASSUME ~raced PROVE Kept'
    BY <1>11 DEF ClearWrite
  <2>1. rdptr' = 0 /\ wrptr' = 0 /\ pc' = "idle"
    BY <1>11 DEF ClearWrite, Ordered
  <2> QED BY <2>1 DEF Holds
<1>12. CASE CloseStop
  BY <1>12 DEF CloseStop, Holds
<1>13. CASE Deactivate
  BY <1>13 DEF Deactivate, Holds
<1>14. CASE ClientClose
  BY <1>14 DEF ClientClose, Holds
<1>15. CASE Destroy
  BY <1>15 DEF Destroy, Holds
<1>16. CASE Callback
  BY <1>16 DEF Callback, Holds
<1>17. CASE CallbackLook
  BY <1>17 DEF CallbackLook, Holds
<1>18. CASE CallbackRead
  BY <1>18 DEF CallbackRead, Holds
<1>19. CASE CallbackConsume
  <2> SUFFICES ASSUME ~raced PROVE Kept'
    BY <1>19 DEF CallbackConsume
  <2>1. PICK n \in Nat : rdptr' = rdptr + n
    BY <1>19, Consumes
  <2>2. UNCHANGED <<wrptr, ring, pc, size>>
    BY <1>19 DEF CallbackConsume
  <2>3. pc \notin {"cleared", "exit"} => Holds(rdptr, wrptr)'
    <3> SUFFICES ASSUME pc \notin {"cleared", "exit"} PROVE Holds(rdptr, wrptr)'
      OBVIOUS
    <3>1. ASSUME NEW k \in (rdptr + n) .. wrptr - 1
          PROVE  ring[k % Size] = k + 1
      <4>1. k \in rdptr .. wrptr - 1
        BY <2>1
      <4>2. Holds(rdptr, wrptr)
        BY <1>19 DEF CallbackConsume
      <4> QED BY <4>1, <4>2 DEF Holds
    <3> QED BY <2>1, <2>2, <3>1, Zenon DEF Holds
  <2>4. pc = "advance" => Holds(wrptr, wrptr + Bound(wrptr, size))'
    BY <2>2 DEF Holds
  <2> QED BY <2>2, <2>3, <2>4
<1>20. CASE Signal
  BY <1>20 DEF Signal, Awake, Holds
<1>21. CASE ShutdownCallback
  BY <1>21 DEF ShutdownCallback, Holds
<1>22. CASE Open
  BY <1>22 DEF Open, Holds
<1>23. CASE Close
  BY <1>23 DEF Close, Holds
<1>24. CASE SpuriousWakeup
  BY <1>24 DEF SpuriousWakeup, Awake, Holds
<1>25. CASE ServerGone
  BY <1>25 DEF ServerGone, Holds
<1>26. CASE Exited
  BY <1>26 DEF Exited, vars, Holds
<1>27. CASE UNCHANGED vars
  BY <1>27 DEF vars, Holds
<1> QED
  BY <1>1, <1>2, <1>3, <1>4, <1>5, <1>6, <1>7, <1>8, <1>9, <1>10, <1>11, <1>12,
     <1>13, <1>14, <1>15, <1>16, <1>17, <1>18, <1>19, <1>20, <1>21, <1>22,
     <1>23, <1>24, <1>25, <1>26, <1>27 DEF Next, Player, Jack

LEMMA DrainedStep == Inv /\ [Next]_vars => Drained'
<1> SUFFICES ASSUME Inv, [Next]_vars PROVE Drained'
  OBVIOUS
<1> USE RingAssumption DEF Inv, ringVars, playerVars, cbVars, clientVars,
       TypeOK, Drained, Living
<1>1. CASE \E n \in 1 .. MaxWrite : Write(n)
  BY <1>1 DEF Write
<1>2. CASE \E r \in Requests : Actl(r)
  BY <1>2 DEF Actl
<1>3. CASE WriteLook
  BY <1>3 DEF WriteLook
<1>4. CASE WriteCopy
  BY <1>4 DEF WriteCopy
<1>5. CASE WriteAdvance
  BY <1>5 DEF WriteAdvance
<1>6. CASE WriteRun
  BY <1>6 DEF WriteRun
<1>7. CASE Doze
  BY <1>7 DEF Doze
<1>8. CASE FlushLook
  BY <1>8 DEF FlushLook, Ordered, Available
<1>9. CASE Stop
  BY <1>9 DEF Stop
<1>10. CASE ClearRead
  BY <1>10 DEF ClearRead, InCallback
<1>11. CASE ClearWrite
  BY <1>11 DEF ClearWrite, Ordered
<1>12. CASE CloseStop
  BY <1>12 DEF CloseStop
<1>13. CASE Deactivate
  BY <1>13 DEF Deactivate
<1>14. CASE ClientClose
  BY <1>14 DEF ClientClose
<1>15. CASE Destroy
  BY <1>15 DEF Destroy
<1>16. CASE Callback
  BY <1>16 DEF Callback
<1>17. CASE CallbackLook
  BY <1>17 DEF CallbackLook
<1>18. CASE CallbackRead
  BY <1>18 DEF CallbackRead
<1>19. CASE CallbackConsume
  <2> SUFFICES ASSUME ~raced PROVE Drained'
    BY <1>19 DEF CallbackConsume
  <2>1. cbsize > 0 /\ (pc \notin {"cleared", "exit"} => cbsize <= wrptr - rdptr)
    BY <1>19 DEF CallbackConsume, Loaded, Ordered, Available
  <2>2. pc \notin {"cleared", "exit"} => rdptr # wrptr
    BY <2>1
  <2> QED BY <1>19, <2>2 DEF CallbackConsume
<1>20. CASE Signal
  BY <1>20 DEF Signal, Awake
<1>21. CASE ShutdownCallback
  BY <1>21 DEF ShutdownCallback
<1>22. CASE Open
  BY <1>22 DEF Open
<1>23. CASE Close
  BY <1>23 DEF Close
<1>24. CASE SpuriousWakeup
  BY <1>24 DEF SpuriousWakeup, Awake
<1>25. CASE ServerGone
  BY <1>25 DEF ServerGone
<1>26. CASE Exited
  BY <1>26 DEF Exited, vars
<1>27. CASE UNCHANGED vars
  BY <1>27 DEF vars
<1> QED
  BY <1>1, <1>2, <1>3, <1>4, <1>5, <1>6, <1>7, <1>8, <1>9, <1>10, <1>11, <1>12,
     <1>13, <1>14, <1>15, <1>16, <1>17, <1>18, <1>19, <1>20, <1>21, <1>22,
     <1>23, <1>24, <1>25, <1>26, <1>27 DEF Next, Player, Jack

-------------------------------------------------------------------------------
(***************************************************************************)
(* The theorems.                                                           *)
(***************************************************************************)
LEMMA InitInv == Init => Inv
<1> SUFFICES ASSUME Init PROVE Inv
  OBVIOUS
<1>1. TypeOK
  <2>1. ring \in [0 .. Size - 1 -> Nat]
    BY DEF Init
  <2>2. /\ rdptr \in Nat /\ wrptr \in Nat /\ nframes \in Nat /\ size \in Nat
        /\ cbsize \in Int /\ cbrd \in Nat
    BY DEF Init
  <2>3. pc = "closed" /\ request = "none" /\ cb = "off" /\ client = "none"
    BY DEF Init
  <2>4. running \in BOOLEAN /\ shutdown \in BOOLEAN /\ raced \in BOOLEAN
    BY DEF Init
  <2> QED BY <2>1, <2>2, <2>3, <2>4 DEF TypeOK
<1>2. Living /\ Sized /\ Loaded /\ Ordered /\ Drained
  BY RingAssumption
  DEF Init, Living, Sized, Loaded, Ordered, Drained, Available, Empty, InCallback
<1>3. Kept
  BY DEF Init, Kept, Holds
<1> QED BY <1>1, <1>2, <1>3 DEF Inv

LEMMA NextInv == Inv /\ [Next]_vars => Inv'
  BY TypeStep, LivingStep, SizedStep, LoadedStep, OrderedStep, KeptStep,
     DrainedStep
  DEF Inv

LEMMA SpecInv == Spec => []Inv
  BY InitInv, NextInv, PTL DEF Spec

\* Every field of the ring and of the client keeps its type, for every size of
\* ring and period: what write_jack may write is never negative.
THEOREM TypeCorrect == Spec => []TypeOK
<1>1. Inv => TypeOK
  BY DEF Inv
<1> QED BY <1>1, SpecInv, PTL

LEMMA InvRight == Inv => RingRight
<1> SUFFICES ASSUME Inv PROVE RingRight
  OBVIOUS
<1> USE DEF Inv
<1>1. SpacesEmptyUnraced
  BY RingAssumption
  DEF SpacesEmptyUnraced, SpacesEmpty, Sized, Ordered, Available, Empty, TypeOK
<1>2. ReadsWritten
  <2> SUFFICES ASSUME cb = "consume"
               PROVE  /\ pc # "closed"
                      /\ ~raced => \A i \in 0 .. Bound(cbrd, cbsize) - 1 :
                                     ring[(cbrd + i) % Size] = cbrd + i + 1
    BY DEF ReadsWritten
  <2>1. pc \notin {"closed", "exit"} /\ (~raced => pc # "cleared")
    BY DEF Living, Ordered, InCallback
  <2>2. ASSUME ~raced, NEW i \in 0 .. Bound(cbrd, cbsize) - 1
        PROVE  ring[(cbrd + i) % Size] = cbrd + i + 1
    <3>1. /\ rdptr = cbrd /\ cbrd \in Nat /\ wrptr \in Nat /\ cbsize \in Nat
          /\ cbsize <= wrptr - rdptr
      BY <2>1, <2>2 DEF Loaded, Ordered, Available, TypeOK
    <3>2. Bound(cbrd, cbsize) \in 0 .. cbsize
      BY <3>1, BoundRange
    <3>3. cbrd + i \in rdptr .. wrptr - 1
      BY <3>1, <3>2
    <3>4. Holds(rdptr, wrptr)
      BY <2>1, <2>2 DEF Kept
    <3> QED BY <3>3, <3>4 DEF Holds
  <2> QED BY <2>1, <2>2
<1> QED BY <1>1, <1>2 DEF RingRight

\* However the two threads, which take no lock, interleave: unless a clear
\* falls within a callback, ringbuf_get_empty never returns less than nothing
\* or more than the ring, and the callback reads the samples written at the
\* place it reads, none overwritten before; and it never reads a freed ring.
THEOREM EndsNeverCross == Spec => []RingRight
  BY SpecInv, InvRight, PTL

\* PM_REQ_FLUSH clears the ring with nothing unread, on every path of
\* actl_jack, unless an earlier clear fell within a callback.
THEOREM FlushPlaysAll == Spec => FlushWaits
<1>1. Inv /\ [Next]_vars =>
        [ClearRead /\ request = "flush" /\ ~raced => rdptr = wrptr]_vars
  BY DEF Inv, Drained, ClearRead
<1> QED BY <1>1, SpecInv, PTL DEF Spec, FlushWaits
===============================================================================
