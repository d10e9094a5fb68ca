--------------------------- MODULE AudioQueueProofs ---------------------------
(***************************************************************************)
(* Theorems about the software audio queue, for every number and size of   *)
(* buckets, every device and every length of aq_add.                       *)
(***************************************************************************)
EXTENDS AudioQueue, SequenceTheorems, TLAPS

-------------------------------------------------------------------------------
(***************************************************************************)
(* The inductive invariant.                                                *)
(***************************************************************************)
\* What the call in progress has left to do; a call that sends buckets has
\* found the queue filled, and the device drains after the queue is empty.
CallOK ==
  /\ pc \in {"add", "put"} => rest > 0
  /\ pc \in {"idle", "soft", "control", "drain"} => rest = 0
  /\ pc \in {"add", "fill", "send"} => ~filling
  /\ pc = "drain" => queue = <<>>
  /\ pc = "drain" \/ (pc \in {"soft", "control"} /\ sends = 1) => count = 0

\* The device never holds more than it can, the clock never passes its bound.
DeviceOK == Len(device) <= DeviceSize /\ clock <= Cap

\* aq_add_count never runs ahead of what has been added, and what is in the
\* queue has been added.
Counted == count <= added + rest /\ (queue # <<>> => added > 0)

\* The soft queue stops filling up when it holds enough or is full.
Started ==
  buckets > 0 /\ ~filling =>
    \/ added + rest > StartCount \/ StartCount = 0
    \/ free = <<>>
    \/ device # <<>> \/ played > 0

\* What is taken and not played, silence aside: the samples after the last one
\* played (l), in order, each behind the one before it, up to the last added (a).
Ordered(s, l, a) ==
  /\ \A i, j \in 1 .. Len(s) :
       i < j /\ s[i] # Silence /\ s[j] # Silence => s[i] < s[j]
  /\ \A i \in 1 .. Len(s) :
       s[i] # Silence =>
         /\ l < s[i] /\ s[i] <= a
         /\ s[i] = l + 1 \/ \E j \in 1 .. i - 1 : s[j] = s[i] - 1
  /\ l <= a
  /\ l < a => \E i \in 1 .. Len(s) : s[i] = a

Inv ==
  /\ TypeOK /\ Shared /\ OnlyTailPartial /\ NeverBlocks
  /\ CallOK /\ DeviceOK /\ Counted /\ Started
  /\ Ordered(device \o Waiting, last, added)

-------------------------------------------------------------------------------
(***************************************************************************)
(* Types, and what the operations leave of them.                           *)
(***************************************************************************)
LEMMA ConcatType ==
  ASSUME NEW s \in Seq(Sample), NEW t \in Seq(Sample)
  PROVE  s \o t \in Seq(Sample) /\ Len(s \o t) = Len(s) + Len(t)
  BY ConcatProperties

LEMMA ConcatAt ==
  ASSUME NEW s \in Seq(Sample), NEW t \in Seq(Sample),
         NEW i \in 1 .. Len(s) + Len(t)
  PROVE  (s \o t)[i] = IF i <= Len(s) THEN s[i] ELSE t[i - Len(s)]
  BY ConcatProperties

LEMMA RunType ==
  ASSUME NEW a \in Nat, NEW n \in Nat
  PROVE  /\ Run(a, n) \in Seq(Sample) /\ Len(Run(a, n)) = n
         /\ \A i \in 1 .. n : Run(a, n)[i] = a + i
<1>1. \A i \in 1 .. n : a + i \in Sample
  BY DEF Sample
<1> QED BY <1>1 DEF Run

LEMMA PaddedType ==
  ASSUME NEW data \in Seq(Sample), Len(data) <= BucketSize
  PROVE  /\ Padded(data) \in Seq(Sample) /\ Len(Padded(data)) = BucketSize
         /\ Len(data) = BucketSize => Padded(data) = data
<1> DEFINE pad == [i \in 1 .. BucketSize - Len(data) |-> Silence]
<1>1. BucketSize - Len(data) \in Nat /\ Silence \in Sample
  BY QueueAssumption DEF Sample
<1>2. pad \in Seq(Sample) /\ Len(pad) = BucketSize - Len(data)
  BY <1>1
<1>3. Len(data) = BucketSize => pad = <<>>
  BY <1>2
<1> HIDE DEF pad
<1>4. data \o pad \in Seq(Sample) /\ Len(data \o pad) = BucketSize
  BY <1>2, ConcatProperties, QueueAssumption
<1>5. data \o <<>> = data
  BY ConcatEmptySeq
<1> QED BY <1>3, <1>4, <1>5 DEF Padded, pad

LEMMA FreshType ==
  TypeOK => /\ [i \in 1 .. buckets |-> buckets + 1 - i] \in Seq(Buckets)
            /\ buckets \in Nat
<1> SUFFICES ASSUME TypeOK
             PROVE  /\ [i \in 1 .. buckets |-> buckets + 1 - i] \in Seq(Buckets)
                    /\ buckets \in Nat
  OBVIOUS
<1>1. buckets \in Nat /\ buckets <= NBuckets
  BY QueueAssumption DEF TypeOK
<1>2. \A i \in 1 .. buckets : buckets + 1 - i \in Buckets
  BY <1>1, QueueAssumption DEF Buckets
<1> QED BY <1>1, <1>2

LEMMA CapType == Cap \in Nat
<1>1. \A a, b \in Nat : a * b + 1 \in Nat
  OBVIOUS
<1> QED BY <1>1, QueueAssumption DEF Cap

LEMMA SynchroniseType ==
  TypeOK /\ MaySynchronise => counter' \in Nat /\ offset' \in Nat /\ clock' \in Nat
  BY DEF TypeOK, MaySynchronise, Synchronise, timeVars

LEMMA SendType ==
  ASSUME TypeOK, queue # <<>>, NEW data \in Seq(Sample), SendHead(data)
  PROVE  /\ device' \in Seq(Sample) /\ Len(device') = Len(device) + Len(data)
         /\ queue' \in Seq(Buckets) /\ free' \in Seq(Buckets)
         /\ counter' \in Nat /\ offset' \in Nat /\ clock' \in Nat
<1>1. device \in Seq(Sample) /\ queue \in Seq(Buckets) /\ free \in Seq(Buckets)
  BY DEF TypeOK
<1>2. Head(queue) \in Buckets /\ Tail(queue) \in Seq(Buckets)
  BY <1>1
<1>3. <<Head(queue)>> \in Seq(Buckets)
  BY <1>2
<1>4. <<Head(queue)>> \o free \in Seq(Buckets)
  BY <1>1, <1>3, ConcatProperties
<1>5. device \o data \in Seq(Sample) /\ Len(device \o data) = Len(device) + Len(data)
  BY <1>1, ConcatProperties
<1>6. counter' \in Nat /\ offset' \in Nat /\ clock' \in Nat
  BY QueueAssumption DEF SendHead, TypeOK
<1> QED BY <1>2, <1>4, <1>5, <1>6 DEF SendHead

LEMMA FlushType ==
  ASSUME TypeOK, FlushBuckets
  PROVE  /\ free' \in Seq(Buckets) /\ queue' \in Seq(Buckets)
         /\ store' \in [Buckets -> Seq(Sample)]
         /\ filling' \in BOOLEAN
         /\ counter' \in Nat /\ offset' \in Nat /\ clock' \in Nat
  BY FreshType DEF FlushBuckets, TypeOK

\* Where the queue is full its head is a whole bucket.
LEMMA HeadWhole ==
  ASSUME TypeOK, Shared, OnlyTailPartial, buckets > 0, NeedsBucket, free = <<>>
  PROVE  queue # <<>> /\ Len(store[Head(queue)]) = BucketSize
<1>1. queue \in Seq(Buckets) /\ free \in Seq(Buckets)
  BY DEF TypeOK
<1>2. Len(queue \o free) = Len(queue)
  BY <1>1, ConcatProperties
<1>3. queue # <<>> /\ Len(queue) > 0
  <2>1. Len(queue) = buckets
    BY <1>2 DEF Shared
  <2>2. Len(queue) > 0
    BY <2>1
  <2> QED BY <2>2
<1>4. Head(queue) = queue[1] /\ 1 \in 1 .. Len(queue)
  BY <1>1, <1>3
<1>5. Len(queue) = 1 => Full(queue[1])
  BY <1>3 DEF NeedsBucket, TailOf
<1>6. 1 < Len(queue) => Full(queue[1])
  BY <1>4 DEF OnlyTailPartial
<1>7. Len(queue) = 1 \/ 1 < Len(queue)
  <2>1. Len(queue) \in Nat
    BY <1>1, LenProperties
  <2> QED BY <1>3, <2>1
<1>8. Full(queue[1])
  BY <1>5, <1>6, <1>7
<1> QED BY <1>3, <1>4, <1>8 DEF Full

LEMMA CopyType ==
  ASSUME TypeOK, NEW b \in Buckets, NEW old \in Seq(Sample), NEW n \in 0 .. rest,
         Copy(b, old, n)
  PROVE  /\ store' \in [Buckets -> Seq(Sample)]
         /\ added' \in Nat /\ rest' \in Nat /\ pc' \in {"idle", "put"}
<1>0. added \in Nat /\ rest \in Nat /\ n \in Nat
  BY DEF TypeOK
<1>1. old \o Run(added, n) \in Seq(Sample)
  <2> DEFINE d == Run(added, n)
  <2>1. d \in Seq(Sample)
    BY <1>0, RunType
  <2> HIDE DEF d
  <2>2. old \o d \in Seq(Sample)
    BY <2>1, ConcatType
  <2> QED BY <2>2 DEF d
<1>2. store' \in [Buckets -> Seq(Sample)]
  BY <1>1 DEF Copy, TypeOK
<1>3. added' \in Nat /\ rest' \in Nat /\ pc' \in {"idle", "put"}
  BY DEF Copy, TypeOK
<1> QED BY <1>2, <1>3

\* What add_play_bucket copies to the bucket at the tail: something, and no
\* more than there is room for.
LEMMA TailRoom ==
  ASSUME TypeOK, OnlyTailPartial, CallOK, pc = "put", ~NeedsBucket
  PROVE  /\ queue # <<>> /\ TailOf(queue) \in Buckets
         /\ Len(store[TailOf(queue)]) \in 1 .. BucketSize - 1
         /\ Lesser(rest, BucketSize - Len(store[TailOf(queue)])) \in 1 .. rest
<1>1. queue \in Seq(Buckets) /\ queue # <<>> /\ ~Full(TailOf(queue))
  BY DEF TypeOK, NeedsBucket
<1>2. Len(queue) \in 1 .. Len(queue)
  BY <1>1
<1>3. TailOf(queue) \in Buckets /\ Len(store[TailOf(queue)]) \in 1 .. BucketSize
  BY <1>1, <1>2 DEF TailOf, OnlyTailPartial
<1>4. Len(store[TailOf(queue)]) \in 1 .. BucketSize - 1
  BY <1>1, <1>3, QueueAssumption DEF Full
<1>5. rest \in Nat /\ rest > 0
  BY DEF TypeOK, CallOK
<1> QED BY <1>1, <1>3, <1>4, <1>5, QueueAssumption DEF Lesser

LEMMA HeadRoom ==
  ASSUME TypeOK, CallOK, pc = "put"
  PROVE  /\ Lesser(rest, BucketSize) \in 1 .. rest
         /\ Lesser(rest, BucketSize) \in 1 .. BucketSize
  BY QueueAssumption DEF TypeOK, CallOK, Lesser

LEMMA AllowedType == TypeOK => Allowed \in Nat
<1> SUFFICES ASSUME TypeOK PROVE Allowed \in Nat
  OBVIOUS
<1>1. Filled \in Int
  BY DEF Filled, TypeOK, Lesser
<1>2. DeviceSize - Lesser(Filled, DeviceSize) \in Nat
  BY <1>1, QueueAssumption DEF Lesser
<1>3. \A a \in Nat : a \div BucketSize \in Nat
  BY QueueAssumption
<1> QED BY <1>2, <1>3 DEF Allowed

\* Whatever is written to the device is one whole bucket, padded or not.
LEMMA SendsBucket ==
  ASSUME TypeOK, Shared, OnlyTailPartial,
         FillSend \/ (PutFull /\ ~tracing) \/ SoftSend
  PROVE  /\ queue # <<>>
         /\ \E data \in Seq(Sample) : Len(data) = BucketSize /\ SendHead(data)
<1> DEFINE head == store[Head(queue)]
<1>1. CASE FillSend
  <2>1. queue # <<>> /\ SendHead(head) /\ Len(head) = BucketSize
    BY <1>1 DEF FillSend, HeadFull, Full
  <2>2. head \in Seq(Sample)
    BY <2>1 DEF TypeOK
  <2> QED BY <2>1, <2>2
<1>2. CASE PutFull /\ ~tracing
  <2>1. queue # <<>> /\ Len(head) = BucketSize
    BY <1>2, HeadWhole DEF PutFull
  <2>2. head \in Seq(Sample) /\ SendHead(head)
    BY <1>2, <2>1 DEF TypeOK, PutFull
  <2> QED BY <2>1, <2>2
<1>3. CASE SoftSend
  <2>1. queue # <<>> /\ SendHead(Padded(head))
    BY <1>3 DEF SoftSend
  <2>2. /\ Head(queue) \in Buckets /\ Head(queue) = queue[1]
        /\ 1 \in 1 .. Len(queue)
    BY <2>1 DEF TypeOK
  <2>3. head \in Seq(Sample) /\ Len(head) <= BucketSize
    BY <2>2, QueueAssumption DEF OnlyTailPartial, TypeOK
  <2> HIDE DEF head
  <2>4. Padded(head) \in Seq(Sample) /\ Len(Padded(head)) = BucketSize
    BY <2>3, PaddedType
  <2> QED BY <2>1, <2>4
<1> QED BY <1>1, <1>2, <1>3

\* A bucket written makes the device's line longer by a bucket.
LEMMA SendsMore ==
  ASSUME TypeOK, Shared, OnlyTailPartial,
         FillSend \/ (PutFull /\ ~tracing) \/ SoftSend
  PROVE  /\ Len(device') = Len(device) + BucketSize /\ device' # <<>>
         /\ Len(device) + BucketSize <= DeviceSize
         /\ UNCHANGED clock
<1>1. PICK data \in Seq(Sample) : Len(data) = BucketSize /\ SendHead(data)
  BY SendsBucket
<1>2. Len(device') = Len(device) + BucketSize /\ device' \in Seq(Sample)
  BY <1>1, SendsBucket, SendType
<1>3. Len(device') > 0
  BY <1>2, QueueAssumption DEF TypeOK
<1>4. Room >= BucketSize /\ UNCHANGED clock
  BY <1>1 DEF SendHead
<1>5. Len(device) + BucketSize <= DeviceSize
  BY <1>4, QueueAssumption DEF Room, TypeOK
<1> QED BY <1>2, <1>3, <1>4, <1>5

LEMMA TypeStep == Inv /\ [Next]_vars => TypeOK'
<1> SUFFICES ASSUME Inv, [Next]_vars PROVE TypeOK'
  OBVIOUS
<1> USE QueueAssumption DEF Inv, TypeOK, modeVars, queueVars, callVars,
       timeVars, heardVars, Pcs
<1>1. CASE Tick
  <2>1. clock' \in Nat
    BY <1>1, CapType DEF Tick, Lesser
  <2>2. device' \in Seq(Sample) /\ played' \in Nat /\ last' \in Nat
    <3>1. CASE device = <<>>
      BY <1>1, <3>1 DEF Tick
    <3>2. CASE device # <<>>
      <4>1. Head(device) \in Sample /\ Tail(device) \in Seq(Sample)
        BY <3>2
      <4>2. /\ device' = Tail(device) /\ played' = played + 1
            /\ last' = IF Head(device) = Silence THEN last ELSE Head(device)
        BY <1>1, <3>2 DEF Tick
      <4> QED BY <4>1, <4>2 DEF Sample
    <3> QED BY <3>1, <3>2
  <2> QED BY <1>1, <2>1, <2>2 DEF Tick
<1>2. CASE Ask
  BY <1>2, SynchroniseType DEF Ask, MaySynchronise
<1>3. ASSUME NEW n \in 1 .. MaxAdd, AqAdd(n) PROVE TypeOK'
  <2>1. /\ count' \in Nat /\ rest' \in Nat /\ filling' \in BOOLEAN
        /\ pc' \in Pcs
    BY <1>3 DEF AqAdd, Lesser, StillFilling
  <2>2. MaySynchronise
    BY <1>3 DEF AqAdd, MaySynchronise
  <2>3. counter' \in Nat /\ offset' \in Nat /\ clock' \in Nat
    BY <2>2, SynchroniseType
  <2> QED BY <1>3, <2>1, <2>3 DEF AqAdd
<1>4. CASE AqUpdate
  BY <1>4 DEF AqUpdate
<1>5. CASE FillBegin
  <2>1. sends' \in Nat
    BY <1>5, AllowedType DEF FillBegin
  <2>2. MaySynchronise
    BY <1>5 DEF FillBegin, MaySynchronise
  <2>3. counter' \in Nat /\ offset' \in Nat /\ clock' \in Nat
    BY <2>2, SynchroniseType
  <2> QED BY <1>5, <2>1, <2>3 DEF FillBegin
<1>6. CASE FillSend
  <2>1. /\ queue # <<>> /\ SendHead(store[Head(queue)])
        /\ store[Head(queue)] \in Seq(Sample)
    BY <1>6 DEF FillSend, HeadFull
  <2>2. sends' \in Nat
    BY <1>6 DEF FillSend
  <2> QED BY <1>6, <2>1, <2>2, SendType DEF FillSend
<1>7. CASE FillEnd
  <2>1. MaySynchronise
    BY <1>7 DEF FillEnd, MaySynchronise
  <2>2. counter' \in Nat /\ offset' \in Nat /\ clock' \in Nat
    BY <2>1, SynchroniseType
  <2> QED BY <1>7, <2>2 DEF FillEnd
<1>8. CASE PutDirect
  <2>1. device \o Run(added, rest) \in Seq(Sample)
    BY RunType, ConcatProperties
  <2> QED BY <1>8, <2>1 DEF PutDirect
<1>9. CASE PutBucket
  <2> DEFINE n == Lesser(rest, BucketSize)
  <2>1. free # <<>> /\ Copy(Head(free), <<>>, n) /\ Head(free) \in Buckets
    BY <1>9 DEF PutBucket
  <2>2. n \in 0 .. rest /\ <<>> \in Seq(Sample)
    BY <1>9, HeadRoom DEF PutBucket
  <2> HIDE DEF n
  <2>3. /\ store' \in [Buckets -> Seq(Sample)]
        /\ added' \in Nat /\ rest' \in Nat /\ pc' \in {"idle", "put"}
    BY <2>1, <2>2, CopyType
  <2>4. queue' \in Seq(Buckets) /\ free' \in Seq(Buckets)
    BY <1>9, <2>1 DEF PutBucket
  <2> QED BY <2>1, <2>3, <2>4 DEF Copy
<1>10. CASE PutTail
  <2> DEFINE b == TailOf(queue)
             n == Lesser(rest, BucketSize - Len(store[b]))
  <2>1. /\ b \in Buckets /\ n \in 0 .. rest /\ store[b] \in Seq(Sample)
    BY <1>10, TailRoom DEF PutTail
  <2>2. Copy(b, store[b], n) /\ UNCHANGED <<queue, free>>
    BY <1>10 DEF PutTail
  <2> HIDE DEF b, n
  <2>3. /\ store' \in [Buckets -> Seq(Sample)]
        /\ added' \in Nat /\ rest' \in Nat /\ pc' \in {"idle", "put"}
    BY <2>1, <2>2, CopyType
  <2> QED BY <2>2, <2>3 DEF Copy
<1>11. CASE PutFull
  <2>1. CASE tracing
    <3>1. MaySynchronise
      BY <1>11, <2>1 DEF PutFull
    <3>2. counter' \in Nat /\ offset' \in Nat /\ clock' \in Nat
      BY <3>1, SynchroniseType
    <3> QED BY <1>11, <2>1, <3>2 DEF PutFull
  <2>2. CASE ~tracing
    <3>1. SendHead(store[Head(queue)]) /\ pc' = "put"
      BY <1>11, <2>2 DEF PutFull
    <3>2. queue # <<>> /\ store[Head(queue)] \in Seq(Sample)
      BY <1>11, HeadWhole DEF PutFull
    <3> QED BY <1>11, <3>1, <3>2, SendType DEF PutFull
  <2> QED BY <2>1, <2>2
<1>12. CASE AqSoftFlush
  BY <1>12 DEF AqSoftFlush
<1>13. CASE AqFlush
  BY <1>13 DEF AqFlush
<1>14. CASE AqDiscard
  <2>1. FlushBuckets /\ Restarted /\ device' \in Seq(Sample)
    BY <1>14 DEF AqDiscard, Discard
  <2> QED BY <1>14, <2>1, FlushType DEF AqDiscard, FlushBuckets, Restarted
<1>15. CASE SoftSend
  <2>1. queue # <<>> /\ SendHead(Padded(store[Head(queue)]))
    BY <1>15 DEF SoftSend
  <2>2. /\ Head(queue) \in Buckets /\ Head(queue) = queue[1]
        /\ 1 \in 1 .. Len(queue)
    BY <2>1
  <2>3. store[Head(queue)] \in Seq(Sample) /\ Len(store[Head(queue)]) <= BucketSize
    BY <2>2 DEF OnlyTailPartial
  <2>4. Padded(store[Head(queue)]) \in Seq(Sample)
    BY <2>3, PaddedType
  <2> QED BY <1>15, <2>1, <2>4, SendType DEF SoftSend
<1>16. CASE SoftControl
  <2>1. CASE pc' = "soft" /\ MaySynchronise /\ UNCHANGED <<queueVars, added, device, heardVars>>
    <3>1. counter' \in Nat /\ offset' \in Nat /\ clock' \in Nat
      BY <2>1, SynchroniseType
    <3> QED BY <1>16, <2>1, <3>1 DEF SoftControl
  <2>2. CASE pc' \in {"soft", "idle"} /\ Discard /\ count' = 0
    <3>1. FlushBuckets /\ Restarted /\ device' \in Seq(Sample)
      BY <2>2 DEF Discard
    <3> QED BY <1>16, <2>2, <3>1, FlushType DEF SoftControl, FlushBuckets, Restarted
  <2> QED BY <1>16, <2>1, <2>2 DEF SoftControl
<1>17. CASE SoftEnd
  BY <1>17 DEF SoftEnd
<1>18. CASE DrainEnd
  <2>1. FlushBuckets /\ Restarted
    BY <1>18 DEF DrainEnd
  <2> QED BY <1>18, <2>1, FlushType DEF DrainEnd, FlushBuckets, Restarted
<1>19. CASE DrainSkip
  <2>1. FlushBuckets /\ Restarted /\ device' \in Seq(Sample)
    BY <1>19 DEF DrainSkip, Discard
  <2> QED BY <1>19, <2>1, FlushType DEF DrainSkip, FlushBuckets, Restarted
<1>20. CASE UNCHANGED vars
  BY <1>20 DEF vars
<1> QED
  BY <1>1, <1>2, <1>3, <1>4, <1>5, <1>6, <1>7, <1>8, <1>9, <1>10, <1>11, <1>12,
     <1>13, <1>14, <1>15, <1>16, <1>17, <1>18, <1>19, <1>20 DEF Next

\* The call in progress, the count of samples and the clock.
LEMMA CallStep == Inv /\ [Next]_vars => CallOK'
<1> SUFFICES ASSUME Inv, [Next]_vars PROVE CallOK'
  OBVIOUS
<1> USE QueueAssumption DEF Inv, TypeOK, modeVars, queueVars, callVars,
       timeVars, heardVars, CallOK
<1>1. CASE Tick
  BY <1>1 DEF Tick
<1>2. CASE Ask
  BY <1>2 DEF Ask
<1>3. ASSUME NEW n \in 1 .. MaxAdd, AqAdd(n) PROVE CallOK'
  BY <1>3 DEF AqAdd
<1>4. CASE AqUpdate
  BY <1>4 DEF AqUpdate
<1>5. CASE FillBegin
  BY <1>5 DEF FillBegin
<1>6. CASE FillSend
  BY <1>6 DEF FillSend, SendHead
<1>7. CASE FillEnd
  BY <1>7 DEF FillEnd
<1>8. CASE PutDirect
  BY <1>8 DEF PutDirect
<1>9. CASE PutBucket
  <2> DEFINE n == Lesser(rest, BucketSize)
  <2>1. n \in 1 .. rest
    BY <1>9, HeadRoom DEF PutBucket
  <2>2. Copy(Head(free), <<>>, n) /\ queue' = Append(queue, Head(free))
    BY <1>9 DEF PutBucket
  <2> HIDE DEF n
  <2> QED BY <1>9, <2>1, <2>2 DEF PutBucket, Copy
<1>10. CASE PutTail
  <2> DEFINE b == TailOf(queue)
             n == Lesser(rest, BucketSize - Len(store[b]))
  <2>1. n \in 1 .. rest
    BY <1>10, TailRoom DEF PutTail
  <2>2. Copy(b, store[b], n) /\ UNCHANGED <<queue, free>>
    BY <1>10 DEF PutTail
  <2> HIDE DEF b, n
  <2> QED BY <1>10, <2>1, <2>2 DEF PutTail, Copy
<1>11. CASE PutFull
  BY <1>11 DEF PutFull, SendHead
<1>12. CASE AqSoftFlush
  BY <1>12 DEF AqSoftFlush
<1>13. CASE AqFlush
  BY <1>13 DEF AqFlush
<1>14. CASE AqDiscard
  BY <1>14 DEF AqDiscard, Discard, FlushBuckets, Restarted
<1>15. CASE SoftSend
  BY <1>15 DEF SoftSend, SendHead
<1>16. CASE SoftControl
  BY <1>16 DEF SoftControl, Discard, FlushBuckets, Restarted
<1>17. CASE SoftEnd
  BY <1>17 DEF SoftEnd
<1>18. CASE DrainEnd
  BY <1>18 DEF DrainEnd, FlushBuckets, Restarted
<1>19. CASE DrainSkip
  BY <1>19 DEF DrainSkip, Discard, FlushBuckets, Restarted
<1>20. CASE UNCHANGED vars
  BY <1>20 DEF vars
<1> QED
  BY <1>1, <1>2, <1>3, <1>4, <1>5, <1>6, <1>7, <1>8, <1>9, <1>10, <1>11, <1>12,
     <1>13, <1>14, <1>15, <1>16, <1>17, <1>18, <1>19, <1>20 DEF Next

LEMMA CountedStep == Inv /\ [Next]_vars => Counted'
<1> SUFFICES ASSUME Inv, [Next]_vars PROVE Counted'
  OBVIOUS
<1> USE QueueAssumption DEF Inv, TypeOK, modeVars, queueVars, callVars,
       timeVars, heardVars, Counted, CallOK
<1>1. CASE Tick
  BY <1>1 DEF Tick
<1>2. CASE Ask
  BY <1>2 DEF Ask
<1>3. ASSUME NEW n \in 1 .. MaxAdd, AqAdd(n) PROVE Counted'
  BY <1>3 DEF AqAdd, Lesser
<1>4. CASE AqUpdate
  BY <1>4 DEF AqUpdate
<1>5. CASE FillBegin
  BY <1>5 DEF FillBegin
<1>6. CASE FillSend
  BY <1>6 DEF FillSend, SendHead, HeadFull
<1>7. CASE FillEnd
  BY <1>7 DEF FillEnd
<1>8. CASE PutDirect
  BY <1>8 DEF PutDirect
<1>9. CASE PutBucket
  <2> DEFINE n == Lesser(rest, BucketSize)
  <2>1. n \in 1 .. rest
    BY <1>9, HeadRoom DEF PutBucket
  <2>2. Copy(Head(free), <<>>, n) /\ queue' = Append(queue, Head(free))
    BY <1>9 DEF PutBucket
  <2> HIDE DEF n
  <2>3. count' = count /\ added' = added + n /\ rest' = rest - n
    BY <2>2 DEF Copy
  <2>4. added \in Nat /\ rest \in Nat /\ count \in Nat /\ count <= added + rest
    OBVIOUS
  <2>5. count' <= added' + rest' /\ added' > 0
    BY <2>1, <2>3, <2>4
  <2> QED BY <2>5
<1>10. CASE PutTail
  <2> DEFINE b == TailOf(queue)
             n == Lesser(rest, BucketSize - Len(store[b]))
  <2>1. n \in 1 .. rest
    BY <1>10, TailRoom DEF PutTail
  <2>2. Copy(b, store[b], n) /\ UNCHANGED <<queue, free>>
    BY <1>10 DEF PutTail
  <2> HIDE DEF b, n
  <2> QED BY <1>10, <2>1, <2>2 DEF PutTail, Copy
<1>11. CASE PutFull
  <2>1. queue # <<>>
    BY <1>11, HeadWhole DEF PutFull
  <2> QED BY <1>11, <2>1 DEF PutFull, SendHead
<1>12. CASE AqSoftFlush
  BY <1>12 DEF AqSoftFlush
<1>13. CASE AqFlush
  BY <1>13 DEF AqFlush
<1>14. CASE AqDiscard
  BY <1>14 DEF AqDiscard, Discard, FlushBuckets, Restarted
<1>15. CASE SoftSend
  BY <1>15 DEF SoftSend, SendHead
<1>16. CASE SoftControl
  BY <1>16 DEF SoftControl, Discard, FlushBuckets, Restarted
<1>17. CASE SoftEnd
  BY <1>17 DEF SoftEnd
<1>18. CASE DrainEnd
  BY <1>18 DEF DrainEnd, FlushBuckets, Restarted
<1>19. CASE DrainSkip
  BY <1>19 DEF DrainSkip, Discard, FlushBuckets, Restarted
<1>20. CASE UNCHANGED vars
  BY <1>20 DEF vars
<1> QED
  BY <1>1, <1>2, <1>3, <1>4, <1>5, <1>6, <1>7, <1>8, <1>9, <1>10, <1>11, <1>12,
     <1>13, <1>14, <1>15, <1>16, <1>17, <1>18, <1>19, <1>20 DEF Next

\* A flush makes the queue fill up again, unless nothing is asked of it.
LEMMA FlushStarts == FlushBuckets => Started'
<1> SUFFICES ASSUME FlushBuckets PROVE Started'
  OBVIOUS
<1>1. filling' = (buckets > 0 /\ StartCount > 0) /\ buckets' = buckets
  BY DEF FlushBuckets, modeVars
<1>2. buckets > 0 /\ ~filling' => StartCount = 0
  <2>1. ~(StartCount > 0) => StartCount = 0
    BY QueueAssumption
  <2> QED BY <1>1, <2>1
<1> QED BY <1>1, <1>2 DEF Started

LEMMA StartedStep == Inv /\ [Next]_vars => Started'
<1> SUFFICES ASSUME Inv, [Next]_vars PROVE Started'
  OBVIOUS
<1> USE QueueAssumption DEF Inv, TypeOK, modeVars, queueVars, callVars,
       timeVars, heardVars, Started, CallOK, Counted
<1>1. CASE Tick
  BY <1>1 DEF Tick
<1>2. CASE Ask
  BY <1>2 DEF Ask
<1>3. ASSUME NEW n \in 1 .. MaxAdd, AqAdd(n) PROVE Started'
  BY <1>3 DEF AqAdd, Lesser, StillFilling
<1>4. CASE AqUpdate
  BY <1>4 DEF AqUpdate
<1>5. CASE FillBegin
  BY <1>5 DEF FillBegin
<1>6. CASE FillSend
  <2>1. device' # <<>>
    BY <1>6, SendsMore
  <2> QED BY <2>1
<1>7. CASE FillEnd
  BY <1>7 DEF FillEnd
<1>8. CASE PutDirect
  BY <1>8 DEF PutDirect
<1>9. CASE PutBucket
  <2> DEFINE n == Lesser(rest, BucketSize)
  <2>1. n \in 1 .. rest
    BY <1>9, HeadRoom DEF PutBucket
  <2>2. Copy(Head(free), <<>>, n) /\ queue' = Append(queue, Head(free))
    BY <1>9 DEF PutBucket
  <2> HIDE DEF n
  <2> QED BY <1>9, <2>1, <2>2 DEF PutBucket, Copy
<1>10. CASE PutTail
  <2> DEFINE b == TailOf(queue)
             n == Lesser(rest, BucketSize - Len(store[b]))
  <2>1. n \in 1 .. rest
    BY <1>10, TailRoom DEF PutTail
  <2>2. Copy(b, store[b], n) /\ UNCHANGED <<queue, free>>
    BY <1>10 DEF PutTail
  <2> HIDE DEF b, n
  <2> QED BY <1>10, <2>1, <2>2 DEF PutTail, Copy
<1>11. CASE PutFull
  <2>1. CASE tracing
    BY <1>11, <2>1 DEF PutFull
  <2>2. CASE ~tracing
    <3>1. device' # <<>>
      BY <1>11, <2>2, SendsMore
    <3> QED BY <3>1
  <2> QED BY <2>1, <2>2
<1>12. CASE AqSoftFlush
  BY <1>12 DEF AqSoftFlush
<1>13. CASE AqFlush
  BY <1>13 DEF AqFlush
<1>14. CASE AqDiscard
  <2>1. FlushBuckets
    BY <1>14 DEF AqDiscard, Discard
  <2> QED BY <2>1, FlushStarts
<1>15. CASE SoftSend
  <2>1. device' # <<>>
    BY <1>15, SendsMore
  <2> QED BY <2>1
<1>16. CASE SoftControl
  <2>1. CASE UNCHANGED <<queueVars, added, rest, device, heardVars>>
    BY <2>1
  <2>2. CASE FlushBuckets
    BY <2>2, FlushStarts
  <2> QED BY <1>16, <2>1, <2>2 DEF SoftControl, Discard
<1>17. CASE SoftEnd
  BY <1>17 DEF SoftEnd
<1>18. CASE DrainEnd
  <2>1. FlushBuckets
    BY <1>18 DEF DrainEnd
  <2> QED BY <2>1, FlushStarts
<1>19. CASE DrainSkip
  <2>1. FlushBuckets
    BY <1>19 DEF DrainSkip, Discard
  <2> QED BY <2>1, FlushStarts
<1>20. CASE UNCHANGED vars
  BY <1>20 DEF vars
<1> QED
  BY <1>1, <1>2, <1>3, <1>4, <1>5, <1>6, <1>7, <1>8, <1>9, <1>10, <1>11, <1>12,
     <1>13, <1>14, <1>15, <1>16, <1>17, <1>18, <1>19, <1>20 DEF Next

-------------------------------------------------------------------------------
(***************************************************************************)
(* The device: what it holds, and what it is sent without blocking.        *)
(***************************************************************************)
LEMMA SynchroniseBound ==
  TypeOK /\ MaySynchronise /\ DeviceOK /\ UNCHANGED device => DeviceOK'
<1> SUFFICES ASSUME TypeOK, MaySynchronise, DeviceOK, UNCHANGED device
             PROVE  DeviceOK'
  OBVIOUS
<1>1. clock' = 0 \/ clock' = clock
  BY DEF MaySynchronise, Synchronise, timeVars
<1>2. clock' <= Cap
  BY <1>1, CapType DEF DeviceOK
<1>3. Len(device') <= DeviceSize
  BY DEF DeviceOK
<1> QED BY <1>2, <1>3, CapType DEF DeviceOK, Cap

LEMMA QuotientFits ==
  \A a \in Nat : (a \div BucketSize) \in Nat /\ (a \div BucketSize) * BucketSize <= a
<1> SUFFICES ASSUME NEW a \in Nat
             PROVE  /\ (a \div BucketSize) \in Nat
                    /\ (a \div BucketSize) * BucketSize <= a
  OBVIOUS
<1>1. a = (a \div BucketSize) * BucketSize + (a % BucketSize)
  BY QueueAssumption
<1>2. a % BucketSize \in Nat /\ (a \div BucketSize) \in Nat
  BY QueueAssumption
<1>3. \A q \in Nat : q * BucketSize \in Nat
  BY QueueAssumption
<1> QED BY <1>1, <1>2, <1>3

LEMMA AllowedFits ==
  ASSUME TypeOK, DeviceOK, reports
  PROVE  Allowed \in Nat /\ Room >= Allowed * BucketSize
<1>1. Len(device) \in Nat /\ Len(device) <= DeviceSize /\ DeviceSize \in Nat
  BY QueueAssumption DEF TypeOK, DeviceOK
<1>2. Lesser(Filled, DeviceSize) = Len(device)
  BY <1>1 DEF Filled, Lesser
<1>3. Room \in Nat /\ DeviceSize - Lesser(Filled, DeviceSize) = Room
  BY <1>1, <1>2 DEF Room
<1> QED BY <1>3, QuotientFits DEF Allowed

LEMMA DeviceStep == Inv /\ [Next]_vars => DeviceOK'
<1> SUFFICES ASSUME Inv, [Next]_vars PROVE DeviceOK'
  OBVIOUS
<1> USE QueueAssumption DEF Inv, TypeOK, modeVars, queueVars, callVars,
       timeVars, heardVars, DeviceOK, CallOK
<1>1. CASE Tick
  <2>1. clock' <= Cap
    BY <1>1, CapType DEF Tick, Lesser
  <2>2. Len(device') <= DeviceSize
    <3>1. CASE device = <<>>
      BY <1>1, <3>1 DEF Tick
    <3>2. CASE device # <<>>
      <4>1. device' = Tail(device) /\ Len(Tail(device)) = Len(device) - 1
        BY <1>1, <3>2 DEF Tick
      <4>2. Len(device) \in Nat
        OBVIOUS
      <4> QED BY <4>1, <4>2
    <3> QED BY <3>1, <3>2
  <2> QED BY <2>1, <2>2
<1>2. CASE Ask
  <2>1. MaySynchronise /\ UNCHANGED device
    BY <1>2 DEF Ask, MaySynchronise
  <2> QED BY <2>1, SynchroniseBound
<1>3. ASSUME NEW n \in 1 .. MaxAdd, AqAdd(n) PROVE DeviceOK'
  <2>1. MaySynchronise /\ UNCHANGED device
    BY <1>3 DEF AqAdd, MaySynchronise
  <2> QED BY <2>1, SynchroniseBound
<1>4. CASE AqUpdate
  BY <1>4 DEF AqUpdate
<1>5. CASE FillBegin
  <2>1. MaySynchronise /\ UNCHANGED device
    BY <1>5 DEF FillBegin, MaySynchronise
  <2> QED BY <2>1, SynchroniseBound
<1>6. CASE FillSend
  <2>1. Len(device') <= DeviceSize /\ clock' = clock
    BY <1>6, SendsMore, QueueAssumption
  <2> QED BY <2>1
<1>7. CASE FillEnd
  <2>1. MaySynchronise /\ UNCHANGED device
    BY <1>7 DEF FillEnd, MaySynchronise
  <2> QED BY <2>1, SynchroniseBound
<1>8. CASE PutDirect
  <2>1. device' = device \o Run(added, rest) /\ UNCHANGED clock
    BY <1>8 DEF PutDirect
  <2>2. Len(device') = Len(device) + rest
    <3>1. Run(added, rest) \in Seq(Sample) /\ Len(Run(added, rest)) = rest
      BY RunType
    <3> QED BY <2>1, <3>1, ConcatProperties
  <2>3. Len(device) + rest <= DeviceSize
    BY <1>8 DEF PutDirect, Room
  <2> QED BY <2>1, <2>2, <2>3
<1>9. CASE PutBucket
  BY <1>9 DEF PutBucket, Copy
<1>10. CASE PutTail
  BY <1>10 DEF PutTail, Copy
<1>11. CASE PutFull
  <2>1. CASE tracing
    <3>1. MaySynchronise /\ UNCHANGED device
      BY <1>11, <2>1 DEF PutFull
    <3> QED BY <3>1, SynchroniseBound
  <2>2. CASE ~tracing
    <3>1. Len(device') <= DeviceSize /\ clock' = clock
      BY <1>11, <2>2, SendsMore
    <3> QED BY <3>1
  <2> QED BY <2>1, <2>2
<1>12. CASE AqSoftFlush
  BY <1>12 DEF AqSoftFlush
<1>13. CASE AqFlush
  BY <1>13 DEF AqFlush
<1>14. CASE AqDiscard
  <2>1. device' = <<>> /\ UNCHANGED clock
    BY <1>14 DEF AqDiscard, Discard, FlushBuckets
  <2> QED BY <2>1
<1>15. CASE SoftSend
  <2>1. Len(device') <= DeviceSize /\ clock' = clock
    BY <1>15, SendsMore, QueueAssumption
  <2> QED BY <2>1
<1>16. CASE SoftControl
  <2>1. CASE MaySynchronise /\ UNCHANGED device
    BY <2>1, SynchroniseBound
  <2>2. CASE device' = <<>> /\ UNCHANGED clock
    BY <2>2
  <2> QED BY <1>16, <2>1, <2>2 DEF SoftControl, Discard, FlushBuckets
<1>17. CASE SoftEnd
  BY <1>17 DEF SoftEnd
<1>18. CASE DrainEnd
  BY <1>18 DEF DrainEnd, FlushBuckets
<1>19. CASE DrainSkip
  <2>1. device' = <<>> /\ UNCHANGED clock
    BY <1>19 DEF DrainSkip, Discard, FlushBuckets
  <2> QED BY <2>1
<1>20. CASE UNCHANGED vars
  BY <1>20 DEF vars
<1> QED
  BY <1>1, <1>2, <1>3, <1>4, <1>5, <1>6, <1>7, <1>8, <1>9, <1>10, <1>11, <1>12,
     <1>13, <1>14, <1>15, <1>16, <1>17, <1>18, <1>19, <1>20 DEF Next

LEMMA NeverBlocksStep == Inv /\ [Next]_vars => NeverBlocks'
<1> SUFFICES ASSUME Inv, [Next]_vars PROVE NeverBlocks'
  OBVIOUS
<1> USE QueueAssumption DEF Inv, TypeOK, modeVars, queueVars, callVars,
       timeVars, heardVars, NeverBlocks, Room
<1>1. CASE Tick
  <2>1. UNCHANGED <<reports, pc, sends>>
    BY <1>1 DEF Tick
  <2>2. PICK n \in Nat : Len(device') = Len(device) - n
    <3>1. CASE device = <<>>
      BY <1>1, <3>1 DEF Tick
    <3>2. CASE device # <<>>
      <4>1. device' = Tail(device) /\ Len(Tail(device)) = Len(device) - 1
        BY <1>1, <3>2 DEF Tick
      <4> QED BY <4>1
    <3> QED BY <3>1, <3>2
  <2>3. sends * BucketSize \in Nat
    BY QueueAssumption
  <2>4. Len(device) \in Nat
    OBVIOUS
  <2> QED BY <2>1, <2>2, <2>3, <2>4
<1>2. CASE Ask
  BY <1>2 DEF Ask
<1>3. ASSUME NEW n \in 1 .. MaxAdd, AqAdd(n) PROVE NeverBlocks'
  BY <1>3 DEF AqAdd
<1>4. CASE AqUpdate
  BY <1>4 DEF AqUpdate
<1>5. CASE FillBegin
  <2>1. UNCHANGED <<reports, device>>
    BY <1>5 DEF FillBegin
  <2>2. sends' = Allowed \/ sends' = 0
    BY <1>5 DEF FillBegin
  <2>3. reports => Room >= Allowed * BucketSize /\ Room >= 0 * BucketSize
    <3>1. Room >= 0 * BucketSize
      BY QueueAssumption DEF DeviceOK
    <3> QED BY <3>1, AllowedFits
  <2> QED BY <2>1, <2>2, <2>3
<1>6. CASE FillSend
  <2>1. UNCHANGED <<reports, pc>> /\ sends' = sends - 1 /\ sends > 0 /\ pc = "send"
    BY <1>6 DEF FillSend
  <2>2. Len(device') = Len(device) + BucketSize
    BY <1>6, SendsMore
  <2>3. /\ (sends - 1) * BucketSize = sends * BucketSize - BucketSize
        /\ sends * BucketSize \in Nat /\ Len(device) \in Nat
    BY QueueAssumption
  <2> QED BY <2>1, <2>2, <2>3
<1>7. CASE FillEnd
  BY <1>7 DEF FillEnd
<1>8. CASE PutDirect
  BY <1>8 DEF PutDirect
<1>9. CASE PutBucket
  BY <1>9 DEF PutBucket, Copy
<1>10. CASE PutTail
  BY <1>10 DEF PutTail, Copy
<1>11. CASE PutFull
  BY <1>11 DEF PutFull
<1>12. CASE AqSoftFlush
  BY <1>12 DEF AqSoftFlush
<1>13. CASE AqFlush
  BY <1>13 DEF AqFlush
<1>14. CASE AqDiscard
  BY <1>14 DEF AqDiscard
<1>15. CASE SoftSend
  BY <1>15 DEF SoftSend
<1>16. CASE SoftControl
  BY <1>16 DEF SoftControl
<1>17. CASE SoftEnd
  BY <1>17 DEF SoftEnd
<1>18. CASE DrainEnd
  BY <1>18 DEF DrainEnd
<1>19. CASE DrainSkip
  BY <1>19 DEF DrainSkip
<1>20. CASE UNCHANGED vars
  BY <1>20 DEF vars
<1> QED
  BY <1>1, <1>2, <1>3, <1>4, <1>5, <1>6, <1>7, <1>8, <1>9, <1>10, <1>11, <1>12,
     <1>13, <1>14, <1>15, <1>16, <1>17, <1>18, <1>19, <1>20 DEF Next

-------------------------------------------------------------------------------
(***************************************************************************)
(* The buckets: shared out between the queue and the free list.            *)
(***************************************************************************)
Distinct(s) == \A i, j \in 1 .. Len(s) : s[i] = s[j] => i = j

Shares(q, f) ==
  /\ Distinct(q) /\ Distinct(f)
  /\ \A i \in 1 .. Len(q), j \in 1 .. Len(f) : q[i] # f[j]

LEMMA SharedParts ==
  ASSUME NEW q \in Seq(Buckets), NEW f \in Seq(Buckets)
  PROVE  Distinct(q \o f) <=> Shares(q, f)
<1>1. /\ Len(q) \in Nat /\ Len(f) \in Nat /\ Len(q \o f) = Len(q) + Len(f)
      /\ \A i \in 1 .. Len(q) : (q \o f)[i] = q[i]
      /\ \A j \in 1 .. Len(f) : (q \o f)[Len(q) + j] = f[j]
  BY ConcatProperties, LenProperties
<1>2. ASSUME Distinct(q \o f) PROVE Shares(q, f)
  <2>1. ASSUME NEW i \in 1 .. Len(q), NEW j \in 1 .. Len(q), q[i] = q[j]
        PROVE  i = j
    BY <1>1, <1>2, <2>1 DEF Distinct
  <2>2. ASSUME NEW i \in 1 .. Len(f), NEW j \in 1 .. Len(f), f[i] = f[j]
        PROVE  i = j
    <3>1. /\ Len(q) + i \in 1 .. Len(q \o f) /\ Len(q) + j \in 1 .. Len(q \o f)
          /\ (q \o f)[Len(q) + i] = (q \o f)[Len(q) + j]
      BY <1>1, <2>2
    <3>2. Len(q) + i = Len(q) + j
      BY <1>2, <3>1 DEF Distinct
    <3> QED BY <1>1, <3>2
  <2>3. ASSUME NEW i \in 1 .. Len(q), NEW j \in 1 .. Len(f), q[i] = f[j]
        PROVE  FALSE
    <3>1. /\ i \in 1 .. Len(q \o f) /\ Len(q) + j \in 1 .. Len(q \o f)
          /\ (q \o f)[i] = (q \o f)[Len(q) + j]
      BY <1>1, <2>3
    <3>2. i = Len(q) + j
      BY <1>2, <3>1 DEF Distinct
    <3> QED BY <1>1, <3>2
  <2> QED BY <2>1, <2>2, <2>3 DEF Shares, Distinct
<1>3. ASSUME Shares(q, f) PROVE Distinct(q \o f)
  <2> SUFFICES ASSUME NEW i \in 1 .. Len(q \o f), NEW j \in 1 .. Len(q \o f),
                      (q \o f)[i] = (q \o f)[j]
               PROVE  i = j
    BY DEF Distinct
  <2>1. \A k \in 1 .. Len(q \o f) :
          \/ k \in 1 .. Len(q) /\ (q \o f)[k] = q[k]
          \/ /\ k - Len(q) \in 1 .. Len(f)
             /\ (q \o f)[k] = f[k - Len(q)]
    <3> SUFFICES ASSUME NEW k \in 1 .. Len(q \o f), k \notin 1 .. Len(q)
                 PROVE  /\ k - Len(q) \in 1 .. Len(f)
                        /\ (q \o f)[k] = f[k - Len(q)]
      BY <1>1
    <3>1. k - Len(q) \in 1 .. Len(f) /\ k = Len(q) + (k - Len(q))
      BY <1>1
    <3> QED BY <1>1, <3>1
  <2>2. CASE i \in 1 .. Len(q) /\ j \in 1 .. Len(q)
    BY <1>1, <1>3, <2>2 DEF Shares, Distinct
  <2>3. CASE i \notin 1 .. Len(q) /\ j \notin 1 .. Len(q)
    <3>1. /\ i - Len(q) \in 1 .. Len(f) /\ j - Len(q) \in 1 .. Len(f)
          /\ f[i - Len(q)] = f[j - Len(q)]
      BY <2>1, <2>3
    <3>2. i - Len(q) = j - Len(q)
      BY <1>3, <3>1 DEF Shares, Distinct
    <3> QED BY <1>1, <3>2
  <2>4. CASE i \in 1 .. Len(q) /\ j \notin 1 .. Len(q)
    BY <1>1, <1>3, <2>1, <2>4 DEF Shares
  <2>5. CASE i \notin 1 .. Len(q) /\ j \in 1 .. Len(q)
    BY <1>1, <1>3, <2>1, <2>5 DEF Shares
  <2> QED BY <2>2, <2>3, <2>4, <2>5
<1> QED BY <1>2, <1>3

LEMMA InFront ==
  ASSUME NEW S, NEW x \in S, NEW f \in Seq(S)
  PROVE  /\ Len(<<x>> \o f) = Len(f) + 1 /\ (<<x>> \o f)[1] = x
         /\ \A j \in 2 .. Len(<<x>> \o f) : (<<x>> \o f)[j] = f[j - 1]
<1>1. <<x>> \in Seq(S) /\ Len(<<x>>) = 1 /\ Len(f) \in Nat
  OBVIOUS
<1> QED BY <1>1, ConcatProperties

LEMMA SharesSend ==
  ASSUME NEW q \in Seq(Buckets), NEW f \in Seq(Buckets), q # <<>>, Shares(q, f)
  PROVE  /\ Shares(Tail(q), <<Head(q)>> \o f)
         /\ Len(Tail(q)) + Len(<<Head(q)>> \o f) = Len(q) + Len(f)
<1> DEFINE t == Tail(q)
           g == <<Head(q)>> \o f
<1>1. /\ Len(q) \in Nat \ {0} /\ Len(f) \in Nat /\ t \in Seq(Buckets)
      /\ Len(t) = Len(q) - 1 /\ \A i \in 1 .. Len(t) : t[i] = q[i + 1]
  BY LenProperties, EmptySeq, HeadTailProperties
<1>2. <<Head(q)>> \in Seq(Buckets) /\ Len(<<Head(q)>>) = 1 /\ Head(q) = q[1]
  BY <1>1
<1>3. /\ Len(g) = Len(f) + 1 /\ g[1] = q[1]
      /\ \A j \in 2 .. Len(g) : g[j] = f[j - 1]
  <2>1. Head(q) \in Buckets
    BY <1>1
  <2> QED BY <1>2, <2>1, InFront
<1> HIDE DEF t, g
<1>11. /\ \A i \in 1 .. Len(q), j \in 1 .. Len(q) : q[i] = q[j] => i = j
      /\ \A k \in 1 .. Len(f), m \in 1 .. Len(f) : f[k] = f[m] => k = m
      /\ \A n \in 1 .. Len(q), o \in 1 .. Len(f) : q[n] # f[o]
  BY DEF Shares, Distinct
<1>12. \A i \in 1 .. Len(t) : i + 1 \in 1 .. Len(q)
  BY <1>1
<1>4. Distinct(t)
  <2> SUFFICES ASSUME NEW i \in 1 .. Len(t), NEW j \in 1 .. Len(t), t[i] = t[j]
               PROVE  i = j
    BY DEF Distinct
  <2>1. i + 1 = j + 1
    BY <1>1, <1>11, <1>12
  <2> QED BY <2>1
<1>5. Distinct(g)
  <2> SUFFICES ASSUME NEW i \in 1 .. Len(g), NEW j \in 1 .. Len(g), g[i] = g[j]
               PROVE  i = j
    BY DEF Distinct
  <2>1. CASE i = 1 /\ j = 1
    BY <2>1
  <2>2. CASE i # 1 /\ j # 1
    <3>1. /\ i - 1 \in 1 .. Len(f) /\ j - 1 \in 1 .. Len(f)
          /\ i \in 2 .. Len(g) /\ j \in 2 .. Len(g)
      BY <1>1, <1>3, <2>2
    <3>3. f[i - 1] = f[j - 1]
      BY <1>3, <3>1
    <3>2. i - 1 = j - 1
      BY <1>11, <3>1, <3>3
    <3> QED BY <3>2
  <2>3. CASE i = 1 /\ j # 1
    <3>1. j \in 2 .. Len(g) /\ j - 1 \in 1 .. Len(f) /\ 1 \in 1 .. Len(q)
      BY <1>1, <1>3, <2>3
    <3> QED BY <1>3, <1>11, <2>3, <3>1
  <2>4. CASE i # 1 /\ j = 1
    <3>1. i \in 2 .. Len(g) /\ i - 1 \in 1 .. Len(f) /\ 1 \in 1 .. Len(q)
      BY <1>1, <1>3, <2>4
    <3> QED BY <1>3, <1>11, <2>4, <3>1
  <2> QED BY <2>1, <2>2, <2>3, <2>4
<1>6. \A i \in 1 .. Len(t), j \in 1 .. Len(g) : t[i] # g[j]
  <2> SUFFICES ASSUME NEW i \in 1 .. Len(t), NEW j \in 1 .. Len(g), t[i] = g[j]
               PROVE  FALSE
    OBVIOUS
  <2>1. i + 1 \in 1 .. Len(q) /\ i + 1 # 1 /\ q[i + 1] = g[j]
    <3>1. i \in Nat /\ i >= 1 /\ i <= Len(q) - 1 /\ Len(q) \in Nat
      BY <1>1
    <3>2. i + 1 \in 1 .. Len(q) /\ i + 1 # 1
      BY <3>1
    <3> QED BY <1>1, <3>2
  <2>2. CASE j = 1
    <3>1. 1 \in 1 .. Len(q) /\ q[i + 1] = q[1]
      BY <1>1, <1>3, <2>1, <2>2
    <3> QED BY <1>11, <2>1, <3>1
  <2>3. CASE j # 1
    <3>1. j - 1 \in 1 .. Len(f) /\ g[j] = f[j - 1]
      BY <1>1, <1>3, <2>3
    <3> QED BY <2>1, <3>1 DEF Shares
  <2> QED BY <2>2, <2>3
<1> QED BY <1>1, <1>3, <1>4, <1>5, <1>6 DEF Shares, t, g

LEMMA SharesPut ==
  ASSUME NEW q \in Seq(Buckets), NEW f \in Seq(Buckets), f # <<>>, Shares(q, f)
  PROVE  /\ Shares(Append(q, Head(f)), Tail(f))
         /\ Len(Append(q, Head(f))) + Len(Tail(f)) = Len(q) + Len(f)
         /\ \A i \in 1 .. Len(q) : q[i] # Head(f)
<1> DEFINE a == Append(q, Head(f))
           t == Tail(f)
<1>1. /\ Len(q) \in Nat /\ Len(f) \in Nat \ {0} /\ t \in Seq(Buckets)
      /\ Len(t) = Len(f) - 1 /\ \A i \in 1 .. Len(t) : t[i] = f[i + 1]
      /\ Head(f) = f[1] /\ Head(f) \in Buckets
  BY LenProperties, EmptySeq, HeadTailProperties
<1>2. /\ Len(a) = Len(q) + 1 /\ a[Len(q) + 1] = f[1]
      /\ \A i \in 1 .. Len(q) : a[i] = q[i]
  BY <1>1, AppendProperties
<1>3. \A i \in 1 .. Len(q) : q[i] # Head(f)
  BY <1>1 DEF Shares
<1> HIDE DEF a, t
<1>4. Distinct(t)
  BY <1>1 DEF Shares, Distinct
<1>5. Distinct(a)
  BY <1>1, <1>2, <1>3 DEF Shares, Distinct
<1>6. ASSUME NEW i \in 1 .. Len(a), NEW j \in 1 .. Len(t), a[i] = t[j]
      PROVE  FALSE
  <2>1. j + 1 \in 1 .. Len(f) /\ j + 1 # 1 /\ 1 \in 1 .. Len(f) /\ t[j] = f[j + 1]
    BY <1>1
  <2>2. CASE i = Len(q) + 1
    BY <1>2, <1>6, <2>1, <2>2 DEF Shares, Distinct
  <2>3. CASE i # Len(q) + 1
    <3>1. i \in 1 .. Len(q) /\ a[i] = q[i]
      BY <1>1, <1>2, <2>3
    <3> QED BY <1>6, <2>1, <3>1 DEF Shares
  <2> QED BY <2>2, <2>3
<1> QED BY <1>1, <1>2, <1>3, <1>4, <1>5, <1>6 DEF Shares, a, t

LEMMA SharedIff ==
  TypeOK => (Shared <=> Shares(queue, free) /\ Len(queue) + Len(free) = buckets)
<1> SUFFICES ASSUME TypeOK
             PROVE  Shared <=> /\ Shares(queue, free)
                               /\ Len(queue) + Len(free) = buckets
  OBVIOUS
<1>1. queue \in Seq(Buckets) /\ free \in Seq(Buckets)
  BY DEF TypeOK
<1>2. Len(queue \o free) = Len(queue) + Len(free)
  BY <1>1, ConcatProperties
<1>3. Distinct(queue \o free) <=> Shares(queue, free)
  BY <1>1, SharedParts
<1> QED BY <1>2, <1>3 DEF Shared, Distinct

LEMMA SharesFresh ==
  ASSUME NEW n \in 0 .. NBuckets
  PROVE  /\ [i \in 1 .. n |-> n + 1 - i] \in Seq(Buckets)
         /\ Len([i \in 1 .. n |-> n + 1 - i]) = n
         /\ Shares(<<>>, [i \in 1 .. n |-> n + 1 - i])
<1> DEFINE f == [i \in 1 .. n |-> n + 1 - i]
<1>1. n \in Nat /\ n <= NBuckets /\ NBuckets \in Nat
  BY QueueAssumption
<1>2. \A i \in 1 .. n : n + 1 - i \in Buckets /\ f[i] = n + 1 - i
  BY <1>1 DEF Buckets
<1>3. f \in Seq(Buckets) /\ Len(f) = n
  BY <1>1, <1>2
<1> HIDE DEF f
<1>4. Distinct(f)
  BY <1>1, <1>2, <1>3 DEF Distinct
<1>5. Distinct(<<>>) /\ \A i \in 1 .. Len(<<>>), j \in 1 .. Len(f) : <<>>[i] # f[j]
  BY DEF Distinct
<1> QED BY <1>3, <1>4, <1>5 DEF Shares, f

LEMMA FlushShares == TypeOK /\ FlushBuckets => Shared'
<1> SUFFICES ASSUME TypeOK, FlushBuckets PROVE Shared'
  OBVIOUS
<1> DEFINE f == [i \in 1 .. buckets |-> buckets + 1 - i]
<1>1. queue' = <<>> /\ free' = f /\ buckets' = buckets
  BY DEF FlushBuckets, modeVars
<1>2. f \in Seq(Buckets) /\ Len(f) = buckets /\ Shares(<<>>, f)
  BY SharesFresh DEF TypeOK
<1> HIDE DEF f
<1>3. <<>> \o f = f
  BY <1>2, ConcatEmptySeq
<1>4. Distinct(f)
  BY <1>2 DEF Shares
<1> QED BY <1>1, <1>2, <1>3, <1>4 DEF Shared, Distinct

LEMMA SendShares ==
  ASSUME TypeOK, Shared, queue # <<>>, NEW data, SendHead(data), UNCHANGED buckets
  PROVE  Shared'
<1> DEFINE q == Tail(queue)
           f == <<Head(queue)>> \o free
<1>1. queue' = q /\ free' = f /\ buckets' = buckets
  BY DEF SendHead
<1>2. queue \in Seq(Buckets) /\ free \in Seq(Buckets)
  BY DEF TypeOK
<1>3. Shares(queue, free) /\ Len(queue) + Len(free) = buckets
  BY SharedIff
<1>4. Shares(q, f) /\ Len(q) + Len(f) = buckets
  BY <1>2, <1>3, SharesSend
<1>5. q \in Seq(Buckets) /\ f \in Seq(Buckets)
  <2>1. q \in Seq(Buckets) /\ Head(queue) \in Buckets
    BY <1>2, HeadTailProperties
  <2>2. <<Head(queue)>> \in Seq(Buckets)
    BY <2>1
  <2> QED BY <1>2, <2>1, <2>2, ConcatProperties
<1> HIDE DEF q, f
<1>6. Distinct(q \o f) /\ Len(q \o f) = buckets
  BY <1>4, <1>5, SharedParts, ConcatProperties
<1> QED BY <1>1, <1>6 DEF Shared, Distinct

LEMMA SharedStep == Inv /\ [Next]_vars => Shared'
<1> SUFFICES ASSUME Inv, [Next]_vars PROVE Shared'
  OBVIOUS
<1> USE DEF Inv, modeVars, queueVars
<1>1. CASE Tick
  BY <1>1 DEF Tick, Shared
<1>2. CASE Ask
  BY <1>2 DEF Ask, Shared
<1>3. ASSUME NEW n \in 1 .. MaxAdd, AqAdd(n) PROVE Shared'
  BY <1>3 DEF AqAdd, Shared
<1>4. CASE AqUpdate
  BY <1>4 DEF AqUpdate, Shared
<1>5. CASE FillBegin
  BY <1>5 DEF FillBegin, Shared
<1>6. CASE FillSend
  <2>1. UNCHANGED buckets
    BY <1>6 DEF FillSend
  <2>2. queue # <<>> /\ \E data \in Seq(Sample) : SendHead(data)
    BY <1>6, SendsBucket
  <2> QED BY <2>1, <2>2, SendShares
<1>7. CASE FillEnd
  BY <1>7 DEF FillEnd, Shared
<1>8. CASE PutDirect
  BY <1>8 DEF PutDirect, Shared
<1>9. CASE PutBucket
  <2> DEFINE q == Append(queue, Head(free))
             f == Tail(free)
  <2>1. queue' = q /\ free' = f /\ buckets' = buckets /\ free # <<>>
    BY <1>9 DEF PutBucket, Copy
  <2>2. queue \in Seq(Buckets) /\ free \in Seq(Buckets)
    BY DEF TypeOK
  <2>3. Shares(queue, free) /\ Len(queue) + Len(free) = buckets
    BY SharedIff
  <2>4. Shares(q, f) /\ Len(q) + Len(f) = buckets
    BY <2>1, <2>2, <2>3, SharesPut
  <2>5. q \in Seq(Buckets) /\ f \in Seq(Buckets)
    BY <2>1, <2>2, HeadTailProperties, AppendProperties
  <2> HIDE DEF q, f
  <2>6. Distinct(q \o f) /\ Len(q \o f) = buckets
    BY <2>4, <2>5, SharedParts, ConcatProperties
  <2> QED BY <2>1, <2>6 DEF Shared, Distinct
<1>10. CASE PutTail
  BY <1>10 DEF PutTail, Copy, Shared
<1>11. CASE PutFull
  <2>1. CASE tracing
    BY <1>11, <2>1 DEF PutFull, Shared
  <2>2. CASE ~tracing
    <3>1. UNCHANGED buckets
      BY <1>11 DEF PutFull
    <3>2. queue # <<>> /\ \E data \in Seq(Sample) : SendHead(data)
      BY <1>11, <2>2, SendsBucket
    <3> QED BY <3>1, <3>2, SendShares
  <2> QED BY <2>1, <2>2
<1>12. CASE AqSoftFlush
  BY <1>12 DEF AqSoftFlush, Shared
<1>13. CASE AqFlush
  BY <1>13 DEF AqFlush, Shared
<1>14. CASE AqDiscard
  BY <1>14, FlushShares DEF AqDiscard, Discard
<1>15. CASE SoftSend
  <2>1. UNCHANGED buckets
    BY <1>15 DEF SoftSend
  <2>2. queue # <<>> /\ \E data \in Seq(Sample) : SendHead(data)
    BY <1>15, SendsBucket
  <2> QED BY <2>1, <2>2, SendShares
<1>16. CASE SoftControl
  <2>1. CASE UNCHANGED queueVars
    BY <2>1 DEF Shared
  <2>2. CASE FlushBuckets
    BY <2>2, FlushShares
  <2> QED BY <1>16, <2>1, <2>2 DEF SoftControl, Discard
<1>17. CASE SoftEnd
  BY <1>17 DEF SoftEnd, Shared
<1>18. CASE DrainEnd
  BY <1>18, FlushShares DEF DrainEnd
<1>19. CASE DrainSkip
  BY <1>19, FlushShares DEF DrainSkip, Discard
<1>20. CASE UNCHANGED vars
  BY <1>20 DEF vars, Shared
<1> QED
  BY <1>1, <1>2, <1>3, <1>4, <1>5, <1>6, <1>7, <1>8, <1>9, <1>10, <1>11, <1>12,
     <1>13, <1>14, <1>15, <1>16, <1>17, <1>18, <1>19, <1>20 DEF Next

-------------------------------------------------------------------------------
(***************************************************************************)
(* The samples in the queue, and what each operation on it does to them.   *)
(***************************************************************************)
Whole(q, st) ==
  \A i \in 1 .. Len(q) :
    /\ i < Len(q) => Len(st[q[i]]) = BucketSize
    /\ Len(st[q[i]]) \in 1 .. BucketSize

SampleCount(q, st) ==
  IF q = <<>> THEN 0 ELSE (Len(q) - 1) * BucketSize + Len(st[q[Len(q)]])

Samples(q, st) ==
  [i \in 1 .. SampleCount(q, st) |->
     st[q[((i - 1) \div BucketSize) + 1]][((i - 1) % BucketSize) + 1]]

LEMMA WaitingSamples == Waiting = Samples(queue, store)
  BY DEF Waiting, Samples, SampleCount, TailOf

LEMMA WholeQueue == OnlyTailPartial <=> Whole(queue, store)
  BY DEF OnlyTailPartial, Whole, Full

LEMMA DivMod ==
  ASSUME NEW a \in Int
  PROVE  /\ a \div BucketSize \in Int /\ a % BucketSize \in 0 .. BucketSize - 1
         /\ a = (a \div BucketSize) * BucketSize + (a % BucketSize)
  BY QueueAssumption

LEMMA DivNat == \A a \in Nat : a \div BucketSize \in Nat
  BY QueueAssumption

LEMMA TimesNat == \A a \in Nat : a * BucketSize \in Nat
  BY QueueAssumption

LEMMA Scale ==
  ASSUME NEW a \in Int, NEW b \in Int
  PROVE  /\ a * BucketSize \in Int /\ b * BucketSize \in Int
         /\ (a - b) * BucketSize = a * BucketSize - b * BucketSize
         /\ a >= b + 1 => a * BucketSize >= b * BucketSize + BucketSize
         /\ a * BucketSize < b * BucketSize + BucketSize => a <= b
<1>1. /\ a * BucketSize \in Int /\ b * BucketSize \in Int
      /\ (a - b) * BucketSize = a * BucketSize - b * BucketSize
  BY QueueAssumption
<1>2. ASSUME a >= b + 1 PROVE a * BucketSize >= b * BucketSize + BucketSize
  <2>1. \A c \in Int : c >= 1 => c * BucketSize >= BucketSize
    BY QueueAssumption
  <2>2. (a - b) * BucketSize >= BucketSize
    BY <1>2, <2>1
  <2> QED BY <1>1, <2>2, QueueAssumption
<1>3. a * BucketSize < b * BucketSize + BucketSize => a <= b
  BY <1>1, <1>2, QueueAssumption
<1> QED BY <1>1, <1>2, <1>3

LEMMA DivModUnique ==
  ASSUME NEW q \in Int, NEW r \in 0 .. BucketSize - 1, NEW a \in Int,
         a = q * BucketSize + r
  PROVE  a \div BucketSize = q /\ a % BucketSize = r
<1> DEFINE d == a \div BucketSize
           m == a % BucketSize
<1>1. d \in Int /\ m \in 0 .. BucketSize - 1 /\ a = d * BucketSize + m
  BY DivMod
<1> HIDE DEF d, m
<1>2. BucketSize \in Nat /\ q * BucketSize \in Int /\ d * BucketSize \in Int
  BY <1>1, Scale, QueueAssumption
<1>3. d <= q
  <2>1. d * BucketSize < q * BucketSize + BucketSize
    BY <1>1, <1>2
  <2> QED BY <1>1, <2>1, Scale
<1>4. q <= d
  <2>1. q * BucketSize < d * BucketSize + BucketSize
    BY <1>1, <1>2
  <2> QED BY <1>1, <2>1, Scale
<1>5. d = q
  BY <1>1, <1>3, <1>4
<1>6. m = r
  BY <1>1, <1>2, <1>5
<1> QED BY <1>5, <1>6 DEF d, m

\* Sample i of the queue is in a bucket of it, at a place that holds one.
LEMMA SampleAt ==
  ASSUME NEW q \in Seq(Buckets), NEW st \in [Buckets -> Seq(Sample)],
         Whole(q, st)
  PROVE  /\ SampleCount(q, st) \in Nat
         /\ \A i \in 1 .. SampleCount(q, st) :
              LET k == ((i - 1) \div BucketSize) + 1
                  j == ((i - 1) % BucketSize) + 1
              IN  /\ k \in 1 .. Len(q) /\ j \in 1 .. Len(st[q[k]])
                  /\ i = (k - 1) * BucketSize + j
<1> DEFINE c == SampleCount(q, st)
<1>1. CASE q = <<>>
  BY <1>1 DEF SampleCount
<1>2. CASE q # <<>>
  <2>1. Len(q) \in Nat \ {0} /\ BucketSize \in Nat \ {0}
    BY <1>2, EmptySeq, LenProperties, QueueAssumption
  <2> DEFINE len == Len(st[q[Len(q)]])
  <2>2. len \in 1 .. BucketSize
    BY <2>1 DEF Whole
  <2>3. c = (Len(q) - 1) * BucketSize + len
    BY <1>2 DEF SampleCount
  <2> HIDE DEF len, c
  <2>4. Len(q) - 1 \in Nat
    BY <2>1
  <2>5. (Len(q) - 1) * BucketSize \in Nat /\ c \in Nat
    <3>1. (Len(q) - 1) * BucketSize \in Nat
      BY <2>4, TimesNat
    <3> QED BY <2>2, <2>3, <3>1
  <2>6. ASSUME NEW i \in 1 .. c
        PROVE  LET k == ((i - 1) \div BucketSize) + 1
                   j == ((i - 1) % BucketSize) + 1
               IN  /\ k \in 1 .. Len(q) /\ j \in 1 .. Len(st[q[k]])
                   /\ i = (k - 1) * BucketSize + j
    <3> DEFINE d == (i - 1) \div BucketSize
               m == (i - 1) % BucketSize
    <3>1. i - 1 \in Nat /\ i - 1 \in Int
      BY <2>5
    <3>2. /\ d \in Nat /\ m \in 0 .. BucketSize - 1
          /\ i - 1 = d * BucketSize + m
      BY <3>1, DivMod, DivNat
    <3> HIDE DEF d, m
    <3>3. d * BucketSize \in Int
      BY <3>2, Scale
    <3>4. d <= Len(q) - 1
      <4>1. d * BucketSize < (Len(q) - 1) * BucketSize + BucketSize
        BY <2>1, <2>2, <2>3, <2>5, <3>1, <3>2, <3>3
      <4>2. Len(q) - 1 \in Int
        BY <2>1
      <4> QED BY <3>2, <4>1, <4>2, Scale
    <3>5. d + 1 \in 1 .. Len(q)
      BY <2>1, <3>2, <3>4
    <3>6. m + 1 \in 1 .. Len(st[q[d + 1]])
      <4>1. CASE d + 1 < Len(q)
        <5>1. Len(st[q[d + 1]]) = BucketSize
          BY <3>5, <4>1 DEF Whole
        <5> QED BY <2>1, <3>2, <5>1
      <4>2. CASE d + 1 = Len(q)
        <5>1. Len(st[q[d + 1]]) = len /\ d = Len(q) - 1
          BY <2>1, <3>2, <4>2 DEF len
        <5>2. m < len
          BY <2>1, <2>2, <2>3, <2>5, <3>1, <3>2, <3>3, <5>1
        <5> QED BY <2>2, <3>2, <5>1, <5>2
      <4> QED BY <2>1, <3>5, <4>1, <4>2
    <3>7. i = ((d + 1) - 1) * BucketSize + (m + 1)
      <4>1. (d + 1) - 1 = d
        BY <3>2
      <4>2. \A x, y, z \in Int : x - 1 = y + z => x = y + (z + 1)
        OBVIOUS
      <4>3. i \in Int /\ m \in Int
        BY <2>1, <2>5, <3>2
      <4>4. i = d * BucketSize + (m + 1)
        BY <3>2, <3>3, <4>2, <4>3
      <4> QED BY <4>1, <4>4
    <3> QED BY <3>5, <3>6, <3>7 DEF d, m
  <2> QED BY <2>5, <2>6 DEF c
<1> QED BY <1>1, <1>2

\* The samples of a queue, by the bucket each is in and its place there.
LEMMA Places ==
  ASSUME NEW q \in Seq(Buckets), NEW st \in [Buckets -> Seq(Sample)],
         Whole(q, st)
  PROVE  /\ SampleCount(q, st) \in Nat
         /\ Samples(q, st) \in Seq(Sample)
         /\ Len(Samples(q, st)) = SampleCount(q, st)
         /\ \A i \in 1 .. SampleCount(q, st) :
              \E k \in 1 .. Len(q) : \E j \in 1 .. Len(st[q[k]]) :
                /\ i = (k - 1) * BucketSize + j
                /\ Samples(q, st)[i] = st[q[k]][j]
<1> DEFINE c == SampleCount(q, st)
           K(i) == ((i - 1) \div BucketSize) + 1
           J(i) == ((i - 1) % BucketSize) + 1
<1>1. /\ c \in Nat
      /\ \A i \in 1 .. c : /\ K(i) \in 1 .. Len(q)
                           /\ J(i) \in 1 .. Len(st[q[K(i)]])
                           /\ i = (K(i) - 1) * BucketSize + J(i)
  BY SampleAt
<1>2. Samples(q, st) = [i \in 1 .. c |-> st[q[K(i)]][J(i)]]
  BY DEF Samples
<1> HIDE DEF c, K, J
<1>3. \A i \in 1 .. c : st[q[K(i)]][J(i)] \in Sample
  <2> SUFFICES ASSUME NEW i \in 1 .. c PROVE st[q[K(i)]][J(i)] \in Sample
    OBVIOUS
  <2>1. q[K(i)] \in Buckets
    BY <1>1, ElementOfSeq
  <2>2. st[q[K(i)]] \in Seq(Sample)
    BY <2>1
  <2> QED BY <1>1, <2>2, ElementOfSeq
<1>4. Samples(q, st) \in Seq(Sample) /\ Len(Samples(q, st)) = c
  BY <1>1, <1>2, <1>3
<1>5. \A i \in 1 .. c : Samples(q, st)[i] = st[q[K(i)]][J(i)]
  BY <1>2
<1> QED BY <1>1, <1>4, <1>5 DEF c

LEMMA Place ==
  ASSUME NEW q \in Seq(Buckets), NEW st \in [Buckets -> Seq(Sample)],
         Whole(q, st), NEW k \in 1 .. Len(q), NEW j \in 1 .. Len(st[q[k]])
  PROVE  /\ (k - 1) * BucketSize + j \in 1 .. SampleCount(q, st)
         /\ Samples(q, st)[(k - 1) * BucketSize + j] = st[q[k]][j]
<1> DEFINE i == (k - 1) * BucketSize + j
           c == SampleCount(q, st)
           len == Len(st[q[Len(q)]])
<1>1. Len(q) \in Nat /\ q # <<>> /\ BucketSize \in Nat \ {0}
  BY LenProperties, EmptySeq, QueueAssumption
<1>2. len \in 1 .. BucketSize /\ c = (Len(q) - 1) * BucketSize + len
  BY <1>1 DEF Whole, SampleCount
<1>3. Len(st[q[k]]) \in 1 .. BucketSize /\ (k < Len(q) => Len(st[q[k]]) = BucketSize)
  BY DEF Whole
<1>4. j - 1 \in 0 .. BucketSize - 1 /\ k - 1 \in Nat /\ k - 1 \in Int
  BY <1>1, <1>3
<1>5. (k - 1) * BucketSize \in Nat /\ j \in Nat /\ j >= 1
  BY <1>1, <1>3, <1>4, TimesNat
<1>6. i \in Nat /\ i >= 1
  <2> DEFINE p == (k - 1) * BucketSize
  <2>1. p \in Nat /\ j \in Nat /\ j >= 1
    BY <1>5
  <2> HIDE DEF p
  <2>2. p + j \in Nat /\ p + j >= 1
    BY <2>1
  <2>3. i = p + j
    BY Zenon DEF p
  <2> HIDE DEF i
  <2> QED BY <2>2, <2>3
<1> DEFINE p == (k - 1) * BucketSize
<1>p. i = p + j /\ p \in Nat
  BY <1>5, Zenon DEF p
<1> HIDE DEF len, c, p, i
<1>7. i <= c
  <2>1. CASE k = Len(q)
    <3>1. c = p + len /\ j <= len /\ len \in Int
      <4>1. c = p + len
        BY <1>2, <2>1, Zenon DEF p
      <4>2. Len(st[q[k]]) = len
        BY <2>1, Zenon DEF len
      <4> QED BY <1>1, <1>2, <1>3, <4>1, <4>2
    <3> QED BY <1>5, <1>p, <3>1
  <2>2. CASE k # Len(q)
    <3>1. Len(q) - 1 \in Int /\ Len(q) - 1 >= (k - 1) + 1
      BY <1>1, <2>2
    <3>2. /\ (Len(q) - 1) * BucketSize >= (k - 1) * BucketSize + BucketSize
          /\ (Len(q) - 1) * BucketSize \in Int
      BY <1>4, <3>1, Scale
    <3>3. j <= BucketSize
      BY <1>1, <1>3, <1>5
    <3> DEFINE x == (Len(q) - 1) * BucketSize
    <3>4. x >= p + BucketSize /\ x \in Int /\ c = x + len
      BY <1>2, <3>2, Zenon DEF p, x
    <3> HIDE DEF x
    <3> QED BY <1>1, <1>2, <1>5, <1>p, <3>3, <3>4
  <2> QED BY <2>1, <2>2
<1>8. i \in 1 .. c
  <2>1. c \in Nat
    BY Places DEF c
  <2> QED BY <1>6, <1>7, <2>1
<1>9. ((i - 1) \div BucketSize) = k - 1 /\ ((i - 1) % BucketSize) = j - 1
  <2>1. i - 1 = (k - 1) * BucketSize + (j - 1) /\ i - 1 \in Int
    <3>1. \A x, y \in Int : (x + y) - 1 = x + (y - 1)
      OBVIOUS
    <3> QED BY <1>5, <1>6, <3>1 DEF i
  <2> QED BY <1>4, <2>1, DivModUnique
<1>10. (k - 1) + 1 = k /\ (j - 1) + 1 = j
  BY <1>1, <1>3
<1>11. Samples(q, st)[i]
         = st[q[((i - 1) \div BucketSize) + 1]][((i - 1) % BucketSize) + 1]
  BY <1>8 DEF Samples, c
<1> QED BY <1>8, <1>9, <1>10, <1>11 DEF i, c

\* Taking the head away: its samples come first.  Only the last bucket may be
\* partly filled, so a partly filled head is all there is.
LEMMA Take ==
  ASSUME NEW q \in Seq(Buckets), NEW st \in [Buckets -> Seq(Sample)],
         Whole(q, st), q # <<>>
  PROVE  /\ Whole(Tail(q), st)
         /\ Samples(q, st) = st[Head(q)] \o Samples(Tail(q), st)
         /\ Len(st[Head(q)]) = BucketSize \/ Samples(Tail(q), st) = <<>>
<1> DEFINE t == Tail(q)
           h == st[Head(q)]
           n == Len(q)
           s == Samples(q, st)
           r == Samples(t, st)
<1>1. /\ n \in Nat \ {0} /\ t \in Seq(Buckets) /\ Len(t) = n - 1
      /\ \A i \in 1 .. Len(t) : t[i] = q[i + 1]
      /\ Head(q) = q[1] /\ 1 \in 1 .. n
  BY LenProperties, EmptySeq, HeadTailProperties
<1>2. h \in Seq(Sample) /\ h = st[q[1]]
  BY <1>1
<1>3. Len(h) \in 1 .. BucketSize /\ (1 < n => Len(h) = BucketSize)
  BY <1>1 DEF Whole
<1>4. BucketSize \in Nat \ {0}
  BY QueueAssumption
<1> HIDE DEF t, h, n
<1>5. Whole(t, st)
  <2> SUFFICES ASSUME NEW i \in 1 .. Len(t)
               PROVE  /\ i < Len(t) => Len(st[t[i]]) = BucketSize
                      /\ Len(st[t[i]]) \in 1 .. BucketSize
    BY DEF Whole
  <2>1. i + 1 \in 1 .. n /\ t[i] = q[i + 1] /\ (i < Len(t) => i + 1 < n)
    BY <1>1
  <2> QED BY <2>1 DEF Whole, n
<1> DEFINE c == SampleCount(q, st)
           e == SampleCount(t, st)
<1>6. /\ s \in Seq(Sample) /\ Len(s) = c /\ c \in Nat
      /\ r \in Seq(Sample) /\ Len(r) = e /\ e \in Nat
  BY <1>1, <1>5, Places
<1>7. n = 1 => e = 0 /\ c = Len(h)
  <2>1. n = 1 => t = <<>>
    BY <1>1, EmptySeq
  <2>2. n = 1 => c = (1 - 1) * BucketSize + Len(h)
    BY <1>1, <1>2 DEF SampleCount, n
  <2>3. (1 - 1) * BucketSize = 0
    BY <1>4
  <2>4. n = 1 => e = 0
    BY <2>1 DEF SampleCount
  <2>5. Len(h) \in Nat
    BY <1>2, LenProperties
  <2> HIDE DEF c, e
  <2>6. n = 1 => c = 0 + Len(h)
    BY <2>2, <2>3
  <2>7. 0 + Len(h) = Len(h)
    BY <2>5
  <2> QED BY <2>4, <2>6, <2>7
<1>8. n # 1 => c = Len(h) + e /\ Len(h) = BucketSize
  <2> SUFFICES ASSUME n # 1 PROVE c = Len(h) + e /\ Len(h) = BucketSize
    OBVIOUS
  <2>1. Len(h) = BucketSize
    BY <1>1, <1>3
  <2>2. t # <<>> /\ Len(t) = n - 1 /\ Len(t) \in 1 .. Len(t) /\ t[Len(t)] = q[n]
    <3>1. Len(t) = n - 1 /\ Len(t) \in 1 .. Len(t)
      BY <1>1
    <3>2. t # <<>>
      BY <3>1, EmptySeq
    <3>3. t[Len(t)] = q[(n - 1) + 1] /\ (n - 1) + 1 = n
      BY <1>1, <3>1
    <3> QED BY <3>1, <3>2, <3>3
  <2>3. c = (n - 1) * BucketSize + Len(st[q[n]])
    BY DEF SampleCount, n
  <2>4. e = (Len(t) - 1) * BucketSize + Len(st[q[n]])
    BY <2>2 DEF SampleCount
  <2>5. n \in 1 .. n
    BY <1>1
  <2>6. Len(st[q[n]]) \in 1 .. BucketSize
    BY <2>5 DEF Whole, n
  <2>7. /\ ((n - 1) - 1) * BucketSize = (n - 1) * BucketSize - 1 * BucketSize
        /\ (n - 1) * BucketSize \in Int
    BY <1>1, Scale
  <2>8. 1 * BucketSize = BucketSize
    BY <1>4
  <2>9. e = ((n - 1) * BucketSize - BucketSize) + Len(st[q[n]])
    BY <2>2, <2>4, <2>7, <2>8
  <2> HIDE DEF c, e
  <2> QED BY <1>4, <2>1, <2>3, <2>6, <2>7, <2>9
<1>9. c = Len(h) + e
  BY <1>3, <1>4, <1>7, <1>8
<1>10. h \o r \in Seq(Sample) /\ Len(h \o r) = c
  BY SMTT(30), <1>2, <1>6, <1>9, ConcatProperties
<1> HIDE DEF c, e, s, r
<1>11. ASSUME NEW i \in 1 .. c PROVE s[i] = (h \o r)[i]
  <2>1. (h \o r)[i] = IF i <= Len(h) THEN h[i] ELSE r[i - Len(h)]
    <3>1. i \in 1 .. Len(h) + Len(r)
      BY <1>6, <1>9
    <3> QED BY <1>2, <1>6, <3>1, ConcatAt
  <2>2. CASE i <= Len(h)
    <3>1. i \in 1 .. Len(st[q[1]]) /\ 1 \in 1 .. Len(q)
      BY <1>1, <1>2, <1>3, <1>4, <1>6, <2>2 DEF n
    <3>2. s[(1 - 1) * BucketSize + i] = h[i]
      BY <3>1, <1>2, Place DEF s
    <3>3. (1 - 1) * BucketSize + i = i
      <4>1. (1 - 1) * BucketSize = 0
        BY <1>4
      <4> QED BY <1>6, <4>1
    <3> QED BY <2>1, <2>2, <3>2, <3>3
  <2>3. CASE ~(i <= Len(h))
    <3>1. i - Len(h) \in 1 .. e
      BY <1>3, <1>4, <1>6, <1>9, <2>3
    <3>2. Len(h) = BucketSize
      BY <1>6, <1>7, <1>8, <2>3
    <3>3. PICK k \in 1 .. Len(t) : \E j \in 1 .. Len(st[t[k]]) :
                 /\ i - Len(h) = (k - 1) * BucketSize + j
                 /\ r[i - Len(h)] = st[t[k]][j]
      BY <1>1, <1>5, <3>1, Places DEF e, r
    <3>4. PICK j \in 1 .. Len(st[t[k]]) :
                 /\ i - Len(h) = (k - 1) * BucketSize + j
                 /\ r[i - Len(h)] = st[t[k]][j]
      BY <3>3
    <3>5. k + 1 \in 1 .. Len(q) /\ t[k] = q[k + 1]
      BY <1>1 DEF n
    <3>6. s[((k + 1) - 1) * BucketSize + j] = st[q[k + 1]][j]
      BY <3>4, <3>5, Place DEF s
    <3>7. i = ((k + 1) - 1) * BucketSize + j
      <4>1. k \in Int /\ 1 \in Int /\ (k + 1) - 1 = k
        OBVIOUS
      <4>2. (k - 1) * BucketSize = k * BucketSize - 1 * BucketSize
            /\ k * BucketSize \in Int
        BY <4>1, Scale
      <4>3. 1 * BucketSize = BucketSize
        BY <1>4
      <4>4. j \in Int /\ i \in Int
        <5>1. Len(st[t[k]]) \in 1 .. BucketSize
          BY <1>5 DEF Whole
        <5> QED BY <1>4, <1>6, <5>1
      <4>5. \A x \in Int : i - BucketSize = (x - BucketSize) + j => i = x + j
        BY <1>4, <4>4
      <4> QED BY <3>2, <3>4, <4>1, <4>2, <4>3, <4>5
    <3> QED BY <2>1, <2>3, <3>4, <3>5, <3>6, <3>7
  <2> QED BY <2>2, <2>3
<1>12. s = h \o r
  BY <1>6, <1>10, <1>11, SeqEqual
<1>13. Len(h) = BucketSize \/ r = <<>>
  <2>1. n = 1 => r = <<>>
    BY <1>6, <1>7, EmptySeq
  <2> QED BY <1>8, <2>1
<1> QED BY <1>5, <1>12, <1>13 DEF s, r, t, h

\* A new bucket behind whole ones: its samples come last.
LEMMA Add ==
  ASSUME NEW q \in Seq(Buckets), NEW st \in [Buckets -> Seq(Sample)],
         Whole(q, st), q # <<>> => Len(st[q[Len(q)]]) = BucketSize,
         NEW b \in Buckets, \A i \in 1 .. Len(q) : q[i] # b,
         NEW d \in Seq(Sample), Len(d) \in 1 .. BucketSize
  PROVE  /\ Whole(Append(q, b), [st EXCEPT ![b] = d])
         /\ Samples(Append(q, b), [st EXCEPT ![b] = d]) = Samples(q, st) \o d
<1> DEFINE a == Append(q, b)
           u == [st EXCEPT ![b] = d]
           n == Len(q)
           c == SampleCount(q, st)
           e == SampleCount(a, u)
           s == Samples(q, st)
           r == Samples(a, u)
<1>1. /\ n \in Nat /\ a \in Seq(Buckets) /\ Len(a) = n + 1 /\ a[n + 1] = b
      /\ \A i \in 1 .. n : a[i] = q[i]
  BY LenProperties, AppendProperties
<1>2. u \in [Buckets -> Seq(Sample)] /\ u[b] = d
  OBVIOUS
<1>3. \A i \in 1 .. n : u[q[i]] = st[q[i]]
  <2> SUFFICES ASSUME NEW i \in 1 .. n PROVE u[q[i]] = st[q[i]]
    OBVIOUS
  <2>1. q[i] \in Buckets /\ q[i] # b
    BY ElementOfSeq
  <2> QED BY <2>1
<1>4. BucketSize \in Nat \ {0} /\ Len(d) \in Nat
  BY QueueAssumption, LenProperties
<1> HIDE DEF a, u
<1>5. Whole(a, u)
  <2> SUFFICES ASSUME NEW i \in 1 .. Len(a)
               PROVE  /\ i < Len(a) => Len(u[a[i]]) = BucketSize
                      /\ Len(u[a[i]]) \in 1 .. BucketSize
    BY DEF Whole
  <2>1. CASE i = n + 1
    BY <1>1, <1>2, <2>1
  <2>2. CASE i # n + 1
    <3>1. i \in 1 .. n /\ u[a[i]] = st[q[i]]
      BY <1>1, <1>3, <2>2
    <3>2. i = n => Len(st[q[i]]) = BucketSize
      <4>1. i = n => q # <<>>
        BY <3>1, EmptySeq
      <4> QED BY <4>1
    <3>3. i < n => Len(st[q[i]]) = BucketSize
      BY <3>1 DEF Whole
    <3>4. Len(st[q[i]]) = BucketSize
      BY <1>1, <3>1, <3>2, <3>3
    <3> QED BY <1>4, <3>1, <3>4
  <2> QED BY <2>1, <2>2
<1>6. /\ s \in Seq(Sample) /\ Len(s) = c /\ c \in Nat
      /\ r \in Seq(Sample) /\ Len(r) = e /\ e \in Nat
  BY <1>1, <1>2, <1>5, Places
<1>7. c = n * BucketSize /\ n * BucketSize \in Nat
  <2>1. n * BucketSize \in Nat
    BY <1>1, TimesNat
  <2>2. CASE q = <<>>
    <3>1. n = 0 /\ c = 0
      BY <2>2, EmptySeq DEF SampleCount
    <3>2. 0 * BucketSize = 0
      BY <1>4
    <3> HIDE DEF n, c
    <3> QED BY <2>1, <3>1, <3>2
  <2>3. CASE q # <<>>
    <3>1. c = (n - 1) * BucketSize + BucketSize
      BY <2>3 DEF SampleCount
    <3>2. (n - 1) * BucketSize = n * BucketSize - 1 * BucketSize
      BY <1>1, Scale
    <3>3. 1 * BucketSize = BucketSize
      BY <1>4
    <3> HIDE DEF n, c
    <3>4. c = (n * BucketSize - BucketSize) + BucketSize
      BY <3>1, <3>2, <3>3
    <3>5. \A x \in Nat : (x - BucketSize) + BucketSize = x
      BY <1>4
    <3> QED BY <2>1, <3>4, <3>5
  <2> QED BY <2>1, <2>2, <2>3
<1>8. e = c + Len(d)
  <2>1. a # <<>> /\ a[Len(a)] = b /\ Len(a) - 1 = n
    <3>1. Len(a) # 0 /\ Len(a) - 1 = n
      BY <1>1
    <3>2. a # <<>>
      BY <3>1, EmptySeq
    <3> QED BY <1>1, <3>1, <3>2
  <2>2. e = (Len(a) - 1) * BucketSize + Len(u[a[Len(a)]])
    BY <2>1 DEF SampleCount
  <2> HIDE DEF e, c, n
  <2> QED BY <1>2, <1>7, <2>1, <2>2
<1> HIDE DEF c, e, s, r
<1>9. s \o d \in Seq(Sample) /\ Len(s \o d) = e
  BY <1>6, <1>8, ConcatProperties
<1>10. ASSUME NEW i \in 1 .. e PROVE r[i] = (s \o d)[i]
  <2>1. (s \o d)[i] = IF i <= c THEN s[i] ELSE d[i - c]
    <3>1. i \in 1 .. Len(s) + Len(d)
      BY <1>6, <1>8
    <3> QED BY <1>6, <3>1, ConcatAt
  <2>2. PICK k \in 1 .. Len(a) : \E j \in 1 .. Len(u[a[k]]) :
               i = (k - 1) * BucketSize + j /\ r[i] = u[a[k]][j]
    BY ZenonT(60), <1>1, <1>2, <1>5, Places DEF e, r
  <2>3. PICK j \in 1 .. Len(u[a[k]]) :
               i = (k - 1) * BucketSize + j /\ r[i] = u[a[k]][j]
    BY <2>2
  <2>4. CASE k = n + 1
    <3>1. u[a[k]] = d /\ k - 1 = n
      BY <1>1, <1>2, <2>4
    <3>2. i = c + j /\ j \in 1 .. Len(d)
      BY <1>7, <2>3, <3>1
    <3>3. ~(i <= c) /\ i - c = j
      BY <1>4, <1>6, <3>2
    <3> QED BY <2>1, <2>3, <3>1, <3>3
  <2>5. CASE k # n + 1
    <3>1. k \in 1 .. n /\ u[a[k]] = st[q[k]]
      BY SMTT(30), <1>1, <1>3, <2>5
    <3>2. j \in 1 .. Len(st[q[k]])
      BY <3>1
    <3>3. i \in 1 .. c /\ s[i] = st[q[k]][j]
      BY <2>3, <3>1, <3>2, Place DEF c, s
    <3>4. i <= c
      BY <1>6, <3>3
    <3> QED BY <2>1, <2>3, <3>1, <3>3, <3>4
  <2> QED BY <2>4, <2>5
<1>11. r = s \o d
  BY <1>6, <1>9, <1>10, SeqEqual
<1> QED BY <1>5, <1>11 DEF r, s, a, u

\* Bucket b has d more, and the others what they had.
Grown(b, st, u, d) ==
  u[b] = st[b] \o d /\ \A a \in Buckets : a # b => u[a] = st[a]

\* More in the bucket at the tail: its samples come last.
LEMMA Extend ==
  ASSUME NEW q \in Seq(Buckets), NEW st \in [Buckets -> Seq(Sample)],
         Whole(q, st), Distinct(q), q # <<>>,
         NEW b, b = q[Len(q)],
         NEW d \in Seq(Sample), Len(st[b]) + Len(d) <= BucketSize,
         NEW u \in [Buckets -> Seq(Sample)], Grown(b, st, u, d)
  PROVE  Whole(q, u) /\ Samples(q, u) = Samples(q, st) \o d
<1> DEFINE x == st[b] \o d
           n == Len(q)
           c == SampleCount(q, st)
           e == SampleCount(q, u)
           s == Samples(q, st)
           r == Samples(q, u)
<1>1. n \in Nat \ {0} /\ n \in 1 .. n /\ b \in Buckets /\ BucketSize \in Nat
  <2>1. n \in Nat \ {0}
    BY EmptySeq
  <2>2. n \in 1 .. n
    BY <2>1
  <2>3. q[n] \in Buckets
    BY <2>2, ElementOfSeq
  <2> QED BY <2>1, <2>2, <2>3, QueueAssumption
<1>2. st[b] \in Seq(Sample) /\ Len(st[b]) \in 1 .. BucketSize /\ Len(d) \in Nat
  BY <1>1, LenProperties DEF Whole
<1>3. /\ x \in Seq(Sample) /\ Len(x) = Len(st[b]) + Len(d)
      /\ \A j \in 1 .. Len(x) :
           x[j] = IF j <= Len(st[b]) THEN st[b][j] ELSE d[j - Len(st[b])]
  BY <1>2, ConcatProperties
<1>a. u[b] = x
  BY DEF Grown
<1> HIDE DEF x
<1>4. u \in [Buckets -> Seq(Sample)] /\ u[q[n]] = x
  BY <1>1, <1>3, <1>a
<1>5. \A i \in 1 .. n : i # n => u[q[i]] = st[q[i]]
  <2> SUFFICES ASSUME NEW i \in 1 .. n, i # n PROVE u[q[i]] = st[q[i]]
    OBVIOUS
  <2>1. q[i] \in Buckets /\ q[i] # b
    BY <1>1, ElementOfSeq DEF Distinct
  <2> QED BY <2>1 DEF Grown
<1>6. Whole(q, u)
  <2> SUFFICES ASSUME NEW i \in 1 .. n
               PROVE  /\ i < n => Len(u[q[i]]) = BucketSize
                      /\ Len(u[q[i]]) \in 1 .. BucketSize
    BY DEF Whole
  <2>1. CASE i = n
    <3>1. Len(x) \in 1 .. BucketSize
      BY <1>1, <1>2, <1>3
    <3> QED BY <1>1, <1>4, <2>1, <3>1
  <2>2. CASE i # n
    <3>1. u[q[i]] = st[q[i]]
      BY <1>5, <2>2
    <3> QED BY <3>1 DEF Whole
  <2> QED BY <2>1, <2>2
<1>7. /\ s \in Seq(Sample) /\ Len(s) = c /\ c \in Nat
      /\ r \in Seq(Sample) /\ Len(r) = e /\ e \in Nat
  BY <1>4, <1>6, Places
<1> DEFINE p == (n - 1) * BucketSize
<1>8. p \in Nat /\ c = p + Len(st[b]) /\ e = p + Len(x)
  <2>1. n - 1 \in Nat
    BY <1>1
  <2>2. p \in Nat
    BY <2>1, TimesNat
  <2>3. c = p + Len(st[b])
    BY Zenon DEF SampleCount
  <2>4. e = p + Len(u[q[n]])
    BY Zenon DEF SampleCount
  <2> QED BY <1>4, <2>2, <2>3, <2>4
<1> HIDE DEF c, e, s, r, p
<1>9. e = c + Len(d)
  BY <1>2, <1>3, <1>8
<1>10. s \o d \in Seq(Sample) /\ Len(s \o d) = e
  BY <1>7, <1>9, ConcatProperties
<1>11. ASSUME NEW i \in 1 .. e PROVE r[i] = (s \o d)[i]
  <2>1. (s \o d)[i] = IF i <= c THEN s[i] ELSE d[i - c]
    BY <1>7, <1>9, ConcatProperties
  <2>2. PICK k \in 1 .. n : \E j \in 1 .. Len(u[q[k]]) :
               i = (k - 1) * BucketSize + j /\ r[i] = u[q[k]][j]
    BY <1>4, <1>6, Places DEF e, r
  <2>3. PICK j \in 1 .. Len(u[q[k]]) :
               i = (k - 1) * BucketSize + j /\ r[i] = u[q[k]][j]
    BY <2>2
  <2>4. ASSUME j \in 1 .. Len(st[q[k]]) PROVE i <= c /\ s[i] = st[q[k]][j]
    <3>1. i \in 1 .. c /\ s[i] = st[q[k]][j]
      BY <2>3, <2>4, Place DEF c, s
    <3> QED BY <1>7, <3>1
  <2>5. CASE k # n
    <3>1. u[q[k]] = st[q[k]]
      BY <1>5, <2>5
    <3> QED BY <2>1, <2>3, <2>4, <3>1
  <2>6. CASE k = n
    <3>1. u[q[k]] = x /\ st[q[k]] = st[b]
      BY <1>4, <2>6
    <3>2. j \in 1 .. Len(x) /\ i = p + j
      BY <2>3, <2>6, <3>1 DEF p
    <3>3. CASE j <= Len(st[b])
      <4>1. j \in 1 .. Len(st[q[k]])
        BY <1>2, <1>3, <3>1, <3>2, <3>3
      <4> QED BY <1>3, <2>1, <2>3, <2>4, <3>1, <3>2, <3>3, <4>1
    <3>4. CASE ~(j <= Len(st[b]))
      <4>1. ~(i <= c) /\ i - c = j - Len(st[b])
        <5>1. j \in Int /\ Len(st[b]) \in Int
          BY <1>1, <1>2, <1>3, <3>2
        <5>2. c = p + Len(st[b]) /\ i = p + j /\ p \in Int
          BY <1>8, <3>2
        <5> QED BY <3>4, <5>1, <5>2
      <4> QED BY <1>3, <2>1, <2>3, <3>1, <3>2, <3>4, <4>1
    <3> QED BY <3>3, <3>4
  <2> QED BY <2>5, <2>6
<1>12. r = s \o d
  BY <1>7, <1>10, <1>11, SeqEqual
<1> QED BY <1>6, <1>12 DEF r, s

-------------------------------------------------------------------------------
(***************************************************************************)
(* The line: what has been taken and not yet played.                       *)
(***************************************************************************)
Line == device \o Waiting

\* What a step may do to it, as in AudioStream.
LineKept  == Line' = Line /\ added' = added /\ last' = last
LineTakes ==
  \E n \in Nat \ {0} :
    Line' = Line \o Run(added, n) /\ added' = added + n /\ last' = last
LinePads  ==
  \E n \in 1 .. BucketSize - 1 :
    /\ Line' = Line \o [i \in 1 .. n |-> Silence]
    /\ added' = added /\ last' = last
LinePlays ==
  /\ Line # <<>> /\ Line' = Tail(Line) /\ added' = added
  /\ last' = IF Head(Line) = Silence THEN last ELSE Head(Line)
LineClears == Line' = <<>> /\ added' = 0 /\ last' = 0

LineStep == LineKept \/ LineTakes \/ LinePads \/ LinePlays \/ LineClears

LEMMA NextWaiting == Waiting' = Samples(queue', store')
  BY DEF Waiting, Samples, SampleCount, TailOf

LEMMA NextWhole == Whole(queue', store') => OnlyTailPartial'
  BY DEF OnlyTailPartial, Whole, Full

LEMMA NoSamples == \A st : Samples(<<>>, st) = <<>>
<1> SUFFICES ASSUME NEW st PROVE Samples(<<>>, st) = <<>>
  OBVIOUS
<1>1. SampleCount(<<>>, st) = 0
  BY DEF SampleCount
<1>2. Samples(<<>>, st) = [i \in 1 .. 0 |->
         st[<<>>[((i - 1) \div BucketSize) + 1]][((i - 1) % BucketSize) + 1]]
  BY <1>1 DEF Samples
<1> QED BY <1>2

LEMMA LineType ==
  TypeOK /\ OnlyTailPartial =>
    /\ queue \in Seq(Buckets) /\ store \in [Buckets -> Seq(Sample)]
    /\ Whole(queue, store)
    /\ device \in Seq(Sample) /\ Waiting \in Seq(Sample) /\ Line \in Seq(Sample)
<1> SUFFICES ASSUME TypeOK, OnlyTailPartial
             PROVE  /\ queue \in Seq(Buckets) /\ store \in [Buckets -> Seq(Sample)]
                    /\ Whole(queue, store)
                    /\ device \in Seq(Sample) /\ Waiting \in Seq(Sample)
                    /\ Line \in Seq(Sample)
  OBVIOUS
<1>1. /\ queue \in Seq(Buckets) /\ store \in [Buckets -> Seq(Sample)]
      /\ device \in Seq(Sample)
  BY DEF TypeOK
<1>2. Whole(queue, store)
  BY WholeQueue
<1>3. Waiting \in Seq(Sample)
  BY <1>1, <1>2, Places, WaitingSamples
<1> QED BY <1>1, <1>2, <1>3, ConcatProperties DEF Line

LEMMA HeadOfConcat ==
  ASSUME NEW s \in Seq(Sample), NEW t \in Seq(Sample), s # <<>>
  PROVE  /\ s \o t # <<>> /\ Head(s \o t) = Head(s)
         /\ Tail(s \o t) = Tail(s) \o t
<1> DEFINE u == s \o t
           v == Tail(s) \o t
<1>1. /\ Len(s) \in Nat \ {0} /\ Len(t) \in Nat /\ u \in Seq(Sample)
      /\ Len(u) = Len(s) + Len(t)
      /\ \A i \in 1 .. Len(u) : u[i] = IF i <= Len(s) THEN s[i] ELSE t[i - Len(s)]
  BY EmptySeq, LenProperties, ConcatProperties
<1>2. /\ Tail(s) \in Seq(Sample) /\ Len(Tail(s)) = Len(s) - 1
      /\ \A i \in 1 .. Len(Tail(s)) : Tail(s)[i] = s[i + 1]
  BY HeadTailProperties
<1>3. /\ v \in Seq(Sample) /\ Len(v) = (Len(s) - 1) + Len(t)
      /\ \A i \in 1 .. Len(v) :
           v[i] = IF i <= Len(s) - 1 THEN Tail(s)[i] ELSE t[i - (Len(s) - 1)]
  BY <1>2, ConcatProperties
<1> HIDE DEF u, v
<1>4. u # <<>> /\ 1 \in 1 .. Len(u)
  BY <1>1
<1>5. /\ Tail(u) \in Seq(Sample) /\ Len(Tail(u)) = Len(u) - 1
      /\ \A i \in 1 .. Len(Tail(u)) : Tail(u)[i] = u[i + 1]
  BY <1>1, <1>4, HeadTailProperties
<1>6. Head(u) = Head(s)
  BY <1>1, <1>4
<1>7. Len(Tail(u)) = Len(v)
  BY <1>1, <1>3, <1>5
<1>8. ASSUME NEW i \in 1 .. Len(v) PROVE Tail(u)[i] = v[i]
  <2>1. i + 1 \in 1 .. Len(u) /\ Tail(u)[i] = u[i + 1]
    BY <1>1, <1>3, <1>5
  <2>2. CASE i <= Len(s) - 1
    BY <1>1, <1>2, <1>3, <2>1, <2>2
  <2>3. CASE ~(i <= Len(s) - 1)
    <3>1. ~(i + 1 <= Len(s)) /\ (i + 1) - Len(s) = i - (Len(s) - 1)
      BY <1>1, <1>3, <2>3
    <3> QED BY <1>1, <1>3, <2>1, <2>3, <3>1
  <2> QED BY <2>2, <2>3
<1>9. Tail(u) = v
  BY <1>3, <1>5, <1>7, <1>8, SeqEqual
<1> QED BY <1>4, <1>6, <1>9 DEF u, v

LEMMA Associative ==
  \A s, t, u \in Seq(Sample) : (s \o t) \o u = s \o (t \o u)
  BY ConcatAssociative

LEMMA LesserBound ==
  \A a, b \in Int : Lesser(a, b) \in Int /\ Lesser(a, b) <= b
  BY DEF Lesser

\* A bucket sent goes from the head of the queue to the end of the device's
\* line, and leaves the whole as it was, padding aside.
LEMMA SendLine ==
  ASSUME TypeOK, OnlyTailPartial, queue # <<>>, UNCHANGED <<store, added, last>>,
         NEW data, data = store[Head(queue)],
         SendHead(data) \/ SendHead(Padded(data))
  PROVE  OnlyTailPartial' /\ (LineKept \/ LinePads)
<1> DEFINE t == Tail(queue)
           w == Samples(t, store)
<1>1. /\ queue \in Seq(Buckets) /\ store \in [Buckets -> Seq(Sample)]
      /\ Whole(queue, store) /\ device \in Seq(Sample)
  BY LineType
<1>2. /\ Whole(t, store) /\ Waiting = data \o w
      /\ Len(data) = BucketSize \/ w = <<>>
  BY <1>1, Take, WaitingSamples
<1>3. t \in Seq(Buckets) /\ Head(queue) \in Buckets
  BY <1>1, HeadTailProperties
<1>4. w \in Seq(Sample) /\ data \in Seq(Sample)
  BY <1>1, <1>2, <1>3, Places
<1>5. queue' = t /\ store' = store
  BY DEF SendHead
<1>6. OnlyTailPartial' /\ Waiting' = w
  BY <1>2, <1>5, NextWaiting, NextWhole
<1>7. Len(data) \in 1 .. BucketSize
  <2>1. 1 \in 1 .. Len(queue) /\ Head(queue) = queue[1]
    BY <1>1, EmptySeq
  <2> QED BY <1>1, <2>1 DEF Whole
<1>8. BucketSize \in Nat
  BY QueueAssumption
<1> HIDE DEF t, w
<1>9. ASSUME device' = device \o data PROVE LineKept
  <2>1. (device \o data) \o w = device \o (data \o w)
    BY <1>1, <1>4, Associative
  <2> QED BY <1>2, <1>6, <1>9, <2>1 DEF LineKept, Line
<1>10. CASE SendHead(data)
  BY <1>6, <1>9, <1>10 DEF SendHead
<1>11. CASE SendHead(Padded(data)) /\ Len(data) = BucketSize
  <2>1. Padded(data) = data
    BY <1>4, <1>8, <1>11, PaddedType
  <2> QED BY <1>6, <1>9, <1>11, <2>1 DEF SendHead
<1>12. CASE SendHead(Padded(data)) /\ Len(data) # BucketSize
  <2> DEFINE n == BucketSize - Len(data)
             pad == [i \in 1 .. n |-> Silence]
  <2>1. n \in 1 .. BucketSize - 1 /\ n \in Nat
    BY <1>7, <1>8, <1>12
  <2>2. Silence \in Sample
    BY DEF Sample
  <2>3. pad \in Seq(Sample)
    BY <2>1, <2>2
  <2>4. device' = device \o (data \o pad)
    BY <1>12 DEF SendHead, Padded
  <2> HIDE DEF pad
  <2>5. w = <<>> /\ data \o w = data
    BY <1>2, <1>4, <1>12, ConcatEmptySeq
  <2>6. Line = device \o data
    BY <1>2, <2>5 DEF Line
  <2>7. device \o (data \o pad) = (device \o data) \o pad
    BY <1>1, <1>4, <2>3, Associative
  <2>8. device' \in Seq(Sample)
    <3>1. data \o pad \in Seq(Sample)
      BY <1>4, <2>3, ConcatProperties
    <3> QED BY <1>1, <2>4, <3>1, ConcatProperties
  <2>9. Line' = device'
    BY <1>6, <2>5, <2>8, ConcatEmptySeq DEF Line
  <2>10. Line' = Line \o pad
    BY <2>4, <2>6, <2>7, <2>9
  <2>11. LinePads
    BY <2>1, <2>10 DEF LinePads, pad
  <2> QED BY <1>6, <2>11
<1> QED BY <1>10, <1>11, <1>12

LEMMA ClearLine ==
  ASSUME FlushBuckets, Restarted, device' = <<>>
  PROVE  OnlyTailPartial' /\ LineClears
<1>1. queue' = <<>> /\ store' = store
  BY DEF FlushBuckets
<1>2. Whole(queue', store')
  BY <1>1 DEF Whole
<1>3. Waiting' = <<>>
  BY <1>1, NextWaiting, NoSamples
<1>4. Line' = <<>>
  <2>1. <<>> \o <<>> = <<>>
    BY EmptySeq, ConcatEmptySeq
  <2> QED BY <1>3, <2>1 DEF Line
<1> QED BY <1>2, <1>4, NextWhole DEF LineClears, Restarted

LEMMA SameLine ==
  ASSUME OnlyTailPartial, UNCHANGED <<queue, store, device, added, last>>
  PROVE  OnlyTailPartial' /\ LineKept
  BY DEF OnlyTailPartial, Full, LineKept, Line, Waiting, TailOf

LEMMA TakeLine ==
  ASSUME TypeOK, OnlyTailPartial, NEW n \in Nat \ {0},
         Run(added, n) \in Seq(Sample), Waiting' = Waiting \o Run(added, n),
         added' = added + n, device' = device, last' = last
  PROVE  LineTakes
<1> DEFINE d == Run(added, n)
<1>0. device \in Seq(Sample) /\ Waiting \in Seq(Sample) /\ d \in Seq(Sample)
  BY LineType
<1>1. (device \o Waiting) \o d = device \o (Waiting \o d)
  <2> HIDE DEF d
  <2> QED BY SMTT(30), <1>0, ConcatAssociative
<1> HIDE DEF d
<1>2. Line' = Line \o d
  BY <1>1, Zenon DEF Line, d
<1> QED BY <1>2 DEF LineTakes, d

\* Every step keeps the buckets whole and does to the line what the abstract
\* specification allows.
LEMMA LineSteps == Inv /\ [Next]_vars => OnlyTailPartial' /\ LineStep
<1> SUFFICES ASSUME Inv, [Next]_vars PROVE OnlyTailPartial' /\ LineStep
  OBVIOUS
<1> USE DEF Inv, modeVars, queueVars, callVars, timeVars, heardVars
<1>1. CASE Tick
  <2>1. UNCHANGED <<queue, store>> /\ added' = added
    BY <1>1 DEF Tick, callVars
  <2>2. OnlyTailPartial' /\ Waiting' = Waiting
    BY <2>1 DEF OnlyTailPartial, Full, Waiting, TailOf
  <2>3. CASE device = <<>>
    <3>1. UNCHANGED <<queue, store, device, added, last>>
      BY <1>1, <2>1, <2>3 DEF Tick
    <3> QED BY <3>1, SameLine DEF LineStep
  <2>4. CASE device # <<>>
    <3>1. /\ device' = Tail(device)
          /\ last' = IF Head(device) = Silence THEN last ELSE Head(device)
      BY <1>1, <2>4 DEF Tick
    <3>2. /\ Line # <<>> /\ Head(Line) = Head(device)
          /\ Tail(Line) = Tail(device) \o Waiting
      BY <2>4, LineType, HeadOfConcat DEF Line
    <3>3. Line' = Tail(Line)
      BY <2>2, <3>1, <3>2 DEF Line
    <3>4. LinePlays
      BY <2>1, <3>1, <3>2, <3>3, Zenon DEF LinePlays
    <3> QED BY <2>2, <3>4 DEF LineStep
  <2> QED BY <2>3, <2>4
<1>2. CASE Ask
  <2>1. UNCHANGED <<queue, store, device, added, last>>
    BY <1>2 DEF Ask
  <2> QED BY <2>1, SameLine DEF LineStep
<1>3. ASSUME NEW n \in 1 .. MaxAdd, AqAdd(n) PROVE OnlyTailPartial' /\ LineStep
  <2>1. UNCHANGED <<queue, store, device, added, last>>
    BY <1>3 DEF AqAdd
  <2> QED BY <2>1, SameLine DEF LineStep
<1>4. CASE AqUpdate
  <2>1. UNCHANGED <<queue, store, device, added, last>>
    BY <1>4 DEF AqUpdate
  <2> QED BY <2>1, SameLine DEF LineStep
<1>5. CASE FillBegin
  <2>1. UNCHANGED <<queue, store, device, added, last>>
    BY <1>5 DEF FillBegin
  <2> QED BY <2>1, SameLine DEF LineStep
<1>6. CASE FillSend
  <2> DEFINE data == store[Head(queue)]
  <2>1. queue # <<>> /\ SendHead(data) /\ UNCHANGED <<store, added, last>>
    BY <1>6 DEF FillSend, HeadFull
  <2> HIDE DEF data
  <2> QED BY <2>1, SendLine DEF LineStep, data
<1>7. CASE FillEnd
  <2>1. UNCHANGED <<queue, store, device, added, last>>
    BY <1>7 DEF FillEnd
  <2> QED BY <2>1, SameLine DEF LineStep
<1>8. CASE PutDirect
  <2>1. UNCHANGED <<queue, store, last>> /\ pc = "put" /\ buckets = 0
    BY <1>8 DEF PutDirect
  <2>2. OnlyTailPartial' /\ Waiting' = Waiting
    BY <2>1 DEF OnlyTailPartial, Full, Waiting, TailOf
  <2>3. Waiting = <<>>
    <3>1. Len(queue) + Len(free) = 0 /\ Len(queue) \in Nat /\ Len(free) \in Nat
      <4>1. queue \in Seq(Buckets) /\ free \in Seq(Buckets)
        BY DEF TypeOK
      <4> QED BY <2>1, <4>1, SharedIff, LenProperties
    <3>2. queue = <<>>
      <4>1. Len(queue) = 0
        BY <3>1
      <4> QED BY <4>1, LineType, EmptySeq
    <3> QED BY <3>2, WaitingSamples, NoSamples
  <2>4. rest \in Nat \ {0} /\ added \in Nat
    BY <2>1 DEF CallOK, TypeOK
  <2>5. device' = device \o Run(added, rest) /\ added' = added + rest
    BY <1>8 DEF PutDirect
  <2>6. device' \in Seq(Sample) /\ device \in Seq(Sample)
    BY <2>4, <2>5, LineType, RunType, ConcatProperties
  <2>7. Line' = device' /\ Line = device
    BY <2>2, <2>3, <2>6, ConcatEmptySeq DEF Line
  <2>8. LineTakes
    BY <2>1, <2>4, <2>5, <2>7 DEF LineTakes
  <2> QED BY <2>2, <2>8 DEF LineStep
<1>9. CASE PutBucket
  <2> DEFINE b == Head(free)
             n == Lesser(rest, BucketSize)
             d == Run(added, n)
  <2>1. /\ pc = "put" /\ NeedsBucket /\ free # <<>>
        /\ Copy(b, <<>>, n) /\ queue' = Append(queue, b)
    BY <1>9 DEF PutBucket
  <2>2. n \in 1 .. rest /\ n \in 1 .. BucketSize /\ rest \in Nat /\ added \in Nat
    BY <2>1, HeadRoom DEF TypeOK
  <2> HIDE DEF n
  <2>3. n \in Nat \ {0}
    BY <2>2, QueueAssumption
  <2>4. d \in Seq(Sample) /\ Len(d) = n
    BY <2>2, <2>3, RunType
  <2>5. <<>> \o d = d
    BY <2>4, ConcatEmptySeq
  <2>6. store' = [store EXCEPT ![b] = d] /\ added' = added + n
    BY <2>1, <2>5 DEF Copy
  <2> HIDE DEF d
  <2>7. b \in Buckets /\ \A i \in 1 .. Len(queue) : queue[i] # b
    <3>1. queue \in Seq(Buckets) /\ free \in Seq(Buckets)
      BY DEF TypeOK
    <3>2. Shares(queue, free)
      BY SharedIff
    <3>3. \A i \in 1 .. Len(queue) : queue[i] # b
      BY <2>1, <3>1, <3>2, SharesPut
    <3> QED BY <2>1, <3>1, <3>3, HeadTailProperties
  <2>8. queue # <<>> => Len(store[queue[Len(queue)]]) = BucketSize
    BY <2>1 DEF NeedsBucket, Full, TailOf
  <2> HIDE DEF b
  <2>9. /\ Whole(queue', store')
        /\ Samples(queue', store') = Samples(queue, store) \o d
    BY <2>1, <2>2, <2>4, <2>6, <2>7, <2>8, LineType, Add
  <2>10. OnlyTailPartial' /\ Waiting' = Waiting \o d
    BY <2>9, WaitingSamples, NextWaiting, NextWhole
  <2>11. device' = device /\ last' = last
    BY <2>1 DEF Copy
  <2>12. LineTakes
    BY <2>3, <2>4, <2>6, <2>10, <2>11, TakeLine DEF d
  <2> QED BY <2>10, <2>12 DEF LineStep
<1>10. CASE PutTail
  <2> DEFINE b == TailOf(queue)
             n == Lesser(rest, BucketSize - Len(store[b]))
             d == Run(added, n)
  <2>1. /\ pc = "put" /\ ~NeedsBucket /\ Copy(b, store[b], n)
        /\ UNCHANGED <<queue, free>>
    BY <1>10 DEF PutTail
  <2>2. /\ n \in 1 .. rest /\ queue # <<>> /\ b \in Buckets
        /\ Len(store[b]) \in 1 .. BucketSize - 1
    BY <2>1, TailRoom
  <2>3. rest \in Nat /\ added \in Nat /\ BucketSize \in Nat
    BY QueueAssumption DEF TypeOK
  <2>4. b = queue[Len(queue)]
    BY DEF TailOf
  <2> HIDE DEF b
  <2>5. Len(store[b]) + n <= BucketSize
    <3>1. Len(store[b]) \in Int
      BY <2>2, <2>3
    <3>2. BucketSize - Len(store[b]) \in Int /\ rest \in Int
      BY <2>3, <3>1
    <3>3. n <= BucketSize - Len(store[b]) /\ n \in Int
      BY <3>2, LesserBound
    <3> HIDE DEF n, d
    <3> QED BY <2>3, <3>1, <3>3
  <2> HIDE DEF n
  <2>6. n \in Nat \ {0}
    BY <2>2, <2>3
  <2>7. d \in Seq(Sample) /\ Len(d) = n
    BY <2>3, <2>6, RunType
  <2>8. store' = [store EXCEPT ![b] = store[b] \o d] /\ added' = added + n
    BY <2>1 DEF Copy
  <2> HIDE DEF d
  <2>9. Distinct(queue)
    BY SharedIff DEF Shares
  <2>10. Len(store[b]) + Len(d) <= BucketSize
    BY <2>5, <2>7
  <2>11. /\ Whole(queue, store')
         /\ Samples(queue, store') = Samples(queue, store) \o d
    <3>1. store' \in [Buckets -> Seq(Sample)] /\ Grown(b, store, store', d)
      <4>1. store \in [Buckets -> Seq(Sample)] /\ store[b] \in Seq(Sample)
        BY <2>2, LineType
      <4>2. store[b] \o d \in Seq(Sample)
        BY <2>7, <4>1, ConcatType
      <4> QED BY <2>2, <2>8, <4>1, <4>2 DEF Grown
    <3>2. /\ queue \in Seq(Buckets) /\ store \in [Buckets -> Seq(Sample)]
          /\ Whole(queue, store)
      BY LineType
    <3> QED BY ZenonT(60), <2>2, <2>4, <2>7, <2>9, <2>10, <3>1, <3>2, Extend
  <2>12. queue' = queue
    BY <2>1
  <2>13. OnlyTailPartial' /\ Waiting' = Waiting \o d
    BY <2>11, <2>12, WaitingSamples, NextWaiting, NextWhole
  <2>14. device' = device /\ last' = last
    BY <2>1 DEF Copy
  <2>15. LineTakes
    BY <2>6, <2>7, <2>8, <2>13, <2>14, TakeLine DEF d
  <2> QED BY <2>13, <2>15 DEF LineStep
<1>11. CASE PutFull
  <2>1. CASE tracing
    <3>1. UNCHANGED <<queue, store, device, added, last>>
      BY <1>11, <2>1 DEF PutFull
    <3> QED BY <3>1, SameLine DEF LineStep
  <2>2. CASE ~tracing
    <3> DEFINE data == store[Head(queue)]
    <3>1. queue # <<>>
      BY <1>11, HeadWhole DEF PutFull
    <3>2. SendHead(data) /\ UNCHANGED <<store, added, last>>
      BY <1>11, <2>2 DEF PutFull
    <3> HIDE DEF data
    <3> QED BY <3>1, <3>2, SendLine DEF LineStep, data
  <2> QED BY <2>1, <2>2
<1>12. CASE AqSoftFlush
  <2>1. UNCHANGED <<queue, store, device, added, last>>
    BY <1>12 DEF AqSoftFlush
  <2> QED BY <2>1, SameLine DEF LineStep
<1>13. CASE AqFlush
  <2>1. UNCHANGED <<queue, store, device, added, last>>
    BY <1>13 DEF AqFlush
  <2> QED BY <2>1, SameLine DEF LineStep
<1>14. CASE AqDiscard
  <2>1. FlushBuckets /\ Restarted /\ device' = <<>>
    BY <1>14 DEF AqDiscard, Discard
  <2> QED BY <2>1, ClearLine DEF LineStep
<1>15. CASE SoftSend
  <2> DEFINE data == store[Head(queue)]
  <2>1. queue # <<>> /\ SendHead(Padded(data)) /\ UNCHANGED <<store, added, last>>
    BY <1>15 DEF SoftSend, HeadFull
  <2> HIDE DEF data
  <2> QED BY <2>1, SendLine DEF LineStep, data
<1>16. CASE SoftControl
  <2>1. CASE UNCHANGED <<queue, store, device, added, last>>
    BY <2>1, SameLine DEF LineStep
  <2>2. CASE Discard
    BY <2>2, ClearLine DEF Discard, LineStep
  <2> QED BY <1>16, <2>1, <2>2 DEF SoftControl
<1>17. CASE SoftEnd
  <2>1. UNCHANGED <<queue, store, device, added, last>>
    BY <1>17 DEF SoftEnd
  <2> QED BY <2>1, SameLine DEF LineStep
<1>18. CASE DrainEnd
  <2>1. FlushBuckets /\ Restarted /\ device' = <<>>
    BY <1>18 DEF DrainEnd
  <2> QED BY <2>1, ClearLine DEF LineStep
<1>19. CASE DrainSkip
  <2>1. FlushBuckets /\ Restarted /\ device' = <<>>
    BY <1>19 DEF DrainSkip, Discard
  <2> QED BY <2>1, ClearLine DEF LineStep
<1>20. CASE UNCHANGED vars
  <2>1. UNCHANGED <<queue, store, device, added, last>>
    BY <1>20 DEF vars
  <2> QED BY <2>1, SameLine DEF LineStep
<1> QED
  BY <1>1, <1>2, <1>3, <1>4, <1>5, <1>6, <1>7, <1>8, <1>9, <1>10, <1>11, <1>12,
     <1>13, <1>14, <1>15, <1>16, <1>17, <1>18, <1>19, <1>20 DEF Next

-------------------------------------------------------------------------------
(***************************************************************************)
(* The samples on the line stay in order.                                  *)
(***************************************************************************)
LEMMA SampleInt ==
  ASSUME NEW s \in Seq(Sample)
  PROVE  \A i \in 1 .. Len(s) : s[i] # Silence => s[i] \in Nat
  BY ElementOfSeq DEF Sample

LEMMA OrderedEmpty == Ordered(<<>>, 0, 0)
  BY DEF Ordered

LEMMA OrderedTake ==
  ASSUME NEW s \in Seq(Sample), NEW l \in Nat, NEW a \in Nat,
         Ordered(s, l, a), NEW n \in Nat \ {0}
  PROVE  Ordered(s \o Run(a, n), l, a + n)
<1> DEFINE r == Run(a, n)
           t == s \o r
           m == Len(s)
<1>1. r \in Seq(Sample) /\ Len(r) = n /\ \A i \in 1 .. n : r[i] = a + i
  BY RunType
<1>2. /\ m \in Nat /\ t \in Seq(Sample) /\ Len(t) = m + n
      /\ \A i \in 1 .. Len(t) : t[i] = IF i <= m THEN s[i] ELSE r[i - m]
  <2>1. m \in Nat /\ m = Len(s)
    BY LenProperties
  <2>2. /\ t \in Seq(Sample) /\ Len(t) = m + Len(r)
        /\ \A i \in 1 .. m + Len(r) : t[i] = IF i <= m THEN s[i] ELSE r[i - m]
    BY <1>1, ConcatProperties
  <2> HIDE DEF t, m, r
  <2> QED BY <1>1, <2>1, <2>2
<1> HIDE DEF r, t, m
<1>3. \A i \in 1 .. m : t[i] = s[i] /\ i \in 1 .. Len(t)
  BY <1>2
<1>4. ASSUME NEW i \in 1 .. Len(t), ~(i <= m)
      PROVE  t[i] = a + (i - m) /\ i - m \in 1 .. n
  <2>1. i - m \in 1 .. n
    BY <1>2, <1>4
  <2> QED BY <1>1, <1>2, <1>4, <2>1
<1>5. \A i \in 1 .. m : s[i] # Silence => s[i] \in Nat /\ s[i] <= a /\ l < s[i]
  BY SampleInt DEF Ordered, m
<1>6. ASSUME NEW i \in 1 .. Len(t), NEW j \in 1 .. Len(t), i < j,
             t[i] # Silence, t[j] # Silence
      PROVE  t[i] < t[j]
  <2>1. CASE j <= m
    <3>1. i \in 1 .. m /\ j \in 1 .. m /\ t[i] = s[i] /\ t[j] = s[j]
      BY <1>2, <1>3, <1>6, <2>1
    <3> QED BY <1>6, <3>1 DEF Ordered, m
  <2>2. CASE i <= m /\ ~(j <= m)
    <3>1. i \in 1 .. m /\ t[i] = s[i]
      BY <1>2, <1>3, <2>2
    <3>2. t[i] \in Nat /\ t[i] <= a
      BY <1>5, <1>6, <3>1
    <3>3. t[j] = a + (j - m) /\ j - m \in 1 .. n
      BY <1>4, <2>2
    <3> QED BY <3>2, <3>3
  <2>3. CASE ~(i <= m) /\ ~(j <= m)
    <3>1. t[i] = a + (i - m) /\ t[j] = a + (j - m)
      BY <1>4, <2>3
    <3> QED BY <1>2, <1>6, <3>1
  <2> QED BY <1>2, <1>6, <2>1, <2>2, <2>3
<1>7. ASSUME NEW i \in 1 .. Len(t), t[i] # Silence
      PROVE  /\ l < t[i] /\ t[i] <= a + n
             /\ t[i] = l + 1 \/ \E j \in 1 .. i - 1 : t[j] = t[i] - 1
  <2>1. CASE i <= m
    <3>1. i \in 1 .. m /\ t[i] = s[i] /\ t[i] \in Nat /\ t[i] <= a /\ l < t[i]
      BY <1>2, <1>3, <1>5, <1>7, <2>1
    <3>2. t[i] <= a + n
      BY <3>1
    <3>3. s[i] = l + 1 \/ \E j \in 1 .. i - 1 : s[j] = s[i] - 1
      BY <1>7, <3>1 DEF Ordered, m
    <3>4. \A j \in 1 .. i - 1 : t[j] = s[j]
      BY <1>2, <1>3, <3>1
    <3> QED BY <3>1, <3>2, <3>3, <3>4
  <2>2. CASE ~(i <= m)
    <3>1. t[i] = a + (i - m) /\ i - m \in 1 .. n
      BY <1>4, <2>2
    <3>2. l <= a
      BY DEF Ordered
    <3>3. l < t[i] /\ t[i] <= a + n
      BY <3>1, <3>2
    <3>4. CASE i = m + 1
      <4>1. t[i] = a + 1
        BY <1>2, <3>1, <3>4
      <4>2. CASE l = a
        BY <3>3, <4>1, <4>2
      <4>3. CASE l < a
        <5>1. PICK j \in 1 .. m : s[j] = a
          BY <4>3 DEF Ordered, m
        <5>2. j \in 1 .. i - 1 /\ t[j] = a /\ a = t[i] - 1
          BY <1>2, <1>3, <3>4, <4>1, <5>1
        <5> QED BY <3>3, <5>2
      <4> QED BY <3>2, <4>2, <4>3
    <3>5. CASE i # m + 1
      <4>1. i - 1 \in 1 .. Len(t) /\ ~(i - 1 <= m) /\ i - 1 \in 1 .. i - 1
        BY <1>2, <2>2, <3>5
      <4>2. t[i - 1] = a + ((i - 1) - m)
        BY <1>4, <4>1
      <4>3. t[i - 1] = t[i] - 1
        BY <1>2, <3>1, <4>2
      <4> QED BY <3>3, <4>1, <4>3
    <3> QED BY <3>4, <3>5
  <2> QED BY <2>1, <2>2
<1>8. l <= a + n
  BY DEF Ordered
<1>9. \E i \in 1 .. Len(t) : t[i] = a + n
  <2>1. m + n \in 1 .. Len(t) /\ ~(m + n <= m) /\ (m + n) - m = n
    BY <1>2
  <2>2. t[m + n] = a + n
    BY <1>4, <2>1
  <2> QED BY <2>1, <2>2
<1>10. Ordered(t, l, a + n)
  BY <1>6, <1>7, <1>8, <1>9, Zenon DEF Ordered
<1> QED BY <1>10 DEF t, r

LEMMA OrderedPad ==
  ASSUME NEW s \in Seq(Sample), NEW l \in Nat, NEW a \in Nat,
         Ordered(s, l, a), NEW n \in Nat
  PROVE  Ordered(s \o [i \in 1 .. n |-> Silence], l, a)
<1> DEFINE r == [i \in 1 .. n |-> Silence]
           t == s \o r
           m == Len(s)
<1>1. r \in Seq(Sample) /\ Len(r) = n /\ \A i \in 1 .. n : r[i] = Silence
  <2>1. Silence \in Sample
    BY DEF Sample
  <2> QED BY <2>1
<1> HIDE DEF r
<1>2. /\ m \in Nat /\ t \in Seq(Sample) /\ Len(t) = m + n
      /\ \A i \in 1 .. Len(t) : t[i] = IF i <= m THEN s[i] ELSE r[i - m]
  <2>1. m \in Nat /\ m = Len(s)
    BY LenProperties
  <2>2. /\ t \in Seq(Sample) /\ Len(t) = m + Len(r)
        /\ \A i \in 1 .. m + Len(r) : t[i] = IF i <= m THEN s[i] ELSE r[i - m]
    BY <1>1, ConcatProperties
  <2> HIDE DEF t, m
  <2> QED BY <1>1, <2>1, <2>2
<1> HIDE DEF t, m
<1>3. \A i \in 1 .. m : t[i] = s[i] /\ i \in 1 .. Len(t)
  BY <1>2
<1>4. ASSUME NEW i \in 1 .. Len(t), t[i] # Silence
      PROVE  i \in 1 .. m
  <2>1. ~(i <= m) => i - m \in 1 .. n
    BY <1>2
  <2>2. i <= m
    BY <1>1, <1>2, <1>4, <2>1
  <2> QED BY <1>2, <2>2
<1>5. ASSUME NEW i \in 1 .. Len(t), NEW j \in 1 .. Len(t), i < j,
             t[i] # Silence, t[j] # Silence
      PROVE  t[i] < t[j]
  <2>1. i \in 1 .. m /\ j \in 1 .. m
    BY <1>4, <1>5
  <2> QED BY <1>3, <1>5, <2>1 DEF Ordered, m
<1>6. ASSUME NEW i \in 1 .. Len(t), t[i] # Silence
      PROVE  /\ l < t[i] /\ t[i] <= a
             /\ t[i] = l + 1 \/ \E j \in 1 .. i - 1 : t[j] = t[i] - 1
  <2>1. i \in 1 .. m /\ t[i] = s[i]
    BY <1>3, <1>4, <1>6
  <2>2. /\ l < s[i] /\ s[i] <= a
        /\ s[i] = l + 1 \/ \E j \in 1 .. i - 1 : s[j] = s[i] - 1
    BY <1>6, <2>1 DEF Ordered, m
  <2>3. \A j \in 1 .. i - 1 : t[j] = s[j]
    BY <1>2, <1>3, <2>1
  <2> QED BY <2>1, <2>2, <2>3
<1>7. l < a => \E i \in 1 .. Len(t) : t[i] = a
  BY <1>3 DEF Ordered, m
<1>8. l <= a
  BY DEF Ordered
<1>9. Ordered(t, l, a)
  BY <1>5, <1>6, <1>7, <1>8, Zenon DEF Ordered
<1> QED BY <1>9 DEF t, r

\* The next to be played is silence or the sample after the last one played.
LEMMA OrderedPlay ==
  ASSUME NEW s \in Seq(Sample), NEW l \in Nat, NEW a \in Nat,
         Ordered(s, l, a), s # <<>>
  PROVE  /\ Head(s) \in {Silence, l + 1}
         /\ Ordered(Tail(s), IF Head(s) = Silence THEN l ELSE Head(s), a)
<1> DEFINE h == Head(s)
           t == Tail(s)
           k == IF h = Silence THEN l ELSE h
           m == Len(s)
<1>1. /\ m \in Nat \ {0} /\ t \in Seq(Sample) /\ Len(t) = m - 1
      /\ \A i \in 1 .. Len(t) : t[i] = s[i + 1]
      /\ h = s[1] /\ 1 \in 1 .. m
  BY LenProperties, EmptySeq, HeadTailProperties
<1> HIDE DEF h, t, m
<1>2. h = Silence \/ h = l + 1
  <2>1. ~(\E j \in 1 .. 1 - 1 : s[j] = s[1] - 1)
    OBVIOUS
  <2> QED BY <1>1, <2>1 DEF Ordered, m
<1>3. k \in Nat /\ l <= k
  BY <1>2
<1>4. \A i \in 1 .. Len(t) : i + 1 \in 1 .. m /\ i + 1 # 1 /\ t[i] = s[i + 1]
  BY <1>1
<1>5. ASSUME NEW i \in 2 .. m
      PROVE  /\ i \in 1 .. m /\ i - 1 \in 1 .. Len(t)
             /\ s[i] = t[i - 1] /\ (i - 1) + 1 = i
  <2>1. i \in 1 .. m /\ i - 1 \in 1 .. Len(t) /\ (i - 1) + 1 = i
    BY <1>1
  <2> QED BY <1>1, <2>1
<1>6. ASSUME NEW i \in 1 .. m, s[i] # Silence
      PROVE  /\ s[i] \in Nat /\ l < s[i] /\ s[i] <= a
             /\ s[i] = l + 1 \/ \E j \in 1 .. i - 1 : s[j] = s[i] - 1
  BY <1>6, SampleInt DEF Ordered, m
<1>7. ASSUME NEW i \in 1 .. Len(t), NEW j \in 1 .. Len(t), i < j,
             t[i] # Silence, t[j] # Silence
      PROVE  t[i] < t[j]
  <2>1. i + 1 \in 1 .. m /\ j + 1 \in 1 .. m /\ i + 1 < j + 1
    BY <1>1, <1>7
  <2> QED BY <1>4, <1>7, <2>1 DEF Ordered, m
<1>8. ASSUME NEW i \in 1 .. Len(t), t[i] # Silence
      PROVE  /\ k < t[i] /\ t[i] <= a
             /\ t[i] = k + 1 \/ \E j \in 1 .. i - 1 : t[j] = t[i] - 1
  <2> DEFINE v == t[i]
  <2>1. i + 1 \in 1 .. m /\ v = s[i + 1] /\ (i + 1) - 1 = i
    BY <1>1
  <2>2. /\ v \in Nat /\ l < v /\ v <= a
        /\ v = l + 1 \/ \E j \in 1 .. i : s[j] = v - 1
    BY <1>6, <1>8, <2>1
  <2> HIDE DEF v
  <2>3. h # Silence => h < v
    <3>1. 1 < i + 1
      BY <1>1
    <3>2. v # Silence
      BY <1>8 DEF v
    <3> QED BY <1>1, <2>1, <3>1, <3>2 DEF Ordered, m
  <2>4. k < v
    BY <2>2, <2>3
  <2>5. ASSUME NEW j \in 1 .. i, s[j] = v - 1
        PROVE  v = k + 1 \/ \E x \in 1 .. i - 1 : t[x] = v - 1
    <3>1. CASE j = 1
      <4>1. h = v - 1 /\ h # Silence
        <5>1. v - 1 \in Nat
          BY <2>2
        <5> QED BY <1>1, <2>5, <3>1, <5>1, QueueAssumption
      <4> QED BY <1>2, <2>2, <4>1
    <3>2. CASE j # 1
      <4>1. j \in 2 .. m /\ j - 1 \in 1 .. i - 1
        BY <1>1, <3>2
      <4>2. t[j - 1] = v - 1
        BY <1>5, <2>5, <4>1
      <4> QED BY <4>1, <4>2
    <3> QED BY <3>1, <3>2
  <2>6. v = l + 1 => v = k + 1
    BY <1>2, <2>3, <2>2
  <2>7. v = k + 1 \/ \E x \in 1 .. i - 1 : t[x] = v - 1
    BY <2>2, <2>5, <2>6
  <2> QED BY <2>2, <2>4, <2>7 DEF v
<1>9. k <= a
  <2>1. l <= a
    BY DEF Ordered
  <2>2. h # Silence => h <= a
    BY <1>1, <1>6
  <2> QED BY <2>1, <2>2
<1>10. ASSUME k < a PROVE \E i \in 1 .. Len(t) : t[i] = a
  <2>1. l < a
    BY <1>3, <1>10
  <2>2. PICK i \in 1 .. m : s[i] = a
    BY <2>1 DEF Ordered, m
  <2>3. i # 1
    BY <1>1, <1>10, <2>2, QueueAssumption
  <2>4. i \in 2 .. m
    BY <1>1, <2>3
  <2> QED BY <1>5, <2>2, <2>4
<1> HIDE DEF k
<1>11. Ordered(t, k, a)
  BY <1>7, <1>8, <1>9, <1>10, Zenon DEF Ordered
<1> QED BY <1>2, <1>11 DEF h, t, k

LEMMA OrderedStep ==
  Inv /\ [Next]_vars => Ordered(device' \o Waiting', last', added')
<1> SUFFICES ASSUME Inv, [Next]_vars PROVE Ordered(Line', last', added')
  BY DEF Line
<1>1. /\ Line \in Seq(Sample) /\ Ordered(Line, last, added)
      /\ last \in Nat /\ added \in Nat
  BY LineType DEF Inv, TypeOK, Line
<1>2. LineStep
  BY LineSteps
<1>3. CASE LineKept
  BY <1>1, <1>3 DEF LineKept
<1>4. CASE LineTakes
  BY <1>1, <1>4, OrderedTake DEF LineTakes
<1>5. CASE LinePads
  <2>1. PICK n \in 1 .. BucketSize - 1 :
          /\ Line' = Line \o [i \in 1 .. n |-> Silence]
          /\ added' = added /\ last' = last
    BY <1>5 DEF LinePads
  <2>2. n \in Nat
    BY QueueAssumption
  <2> QED BY <1>1, <2>1, <2>2, OrderedPad
<1>6. CASE LinePlays
  BY <1>1, <1>6, OrderedPlay DEF LinePlays
<1>7. CASE LineClears
  BY <1>7, OrderedEmpty DEF LineClears
<1> QED BY <1>2, <1>3, <1>4, <1>5, <1>6, <1>7 DEF LineStep

-------------------------------------------------------------------------------
(***************************************************************************)
(* The invariant holds, and what follows from it.                          *)
(***************************************************************************)
LEMMA InitInv == Init => Inv
<1> SUFFICES ASSUME Init PROVE Inv
  OBVIOUS
<1>1. buckets \in 0 .. NBuckets /\ queue = <<>> /\ device = <<>>
  BY DEF Init
<1>2. TypeOK
  <2>1. free \in Seq(Buckets)
    BY <1>1, SharesFresh DEF Init
  <2>2. store \in [Buckets -> Seq(Sample)]
    BY EmptySeq DEF Init
  <2>3. device \in Seq(Sample) /\ queue \in Seq(Buckets)
    BY <1>1, EmptySeq
  <2>4. reports \in BOOLEAN /\ tracing \in BOOLEAN /\ filling \in BOOLEAN
    BY QueueAssumption DEF Init
  <2> QED BY <1>1, <2>1, <2>2, <2>3, <2>4, CapType DEF Init, TypeOK, Pcs
<1>3. Shared
  <2>1. Shares(queue, free) /\ Len(free) = buckets
    BY <1>1, SharesFresh DEF Init
  <2>2. Len(queue) + Len(free) = buckets
    <3>1. Len(queue) = 0 /\ buckets \in Int
      BY <1>1
    <3> QED BY <2>1, <3>1
  <2> QED BY <1>2, <2>1, <2>2, SharedIff
<1>4. OnlyTailPartial
  BY <1>1 DEF OnlyTailPartial
<1>5. NeverBlocks /\ CallOK
  BY DEF Init, NeverBlocks, CallOK
<1>6. DeviceOK
  <2>1. Len(device) = 0 /\ 0 <= DeviceSize
    BY <1>1, QueueAssumption
  <2>2. clock = Cap /\ Cap \in Nat
    BY CapType DEF Init
  <2>3. clock <= Cap
    BY <2>2
  <2> QED BY <2>1, <2>3 DEF DeviceOK
<1>7. Counted
  BY DEF Init, Counted
<1>8. Started
  <2>1. filling = (buckets > 0 /\ StartCount > 0)
    BY DEF Init
  <2>2. ~(StartCount > 0) => StartCount = 0
    BY QueueAssumption
  <2>3. buckets > 0 /\ ~filling => StartCount = 0
    BY <2>1, <2>2
  <2> QED BY <2>3 DEF Started
<1>9. Ordered(device \o Waiting, last, added)
  <2>1. Waiting = <<>>
    BY <1>1, WaitingSamples, NoSamples
  <2>2. <<>> \o <<>> = <<>>
    BY EmptySeq, ConcatEmptySeq
  <2> QED BY <1>1, <2>1, <2>2, OrderedEmpty DEF Init
<1> QED BY <1>2, <1>3, <1>4, <1>5, <1>6, <1>7, <1>8, <1>9 DEF Inv

LEMMA NextInv == Inv /\ [Next]_vars => Inv'
<1> SUFFICES ASSUME Inv, [Next]_vars PROVE Inv'
  OBVIOUS
<1> QED
  BY TypeStep, SharedStep, LineSteps, NeverBlocksStep, CallStep, DeviceStep,
     CountedStep, StartedStep, OrderedStep DEF Inv

THEOREM SpecInv == Spec => []Inv
  BY InitInv, NextInv, PTL DEF Spec

\* Every variable of timidity/aq.c keeps to its type, whatever the order of
\* the calls and of the device's playing.
THEOREM TypeCorrect == Spec => []TypeOK
<1>1. Inv => TypeOK
  BY DEF Inv
<1> QED BY <1>1, SpecInv, PTL

\* However many buckets there are and whatever their size: none is lost or in
\* two places, only the tail's is partly filled, and what aq_fill_nonblocking
\* sends to a device that reports its fill has room there.
THEOREM QueueStaysWhole == Spec => []QueueKept
<1>1. Inv => QueueKept
  BY DEF Inv, QueueKept
<1> QED BY <1>1, SpecInv, PTL

\* aq_flush waits until all is played: when it ends undisturbed the last
\* sample aq_add took has been played and nothing is left in the queue.
THEOREM FlushWaits == Spec => FlushPlaysOut
<1>1. ASSUME Inv, DrainEnd PROVE last = added /\ Waiting = <<>>
  <2>1. queue = <<>> /\ device = <<>>
    BY <1>1 DEF DrainEnd, Inv, CallOK
  <2>2. Waiting = <<>>
    BY <2>1, WaitingSamples, NoSamples
  <2>3. Ordered(<<>>, last, added)
    <3>1. <<>> \o <<>> = <<>>
      BY EmptySeq, ConcatEmptySeq
    <3> QED BY <1>1, <2>1, <2>2, <3>1 DEF Inv
  <2>4. last <= added /\ ~(last < added) /\ last \in Nat /\ added \in Nat
    <3>1. ~(\E i \in 1 .. Len(<<>>) : <<>>[i] = added)
      OBVIOUS
    <3> QED BY <1>1, <2>3, <3>1 DEF Ordered, Inv, TypeOK
  <2> QED BY <2>2, <2>4
<1>2. Inv /\ [Next]_vars => [DrainEnd => last = added /\ Waiting = <<>>]_vars
  BY <1>1
<1> QED BY <1>2, SpecInv, PTL DEF Spec, FlushPlaysOut

\* What aq_set_soft_queue promises: with a soft queue nothing is played before
\* aq_start_count samples have been added or every bucket is in use, except
\* when the queue is flushed.
THEOREM StartsLate == Spec => StartsFilled
<1> DEFINE Begins == /\ device = <<>> /\ device' # <<>> /\ played = 0
                     /\ pc \in {"send", "put"} /\ buckets > 0
           Enough == added + rest > StartCount \/ free = <<>>
<1>1. ASSUME Inv, [Next]_vars, Begins PROVE Enough
  <2>1. FillSend \/ PutFull
    <3>1. device' # device /\ device = <<>> /\ pc \in {"send", "put"}
      BY <1>1
    <3>2. ~Tick /\ ~Ask /\ ~UNCHANGED vars
      BY <3>1 DEF Tick, Ask, vars
    <3>3. ~(\E n \in 1 .. MaxAdd : AqAdd(n)) /\ ~AqUpdate /\ ~FillBegin /\ ~FillEnd
      BY <3>1 DEF AqAdd, AqUpdate, FillBegin, FillEnd
    <3>4. ~PutDirect /\ ~PutBucket /\ ~PutTail
      <4>1. ~(buckets = 0)
        BY <1>1
      <4> QED BY <3>1, <4>1 DEF PutDirect, PutBucket, PutTail, Copy
    <3>5. /\ ~AqSoftFlush /\ ~AqFlush /\ ~AqDiscard /\ ~SoftSend
          /\ ~SoftControl /\ ~SoftEnd /\ ~DrainEnd /\ ~DrainSkip
      BY <3>1
      DEF AqSoftFlush, AqFlush, AqDiscard, SoftSend, SoftControl, SoftEnd,
          DrainEnd, DrainSkip
    <3> QED BY <1>1, <3>2, <3>3, <3>4, <3>5 DEF Next
  <2>2. CASE PutFull
    BY <2>2 DEF PutFull
  <2>3. CASE FillSend
    <3>1. pc = "send" /\ queue # <<>>
      BY <2>3 DEF FillSend, HeadFull
    <3>2. ~filling /\ added > 0
      BY <1>1, <3>1 DEF Inv, CallOK, Counted
    <3>3. added + rest > StartCount \/ StartCount = 0 \/ free = <<>>
      BY <1>1, <3>2 DEF Inv, Started
    <3>4. StartCount = 0 => added + rest > StartCount
      BY <1>1, <3>2 DEF Inv, TypeOK
    <3> QED BY <3>3, <3>4
  <2> QED BY <2>1, <2>2, <2>3
<1>2. Inv /\ [Next]_vars => [Begins => Enough]_vars
  BY <1>1
<1> HIDE DEF Begins, Enough
<1>3. [][Begins => Enough]_vars => StartsFilled
  BY PTL DEF StartsFilled, Begins, Enough
<1> QED BY <1>2, <1>3, SpecInv, PTL DEF Spec

\* The samples go through the queue as AudioStream says: played in the order
\* aq_add took them, none lost and none twice, with silence only after the
\* last one of a stretch, until everything is played out or discarded.
THEOREM PlaysInOrder == Spec => InOrder
<1>1. Init => Stream!StreamInit
  <2> SUFFICES ASSUME Init PROVE Stream!StreamInit
    OBVIOUS
  <2>1. Waiting = <<>>
    BY WaitingSamples, NoSamples DEF Init
  <2>2. <<>> \o <<>> = <<>>
    BY EmptySeq, ConcatEmptySeq
  <2> QED BY <2>1, <2>2 DEF Init, Stream!StreamInit
<1>2. ASSUME Inv, [Next]_vars
      PROVE  [Stream!Accept \/ Stream!Pad \/ Stream!Play \/ Stream!Clear]_
               (Stream!streamVars)
  <2>1. /\ Line \in Seq(Sample) /\ Ordered(Line, last, added)
        /\ last \in Nat /\ added \in Nat
    BY <1>2, LineType DEF Inv, TypeOK, Line
  <2>2. CASE LineKept
    BY <2>2 DEF LineKept, Line, Stream!streamVars
  <2>3. CASE LineTakes
    <3>1. PICK n \in Nat \ {0} :
            Line' = Line \o Run(added, n) /\ added' = added + n /\ last' = last
      BY <2>3 DEF LineTakes
    <3>2. Len(Line') = Len(Line) + n /\ Len(Line) \in Nat
      <4>1. Run(added, n) \in Seq(Sample) /\ Len(Run(added, n)) = n
        BY <2>1, RunType
      <4> QED BY <2>1, <3>1, <4>1, ConcatProperties, LenProperties
    <3>3. n \in 1 .. Len(Line')
      BY <3>2
    <3>4. Run(added, n) = Stream!Numbers(added, n)
      BY DEF Run, Stream!Numbers
    <3>5. Stream!Accept
      BY <3>1, <3>3, <3>4 DEF Line, Stream!Accept
    <3> QED BY <3>5
  <2>4. CASE LinePads
    BY <2>4 DEF LinePads, Line, Stream!Pad
  <2>5. CASE LinePlays
    <3>1. Head(Line) \in {Silence, last + 1}
      BY <2>1, <2>5, OrderedPlay DEF LinePlays
    <3> QED BY <2>5, <3>1 DEF LinePlays, Line, Stream!Play
  <2>6. CASE LineClears
    BY <2>6 DEF LineClears, Line, Stream!Clear
  <2> QED BY <1>2, <2>2, <2>3, <2>4, <2>5, <2>6, LineSteps DEF LineStep
<1> QED BY <1>1, <1>2, SpecInv, PTL DEF Spec, InOrder, Stream!StreamSpec

-------------------------------------------------------------------------------
(***************************************************************************)
(* The play clock.                                                         *)
(***************************************************************************)
Forward == added' > 0 => Position' >= Position

LEMMA PositionType == TypeOK => Position \in Nat
  BY DEF TypeOK, Position, Lesser

LEMMA StillForward == TypeOK /\ UNCHANGED <<reports, played, timeVars>> => Forward
<1> SUFFICES ASSUME TypeOK, UNCHANGED <<reports, played, timeVars>>
             PROVE  Forward
  OBVIOUS
<1>1. Position' = Position
  BY DEF Position, timeVars
<1> QED BY <1>1, PositionType DEF Forward

LEMMA SynchroniseForward ==
  TypeOK /\ UNCHANGED <<reports, played>> /\ MaySynchronise => Forward
<1> SUFFICES ASSUME TypeOK, UNCHANGED <<reports, played>>, MaySynchronise
             PROVE  Forward
  OBVIOUS
<1>1. CASE UNCHANGED timeVars
  BY <1>1, StillForward
<1>2. CASE /\ ~reports /\ (counter = 0 \/ clock >= counter)
           /\ offset' = offset + counter /\ counter' = 0 /\ clock' = 0
  <2>1. CASE reports
    <3>1. Position' = Position
      BY <2>1 DEF Position
    <3> QED BY <3>1, PositionType DEF Forward
  <2>2. CASE ~reports
    <3>1. Position = offset + counter
      BY <1>2, <2>2 DEF Position, TypeOK, Lesser
    <3>2. Position' = (offset + counter) + Lesser(0, 0)
      BY <1>2, <2>2 DEF Position
    <3>3. Position' = offset + counter
      BY <3>2 DEF Lesser, TypeOK
    <3>4. offset + counter \in Int
      BY DEF TypeOK
    <3> QED BY <3>1, <3>3, <3>4 DEF Forward
  <2> QED BY <2>1, <2>2
<1> QED BY <1>1, <1>2 DEF MaySynchronise, Synchronise

LEMMA SendForward ==
  TypeOK /\ UNCHANGED <<reports, played>> /\ (\E data : SendHead(data)) => Forward
<1> SUFFICES ASSUME TypeOK, UNCHANGED <<reports, played>>, NEW data, SendHead(data)
             PROVE  Forward
  OBVIOUS
<1>1. CASE reports
  <2>1. Position' = Position
    BY <1>1 DEF Position
  <2> QED BY <2>1, PositionType DEF Forward
<1>2. CASE ~reports
  <2> DEFINE x == Lesser(counter + BucketSize, clock)
             y == Lesser(counter, clock)
  <2>1. counter' = counter + BucketSize /\ UNCHANGED <<offset, clock>>
    BY <1>2 DEF SendHead
  <2>2. Position' = offset + x /\ Position = offset + y
    BY <1>2, <2>1 DEF Position
  <2>3. x \in Int /\ y \in Int /\ offset \in Int /\ x >= y
    BY QueueAssumption DEF TypeOK, Lesser
  <2> HIDE DEF x, y
  <2> QED BY <2>2, <2>3 DEF Forward
<1> QED BY <1>1, <1>2

LEMMA ForwardStep == Inv /\ [Next]_vars => Forward
<1> SUFFICES ASSUME Inv, [Next]_vars PROVE Forward
  OBVIOUS
<1> USE DEF Inv, modeVars, queueVars, callVars, timeVars, heardVars
<1>1. CASE Tick
  <2>1. /\ UNCHANGED <<reports, counter, offset>>
        /\ clock' = IF reports THEN clock ELSE Lesser(clock + 1, Cap)
        /\ played' = played \/ played' = played + 1
    BY <1>1 DEF Tick
  <2>2. played' >= played
    BY <2>1 DEF TypeOK
  <2>3. Lesser(counter, Lesser(clock + 1, Cap)) >= Lesser(counter, clock)
    BY CapType DEF DeviceOK, TypeOK, Lesser
  <2>4. ~reports => Position' >= Position
    <3> SUFFICES ASSUME ~reports PROVE Position' >= Position
      OBVIOUS
    <3> DEFINE x == Lesser(counter, Lesser(clock + 1, Cap))
               y == Lesser(counter, clock)
    <3>1. Position' = offset + x /\ Position = offset + y
      BY <2>1 DEF Position
    <3>2. x \in Int /\ y \in Int /\ offset \in Int
      BY CapType DEF TypeOK, Lesser
    <3>3. x >= y
      BY <2>3
    <3> HIDE DEF x, y
    <3> QED BY <3>1, <3>2, <3>3
  <2>5. reports => Position' >= Position
    BY <2>1, <2>2 DEF Position
  <2> QED BY <2>4, <2>5 DEF Forward
<1>2. CASE Ask
  <2>1. UNCHANGED <<reports, played>> /\ MaySynchronise
    BY <1>2 DEF Ask, MaySynchronise
  <2> QED BY <2>1, SynchroniseForward
<1>3. ASSUME NEW n \in 1 .. MaxAdd, AqAdd(n) PROVE Forward
  <2>1. UNCHANGED <<reports, played>> /\ MaySynchronise
    BY <1>3 DEF AqAdd, MaySynchronise
  <2> QED BY <2>1, SynchroniseForward
<1>4. CASE AqUpdate
  <2>1. UNCHANGED <<reports, played, timeVars>>
    BY <1>4 DEF AqUpdate
  <2> QED BY <2>1, StillForward
<1>5. CASE FillBegin
  <2>1. UNCHANGED <<reports, played>> /\ MaySynchronise
    BY <1>5 DEF FillBegin, MaySynchronise
  <2> QED BY <2>1, SynchroniseForward
<1>6. CASE FillSend
  <2>1. UNCHANGED <<reports, played>> /\ \E data : SendHead(data)
    BY <1>6 DEF FillSend
  <2> QED BY <2>1, SendForward
<1>7. CASE FillEnd
  <2>1. UNCHANGED <<reports, played>> /\ MaySynchronise
    BY <1>7 DEF FillEnd, MaySynchronise
  <2> QED BY <2>1, SynchroniseForward
<1>8. CASE PutDirect
  <2>1. UNCHANGED <<reports, played, timeVars>>
    BY <1>8 DEF PutDirect
  <2> QED BY <2>1, StillForward
<1>9. CASE PutBucket
  <2>1. UNCHANGED <<reports, played, timeVars>>
    BY <1>9 DEF PutBucket, Copy
  <2> QED BY <2>1, StillForward
<1>10. CASE PutTail
  <2>1. UNCHANGED <<reports, played, timeVars>>
    BY <1>10 DEF PutTail, Copy
  <2> QED BY <2>1, StillForward
<1>11. CASE PutFull
  <2>1. UNCHANGED <<reports, played>>
    BY <1>11 DEF PutFull
  <2>2. MaySynchronise \/ \E data : SendHead(data)
    BY <1>11 DEF PutFull
  <2> QED BY <2>1, <2>2, SendForward, SynchroniseForward
<1>12. CASE AqSoftFlush
  <2>1. UNCHANGED <<reports, played, timeVars>>
    BY <1>12 DEF AqSoftFlush
  <2> QED BY <2>1, StillForward
<1>13. CASE AqFlush
  <2>1. UNCHANGED <<reports, played, timeVars>>
    BY <1>13 DEF AqFlush
  <2> QED BY <2>1, StillForward
<1>14. CASE AqDiscard
  <2>1. added' = 0
    BY <1>14 DEF AqDiscard, Discard, Restarted
  <2> QED BY <2>1 DEF Forward
<1>15. CASE SoftSend
  <2>1. UNCHANGED <<reports, played>> /\ \E data : SendHead(data)
    BY <1>15 DEF SoftSend
  <2> QED BY <2>1, SendForward
<1>16. CASE SoftControl
  <2>1. CASE UNCHANGED <<reports, played>> /\ MaySynchronise
    BY <2>1, SynchroniseForward
  <2>2. CASE added' = 0
    BY <2>2 DEF Forward
  <2> QED BY <1>16, <2>1, <2>2 DEF SoftControl, Discard, Restarted
<1>17. CASE SoftEnd
  <2>1. UNCHANGED <<reports, played, timeVars>>
    BY <1>17 DEF SoftEnd
  <2> QED BY <2>1, StillForward
<1>18. CASE DrainEnd
  <2>1. added' = 0
    BY <1>18 DEF DrainEnd, Discard, Restarted
  <2> QED BY <2>1 DEF Forward
<1>19. CASE DrainSkip
  <2>1. added' = 0
    BY <1>19 DEF DrainSkip, Discard, Restarted
  <2> QED BY <2>1 DEF Forward
<1>20. CASE UNCHANGED vars
  <2>1. UNCHANGED <<reports, played, timeVars>>
    BY <1>20 DEF vars
  <2> QED BY <2>1, StillForward
<1> QED
  BY <1>1, <1>2, <1>3, <1>4, <1>5, <1>6, <1>7, <1>8, <1>9, <1>10, <1>11, <1>12,
     <1>13, <1>14, <1>15, <1>16, <1>17, <1>18, <1>19, <1>20 DEF Next

\* aq_samples never goes back between two flushes, though the queue folds one
\* counter into another whenever the player or an interface asks.
THEOREM ClockRuns == Spec => ClockForward
<1>1. Inv /\ [Next]_vars => [added' > 0 => Position' >= Position]_vars
  BY ForwardStep DEF Forward
<1> QED BY <1>1, SpecInv, PTL DEF Spec, ClockForward
===============================================================================
