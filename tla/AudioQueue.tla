----------------------------- MODULE AudioQueue -----------------------------
(***************************************************************************)
(* The software audio queue of TiMidity++ (timidity/aq.c) between the      *)
(* mixer, which adds samples, and an output device that plays them in real *)
(* time.  Samples wait in buckets; whole buckets go to the device.         *)
(*                                                                         *)
(* The player's thread runs one call at a time (pc); the device and the    *)
(* clock (Tick) run beside it.  A linked list of buckets is the sequence   *)
(* of its buckets, and a sample is its number since the last flush.        *)
(***************************************************************************)
EXTENDS Integers, Sequences, FiniteSets

CONSTANTS
  NBuckets,    \* the most buckets aq_set_soft_queue is asked for
  BucketSize,  \* bucket_size, in samples
  DeviceSize,  \* device_qsize, in samples
  StartCount,  \* aq_start_count, when there is a soft queue
  Reporting,   \* whether devices answer PM_REQ_GETFILLED and _GETSAMPLES
  Tracing,     \* values of ctl->trace_playing
  Silence,     \* a padding sample
  MaxAdd,      \* bound: samples per aq_add
  MaxTotal     \* bound: samples added between two flushes

ASSUME QueueAssumption ==
  /\ NBuckets \in Nat \ {0}
  /\ BucketSize \in Nat \ {0}
  /\ DeviceSize \in Nat /\ DeviceSize >= 2 * BucketSize
  /\ StartCount \in Nat
  /\ Reporting \subseteq BOOLEAN /\ Tracing \subseteq BOOLEAN
  /\ Silence \notin Nat
  /\ MaxAdd \in Nat \ {0} /\ MaxAdd <= DeviceSize
  /\ MaxTotal \in Nat

VARIABLES
  reports,   \* this device answers them
  tracing,   \* ctl->trace_playing
  buckets,   \* nbuckets: 0 when the soft queue is off
  store,     \* bucket b's data, up to its len
  queue,     \* the buckets from head to tail
  free,      \* allocated_bucket_list
  filling,   \* aq_fill_buffer_flag
  count,     \* aq_add_count
  added,     \* samples copied to buckets since the last flush
  rest,      \* samples aq_add has still to copy
  sends,     \* buckets aq_fill_nonblocking has still to send
  pc,        \* the call in progress
  device,    \* samples written and not yet played
  played,    \* samples and silence played since the last flush
  last,      \* the last sample played since the last flush
  counter,   \* play_counter
  offset,    \* play_offset_counter
  clock      \* time since play_start_time, in samples

modeVars  == <<reports, tracing, buckets>>
queueVars == <<modeVars, store, queue, free, filling, count>>
callVars  == <<added, rest, sends, pc>>
timeVars  == <<counter, offset, clock>>
heardVars == <<played, last>>
vars == <<queueVars, callVars, device, heardVars, timeVars>>

Buckets == 1 .. NBuckets
Pcs     == {"idle", "add", "send", "put", "fill", "soft", "control", "drain"}
Sample  == Nat \cup {Silence}
Cap     == MaxTotal * BucketSize + 1  \* bound on the clock

Lesser(a, b)  == IF a < b THEN a ELSE b
Run(a, n)     == [i \in 1 .. n |-> a + i]
TailOf(q)     == q[Len(q)]
Full(b)       == Len(store[b]) = BucketSize
Room          == DeviceSize - Len(device)

Init ==
  /\ reports \in Reporting /\ tracing \in Tracing
  /\ buckets \in 0 .. NBuckets
  /\ store = [b \in Buckets |-> <<>>]
  /\ queue = <<>>
  /\ free = [i \in 1 .. buckets |-> buckets + 1 - i]
  /\ filling = (buckets > 0 /\ StartCount > 0)
  /\ count = 0 /\ added = 0 /\ rest = 0 /\ sends = 0
  /\ pc = "idle"
  /\ device = <<>> /\ played = 0 /\ last = 0
  /\ counter = 0 /\ offset = 0
  /\ clock = Cap

(***************************************************************************)
(* The play clock.  The counters matter only where the device does not     *)
(* report its position and fill itself, and stand still where it does.     *)
(***************************************************************************)
\* aq_samples: how many samples have been played, as the queue believes.
Position ==
  IF reports THEN played ELSE offset + Lesser(counter, clock)

\* aq_filled: how many samples the device holds, as the queue believes.
Filled ==
  IF reports THEN Len(device) ELSE counter - Lesser(counter, clock)

BadSynchronise ==
  IF ~reports /\ (counter = 0 \/ clock >= counter)
  THEN counter' = 0 /\ clock' = 0 /\ UNCHANGED offset
  ELSE UNCHANGED timeVars

\* What asking for either does: a counter that has run out is folded into
\* the offset, and the clock starts again.
Synchronise ==
  IF ~reports /\ (counter = 0 \/ clock >= counter)
  THEN offset' = offset + counter /\ counter' = 0 /\ clock' = 0
  ELSE UNCHANGED timeVars

\* The player asks for the position or the fill: trace_loop, which asks only
\* while it has events to trace, and the interfaces.
MaySynchronise == Synchronise \/ UNCHANGED timeVars

Ask ==
  /\ pc \in {"idle", "drain"}
  /\ Synchronise
  /\ UNCHANGED <<queueVars, callVars, device, heardVars>>

\* The device plays a sample; time passes.
Tick ==
  /\ clock' = IF reports THEN clock ELSE Lesser(clock + 1, Cap)
  /\ IF device = <<>>
     THEN UNCHANGED <<device, heardVars>>
     ELSE /\ device' = Tail(device)
          /\ played' = played + 1
          /\ last' = IF Head(device) = Silence THEN last ELSE Head(device)
  /\ UNCHANGED <<queueVars, callVars, counter, offset>>

(***************************************************************************)
(* Buckets.                                                                *)
(***************************************************************************)
\* aq_output_data(head), then the bucket goes back to the free list.  The
\* device blocks the writer until it has room.
SendHead(data) ==
  /\ Room >= BucketSize
  /\ device' = device \o data
  /\ queue' = Tail(queue)
  /\ free' = <<Head(queue)>> \o free
  /\ counter' = IF reports THEN counter ELSE counter + BucketSize
  /\ UNCHANGED <<offset, clock>>

BadFlushBuckets ==
  /\ free' = [i \in 1 .. buckets |-> buckets + 1 - i]
  /\ UNCHANGED queue
  /\ filling' = (buckets > 0 /\ StartCount > 0)
  /\ counter' = 0 /\ offset' = 0
  /\ UNCHANGED <<modeVars, store, clock>>

FlushBuckets ==
  /\ free' = [i \in 1 .. buckets |-> buckets + 1 - i]
  /\ queue' = <<>>
  /\ filling' = (buckets > 0 /\ StartCount > 0)
  /\ counter' = 0 /\ offset' = 0
  /\ UNCHANGED <<modeVars, store, clock>>

\* Numbering starts again once the device is empty too.
Restarted == added' = 0 /\ played' = 0 /\ last' = 0

(***************************************************************************)
(* aq_add: send what the device has room for, unless the queue is still    *)
(* filling up for the first time; then copy the samples to buckets.        *)
(***************************************************************************)
BadStillFilling(n) == buckets > 0 /\ n < StartCount

StillFilling(n) == buckets > 0 /\ n <= StartCount

AqAdd(n) ==
  /\ pc = "idle"
  /\ added + n <= MaxTotal
  /\ count' = Lesser(count + n, StartCount + 1)
  /\ rest' = n
  /\ filling' = StillFilling(count')
  /\ pc' = IF filling' THEN "put" ELSE "add"
  /\ IF tracing /\ filling' THEN MaySynchronise ELSE UNCHANGED timeVars
  /\ UNCHANGED <<modeVars, store, queue, free, added, sends, device, heardVars>>

\* aq_add(NULL, 0), while instruments are loaded.
AqUpdate ==
  /\ pc = "idle" /\ ~filling
  /\ pc' = "fill"
  /\ UNCHANGED <<queueVars, added, rest, sends, device, heardVars, timeVars>>

\* How many buckets aq_fill_nonblocking decides to send.
Allowed == (DeviceSize - Lesser(Filled, DeviceSize)) \div BucketSize

HeadFull == queue # <<>> /\ Full(Head(queue))

\* aq_fill_nonblocking begins.
FillBegin ==
  /\ pc \in {"add", "fill"}
  /\ IF HeadFull
     THEN sends' = Allowed /\ Synchronise
     ELSE sends' = 0 /\ UNCHANGED timeVars
  /\ pc' = "send"
  /\ UNCHANGED <<queueVars, added, rest, device, heardVars>>

FillSend ==
  /\ pc = "send" /\ sends > 0 /\ HeadFull
  /\ SendHead(store[Head(queue)])
  /\ sends' = sends - 1
  /\ UNCHANGED <<modeVars, store, filling, count, added, rest, pc, heardVars>>

\* aq_add goes on with trace_loop, which asks for the position.
FillEnd ==
  /\ pc = "send"
  /\ ~(sends > 0 /\ HeadFull)
  /\ sends' = 0
  /\ pc' = IF rest > 0 THEN "put" ELSE "idle"
  /\ IF tracing /\ rest > 0 THEN MaySynchronise ELSE UNCHANGED timeVars
  /\ UNCHANGED <<queueVars, added, rest, device, heardVars>>

\* add_play_bucket with the soft queue off writes to the device.
PutDirect ==
  /\ pc = "put" /\ buckets = 0
  /\ Room >= rest
  /\ device' = device \o Run(added, rest)
  /\ added' = added + rest
  /\ rest' = 0 /\ pc' = "idle"
  /\ UNCHANGED <<queueVars, sends, heardVars, timeVars>>

BadCopy(b, old, n) ==
  /\ store' = [store EXCEPT ![b] = old \o Run(added, n)]
  /\ added' = added + n
  /\ rest' = rest - BucketSize
  /\ pc' = IF rest <= BucketSize THEN "idle" ELSE "put"
  /\ UNCHANGED <<modeVars, filling, count, sends, device, heardVars, timeVars>>

Copy(b, old, n) ==
  /\ store' = [store EXCEPT ![b] = old \o Run(added, n)]
  /\ added' = added + n
  /\ rest' = rest - n
  /\ pc' = IF rest = n THEN "idle" ELSE "put"
  /\ UNCHANGED <<modeVars, filling, count, sends, device, heardVars, timeVars>>

NeedsBucket == queue # <<>> => Full(TailOf(queue))

PutBucket ==
  /\ pc = "put" /\ NeedsBucket /\ free # <<>>
  /\ Copy(Head(free), <<>>, Lesser(rest, BucketSize))
  /\ queue' = Append(queue, Head(free))
  /\ free' = Tail(free)

BadPutTail ==
  /\ pc = "put" /\ ~NeedsBucket
  /\ LET b == TailOf(queue)
     IN Copy(b, <<>>, Lesser(rest, BucketSize - Len(store[b])))
  /\ UNCHANGED <<queue, free>>

PutTail ==
  /\ pc = "put" /\ ~NeedsBucket
  /\ LET b == TailOf(queue)
     IN Copy(b, store[b], Lesser(rest, BucketSize - Len(store[b])))
  /\ UNCHANGED <<queue, free>>

BadPutFull ==
  /\ pc = "put" /\ buckets > 0 /\ NeedsBucket /\ free = <<>>
  /\ filling' = FALSE
  /\ IF tracing
     THEN /\ pc' = "put"
          /\ MaySynchronise
          /\ UNCHANGED <<queue, free, device>>
     ELSE /\ SendHead(store[Head(queue)])
          /\ pc' = "put"
  /\ UNCHANGED <<modeVars, store, count, added, rest, sends, heardVars>>

\* The soft queue is full.  Without trace one bucket is written, whether the
\* device blocks or not; with trace, aq_add waits and lets
\* aq_fill_nonblocking try again.
PutFull ==
  /\ pc = "put" /\ buckets > 0 /\ NeedsBucket /\ free = <<>>
  /\ filling' = FALSE
  /\ IF tracing
     THEN /\ pc' = "fill"
          /\ MaySynchronise
          /\ UNCHANGED <<queue, free, device>>
     ELSE /\ SendHead(store[Head(queue)])
          /\ pc' = "put"
  /\ UNCHANGED <<modeVars, store, count, added, rest, sends, heardVars>>

(***************************************************************************)
(* aq_soft_flush and aq_flush.  rest = 0 in both; sends tells them apart:  *)
(* 1 when aq_flush will go on to drain the device.                         *)
(***************************************************************************)
AqSoftFlush ==
  /\ pc = "idle"
  /\ pc' = "soft" /\ sends' = 0
  /\ UNCHANGED <<queueVars, added, rest, device, heardVars, timeVars>>

\* aq_flush(0).
AqFlush ==
  /\ pc = "idle"
  /\ pc' = "soft" /\ sends' = 1
  /\ count' = 0
  /\ UNCHANGED <<modeVars, store, queue, free, filling, added, rest, device,
                 heardVars, timeVars>>

Padded(data) == data \o [i \in 1 .. BucketSize - Len(data) |-> Silence]

SoftSend ==
  /\ pc = "soft" /\ queue # <<>>
  /\ SendHead(Padded(store[Head(queue)]))
  /\ pc' = "control"
  /\ UNCHANGED <<modeVars, store, filling, count, added, rest, sends, heardVars>>

Discard == device' = <<>> /\ FlushBuckets /\ Restarted

\* trace_loop and check_apply_control after each bucket: nothing asked, a
\* restart that discards everything, or a jump out of the tune, after which
\* midi_play_end calls aq_flush(1).
SoftControl ==
  /\ pc = "control"
  /\ \/ /\ pc' = "soft"
        /\ MaySynchronise
        /\ UNCHANGED <<queueVars, added, device, heardVars>>
     \/ /\ pc' \in {"soft", "idle"}
        /\ Discard
        /\ count' = 0
  /\ UNCHANGED <<rest, sends>>

SoftEnd ==
  /\ pc = "soft" /\ queue = <<>>
  /\ pc' = IF sends = 1 THEN "drain" ELSE "idle"
  /\ sends' = 0
  /\ UNCHANGED <<queueVars, added, rest, device, heardVars, timeVars>>

BadDrainEnd ==
  /\ pc = "drain"
  /\ Filled = 0
  /\ FlushBuckets /\ Restarted
  /\ pc' = "idle"
  /\ UNCHANGED <<count, rest, sends, device>>

\* The wait loop of aq_flush; PM_REQ_FLUSH returns once all is played.
DrainEnd ==
  /\ pc = "drain" /\ device = <<>>
  /\ FlushBuckets /\ Restarted
  /\ pc' = "idle"
  /\ UNCHANGED <<count, rest, sends, device>>

DrainSkip ==
  /\ pc = "drain"
  /\ Discard
  /\ pc' = "idle"
  /\ UNCHANGED <<count, rest, sends>>

\* aq_flush(1).
AqDiscard ==
  /\ pc = "idle"
  /\ Discard
  /\ count' = 0
  /\ UNCHANGED <<rest, sends, pc>>

-----------------------------------------------------------------------------
Next ==
  \/ Tick \/ Ask
  \/ \E n \in 1 .. MaxAdd : AqAdd(n)
  \/ AqUpdate \/ FillBegin \/ FillSend \/ FillEnd
  \/ PutDirect \/ PutBucket \/ PutTail \/ PutFull
  \/ AqSoftFlush \/ AqFlush \/ AqDiscard
  \/ SoftSend \/ SoftControl \/ SoftEnd \/ DrainEnd \/ DrainSkip

Spec == Init /\ [][Next]_vars

\* A call that has begun goes on, and the device plays what it has.
Fairness ==
  /\ WF_vars(Tick)
  /\ WF_vars(FillBegin) /\ WF_vars(FillSend) /\ WF_vars(FillEnd)
  /\ WF_vars(PutDirect) /\ WF_vars(PutBucket) /\ WF_vars(PutTail)
  /\ WF_vars(PutFull)
  /\ WF_vars(SoftSend) /\ WF_vars(SoftControl) /\ WF_vars(SoftEnd)
  /\ WF_vars(DrainEnd)

FairSpec == Spec /\ Fairness
-----------------------------------------------------------------------------
(***************************************************************************)
(* Properties.                                                             *)
(***************************************************************************)
\* Every variable of timidity/aq.c has a value of its type.
TypeOK ==
  /\ reports \in BOOLEAN /\ tracing \in BOOLEAN
  /\ buckets \in 0 .. NBuckets
  /\ store \in [Buckets -> Seq(Sample)]
  /\ queue \in Seq(Buckets) /\ free \in Seq(Buckets)
  /\ filling \in BOOLEAN
  /\ count \in Nat /\ added \in Nat /\ rest \in Nat /\ sends \in Nat
  /\ pc \in Pcs
  /\ device \in Seq(Sample)
  /\ played \in Nat /\ last \in Nat
  /\ counter \in Nat /\ offset \in Nat /\ clock \in Nat

\* The buckets are shared out between the queue and the free list: none is
\* in both or twice in one (its data would be overwritten while it waits),
\* none is lost (the queue would shrink until aq_add waits for ever).
Shared ==
  LET all == queue \o free
  IN /\ Len(all) = buckets
     /\ \A i, j \in 1 .. Len(all) : all[i] = all[j] => i = j

\* Only the bucket at the tail may be partly filled, so only whole buckets
\* are ever written, and padding goes after the last sample.
OnlyTailPartial ==
  \A i \in 1 .. Len(queue) :
    /\ i < Len(queue) => Full(queue[i])
    /\ Len(store[queue[i]]) \in 1 .. BucketSize

\* The samples in the queue, from its head to its tail.
Waiting ==
  [i \in 1 .. (IF queue = <<>> THEN 0
               ELSE (Len(queue) - 1) * BucketSize + Len(store[TailOf(queue)])) |->
     store[queue[((i - 1) \div BucketSize) + 1]][((i - 1) % BucketSize) + 1]]

Stream == INSTANCE AudioStream WITH
            line <- device \o Waiting, accepted <- added, heard <- last,
            MaxPad <- BucketSize - 1

\* aq_fill_nonblocking does not block where the device reports its fill:
\* there is room for every bucket it has decided to send.
NeverBlocks == reports /\ pc = "send" => Room >= sends * BucketSize

\* The queue is kept whole on every path a bucket takes, and what has been
\* decided to be sent is there to be sent and has room.
QueueKept == Shared /\ OnlyTailPartial /\ NeverBlocks

\* aq.h's promise: the device hears what aq_add took, in order, without loss
\* or repetition, padded only after the last sample of a stretch.
InOrder == Stream!StreamSpec

\* aq_flush "waits until play all out": when it ends undisturbed, the last
\* sample taken has been played.
FlushPlaysOut == [][DrainEnd => last = added /\ Waiting = <<>>]_vars

\* aq_set_soft_queue's promise: nothing is played before the queue holds
\* fill_start_time of sound, or is full, except at the end of the tune.
StartsFilled ==
  [][(device = <<>> /\ device' # <<>> /\ played = 0 /\ pc \in {"send", "put"}
      /\ buckets > 0)
     => added + rest > StartCount \/ free = <<>>]_vars

\* The play clock never goes back between two flushes, though the queue
\* folds one counter into another whenever it is asked.
ClockForward == [][added' > 0 => Position' >= Position]_vars

\* aq.h on aq_samples: it "returns number of samples which is really played
\* out", so never more than have been played.
ReallyPlayed == Position <= played

\* Every call returns: aq_add does not wait for ever on a full queue, nor
\* aq_flush on a device that has played out.
CallsReturn == pc # "idle" ~> pc = "idle"
=============================================================================
