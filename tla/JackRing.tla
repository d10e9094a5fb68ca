------------------------------ MODULE JackRing ------------------------------
(***************************************************************************)
(* The ring buffer between the player's thread and JACK's process thread   *)
(* (timidity/jack_a.c).  The player writes in write_jack and empties the   *)
(* ring in actl_jack; transfer_callback reads.  They share rdptr, wrptr,   *)
(* running and a condition variable, and no lock is ever taken: the mutex  *)
(* handed to pthread_cond_wait is not held.  The player also opens and     *)
(* closes the client; the JACK server may go away at any time.             *)
(*                                                                         *)
(* A step is one access to what the other thread changes; loads and stores *)
(* happen in program order.  (A look at the ring loads both pointers, but  *)
(* only a clear changes the looking thread's own.)  A sample is its number *)
(* since the last clear, and the two channels, always written and read     *)
(* together, are one.                                                      *)
(***************************************************************************)
EXTENDS Integers

CONSTANTS
  Size,      \* size of the ring (frag_size * frags)
  Period,    \* nframes of a process callback
  MaxWrite,  \* bound: samples per write_jack
  Limit,     \* bound: samples written between two clears
  Requests   \* what actl_jack is asked: "flush", "discard"

ASSUME RingAssumption ==
  /\ Size \in Nat \ {0} /\ Period \in Nat \ {0}
  /\ MaxWrite \in Nat \ {0} /\ Limit \in Nat
  /\ Requests \subseteq {"flush", "discard"}

VARIABLES
  rdptr,    \* rbuf.rdptr
  wrptr,    \* rbuf.wrptr
  ring,     \* the samples in the ring
  running,  \* ctx->running
  pc,       \* where the player's thread is
  request,  \* actl_jack: what it was last asked
  nframes,  \* write_jack: samples left to write
  size,     \* write_jack: samples left to write before it looks again
  cb,       \* where the process callback is
  cbsize,   \* transfer_callback: samples left to read
  cbrd,     \* the value of rdptr it has loaded
  client,   \* ctx->client: none (NULL), active, lost (the server is gone),
            \* inactive, stale (closed; the pointer is kept)
  shutdown, \* ctx->shutdown
  raced     \* history: a clear has fallen within a callback of this ring

ringVars   == <<rdptr, wrptr, ring, running>>
playerVars == <<pc, request, nframes, size>>
cbVars     == <<cb, cbsize, cbrd>>
clientVars == <<client, shutdown>>
vars == <<ringVars, playerVars, cbVars, clientVars, raced>>

Lesser(a, b) == IF a < b THEN a ELSE b

\* ringbuf_get_available, ringbuf_get_empty.
Available == wrptr - rdptr
Empty     == Size - Available

\* ringbuf_bound_readable, ringbuf_bound_writable: up to the ring's end.
Bound(p, n) == IF (p % Size) + n >= Size THEN Size - (p % Size) ELSE n

Slots(p, n) == {(p + i) % Size : i \in 0 .. n - 1}

Init ==
  /\ rdptr = 0 /\ wrptr = 0
  /\ ring = [i \in 0 .. Size - 1 |-> 0]
  /\ running = FALSE
  /\ pc = "closed" /\ request = "none" /\ nframes = 0 /\ size = 0
  /\ cb = "off" /\ cbsize = 0 /\ cbrd = 0
  /\ client = "none" /\ shutdown = FALSE
  /\ raced = FALSE

(***************************************************************************)
(* The player's thread: write_jack.                                        *)
(***************************************************************************)
Write(n) ==
  /\ pc = "idle"
  /\ wrptr + n <= Limit
  /\ pc' = "look" /\ nframes' = n /\ size' = 0
  /\ UNCHANGED <<ringVars, request, cbVars, clientVars,
                 raced>>

BadWriteLook ==
  /\ pc = "look"
  /\ size' = Empty
  /\ pc' = IF size' > 0 THEN "copy" ELSE "doze"
  /\ UNCHANGED <<ringVars, request, nframes, cbVars, clientVars,
                 raced>>

\* How much may be written now; with no room, the thread goes to sleep.
WriteLook ==
  /\ pc = "look"
  /\ size' = Lesser(Empty, nframes)
  /\ pc' = IF size' > 0 THEN "copy" ELSE "doze"
  /\ UNCHANGED <<ringVars, request, nframes, cbVars, clientVars,
                 raced>>

WriteCopy ==
  /\ pc = "copy"
  /\ ring' = [i \in DOMAIN ring |->
                IF i \in Slots(wrptr, Bound(wrptr, size))
                THEN wrptr + ((i - wrptr) % Size) + 1 ELSE ring[i]]
  /\ pc' = "advance"
  /\ UNCHANGED <<rdptr, wrptr, running, request, nframes, size, cbVars, clientVars,
                 raced>>

BadWriteAdvance ==
  /\ pc = "advance"
  /\ LET n == Bound(wrptr, Lesser(size, nframes))
     IN wrptr' = wrptr + n /\ nframes' = nframes - n
  /\ pc' = "run"
  /\ UNCHANGED <<rdptr, ring, running, request, size, cbVars, clientVars,
                 raced>>

WriteAdvance ==
  /\ pc = "advance"
  /\ LET n == Bound(wrptr, size)
     IN wrptr' = wrptr + n /\ nframes' = nframes - n /\ size' = size - n
  /\ pc' = "run"
  /\ UNCHANGED <<rdptr, ring, running, request, cbVars, clientVars,
                 raced>>

\* All written, as much as there was room for, or the ring's end was met.
WriteRun ==
  /\ pc = "run"
  /\ running' = TRUE
  /\ pc' = CASE nframes = 0 -> "idle"
             [] nframes # 0 /\ size = 0 -> "doze"
             [] OTHER -> "copy"
  /\ UNCHANGED <<rdptr, wrptr, ring, request, nframes, size, cbVars, clientVars,
                 raced>>

\* pthread_cond_wait: from now on a signal wakes the thread.
Doze ==
  /\ pc \in {"doze", "doze_flush"}
  /\ pc' = IF pc = "doze" THEN "asleep" ELSE "asleep_flush"
  /\ UNCHANGED <<ringVars, request, nframes, size, cbVars, clientVars,
                 raced>>

Awake == CASE pc = "asleep" -> "look"
           [] pc = "asleep_flush" -> "flush"
           [] OTHER -> pc

\* A wait may end with no signal.
SpuriousWakeup ==
  /\ pc \in {"asleep", "asleep_flush"}
  /\ pc' = Awake
  /\ UNCHANGED <<ringVars, request, nframes, size, cbVars, clientVars,
                 raced>>

(***************************************************************************)
(* The player's thread: actl_jack.  PM_REQ_FLUSH waits until the ring is   *)
(* empty and goes on as PM_REQ_DISCARD does.                               *)
(***************************************************************************)
Actl(r) ==
  /\ pc = "idle"
  /\ request' = r
  /\ pc' = IF r = "flush" /\ running THEN "flush" ELSE "stop"
  /\ UNCHANGED <<ringVars, nframes, size, cbVars, clientVars,
                 raced>>

BadFlushLook ==
  /\ pc = "flush"
  /\ pc' = "stop"
  /\ UNCHANGED <<ringVars, request, nframes, size, cbVars, clientVars,
                 raced>>

FlushLook ==
  /\ pc = "flush"
  /\ pc' = IF Available > 0 THEN "doze_flush" ELSE "stop"
  /\ UNCHANGED <<ringVars, request, nframes, size, cbVars, clientVars,
                 raced>>

Stop ==
  /\ pc = "stop"
  /\ running' = FALSE
  /\ pc' = "clear"
  /\ UNCHANGED <<rdptr, wrptr, ring, request, nframes, size, cbVars, clientVars,
                 raced>>

\* The callback has found running set and is not done with the ring.
InCallback == cb \in {"look", "read", "consume"}

\* ringbuf_clear: rdptr first, then wrptr.
ClearRead ==
  /\ pc = "clear"
  /\ rdptr' = 0
  /\ pc' = "cleared"
  /\ raced' = (raced \/ InCallback)
  /\ UNCHANGED <<wrptr, ring, running, request, nframes, size, cbVars, clientVars>>

ClearWrite ==
  /\ pc = "cleared"
  /\ wrptr' = 0
  /\ pc' = "idle"
  /\ UNCHANGED <<rdptr, ring, running, request, nframes, size, cbVars, clientVars,
                 raced>>

(***************************************************************************)
(* The player's thread: open_jack and close_jack.  The memset of open_jack *)
(* forgets what the ring before held.                                      *)
(***************************************************************************)
Open ==
  /\ pc = "closed"
  /\ rdptr' = 0 /\ wrptr' = 0
  /\ ring' = [i \in DOMAIN ring |-> 0]
  /\ running' = FALSE /\ shutdown' = FALSE /\ raced' = FALSE
  /\ \/ client' = "active" /\ pc' = "idle"
     \/ client' = "none" /\ pc' = pc       \* no client, or not activated
     \/ client' = "stale" /\ pc' = pc      \* a port is not registered
  /\ request' = "none" /\ nframes' = 0 /\ size' = 0
  /\ cbsize' = 0 /\ cbrd' = 0 /\ UNCHANGED cb

Close ==
  /\ pc = "idle"
  /\ shutdown' = TRUE
  /\ pc' = "closing"
  /\ UNCHANGED <<ringVars, request, nframes, size, cbVars, client, raced>>

CloseStop ==
  /\ pc = "closing"
  /\ running' = FALSE
  /\ pc' = "deactivate"
  /\ UNCHANGED <<rdptr, wrptr, ring, request, nframes, size, cbVars, clientVars, raced>>

\* The client is taken out of JACK's graph; a callback under way goes on.
Deactivate ==
  /\ pc = "deactivate"
  /\ client' = "inactive"
  /\ pc' = "close"
  /\ UNCHANGED <<ringVars, request, nframes, size, cbVars, shutdown, raced>>

\* jack_client_close returns when JACK's thread has ended.
ClientClose ==
  /\ pc = "close" /\ cb = "off"
  /\ client' = "stale"
  /\ pc' = "destroy"
  /\ UNCHANGED <<ringVars, request, nframes, size, cbVars, shutdown, raced>>

\* ringbuf_destroy: the samples are freed.
Destroy ==
  /\ pc = "destroy"
  /\ rdptr' = 0 /\ wrptr' = 0
  /\ pc' = "closed"
  /\ UNCHANGED <<ring, running, request, nframes, size, cbVars, clientVars, raced>>

(***************************************************************************)
(* JACK's thread: transfer_callback, called once a period.                 *)
(***************************************************************************)
\* Before anything is written the callback plays silence and wakes nobody.
Callback ==
  /\ client = "active" /\ cb = "off" /\ running
  /\ cb' = "look"
  /\ UNCHANGED <<ringVars, playerVars, cbsize, cbrd, clientVars,
                 raced>>

BadCallbackLook ==
  /\ cb = "look"
  /\ cbsize' = Lesser(Available, Period)
  /\ cb' = IF cbsize' > 0 THEN "read" ELSE "off"
  /\ UNCHANGED <<ringVars, playerVars, cbrd, clientVars,
                 raced>>

CallbackLook ==
  /\ cb = "look"
  /\ cbsize' = Lesser(Available, Period)
  /\ cb' = IF cbsize' > 0 THEN "read" ELSE "signal"
  /\ UNCHANGED <<ringVars, playerVars, cbrd, clientVars,
                 raced>>

CallbackRead ==
  /\ cb = "read"
  /\ cbrd' = rdptr
  /\ cb' = "consume"
  /\ UNCHANGED <<ringVars, playerVars, cbsize, clientVars,
                 raced>>

\* rdptr += size1 loads and stores rdptr; a clear between the two is lost.
CallbackConsume ==
  /\ cb = "consume"
  /\ LET n == Bound(cbrd, cbsize)
     IN /\ rdptr' \in {cbrd + n, rdptr + n}
        /\ cbsize' = cbsize - n
        /\ cb' = IF cbsize = n THEN "signal" ELSE "read"
  /\ UNCHANGED <<wrptr, ring, running, playerVars, cbrd, clientVars,
                 raced>>

\* Every callback signals, whether it has read anything or not.
Signal ==
  /\ cb = "signal"
  /\ pc' = Awake
  /\ cb' = "off"
  /\ UNCHANGED <<ringVars, request, nframes, size, cbsize, cbrd, clientVars,
                 raced>>

(***************************************************************************)
(* The JACK server.                                                        *)
(***************************************************************************)
ServerGone ==
  /\ client = "active"
  /\ client' = "lost"
  /\ UNCHANGED <<ringVars, playerVars, cbVars, shutdown, raced>>

\* shutdown_callback: safe_exit(1), unless the client is being closed.
ShutdownCallback ==
  /\ client = "lost" /\ cb = "off" /\ ~shutdown /\ pc # "exit"
  /\ pc' = "exit"
  /\ UNCHANGED <<ringVars, request, nframes, size, cbVars, clientVars, raced>>

Exited == pc = "exit" /\ UNCHANGED vars

-----------------------------------------------------------------------------
Player ==
  \/ WriteLook \/ WriteCopy \/ WriteAdvance \/ WriteRun \/ Doze
  \/ FlushLook \/ Stop \/ ClearRead \/ ClearWrite
  \/ CloseStop \/ Deactivate \/ ClientClose \/ Destroy

Jack ==
  \/ Callback \/ CallbackLook \/ CallbackRead \/ CallbackConsume \/ Signal
  \/ ShutdownCallback

Next ==
  \/ \E n \in 1 .. MaxWrite : Write(n)
  \/ \E r \in Requests : Actl(r)
  \/ Open \/ Close
  \/ SpuriousWakeup \/ ServerGone \/ Exited
  \/ Player \/ Jack

Spec == Init /\ [][Next]_vars

\* Both threads run, and JACK calls the callback every period.
FairSpec == Spec /\ WF_vars(Player) /\ WF_vars(Jack)
-----------------------------------------------------------------------------
(***************************************************************************)
(* Properties.                                                             *)
(***************************************************************************)
\* Every field of struct tm_jack and struct tm_ringbuf has its type; sizes
\* are never negative.
TypeOK ==
  /\ rdptr \in Nat /\ wrptr \in Nat
  /\ ring \in [0 .. Size - 1 -> Nat]
  /\ running \in BOOLEAN
  /\ pc \in {"idle", "look", "copy", "advance", "run", "doze", "asleep",
             "flush", "doze_flush", "asleep_flush", "stop", "clear", "cleared",
             "closing", "deactivate", "close", "destroy", "closed", "exit"}
  /\ request \in Requests \cup {"none"}
  /\ nframes \in Nat /\ size \in Nat
  /\ cb \in {"off", "look", "read", "consume", "signal"}
  /\ cbsize \in Int /\ cbrd \in Nat
  /\ client \in {"none", "active", "lost", "inactive", "stale"}
  /\ shutdown \in BOOLEAN /\ raced \in BOOLEAN

\* What ringbuf_get_empty returns is "empty sample spaces for write": while
\* the player may write, between nothing and the ring.
SpacesEmpty == pc \in {"idle", "look"} => Empty \in 0 .. Size

\* It does as long as no clear falls within a callback, though the threads
\* take no lock.
SpacesEmptyUnraced == ~raced => SpacesEmpty

\* The samples the callback is about to read exist, though close_jack may have
\* begun since it found running set, and are those written at its place: none
\* is overwritten before it is read, however the two threads interleave.
\* (jack_a.c: "here we only copy the stream data from the ring buffer".)
ReadsWritten ==
  cb = "consume" =>
    /\ pc # "closed"
    /\ raced \/ \A i \in 0 .. Bound(cbrd, cbsize) - 1 :
                  ring[(cbrd + i) % Size] = cbrd + i + 1

\* The ring's two ends never cross, though only a clear takes both.
RingRight == SpacesEmptyUnraced /\ ReadsWritten

\* PM_REQ_FLUSH plays everything out: the ring is cleared with nothing unread,
\* whether or not it was running when the request came.
FlushWaits ==
  [][ClearRead /\ request = "flush" /\ ~raced => rdptr = wrptr]_vars

AtRest == pc \in {"idle", "closed", "exit"}

\* "blocking behavior: sleep until the process thread wakes up": though the
\* wake-up may come before the sleep and the server may go away under it,
\* write_jack, a flush and a close return, or the program ends.
CallsReturn == ~AtRest ~> AtRest
=============================================================================
