------------------------------ MODULE SmfTracks ------------------------------
(***************************************************************************)
(* The song editor of libsmf (libsmf-1.3-vocaoke/src: smf.c, smf_tempo.c,  *)
(* array.c), the library the lyric and score converters are built on, as   *)
(* its shell (smfsh.c) drives it: events are added to and removed from the *)
(* tracks of one song while a cursor in each track plays them, and a tempo *)
(* map turns pulses into seconds.                                          *)
(*                                                                         *)
(* The library is sequential: each call is one action, and what a call     *)
(* does to the song is an operator from songs to songs, because the calls  *)
(* are built from one another.  Seconds are counted in units of which      *)
(* Slack is the tolerance of smf_save's own check.                         *)
(***************************************************************************)
EXTENDS Integers, Sequences, SequencesExt

CONSTANTS
  Note, Eot,      \* kinds of event that are no tempo change
  Rates,          \* kinds that are: the seconds a pulse then takes
  DefaultRate,    \* the rate before the first of them
  Slack,          \* the tolerance of assert_smf_event_is_identical
  SharedTempo,    \* whether two tempo changes may be at one pulse
  MaxTracks,      \* bound: tracks in the song
  MaxEvents,      \* bound: events in the song before a call adds any
  MaxPulses,      \* bound: pulses from the start of the song
  Seconds         \* bound: the seconds a caller names

ASSUME SongAssumption ==
  /\ Rates \subseteq Nat \ {0} /\ DefaultRate \in Nat \ {0}
  /\ Slack \in Nat
  /\ Note # Eot /\ Note \notin Rates /\ Eot \notin Rates
  /\ SharedTempo \in BOOLEAN
  /\ Seconds \subseteq Nat
  /\ MaxTracks \in Nat /\ MaxEvents \in Nat /\ MaxPulses \in Nat

\* No pulse takes longer than the tolerance of smf_save's check.  An event
\* added by its seconds is put on the pulse before, and may be off by the rest
\* of a pulse: two properties need this, which the code does not ask for.
PulsesShort == \A r \in Rates \cup {DefaultRate} : r - 1 <= Slack

VARIABLES
  song,     \* smf_t: its tracks, tempo_array and last_seek_position
  aborted,  \* an assert has failed
  seated    \* the cursors were set by a seek or a save and no edit came since

vars == <<song, aborted, seated>>

Kinds   == {Note, Eot} \cup Rates
Pulses  == 0 .. MaxPulses

\* -1 as next_event_number: the track has been played.  -1 as
\* last_seek_position: events were read since the last seek.
None == -1

EmptyTrack(n) == [number |-> n, events |-> <<>>, next |-> None, ahead |-> 0]
InitialTempo  == <<[at |-> 0, secs |-> 0, rate |-> DefaultRate]>>
NewSong       == [tracks |-> <<>>, tempos |-> InitialTempo, sought |-> 0]

\* Track p[1]'s event p[2].
Positions(s) == UNION {{<<t, i>> : i \in 1 .. Len(s.tracks[t].events)} :
                         t \in 1 .. Len(s.tracks)}
EventAt(s, p) == s.tracks[p[1]].events[p[2]]

\* last_event_pulses.
LastPulses(track) ==
  IF track.events = <<>> THEN 0 ELSE Last(track.events).time

\* smf_event_is_last: smf_get_length_pulses is not past the time.
IsLast(s, time) ==
  \A t \in 1 .. Len(s.tracks) : LastPulses(s.tracks[t]) <= time

\* smf_get_next_event's order: by time, then by track.
Before(s, p, q) ==
  LET a == EventAt(s, p).time
      b == EventAt(s, q).time
  IN \/ a < b
     \/ a = b /\ p[1] < q[1]
     \/ a = b /\ p[1] = q[1] /\ p[2] < q[2]

PlayOrder(s) ==
  [n \in 1 .. Cardinality(Positions(s)) |->
     CHOOSE p \in Positions(s) :
       Cardinality({q \in Positions(s) : Before(s, q, p)}) = n - 1]

(***************************************************************************)
(* The tempo map (smf_tempo.c).                                            *)
(***************************************************************************)
\* smf_get_tempo_by_pulses: the last tempo before the pulse; 0 for none.
TempoBefore(tempos, pulses) ==
  IF pulses = 0
  THEN IF tempos = <<>> THEN 0 ELSE 1
  ELSE SelectLastInSeq(tempos, LAMBDA x : x.at < pulses)

\* seconds_from_pulses.
SecondsAt(tempos, pulses) ==
  LET tempo == tempos[TempoBefore(tempos, pulses)]
  IN tempo.secs + (pulses - tempo.at) * tempo.rate

\* pulses_from_seconds.
PulsesAt(tempos, secs) ==
  LET i == IF secs = 0 THEN 1 ELSE SelectLastInSeq(tempos, LAMBDA x : x.secs < secs)
      tempo == tempos[i]
  IN tempo.at + (secs - tempo.secs) \div tempo.rate

\* add_tempo: a tempo that starts at the same pulse is overwritten.
WithTempo(tempos, at, rate) ==
  IF tempos # <<>> /\ Last(tempos).at = at
  THEN [tempos EXCEPT ![Len(tempos)].rate = rate]
  ELSE Append(tempos,
              [at |-> at, rate |-> rate,
               secs |-> IF at = 0 THEN 0 ELSE SecondsAt(tempos, at)])

BadWithoutLastTempo(tempos, at) == tempos

\* remove_last_tempo_with_pulses.
WithoutLastTempo(tempos, at) ==
  IF tempos # <<>> /\ Last(tempos).at = at THEN Front(tempos) ELSE tempos

\* smf_rewind.
Rewound(s) ==
  [s EXCEPT
     !.sought = 0,
     !.tracks = [t \in 1 .. Len(@) |->
                   LET events == s.tracks[t].events
                   IN IF events = <<>>
                      THEN [@[t] EXCEPT !.next = None, !.ahead = 0]
                      ELSE [@[t] EXCEPT !.next = 1, !.ahead = Head(events).time]]]

\* The tempo map after each event that is read.
TempoMap(s) ==
  LET order == PlayOrder(s)
      map[n \in 0 .. Len(order)] ==
        IF n = 0 THEN InitialTempo
        ELSE LET e == EventAt(s, order[n])
             IN IF e.kind \in Rates THEN WithTempo(map[n - 1], e.time, e.kind)
                ELSE map[n - 1]
  IN map[Len(order)]

\* smf_create_tempo_map_and_compute_seconds: every event is read in turn,
\* which leaves the cursors at the end.
Rebuilt(s) ==
  LET map == TempoMap(s)
      Timed(track) ==
        [track EXCEPT
           !.next = None, !.ahead = LastPulses(track),
           !.events = [i \in 1 .. Len(@) |->
                         [@[i] EXCEPT !.secs = SecondsAt(map, track.events[i].time)]]]
  IN [tracks |-> [t \in 1 .. Len(s.tracks) |-> Timed(s.tracks[t])],
      tempos |-> map,
      sought |-> IF Positions(s) = {} THEN 0 ELSE None]

(***************************************************************************)
(* Events in tracks (smf.c).                                               *)
(***************************************************************************)
BadRenumbered(events, from) == events

Renumbered(events, from) ==
  [i \in 1 .. Len(events) |->
     IF i < from THEN events[i] ELSE [events[i] EXCEPT !.number = i]]

\* The events without the i-th: the next one is as far from the one before.
Closed(events, i) ==
  RemoveAt([j \in 1 .. Len(events) |->
              IF j = i + 1
              THEN [events[j] EXCEPT !.delta = @ + events[i].delta]
              ELSE events[j]], i)

\* smf_event_remove_from_track.  Whether it was last is asked before.
Removed(s, t, i) ==
  LET event  == s.tracks[t].events[i]
      events == Renumbered(Closed(s.tracks[t].events, i), i)
      rest   == [s EXCEPT !.tracks[t].events = events,
                          !.tracks[t].next = IF events = <<>> THEN None ELSE @]
  IN IF event.kind \notin Rates THEN rest
     ELSE IF IsLast(s, event.time)
          THEN [rest EXCEPT !.tempos = WithoutLastTempo(@, event.time)]
          ELSE Rebuilt(rest)

BadWithoutEot(s, t, time) == s

\* remove_eot_if_before_pulses.
WithoutEot(s, t, time) ==
  LET events == s.tracks[t].events
  IN IF events # <<>> /\ Last(events).kind = Eot /\ Last(events).time <= time
     THEN Removed(s, t, Len(events))
     ELSE s

BadPlaced(events, e) ==
  Append(events, [e EXCEPT !.number = Len(events) + 1,
                           !.delta = e.time - (IF events = <<>> THEN 0
                                               ELSE Last(events).time)])

\* The event at the end, or before the first one that is not earlier.
Placed(events, e) ==
  IF events = <<>> \/ Last(events).time <= e.time
  THEN Append(events, [e EXCEPT !.number = Len(events) + 1,
                                !.delta = e.time - (IF events = <<>> THEN 0
                                                    ELSE Last(events).time)])
  ELSE LET i == SelectInSeq(events, LAMBDA x : x.time >= e.time)
           gap == e.time - (IF i = 1 THEN 0 ELSE events[i - 1].time)
           later == [events EXCEPT ![i].delta = @ - gap]
       IN Renumbered(InsertAt(later, i, [e EXCEPT !.delta = gap]), 1)

\* smf_track_add_event.
Added(s, t, kind, time, secs) ==
  LET base == WithoutEot(s, t, time)
      e == [kind |-> kind, time |-> time, secs |-> secs, delta |-> None,
            number |-> None, track |-> base.tracks[t].number]
      full == [base EXCEPT
                 !.tracks[t].events = Placed(@, e),
                 !.tracks[t].next = IF base.tracks[t].events = <<>> THEN 1 ELSE @]
  IN IF kind \notin Rates THEN full
     ELSE IF IsLast(full, time)
          THEN [full EXCEPT !.tempos = WithTempo(@, time, kind)]
          ELSE Rebuilt(full)

\* smf_track_add_event_delta_pulses.
AddedAfter(s, t, kind, delta) ==
  LET time == LastPulses(s.tracks[t]) + delta
  IN Added(s, t, kind, time, SecondsAt(s.tempos, time))

\* smf_track_remove_from_smf: the tracks after it are renumbered, and their
\* events with them.
WithoutTrack(s, t) ==
  LET left == RemoveAt(s.tracks, t)
      Moved(i) == [left[i] EXCEPT
                     !.number = i,
                     !.events = [j \in 1 .. Len(@) |-> [@[j] EXCEPT !.track = i]]]
  IN [s EXCEPT !.tracks = [i \in 1 .. Len(left) |->
                             IF i < t THEN left[i] ELSE Moved(i)]]

\* smf_track_delete: its events are removed from last to first.
TrackDeleted(s, t) ==
  LET count == Len(s.tracks[t].events)
      rest[i \in 0 .. count] ==
        IF i = 0 THEN s ELSE Removed(rest[i - 1], t, count + 1 - i)
  IN WithoutTrack(rest[count], t)

(***************************************************************************)
(* Reading in time order.                                                  *)
(***************************************************************************)
\* Skipping every event before the target: smf_peek_next_event and
\* smf_skip_next_event from the start.
Skipped(s, target) ==
  LET Past(t) == Cardinality({p \in Positions(s) : p[1] = t /\ Before(s, p, target)})
      Set(t, track) ==
        IF Past(t) = Len(track.events)
        THEN [track EXCEPT !.next = None, !.ahead = LastPulses(track)]
        ELSE [track EXCEPT !.next = Past(t) + 1,
                           !.ahead = track.events[Past(t) + 1].time]
  IN [s EXCEPT !.tracks = [t \in 1 .. Len(@) |-> Set(t, @[t])]]

\* No event qualifies: all are skipped.
Exhausted(s) ==
  [s EXCEPT !.sought = IF Positions(s) = {} THEN 0 ELSE None,
            !.tracks = [t \in 1 .. Len(@) |->
                          [@[t] EXCEPT !.next = None,
                                       !.ahead = LastPulses(s.tracks[t])]]]

FirstOf(s, ok) ==
  CHOOSE p \in ok : \A q \in ok \ {p} : Before(s, p, q)

\* smf_find_track_with_next_event; 0 for none.
NextTrack(s) ==
  LET live == {t \in 1 .. Len(s.tracks) : s.tracks[t].next # None}
      Nearer(t, u) == \/ s.tracks[t].ahead < s.tracks[u].ahead
                      \/ s.tracks[t].ahead = s.tracks[u].ahead /\ t < u
  IN IF live = {} THEN 0
     ELSE CHOOSE t \in live : \A u \in live \ {t} : Nearer(t, u)

BadAdvanced(track) ==
  IF track.next < Len(track.events)
  THEN [track EXCEPT !.next = @ + 1]
  ELSE [track EXCEPT !.next = None]

\* smf_track_get_next_event.
Advanced(track) ==
  IF track.next < Len(track.events)
  THEN [track EXCEPT !.next = @ + 1, !.ahead = track.events[track.next + 1].time]
  ELSE [track EXCEPT !.next = None]
(***************************************************************************)
(* Saving and loading (smf_save.c, smf_load.c).                            *)
(***************************************************************************)
HasEot(events) == \E i \in 1 .. Len(events) : events[i].kind = Eot

\* smf_save rewinds, and smf_validate adds the End Of Track events missing.
Completed(s) ==
  LET ended[t \in 0 .. Len(s.tracks)] ==
        IF t = 0 THEN Rewound(s)
        ELSE IF HasEot(s.tracks[t].events) THEN ended[t - 1]
        ELSE AddedAfter(ended[t - 1], t, Eot, 0)
  IN ended[Len(s.tracks)]

\* write_track: every track is read to its end, which no seek remembers.
Written(s) == [Exhausted(s) EXCEPT !.sought = s.sought]

\* parse_mtrk_chunk: a track is read up to its first End Of Track.
Stored(events) ==
  LET eot == SelectInSeq(events, LAMBDA e : e.kind = Eot)
  IN IF eot = 0 THEN events ELSE SubSeq(events, 1, eot)

WithNewTrack(s) ==
  [s EXCEPT !.tracks = Append(@, EmptyTrack(Len(@) + 1))]

\* smf_load of what smf_save has written: kinds and deltas, track by track.
WithStored(s, t, stored) ==
  LET read[i \in 0 .. Len(stored)] ==
        IF i = 0 THEN WithNewTrack(s)
        ELSE AddedAfter(read[i - 1], t, stored[i].kind, stored[i].delta)
  IN read[Len(stored)]

Loaded(s) ==
  LET loaded[t \in 0 .. Len(s.tracks)] ==
        IF t = 0 THEN NewSong
        ELSE WithStored(loaded[t - 1], t, Stored(s.tracks[t].events))
  IN Rewound(loaded[Len(s.tracks)])

\* assert_smf_is_identical.
Identical(a, b) ==
  /\ Len(a.tracks) = Len(b.tracks)
  /\ \A t \in 1 .. Len(a.tracks) :
       /\ a.tracks[t].number = b.tracks[t].number
       /\ Len(a.tracks[t].events) = Len(b.tracks[t].events)
  /\ \A p \in Positions(a) :
       LET e == EventAt(a, p)
           f == EventAt(b, p)
       IN /\ e.number = f.number /\ e.delta = f.delta
          /\ e.secs - f.secs \in -Slack .. Slack
          /\ e.track = f.track /\ e.kind = f.kind

-----------------------------------------------------------------------------
(***************************************************************************)
(* The calls.                                                              *)
(***************************************************************************)
Init == song = NewSong /\ aborted = FALSE /\ seated = TRUE

Abort == aborted' = TRUE /\ song' = NewSong /\ seated' = TRUE

Edit(s) == song' = s /\ seated' = FALSE /\ UNCHANGED aborted

Seat(s) == song' = s /\ seated' = TRUE /\ UNCHANGED aborted

SmfAddTrack ==
  /\ ~aborted /\ Len(song.tracks) < MaxTracks
  /\ Edit(WithNewTrack(song))

SmfTrackDelete(t) == ~aborted /\ Edit(TrackDeleted(song, t))

\* Whether the caller may add such an event at that pulse.
Admitted(kind, time) ==
  kind \in Rates /\ ~SharedTempo =>
    \A p \in Positions(song) :
      EventAt(song, p).kind \in Rates => EventAt(song, p).time # time

\* smf_track_add_event_pulses and smf_track_add_eot_pulses: without a tempo
\* to count the seconds with, an assert fails.
SmfTrackAddEventPulses(t, kind, pulses) ==
  /\ ~aborted /\ Admitted(kind, pulses)
  /\ kind = Eot => LastPulses(song.tracks[t]) <= pulses
  /\ IF TempoBefore(song.tempos, pulses) = 0
     THEN Abort
     ELSE Edit(Added(song, t, kind, pulses, SecondsAt(song.tempos, pulses)))

\* smf_track_add_event_seconds and smf_track_add_eot_seconds.
SmfTrackAddEventSeconds(t, kind, seconds) ==
  /\ ~aborted
  /\ LET events == song.tracks[t].events
     IN kind = Eot /\ events # <<>> => Last(events).secs <= seconds
  /\ IF song.tempos = <<>>
     THEN Abort
     ELSE /\ PulsesAt(song.tempos, seconds) <= MaxPulses
          /\ Admitted(kind, PulsesAt(song.tempos, seconds))
          /\ Edit(Added(song, t, kind, PulsesAt(song.tempos, seconds), seconds))

\* smf_event_delete.
SmfEventRemove(t, i) == ~aborted /\ Edit(Removed(song, t, i))

\* A cursor left past the end by a removal fails an assert.
SmfGetNextEvent ==
  /\ ~aborted /\ NextTrack(song) # 0
  /\ LET t == NextTrack(song)
     IN IF song.tracks[t].next > Len(song.tracks[t].events)
        THEN Abort
        ELSE /\ song' = [song EXCEPT !.tracks[t] = Advanced(@), !.sought = None]
             /\ UNCHANGED <<aborted, seated>>

SmfRewind == ~aborted /\ Seat(Rewound(song))

SmfSeekToEvent(p) ==
  /\ ~aborted
  /\ Seat([Skipped(song, p) EXCEPT !.sought = EventAt(song, p).secs])

SmfSeekToPulses(pulses) ==
  /\ ~aborted
  /\ LET ok == {p \in Positions(song) : EventAt(song, p).time >= pulses}
     IN IF ok = {}
        THEN Seat(Exhausted(song))
        ELSE Seat([Skipped(song, FirstOf(song, ok)) EXCEPT
                     !.sought = EventAt(song, FirstOf(song, ok)).secs])

\* Seeking to where the last seek went does nothing.
SmfSeekToSeconds(seconds) ==
  /\ ~aborted /\ seconds # song.sought
  /\ LET ok == {p \in Positions(song) : EventAt(song, p).secs >= seconds}
     IN IF ok = {}
        THEN Seat(Exhausted(song))
        ELSE Seat([Skipped(song, FirstOf(song, ok)) EXCEPT !.sought = seconds])

SmfSeekAvoided(seconds) == ~aborted /\ seconds = song.sought /\ UNCHANGED vars

\* What it leaves has been read to the end, whether or not the file could be
\* written.
SmfSave ==
  /\ ~aborted /\ song.tracks # <<>>
  /\ Cardinality(Positions(song)) < MaxEvents
  /\ IF song.tempos = <<>> /\ \E t \in 1 .. Len(song.tracks) :
                                ~HasEot(song.tracks[t].events)
     THEN Abort
     ELSE Seat(Written(Completed(song)))

\* The program is started again.
Restart == aborted /\ aborted' = FALSE /\ UNCHANGED <<song, seated>>

OnTrack(t) ==
  \/ SmfTrackDelete(t)
  \/ /\ Cardinality(Positions(song)) < MaxEvents
     /\ \E k \in Kinds :
          \/ \E p \in Pulses : SmfTrackAddEventPulses(t, k, p)
          \/ \E s \in Seconds : SmfTrackAddEventSeconds(t, k, s)
  \/ \E i \in 1 .. Len(song.tracks[t].events) : SmfEventRemove(t, i)

Next ==
  \/ SmfAddTrack
  \/ \E t \in 1 .. Len(song.tracks) : OnTrack(t)
  \/ SmfGetNextEvent \/ SmfRewind
  \/ \E p \in Positions(song) : SmfSeekToEvent(p)
  \/ \E n \in Pulses : SmfSeekToPulses(n)
  \/ \E s \in Seconds : SmfSeekToSeconds(s) \/ SmfSeekAvoided(s)
  \/ SmfSave \/ Restart

Spec == Init /\ [][Next]_vars
-----------------------------------------------------------------------------
(***************************************************************************)
(* Properties.                                                             *)
(***************************************************************************)
Events == [kind : Kinds, time : Nat, secs : Nat, delta : Nat, number : Nat,
           track : Nat]

\* Every field of the song has a value of its type.
TypeOK ==
  /\ \A t \in 1 .. Len(song.tracks) :
       /\ song.tracks[t].number \in Nat
       /\ song.tracks[t].events \in Seq(Events)
       /\ song.tracks[t].next \in Nat \cup {None}
       /\ song.tracks[t].ahead \in Nat
  /\ song.tempos \in Seq([at : Nat, secs : Nat, rate : Nat])
  /\ song.sought \in Nat \cup {None}
  /\ aborted \in BOOLEAN /\ seated \in BOOLEAN

\* smf.h: tracks and events "are numbered consecutively, starting from one",
\* whatever was added and removed; an event carries the number of its track
\* and its distance from the event before it, and a track has no cursor when
\* it has no event.
Numbered ==
  \A t \in 1 .. Len(song.tracks) :
    LET track == song.tracks[t]
    IN /\ track.number = t
       /\ track.events = <<>> => track.next = None
       /\ \A i \in 1 .. Len(track.events) :
            /\ track.events[i].number = i
            /\ track.events[i].track = t
            /\ track.events[i].time =
                 track.events[i].delta + (IF i = 1 THEN 0
                                          ELSE track.events[i - 1].time)

\* The rate in force after a pulse: the last tempo change up to it decides.
RateAfter(s, pulse) ==
  LET changes == {p \in Positions(s) : /\ EventAt(s, p).kind \in Rates
                                       /\ EventAt(s, p).time <= pulse}
  IN IF changes = {} THEN DefaultRate
     ELSE EventAt(s, CHOOSE p \in changes :
                       \A q \in changes \ {p} : Before(s, q, p)).kind

\* The seconds from the start of the song to a pulse.
Due(s, pulse) ==
  LET due[n \in 0 .. pulse] ==
        IF n = 0 THEN 0 ELSE due[n - 1] + RateAfter(s, n - 1)
  IN due[pulse]

\* smf.h: "If event is attached, all three values are valid": its seconds are
\* those the song's tempo changes give its pulse, whether they were there when
\* it came, came later or have been removed, up to the part of a pulse that an
\* event added by its seconds may be off.
SecondsRight ==
  \A p \in Positions(song) :
    LET e == EventAt(song, p)
    IN e.secs \in Due(song, e.time) .. Due(song, e.time) + Slack

Unread ==
  {p \in Positions(song) : /\ song.tracks[p[1]].next # None
                           /\ p[2] >= song.tracks[p[1]].next}

\* smf_get_next_event reads in time order and omits nothing: after a seek or a
\* save and until the next edit, what has been passed comes before what is to
\* come, over all tracks.
NothingSkipped ==
  seated => \A p \in Unread, q \in Positions(song) \ Unread : Before(song, q, p)

\* The assertion of smf_save (smf_save.c): the file it wrote loads as the same
\* song, though the one was edited in any order and the other is built from
\* its start.  The song is as smf_save leaves it, every track ended.
SavedIdentical ==
  (\A t \in 1 .. Len(song.tracks) : HasEot(song.tracks[t].events))
    => Identical(song, Loaded(song))

\* The doc of smf_seek_to_seconds: after it, smf_get_next_event returns the
\* first event that does not come before those seconds, and so it must where
\* the seek does nothing because the last one went there too.
SeekFinds ==
  LET ok == {p \in Positions(song) : EventAt(song, p).secs >= song.sought}
      t == NextTrack(song)
  IN song.sought # None /\ ok # {} =>
       t # 0 /\ <<t, song.tracks[t].next>> = FirstOf(song, ok)

\* No assert of the library fails.
AssertsHold == ~aborted
=============================================================================
