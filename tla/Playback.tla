------------------------------ MODULE Playback ------------------------------
(***************************************************************************)
(* The playback server (playback/): what it lists and what it sends of the *)
(* segments of a path that are on disk.  The functions of this module are  *)
(* those of the code; a store is the set of the segments.                  *)
(*                                                                         *)
(* A segment has the time in its name (start), the header that the         *)
(* recorder writes (complete or not) and parts, which are sequences of     *)
(* samples.  Segments of earlier versions, whose header has no number, are *)
(* left out.                                                               *)
(***************************************************************************)
EXTENDS Integers, Sequences, FiniteSets, SequencesExt

CONSTANTS
  Video, Audio,   \* the tracks
  None
Tracks == {Video, Audio}

MaxOf(S) == CHOOSE x \in S : \A y \in S : y <= x

-----------------------------------------------------------------------------
(* The segments (recordstore/segment.go).                                  *)

ByStart(f, g) == f.start < g.start

(* FindSegments: those that begin before the end, from the one that may    *)
(* contain the start.                                                      *)
FindSegments(store, start, end) ==
  LET found == SetToSortSeq({f \in store : end = None \/ f.start <= end}, ByStart)
      begun == {i \in DOMAIN found : found[i].start <= start}
  IN IF start = None \/ found = <<>> THEN found
     ELSE IF begun = {} THEN found
     ELSE SubSeq(found, MaxOf(begun), Len(found))

(* The end of a sample, from the beginning of its segment. *)
EndIn(f, s) == s.dts + s.duration - f.dts

(* Of a segment that the recorder has not closed, the last part tells. *)
DurationFromParts(f) ==
  MaxOf({0} \cup {EndIn(f, Last(f.parts)[i]) : i \in DOMAIN Last(f.parts)})

Unreadable(f) == ~f.header \/ (f.duration = 0 /\ f.parts = <<>>)
Duration(f) == IF f.duration # 0 THEN f.duration ELSE DurationFromParts(f)

(* It has been written after the previous one, by the same recorder. *)
CanBeConcatenated(prev, f) == prev.stream = f.stream /\ prev.number + 1 = f.number

-----------------------------------------------------------------------------
(* The list of the recordings (playback/on_list.go).                       *)

EndOf(entry) == entry.start + entry.duration

Concatenate(segments) ==
  LET Extend(out, i) ==
        LET f == segments[i]
        IN IF i > 1 /\ CanBeConcatenated(segments[i - 1], f)
           THEN [out EXCEPT ![Len(out)].duration =
                   f.start + Duration(f) - out[Len(out)].start]
           ELSE Append(out, [start |-> f.start, duration |-> Duration(f)])
  IN FoldLeft(Extend, <<>>, [i \in DOMAIN segments |-> i])

(* A first entry that is over before the start goes; one that is not, and  *)
(* the last one, are cut to what has been asked for.                       *)
\* Faulty variant: the entry begins at the start and keeps its duration.
TrimStart_KeepsDuration(entries, start) ==
  IF EndOf(entries[1]) < start THEN Tail(entries)
  ELSE IF entries[1].start < start THEN [entries EXCEPT ![1].start = start]
  ELSE entries

TrimStart(entries, start) ==
  IF EndOf(entries[1]) < start THEN Tail(entries)
  ELSE IF entries[1].start < start
  THEN [entries EXCEPT ![1] = [start |-> start, duration |-> EndOf(@) - start]]
  ELSE entries

TrimEnd(entries, end) ==
  LET n == Len(entries)
  IN IF n > 0 /\ EndOf(entries[n]) > end
     THEN [entries EXCEPT ![n].duration = end - entries[n].start]
     ELSE entries

(* The answer: no entry stands for "no recording segments found"; None  *)
(* for an error, since a segment that cannot be read spoils the whole list.*)
List(store, start, end) ==
  LET segments == FindSegments(store, start, end)
      entries  == Concatenate(segments)
      from     == IF start = None \/ entries = <<>> THEN entries
                  ELSE TrimStart(entries, start)
  IN IF \E i \in DOMAIN segments : Unreadable(segments[i]) THEN None
     ELSE IF end = None THEN from ELSE TrimEnd(from, end)

-----------------------------------------------------------------------------
(* A recording (playback/on_get.go, segment_fmp4.go and muxer_fmp4.go).    *)

(* The first segment and those that follow it without a gap. *)
Chain(segments) ==
  LET broken == {i \in 2..Len(segments) :
                   ~CanBeConcatenated(segments[i - 1], segments[i])}
  IN IF broken = {} THEN segments
     ELSE SubSeq(segments, 1, (CHOOSE i \in broken : \A j \in broken : i <= j) - 1)

(* The samples of a track in a segment: reading ends with the part in      *)
(* which a sample is past the end.  at is the time of the segment, from    *)
(* the start that has been asked for.                                      *)
MuxParts(f, t, at, duration) ==
  LET When(s) == at + s.dts - f.dts
      late    == {i \in DOMAIN f.parts :
                    \E j \in DOMAIN f.parts[i] : When(f.parts[i][j]) >= duration}
      parts   == IF late = {} THEN f.parts
                 ELSE SubSeq(f.parts, 1, CHOOSE i \in late : \A j \in late : i <= j)
      samples == SelectSeq(FlattenSeq(parts),
                           LAMBDA s : s.track = t /\ When(s) < duration)
  IN [i \in DOMAIN samples |-> [sample |-> samples[i], when |-> When(samples[i])]]

(* The muxer keeps, of what precedes the start, the last group of pictures.*)
\* Faulty variant: it sends nothing that precedes the start.
FromVisible_NoGroup(sent) == SelectSeq(sent, LAMBDA x : x.when >= 0)

FromVisible(sent) ==
  LET visible == {i \in DOMAIN sent : sent[i].when >= 0}
      first   == CHOOSE i \in visible : \A j \in visible : i <= j
      keys    == {i \in 1..first : sent[i].sample.sync}
  IN IF visible = {} THEN <<>>
     ELSE SubSeq(sent, IF keys = {} THEN 1 ELSE MaxOf(keys), Len(sent))

(* What is sent of a track.  None is an error, which may come when a part  *)
(* has been sent already: the header of the segment that follows the chain *)
(* has to be read before it is known that it does not belong to it.        *)
Get(store, t, start, duration) ==
  LET segments == FindSegments(store, start, start + duration)
      chain    == Chain(segments)
      At(f)    == f.dts - chain[1].dts + chain[1].start - start
  IN IF segments = <<>>
        \/ \E i \in DOMAIN segments : i <= Len(chain) + 1 /\ ~segments[i].header
     THEN None
     ELSE FromVisible(FlattenSeq(
            [i \in DOMAIN chain |-> MuxParts(chain[i], t, At(chain[i]), duration)]))
=============================================================================
