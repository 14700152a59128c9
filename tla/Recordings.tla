----------------------------- MODULE Recordings -----------------------------
(***************************************************************************)
(* The recordings of a path: the recorder that writes them (recorder/),    *)
(* the cleaner that removes them (recordcleaner/) and the request of the   *)
(* API that does (api/api_recordings.go).  Playback reads what they leave. *)
(*                                                                         *)
(* The recorder puts samples in parts, parts in segments, and each segment *)
(* in a file whose name is the time of its first sample.  When a disk, a   *)
(* clock or its own queue fails it closes the segment, pauses, and goes on *)
(* with a new instance.                                                    *)
(*                                                                         *)
(* Time is in ticks.  A sample has the time at which it arrives, which is  *)
(* the one of the clock, and a time stamp of its track.                    *)
(***************************************************************************)
EXTENDS Playback

CONSTANTS
  PartDuration, MaxPartSize,
  DriftTolerance,   \* between the time stamps and the clock
  MaxBasetime,      \* of the oldest sample that a segment may begin with
  Offsets,          \* of the time stamps from the clock
  Cases,            \* the format, recordSegmentDuration, recordDeleteAfter
                    \* (0: never), and bounds of the samples and of the
                    \* faults, jumps of a clock and requests of the API
  Asked,            \* the times that one asks the playback server for
  MaxTime, MaxStreams   \* bounds

ASSUME RecordingsAssumption ==
  /\ MaxPartSize \in Nat \ {0}
  /\ {PartDuration, DriftTolerance, MaxBasetime, MaxTime, MaxStreams} \subseteq Nat
  /\ Offsets \subseteq Int /\ Asked \subseteq 0..MaxTime
  /\ \A c \in Cases : /\ c.format \in {"fmp4", "mpegts"}
                      /\ c.deleteAfter = 0 \/ c.deleteAfter >= c.segmentDuration
                      /\ {c.samples, c.faults, c.segmentDuration, c.deleteAfter}
                           \subseteq Nat

VARIABLES
  clock,
  case,       \* the one of Cases
  offset,     \* of the time stamps of each track
  store,      \* the files on disk
  recorder,   \* off, running, failed: an error ends the instance, or pausing
  stream,     \* counts the instances (the stream ID in the header)
  received,   \* counts the samples of each track
  started,    \* the offset of the first sample of each track
  next,       \* the sample of each track that waits for its duration
  number,     \* nextSegmentNumber
  seg,        \* currentSegment
  hooks,      \* the calls of runOnRecordSegmentCreate and Complete
  faults      \* counts the faults

writing == <<stream, received, started, next, number, seg>>
vars == <<clock, case, offset, store, recorder, writing, hooks, faults>>

SegmentDuration == case.segmentDuration

(* The segments are longer than what the tracks and the clock can be       *)
(* apart.  Nothing in the configuration says that they have to be.         *)
LongSegments ==
  \A o, p \in Offsets : SegmentDuration > MaxBasetime + DriftTolerance + o - p

(* A fault of the disk: the file cannot be created, or its header or a     *)
(* part cannot be written.                                                 *)
Faults == {"create", "header", "part"}

NewSegment(dts, ntp, n) ==
  [stream |-> stream, number |-> n, dts |-> dts, start |-> ntp, end |-> dts,
   flushed |-> dts, part |-> <<>>, file |-> None]

FileOf(s) == [stream |-> s.stream, number |-> s.number, dts |-> s.dts,
              start |-> s.start, header |-> FALSE, duration |-> 0, parts |-> <<>>]

(* What waits, what is written and what is called.  None is nothing else.   *)
Samples == [track : Tracks, n : Nat, sync : BOOLEAN, dts : Int, duration : Int]
             \cup [track : Tracks, n : Nat]
Waiting == [track : Tracks, n : Nat, ntp : Nat, sync : BOOLEAN, dts : Int]
Segments == [stream : Nat, number : Nat, dts : Int, start : Nat, end : Int, flushed : Int,
             part : Seq(Samples), file : {None, "open", "removed", "closed"}]
Files == [stream : Nat, number : Nat, dts : Int, start : Nat, header : BOOLEAN,
          duration : Int, parts : Seq(Seq(Samples))]
Calls == {"create", "complete"} \X Nat \X Nat

ASSUME NoneAssumption ==
  /\ None \notin Segments /\ None \notin Waiting /\ None \notin [n : {0}, ntp : Nat]
  /\ None \notin Faults /\ None \notin {"open", "removed", "closed"} /\ None \notin Int

TypeOK ==
  /\ clock \in 0..MaxTime /\ case \in Cases
  /\ offset \in [Tracks -> Offsets]
  /\ store \subseteq Files /\ hooks \in Seq(Calls)
  /\ \A f, g \in store : f.start = g.start => f = g
  /\ recorder \in {"off", "running", "failed", "pausing"}
  /\ stream \in 0..MaxStreams /\ faults \in 0..case.faults
  /\ received \in [Tracks -> 0..case.samples]
  /\ \A t \in Tracks : started[t] = None \/ started[t] \in Offsets
  /\ \A t \in Tracks : next[t] = None \/ next[t].n <= received[t]
  /\ seg \in Segments \cup {None}
  /\ recorder \in {"running", "failed"} \/ seg = None
  /\ seg # None => seg.stream = stream /\ seg.number < number

-----------------------------------------------------------------------------
(* What the recorder does to the disk: operators on a record of a segment, *)
(* the store, the hooks and whether an error has been returned.            *)

Disk(s) == [seg |-> s, store |-> store, hooks |-> hooks, ok |-> TRUE]
Called(d, hook) == Append(d.hooks, <<hook, d.seg.stream, d.seg.number>>)
(* The file of the segment, from when it is created until it is removed. *)
FileOn(d) == {f \in d.store : f.start = d.seg.start /\ d.seg.file \notin {None, "removed"}}
WithPart(d) == (d.store \ FileOn(d)) \cup
               {[f EXCEPT !.parts = Append(@, d.seg.part)] : f \in FileOn(d)}
WithDuration(d, duration) == (d.store \ FileOn(d)) \cup
               {[f EXCEPT !.duration = duration] : f \in FileOn(d)}

(* os.Create truncates a file of that name.  The header, and the part that *)
(* it is created for, are written in the same action.                      *)
Create(d, fault) ==
  IF d.seg.file # None THEN d
  ELSE IF fault = "create" THEN [d EXCEPT !.ok = FALSE]
  ELSE LET f == [FileOf(d.seg) EXCEPT !.header = fault # "header"]
       IN [d EXCEPT !.store = {g \in @ : g.start # f.start} \cup {f},
                    !.hooks = Called(d, "create"),
                    !.ok = f.header,
                    !.seg.file = IF f.header THEN "open" ELSE None]

(* closeCurPart, and the flush of the buffer of MPEG-TS; the file is       *)
(* created first.                                                          *)
AppendPart(c, fault, rest) ==
  IF ~c.ok \/ fault = "part" \/ c.seg.file = "closed"
  THEN [c EXCEPT !.ok = FALSE]
  ELSE [c EXCEPT !.store = WithPart(c), !.seg.part = rest]

\* Faulty variant: the part stays in the segment.
WritePart_Kept(d, fault) == AppendPart(Create(d, fault), fault, d.seg.part)
WritePart(d, fault) == AppendPart(Create(d, fault), fault, <<>>)

(* The duration goes to the header (of fMP4) and to the hook; a file that  *)
(* is closed already is left alone.                                        *)
CloseFile(w, without) ==
  IF w.seg.file \in without THEN w
  ELSE [w EXCEPT
         !.store = IF case.format = "mpegts" THEN @
                   ELSE WithDuration(w, w.seg.end - w.seg.dts),
         !.hooks = Called(w, "complete"),
         !.seg.file = "closed"]

\* Faulty variant: it does not look whether the file is closed.
CloseSegment_Again(d, fault) ==
  CloseFile(IF d.seg.part = <<>> THEN d ELSE WritePart(d, fault), {None})
CloseSegment(d, fault) ==
  CloseFile(IF d.seg.part = <<>> THEN d ELSE WritePart(d, fault), {None, "closed"})

-----------------------------------------------------------------------------
(* The samples.                                                            *)

Drifts(t, ntp, dts) ==
  /\ started[t] # None
  /\ \/ dts - ntp - started[t] > DriftTolerance
     \/ started[t] - (dts - ntp) > DriftTolerance

(* The part is long enough: the sample begins another one. *)
PartIsOver(part) ==
  part # <<>> /\ MaxOf({part[i].dts + part[i].duration : i \in DOMAIN part})
                   - part[1].dts >= PartDuration

(* segment.write and part.write. *)
AppendSample(w, sample) ==
  IF ~w.ok THEN [w EXCEPT !.seg.part = <<>>]
  ELSE IF Len(w.seg.part) = MaxPartSize THEN [w EXCEPT !.ok = FALSE]
  ELSE [w EXCEPT !.seg.part = Append(@, sample)]

Lasts(d, end) == [d EXCEPT !.seg.end = MaxOf({@, end})]

\* Faulty variant: the segment ends where its last sample begins.
WriteSample_Short(d, sample, fault) ==
  AppendSample(IF PartIsOver(d.seg.part) THEN WritePart(Lasts(d, sample.dts), fault)
               ELSE Lasts(d, sample.dts), sample)

WriteSample(d, sample, fault) ==
  LET end == sample.dts + sample.duration
  IN AppendSample(IF PartIsOver(d.seg.part) THEN WritePart(Lasts(d, end), fault)
                  ELSE Lasts(d, end), sample)

(* nextSegmentStartingPos: the oldest of the samples that wait, within     *)
(* MaxBasetime of the newest one.                                          *)
NextSegmentStarts(waiting) ==
  LET newest == MaxOf({x.dts : x \in waiting})
      recent == {x \in waiting : newest - x.dts <= MaxBasetime}
  IN {x \in recent : \A y \in recent : x.dts <= y.dts}

HasVideo == next[Video] # None
EndsSegment(t, x, s) ==
  (t = Video \/ ~HasVideo) /\ x.sync /\ x.dts - s.dts >= SegmentDuration

(* track.write of fMP4: a sample is written when the next one, which gives *)
(* its duration, arrives.                                                  *)
WriteFMP4(t, ntp, dts, sync, fault) ==
  LET prev    == next[t]
      x       == [track |-> t, n |-> received[t] + 1, ntp |-> ntp, sync |-> sync,
                  dts |-> IF prev = None THEN dts ELSE MaxOf({dts, prev.dts})]
      sample  == [track |-> t, n |-> prev.n, sync |-> prev.sync, dts |-> prev.dts,
                  duration |-> x.dts - prev.dts]
      waiting == {y \in {next'[u] : u \in Tracks} : y # None}
      first   == IF seg = None THEN number + 1 ELSE number
  IN /\ next' = [next EXCEPT ![t] = x]
     /\ IF prev = None
        THEN UNCHANGED <<started, number, seg, store, hooks, recorder>>
        ELSE IF Drifts(t, prev.ntp, prev.dts)
        THEN recorder' = "failed" /\ UNCHANGED <<started, number, seg, store, hooks>>
        ELSE /\ started' = IF started[t] # None THEN started
                           ELSE [started EXCEPT ![t] = prev.dts - prev.ntp]
             /\ \E current \in {IF seg # None THEN seg
                                ELSE NewSegment(prev.dts, prev.ntp, number)} :
                IF prev.dts < current.dts
                THEN UNCHANGED <<number, seg, store, hooks, recorder>>
                ELSE \E d \in {WriteSample(Disk(current), sample, fault)},
                        over \in {EndsSegment(t, x, current)} :
                     \E c \in {IF d.ok /\ over THEN CloseSegment(d, fault) ELSE d} :
                       /\ store' = c.store /\ hooks' = c.hooks
                       /\ recorder' = IF c.ok THEN "running" ELSE "failed"
                       /\ IF c.ok /\ over
                          THEN /\ number' = first + 1
                               /\ \E y \in NextSegmentStarts(waiting) :
                                    seg' = NewSegment(y.dts, y.ntp, first)
                          ELSE seg' = c.seg /\ number' = first

(* track.write of MPEG-TS: the sample goes to a buffer, which is flushed   *)
(* now and then, or when it is full, to the segment that is current then.  *)
(* What cannot be flushed is lost.                                         *)
WriteTS(t, ntp, dts, sync, fault) ==
  LET sample == [track |-> t, n |-> received[t] + 1]
      Over(s) == /\ seg # None /\ (t = Video \/ ~HasVideo) /\ sync
                 /\ dts - s.dts >= SegmentDuration
      Flush(s) == IF Over(s) THEN CloseSegment([Disk(s) EXCEPT !.seg.end = dts], fault)
                  ELSE IF seg # None /\ dts - s.flushed >= PartDuration
                  THEN WritePart(Disk([s EXCEPT !.flushed = dts]), fault)
                  ELSE Disk(s)
      With(s) == [s EXCEPT !.end = dts, !.part = Append(@, sample)]
      Add(d)  == IF Len(d.seg.part) > MaxPartSize THEN WritePart(d, fault) ELSE d
  IN /\ next' = [next EXCEPT ![t] = [n |-> 0, ntp |-> ntp]]
     /\ IF Drifts(t, ntp, dts)
        THEN recorder' = "failed" /\ UNCHANGED <<started, number, seg, store, hooks>>
        ELSE /\ started' = IF started[t] # None THEN started
                           ELSE [started EXCEPT ![t] = dts - ntp]
             /\ \E current \in {IF seg = None THEN NewSegment(dts, ntp, number) ELSE seg} :
                \E d \in {Flush(current)} :
                  /\ number' = IF d.ok /\ (Over(current) \/ seg = None)
                               THEN number + 1 ELSE number
                  /\ \E w \in {IF ~d.ok THEN d
                               ELSE Add([d EXCEPT !.seg =
                                  With(IF Over(current) THEN NewSegment(dts, ntp, number)
                                       ELSE @)])} :
                       /\ store' = w.store /\ hooks' = w.hooks
                       /\ recorder' = IF w.ok THEN "running" ELSE "failed"
                       /\ seg' = IF w.ok THEN w.seg ELSE [w.seg EXCEPT !.part = <<>>]

-----------------------------------------------------------------------------
(* The recorder.                                                           *)

\* Faulty variant: the segment stays for the next instance.
NoInstance_Kept ==
  /\ UNCHANGED seg /\ next' = [t \in Tracks |-> None]
  /\ started' = [t \in Tracks |-> None]

NoInstance ==
  /\ seg' = None /\ next' = [t \in Tracks |-> None]
  /\ started' = [t \in Tracks |-> None]

(* Video begins with a sample that can be decoded on its own; all of audio *)
(* can.                                                                    *)
VideoSyncs == IF HasVideo THEN BOOLEAN ELSE {TRUE}
AudioSyncs == {TRUE}

Receive(t) ==
  LET dts == clock + offset[t]
  IN /\ recorder = "running" /\ dts >= 0
     /\ received[Video] + received[Audio] < case.samples
     /\ \A u \in {t, Video} : next[u] # None => next[u].ntp < clock
     /\ received' = [received EXCEPT ![t] = @ + 1]
     /\ \E sync \in IF t = Video THEN VideoSyncs ELSE AudioSyncs,
          fault \in {None} \cup IF faults < case.faults THEN Faults ELSE {} :
          /\ \/ case.format = "fmp4" /\ WriteFMP4(t, clock, dts, sync, fault)
             \/ /\ case.format = "mpegts" /\ fault # "header"
                /\ WriteTS(t, clock, dts, sync, fault)
          /\ IF fault = None THEN UNCHANGED faults
             ELSE faults' = faults + 1 /\ recorder' = "failed"
     /\ UNCHANGED <<clock, case, offset, stream>>

(* The queue of the reader is full. *)
ReaderFails ==
  /\ recorder = "running" /\ faults < case.faults
  /\ recorder' = "failed" /\ faults' = faults + 1
  /\ UNCHANGED <<clock, case, offset, store, writing, hooks>>

(* format.close *)
CloseFormat ==
  IF seg = None THEN UNCHANGED <<store, hooks>>
  ELSE LET d == CloseSegment(Disk(seg), None) IN store' = d.store /\ hooks' = d.hooks

InstanceEnds ==
  /\ recorder = "failed" /\ recorder' = "pausing"
  /\ CloseFormat /\ NoInstance
  /\ UNCHANGED <<clock, case, offset, stream, received, number, faults>>

(* The path starts to record, or the pause of the recorder is over: that   *)
(* takes time.                                                             *)
Initialize ==
  /\ recorder \in {"off", "pausing"} /\ stream < MaxStreams /\ clock < MaxTime
  /\ recorder' = "running" /\ stream' = stream + 1 /\ number' = 0
  /\ clock' = clock + 1
  /\ UNCHANGED <<case, offset, store, received, started, next, seg, hooks,
                 faults>>

Close ==
  /\ recorder # "off" /\ recorder' = "off"
  /\ CloseFormat /\ NoInstance
  /\ UNCHANGED <<clock, case, offset, stream, received, number, faults>>

(* The server is killed: what is not on disk is lost. *)
Crash ==
  /\ recorder # "off" /\ recorder' = "off" /\ faults < case.faults
  /\ faults' = faults + 1
  /\ NoInstance
  /\ UNCHANGED <<clock, case, offset, store, stream, received, number, hooks>>

-----------------------------------------------------------------------------
(* Those who remove segments, even the one that is being written.          *)

Unlink(files) ==
  /\ store' = store \ files
  /\ seg' = IF seg # None /\ seg.file = "open" /\ (\E f \in files : f.start = seg.start)
            THEN [seg EXCEPT !.file = "removed"] ELSE seg
  /\ UNCHANGED <<clock, case, offset, recorder, stream, received, started, next,
                 number, hooks>>

(* processPath of the cleaner. *)
\* Faulty variant: a segment goes before it is old enough.
Expired_Early == {f \in store : f.start < clock - case.deleteAfter + 2}

Expired == {f \in store : f.start <= clock - case.deleteAfter}
Clean ==
  /\ case.deleteAfter # 0 /\ Expired # {} /\ Unlink(Expired)
  /\ UNCHANGED faults

(* onRecordingDeleteSegment *)
DeleteSegment ==
  /\ faults < case.faults /\ faults' = faults + 1
  /\ \E f \in store : Unlink({f})

-----------------------------------------------------------------------------
(* The clock, and the one of the publisher.                                *)

Tick ==
  /\ clock < MaxTime
  /\ clock' = clock + 1
  /\ UNCHANGED <<case, offset, store, recorder, writing, hooks, faults>>

Jump(t) ==
  /\ faults < case.faults
  /\ faults' = faults + 1
  /\ offset' \in {[offset EXCEPT ![t] = o] : o \in Offsets \ {offset[t]}}
  /\ UNCHANGED <<clock, case, store, recorder, writing, hooks>>

Init ==
  /\ clock = 0 /\ case \in Cases
  /\ offset \in [Tracks -> Offsets] /\ \E t \in Tracks : offset[t] = 0
  /\ store = {} /\ recorder = "off" /\ stream = 0 /\ number = 0
  /\ received = [t \in Tracks |-> 0] /\ started = [t \in Tracks |-> None]
  /\ next = [t \in Tracks |-> None] /\ seg = None /\ hooks = <<>> /\ faults = 0

Next ==
  \/ \E t \in Tracks : Receive(t) \/ Jump(t)
  \/ ReaderFails \/ InstanceEnds \/ Initialize \/ Close \/ Crash
  \/ Clean \/ DeleteSegment \/ Tick

Spec == Init /\ [][Next]_vars

-----------------------------------------------------------------------------
(* Safety.                                                                 *)

(* The samples of a track in a segment: all, the first and the last one.   *)
Held(f, t) == {s \in UNION {Range(part) : part \in Range(f.parts)} : s.track = t}
IsFirst(s, samples) == \A r \in samples : s.n <= r.n
IsLast(s, samples) == \A r \in samples : r.n <= s.n

Earlier(f, g) == f.stream < g.stream \/ (f.stream = g.stream /\ f.number < g.number)
Follows(f, g) == f.stream = g.stream /\ g.number = f.number + 1
VideoIsNotLate == \A t \in Tracks : offset[t] - offset[Video] <= MaxBasetime

(* Whatever fails, no sample is in two places of the recordings, those of  *)
(* a track are in the order of the segments, and none is before the        *)
(* beginning of its segment ("negative basetimes (impossible) in fMP4").   *)
(* If segments are long their names, by which they are found, are in that  *)
(* order too.  Without a fault the video of a segment goes on where that   *)
(* of the previous one has stopped, with a key frame; but if other tracks  *)
(* are ahead of it by more than MaxBasetime the segment begins after that  *)
(* key frame.                                                              *)
SamplesAreKept ==
  /\ \A f \in store, t \in Tracks :
       /\ \A g \in store : Earlier(f, g) =>
            /\ \A s \in Held(f, t), r \in Held(g, t) : s.n < r.n
            /\ LongSegments => f.start < g.start
       /\ \A i, k \in DOMAIN f.parts :
            \A j \in DOMAIN f.parts[i], l \in DOMAIN f.parts[k] :
              /\ f.parts[i][j].track = t /\ f.parts[k][l].track = t
              /\ i < k \/ (i = k /\ j < l)
              => f.parts[i][j].n < f.parts[k][l].n
       /\ case.format = "fmp4" => \A s \in Held(f, t) : s.dts >= f.dts
  /\ case.format = "fmp4" /\ faults = 0 /\ VideoIsNotLate =>
       \A f, g \in store : Follows(f, g) =>
         \A p \in Held(f, Video), s \in Held(g, Video) :
           IsLast(p, Held(f, Video)) /\ IsFirst(s, Held(g, Video)) =>
             s.sync /\ s.n = p.n + 1

(* The commands are told of each segment once, and of its end if and when  *)
(* it is closed; only a segment whose file could not be written is begun   *)
(* again.                                                                  *)
HooksAgree ==
  \A i \in DOMAIN hooks :
    LET k == Tail(hooks[i])
        At(hook) == {j \in DOMAIN hooks : hooks[j] = <<hook>> \o k}
    IN /\ Cardinality(At("complete")) <= 1
       /\ \A j \in At("complete") : \E c \in At("create") : c < j
       /\ faults = 0 =>
            /\ Cardinality(At("create")) = 1
            /\ \/ Cardinality(At("complete")) = 1
               \/ seg # None /\ k = <<seg.stream, seg.number>>

(* A header that the recorder has finished tells how long its samples      *)
(* last, and more if a sample has been refused since the last part was     *)
(* full; an unfinished one is made up for from the last part, which never  *)
(* tells more.                                                             *)
DurationsAreTrue ==
  case.format = "fmp4" /\ faults = 0 =>
    \A f \in store :
      LET samples == UNION {Held(f, t) : t \in Tracks}
      IN /\ f.header
         /\ f.duration # 0 =>
              /\ \A s \in samples : EndIn(f, s) <= f.duration
              /\ Len(Last(f.parts)) < MaxPartSize =>
                   \E s \in samples : EndIn(f, s) = f.duration
         /\ f.duration = 0 /\ ~Unreadable(f) =>
              Duration(f) = 0 \/ \E s \in samples : EndIn(f, s) = Duration(f)

(* A segment goes only when it is too old or the API says so, or if        *)
(* segments are so short that a later one of the same instance begins with *)
(* the same sample: then that one has its name, and overwrites it.         *)
SegmentsStay ==
  [][\A f \in store :
       \/ \E g \in store' : /\ g.start = f.start /\ g.stream = f.stream
                            /\ \/ g.number = f.number
                               \/ g.number > f.number /\ ~LongSegments
       \/ case.deleteAfter # 0 /\ f.start + case.deleteAfter <= clock
       \/ faults' > faults]_vars

-----------------------------------------------------------------------------
(* What the playback server makes of them.                                 *)

Times == {None} \cup Asked

(* The entries of a list are one after the other, within what has been     *)
(* asked for and what there is, and hold every sample that is there and is *)
(* between.                                                                *)
ListAgrees ==
  case.format = "fmp4" /\ LongSegments =>
  \A start \in Times, end \in Times : \A entries \in {List(store, start, end)} :
    LET Between(at) == (start = None \/ start <= at) /\ (end = None \/ at < end)
    IN /\ entries # None
       /\ start = None \/ end = None \/ start <= end
       => /\ \A i \in DOMAIN entries :
               /\ entries[i].duration >= 0
               /\ start = None \/ start <= entries[i].start
               /\ end = None \/ EndOf(entries[i]) <= end
               /\ \E f \in store : EndOf(entries[i]) <= f.start + Duration(f)
               /\ i > 1 => EndOf(entries[i - 1]) <= entries[i].start
          /\ \A f \in store, at \in 0..MaxTime :
               ~Unreadable(f) /\ f.start <= at /\ at < f.start + Duration(f)
               /\ Between(at) =>
                 \E i \in DOMAIN entries :
                   entries[i].start <= at /\ at < EndOf(entries[i])

(* How far the time stamps of the tracks are apart: the names of the       *)
(* segments disagree with them by as much.                                 *)
Skew ==
  IF faults = 0 THEN MaxOf({offset[t] - offset[u] : t, u \in Tracks})
  ELSE MaxOf({o - p : o, p \in Offsets})

KeyFirst(f, t) == \A s \in Held(f, t) : IsFirst(s, Held(f, t)) => s.sync

(* Whoever asks for an entry, or for the rest of it, gets every sample of  *)
(* it that lasts, when it is due, and before them no more than it takes to *)
(* decode them.                                                            *)
GetAgrees ==
  case.format = "fmp4" /\ LongSegments => \A entries \in {List(store, None, None)} :
    entries # None =>
      \A e \in Range(entries), t \in Tracks, late \in {0} \cup Asked :
        late < e.duration =>
          \A chain \in {Chain(FindSegments(store, e.start, EndOf(e)))},
             got \in {Get(store, t, e.start + late, e.duration - late)} :
            LET When(s) == s.dts - chain[1].dts - late
                Due(s)  == /\ s.duration > 0
                           /\ When(s) >= IF late = 0 THEN 0 ELSE Skew + MaxBasetime
                           /\ When(s) < e.duration - late - Skew
            IN /\ got # None
               /\ \A f \in Range(chain) : \A s \in Held(f, t) :
                    Due(s) => \E x \in Range(got) :
                                x.sample = s /\ x.when - When(s) \in -Skew..Skew
               /\ \A j \in DOMAIN got :
                    got[j].sample.sync => j = 1 \/ got[j].when >= 0
               /\ got # <<>> /\ (\A f \in store : KeyFirst(f, t)) =>
                    got[1].sample.sync
=============================================================================
