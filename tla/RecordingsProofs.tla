-------------------------- MODULE RecordingsProofs --------------------------
(***************************************************************************)
(* What holds of what becomes of a stream: of what the recorder leaves on  *)
(* disk and of the commands it calls (Recordings), for any cases, tracks,  *)
(* offsets of the clocks, durations and bounds, and of what the viewers    *)
(* are sent (Relay), for any tracks, frames, losses and widths.  A segment *)
(* begins after those on disk, so the file that a new one replaces is none *)
(* of another stream, nor of another segment at all if segments are long;  *)
(* and the samples that wait, those of the segment at hand and those on    *)
(* disk follow one another.                                                *)
(***************************************************************************)
EXTENDS MCMedia, FiniteSetTheorems, WellFoundedInduction, TLAPS

Disks == [seg : Segments, store : SUBSET Files, hooks : Seq(Calls), ok : BOOLEAN]

\* The name of a segment and its place, and the files that are there: those of
\* other segments are older, by name too if segments are long.  A segment that
\* is short may take the name of one before it, and then its file.
Same(f, g) == f.start = g.start /\ f.stream = g.stream /\ f.number = g.number
Older(f, s) ==
  \/ f.stream < s.stream /\ f.start < s.start
  \/ f.stream = s.stream /\ f.number < s.number /\ (LongSegments => f.start < s.start)
FilesFit(files, s) ==
  /\ \A f, g \in files : f.start = g.start => f = g
  /\ \A f \in files : Older(f, s) \/ Same(f, s)
  /\ s.file # None => \A f \in files : f.start = s.start => Same(f, s)
Takes(g, f) ==
  /\ g.start = f.start /\ g.stream = f.stream
  /\ g.number = f.number \/ (g.number > f.number /\ ~LongSegments)
Keeps(old, new) == \A f \in old : \E g \in new : Takes(g, f)
Comes(old, new, s) == \A g \in new : Same(g, s) \/ \E f \in old : Same(g, f)

\* What an operation on the disk leaves alone of the segment.
Stays(d, c) ==
  /\ c \in Disks /\ Same(c.seg, d.seg) /\ c.seg.dts = d.seg.dts
  /\ FilesFit(d.store, d.seg) =>
       /\ FilesFit(c.store, c.seg) /\ Keeps(d.store, c.store)
       /\ Comes(d.store, c.store, d.seg)

LEMMA StaysItself == ASSUME NEW d \in Disks PROVE Stays(d, d)
BY DEF Stays, Same, Keeps, Takes, Comes

LEMMA KeepsOn ==
  ASSUME NEW X \in SUBSET Files, NEW Y \in SUBSET Files, NEW Z \in SUBSET Files,
         Keeps(X, Y), Keeps(Y, Z)
  PROVE  Keeps(X, Z)
<1>1. ASSUME NEW f \in X PROVE \E h \in Z : Takes(h, f)
  <2>1. PICK g \in Y : Takes(g, f)
    BY DEF Keeps
  <2>2. PICK h \in Z : Takes(h, g)
    BY DEF Keeps
  <2>3. f.number \in Nat /\ g.number \in Nat /\ h.number \in Nat
    BY DEF Files
  <2>4. Takes(h, f)
    BY <2>1, <2>2, <2>3 DEF Takes
  <2> QED
    BY <2>4
<1> QED
  BY <1>1 DEF Keeps

LEMMA StaysOn ==
  ASSUME NEW b \in Disks, NEW c, NEW d, Stays(b, c), Stays(c, d) PROVE Stays(b, d)
<1>1. Same(d.seg, b.seg) /\ d \in Disks /\ d.seg.dts = b.seg.dts
  BY DEF Stays, Same
<1>2. ASSUME FilesFit(b.store, b.seg)
      PROVE  /\ FilesFit(d.store, d.seg) /\ Keeps(b.store, d.store)
             /\ Comes(b.store, d.store, b.seg)
  <2>1. /\ FilesFit(c.store, c.seg) /\ Keeps(b.store, c.store)
        /\ Comes(b.store, c.store, b.seg)
    BY <1>2 DEF Stays
  <2>2. /\ FilesFit(d.store, d.seg) /\ Keeps(c.store, d.store)
        /\ Comes(c.store, d.store, c.seg)
    BY <2>1 DEF Stays
  <2>4. Keeps(b.store, d.store)
    BY <2>1, <2>2, KeepsOn DEF Stays, Disks
  <2>5. Comes(b.store, d.store, b.seg)
    <3>1. Same(c.seg, b.seg)
      BY DEF Stays
    <3> QED
      BY <2>1, <2>2, <3>1 DEF Comes, Same
  <2> QED
    BY <2>2, <2>4, <2>5
<1> QED
  BY <1>1, <1>2 DEF Stays

\* Another record of the same segment, without a change of the store.
LEMMA StaysWith ==
  ASSUME NEW d \in Disks, NEW c \in Disks, c.store = d.store, Same(c.seg, d.seg),
         c.seg.dts = d.seg.dts, c.seg.file # None => d.seg.file # None
  PROVE  Stays(d, c)
<1>1. FilesFit(d.store, d.seg) => FilesFit(c.store, c.seg)
  BY DEF Same, Older, FilesFit
<1>2. Keeps(d.store, c.store) /\ Comes(d.store, c.store, d.seg)
  BY DEF Keeps, Takes, Comes, Same
<1> QED
  BY <1>1, <1>2 DEF Stays

LEMMA CreateEffect ==
  ASSUME NEW d \in Disks, NEW fault \in Faults \cup {None},
         NEW c, c = Create(d, fault)
  PROVE  \/ d.seg.file # None /\ c = d
         \/ /\ d.seg.file = None /\ fault # None /\ c = [d EXCEPT !.ok = FALSE]
         \/ /\ d.seg.file = None /\ fault # "create"
            /\ \E f \in Files :
                 /\ Same(f, d.seg) /\ f.dts = d.seg.dts
                 /\ f.parts = <<>> /\ f.duration = 0 /\ f.header = (fault # "header")
                 /\ c = [seg |-> [d.seg EXCEPT !.file = IF fault # "header" THEN "open" ELSE None],
                         store |-> {g \in d.store : g.start # f.start} \cup {f},
                         hooks |-> Append(d.hooks, <<"create", d.seg.stream, d.seg.number>>),
                         ok |-> fault # "header"]
<1>1. CASE d.seg.file # None
  BY <1>1 DEF Create
<1>2. CASE d.seg.file = None /\ fault = "create"
  BY <1>2, NoneAssumption DEF Create, Faults
<1>3. CASE d.seg.file = None /\ fault # "create"
  <2>1. PICK f : f = [FileOf(d.seg) EXCEPT !.header = fault # "header"]
    OBVIOUS
  <2>2. f = [stream |-> d.seg.stream, number |-> d.seg.number, dts |-> d.seg.dts,
             start |-> d.seg.start, header |-> fault # "header", duration |-> 0, parts |-> <<>>]
    BY <2>1 DEF FileOf
  <2>3. /\ f \in Files /\ Same(f, d.seg) /\ f.dts = d.seg.dts
        /\ f.parts = <<>> /\ f.duration = 0 /\ f.header = (fault # "header")
    BY <2>2 DEF Files, Disks, Segments, Same
  <2>4. c = [d EXCEPT !.store = {g \in @ : g.start # f.start} \cup {f},
                    !.hooks = Called(d, "create"),
                    !.ok = f.header,
                    !.seg.file = IF f.header THEN "open" ELSE None]
    BY <1>3, <2>1 DEF Create
  <2>5. f.header = (fault # "header")
    BY <2>2
  <2>6. c = [seg |-> [d.seg EXCEPT !.file = IF fault # "header" THEN "open" ELSE None],
             store |-> {g \in d.store : g.start # f.start} \cup {f},
             hooks |-> Called(d, "create"),
             ok |-> fault # "header"]
    BY <2>4, <2>5 DEF Disks
  <2> QED
    BY <1>3, <2>3, <2>6 DEF Called
<1> QED
  BY <1>1, <1>2, <1>3

LEMMA CreateStays ==
  ASSUME NEW d \in Disks, NEW fault \in Faults \cup {None}
  PROVE  Stays(d, Create(d, fault))
<1>1. PICK c : c = Create(d, fault)
  OBVIOUS
<1>2. CASE c = d
  BY <1>1, <1>2, StaysItself
<1>3. CASE c = [d EXCEPT !.ok = FALSE]
  <2>1. c \in Disks /\ c.store = d.store /\ c.seg = d.seg
    BY <1>3 DEF Disks
  <2> QED
    BY <1>1, <2>1, StaysWith DEF Same
<1>4. ASSUME NEW f \in Files, Same(f, d.seg),
             c = [seg |-> [d.seg EXCEPT !.file = IF fault # "header" THEN "open" ELSE None],
                  store |-> {g \in d.store : g.start # f.start} \cup {f},
                  hooks |-> Append(d.hooks, <<"create", d.seg.stream, d.seg.number>>),
                  ok |-> fault # "header"]
      PROVE  Stays(d, c)
  <2>1. d.seg \in Segments /\ d.store \subseteq Files /\ d.hooks \in Seq(Calls)
    BY DEF Disks
  <2>2. /\ c.seg \in Segments /\ Same(c.seg, d.seg) /\ c.seg.dts = d.seg.dts
    BY <1>4, <2>1 DEF Segments, Same
  <2>3. <<"create", d.seg.stream, d.seg.number>> \in Calls
    BY <2>1 DEF Calls, Segments
  <2>4. c.hooks \in Seq(Calls)
    BY <1>4, <2>1, <2>3
  <2>5. c.store = {g \in d.store : g.start # f.start} \cup {f} /\ c.store \subseteq Files
    BY <1>4, <2>1
  <2>6. c \in Disks
    BY <1>4, <2>2, <2>4, <2>5 DEF Disks
  <2>7. ASSUME FilesFit(d.store, d.seg)
        PROVE  /\ FilesFit(c.store, c.seg) /\ Keeps(d.store, c.store)
               /\ Comes(d.store, c.store, d.seg)
    <3>1. f \in c.store /\ \A g \in d.store : g.start # f.start => g \in c.store
      BY <2>5
    <3>2. \A g \in c.store : g = f \/ (g \in d.store /\ g.start # f.start)
      BY <2>5
    <3>3. ASSUME NEW g \in d.store, g.start = f.start PROVE Takes(f, g)
      <4>1. Older(g, d.seg) \/ Same(g, d.seg)
        BY <2>7 DEF FilesFit
      <4>2. /\ g.start \in Nat /\ d.seg.start \in Nat /\ g.start = d.seg.start
            /\ g.number \in Nat /\ d.seg.number \in Nat
        BY <1>4, <2>1, <3>3 DEF Same, Segments, Files
      <4> QED
        BY <1>4, <4>1, <4>2 DEF Same, Older, Takes
    <3>4. Keeps(d.store, c.store)
      <4>1. \A g \in d.store : Takes(g, g)
        BY DEF Takes
      <4> QED
        BY <3>1, <3>3, <4>1 DEF Keeps
    <3>5. Comes(d.store, c.store, d.seg)
      BY <1>4, <3>2 DEF Comes, Same
    <3>6. \A g, h \in c.store : g.start = h.start => g = h
      BY <2>7, <3>2 DEF FilesFit
    <3>7. \A g \in c.store : Older(g, c.seg) \/ Same(g, c.seg)
      BY <1>4, <2>2, <2>7, <3>2 DEF FilesFit, Same, Older
    <3>8. \A g \in c.store : g.start = c.seg.start => Same(g, c.seg)
      BY <1>4, <2>2, <3>2 DEF Same
    <3> QED
      BY <3>4, <3>5, <3>6, <3>7, <3>8 DEF FilesFit
  <2> QED
    BY <2>2, <2>6, <2>7 DEF Stays
<1> QED
  BY <1>1, <1>2, <1>3, <1>4, CreateEffect

\* The file of the segment is replaced by one of the same name and place.
LEMMA ReplaceStays ==
  ASSUME NEW d \in Disks, NEW c \in Disks, NEW F \in [FileOn(d) -> Files],
         \A f \in FileOn(d) : Same(F[f], f),
         c.store = (d.store \ FileOn(d)) \cup {F[f] : f \in FileOn(d)},
         Same(c.seg, d.seg), c.seg.dts = d.seg.dts, c.seg.file # None => d.seg.file # None
  PROVE  Stays(d, c)
<1>1. FileOn(d) \subseteq d.store
  BY DEF FileOn
<1>2. ASSUME FilesFit(d.store, d.seg)
      PROVE  /\ FilesFit(c.store, c.seg) /\ Keeps(d.store, c.store)
             /\ Comes(d.store, c.store, d.seg)
  <2>1. \A f, g \in d.store : f.start = g.start => f = g
    BY <1>2 DEF FilesFit
  <2>2. ASSUME NEW g \in c.store PROVE \E f \in d.store : Same(g, f) /\ (g = f \/ g = F[f])
    <3>1. CASE g \in d.store
      BY <3>1 DEF Same
    <3>2. CASE g \notin d.store
      <4>1. PICK f \in FileOn(d) : g = F[f]
        BY <3>2
      <4> QED
        BY <1>1, <4>1
    <3> QED
      BY <3>1, <3>2
  <2>3. ASSUME NEW g \in c.store, NEW h \in c.store, g.start = h.start PROVE g = h
    <3>1. PICK f \in d.store :
            /\ Same(g, f)
            /\ (f \notin FileOn(d) /\ g = f) \/ (f \in FileOn(d) /\ g = F[f])
      <4>1. CASE g \in d.store \ FileOn(d)
        <5>1. g \in d.store /\ g \notin FileOn(d) /\ Same(g, g)
          BY <4>1 DEF Same
        <5> QED
          BY <5>1
      <4>2. CASE g \notin d.store \ FileOn(d)
        <5>1. PICK f \in FileOn(d) : g = F[f]
          BY <4>2
        <5> QED
          BY <1>1, <5>1
      <4> QED
        BY <4>1, <4>2
    <3>2. PICK e \in d.store :
            /\ Same(h, e)
            /\ (e \notin FileOn(d) /\ h = e) \/ (e \in FileOn(d) /\ h = F[e])
      <4>1. CASE h \in d.store \ FileOn(d)
        <5>1. h \in d.store /\ h \notin FileOn(d) /\ Same(h, h)
          BY <4>1 DEF Same
        <5> QED
          BY <5>1
      <4>2. CASE h \notin d.store \ FileOn(d)
        <5>1. PICK f1 \in FileOn(d) : h = F[f1]
          BY <4>2
        <5> QED
          BY <1>1, <5>1
      <4> QED
        BY <4>1, <4>2
    <3>3. f = e
      BY <2>1, <2>3, <3>1, <3>2 DEF Same
    <3> QED
      BY <3>1, <3>2, <3>3
  <2>4. ASSUME NEW g \in c.store
        PROVE  /\ Older(g, c.seg) \/ Same(g, c.seg)
               /\ c.seg.file # None /\ g.start = c.seg.start => Same(g, c.seg)
    <3>1. PICK f \in d.store : Same(g, f)
      BY <2>2
    <3>2. /\ Older(f, d.seg) \/ Same(f, d.seg)
          /\ d.seg.file # None /\ f.start = d.seg.start => Same(f, d.seg)
      BY <1>2 DEF FilesFit
    <3> QED
      BY <3>1, <3>2 DEF Same, Older
  <2>5. Keeps(d.store, c.store)
    <3>1. ASSUME NEW f \in d.store PROVE \E g \in c.store : Takes(g, f)
      <4>1. CASE f \in FileOn(d)
        <5>1. F[f] \in c.store /\ Same(F[f], f)
          BY <4>1
        <5> QED
          BY <5>1 DEF Same, Takes
      <4>2. CASE f \notin FileOn(d)
        BY <4>2 DEF Takes
      <4> QED
        BY <4>1, <4>2
    <3> QED
      BY <3>1 DEF Keeps
  <2>6. Comes(d.store, c.store, d.seg)
    BY <2>2 DEF Comes
  <2> QED
    BY <2>3, <2>4, <2>5, <2>6 DEF FilesFit
<1> QED
  BY <1>2 DEF Stays

LEMMA WithPartIs ==
  ASSUME NEW d \in Disks
  PROVE  \E F \in [FileOn(d) -> Files] :
           /\ \A f \in FileOn(d) : Same(F[f], f)
           /\ WithPart(d) = (d.store \ FileOn(d)) \cup {F[f] : f \in FileOn(d)}
<1> DEFINE F == [f \in FileOn(d) |-> [f EXCEPT !.parts = Append(@, d.seg.part)]]
<1>1. ASSUME NEW f \in FileOn(d) PROVE F[f] \in Files /\ Same(F[f], f)
  <2>1. f \in Files /\ d.seg.part \in Seq(Samples)
    BY DEF FileOn, Disks, Segments
  <2>2. Append(f.parts, d.seg.part) \in Seq(Seq(Samples))
    BY <2>1 DEF Files
  <2> QED
    BY <2>1, <2>2 DEF Files, Same
<1>2. WithPart(d) = (d.store \ FileOn(d)) \cup {F[f] : f \in FileOn(d)}
  BY DEF WithPart
<1> QED
  BY <1>1, <1>2

LEMMA WithDurationIs ==
  ASSUME NEW d \in Disks, NEW duration \in Int
  PROVE  \E F \in [FileOn(d) -> Files] :
           /\ \A f \in FileOn(d) : Same(F[f], f)
           /\ WithDuration(d, duration) = (d.store \ FileOn(d)) \cup {F[f] : f \in FileOn(d)}
<1> DEFINE F == [f \in FileOn(d) |-> [f EXCEPT !.duration = duration]]
<1>1. ASSUME NEW f \in FileOn(d) PROVE F[f] \in Files /\ Same(F[f], f)
  <2>1. f \in Files
    BY DEF FileOn, Disks
  <2> QED
    BY <2>1 DEF Files, Same
<1>2. WithDuration(d, duration) = (d.store \ FileOn(d)) \cup {F[f] : f \in FileOn(d)}
  BY DEF WithDuration
<1> QED
  BY <1>1, <1>2

LEMMA AppendPartEffect ==
  ASSUME NEW c \in Disks, NEW fault, NEW rest, NEW w, w = AppendPart(c, fault, rest)
  PROVE  \/ /\ ~c.ok \/ fault = "part" \/ c.seg.file = "closed"
            /\ w = [c EXCEPT !.ok = FALSE]
         \/ /\ c.ok /\ fault # "part" /\ c.seg.file # "closed"
            /\ w = [seg |-> [c.seg EXCEPT !.part = rest], store |-> WithPart(c),
                    hooks |-> c.hooks, ok |-> TRUE]
<1>1. CASE ~c.ok \/ fault = "part" \/ c.seg.file = "closed"
  BY <1>1 DEF AppendPart
<1>2. CASE ~(~c.ok \/ fault = "part" \/ c.seg.file = "closed")
  <2>1. w = [c EXCEPT !.store = WithPart(c), !.seg.part = rest]
    BY <1>2 DEF AppendPart
  <2> QED
    BY <1>2, <2>1 DEF Disks
<1> QED
  BY <1>1, <1>2

LEMMA AppendPartStays ==
  ASSUME NEW c \in Disks, NEW fault, NEW rest \in Seq(Samples)
  PROVE  Stays(c, AppendPart(c, fault, rest))
<1>1. PICK w : w = AppendPart(c, fault, rest)
  OBVIOUS
<1>2. CASE w = [c EXCEPT !.ok = FALSE]
  <2>1. w \in Disks /\ w.store = c.store /\ w.seg = c.seg
    BY <1>2 DEF Disks
  <2> QED
    BY <1>1, <2>1, StaysWith DEF Same
<1>3. CASE w = [seg |-> [c.seg EXCEPT !.part = rest], store |-> WithPart(c),
                hooks |-> c.hooks, ok |-> TRUE]
  <2>1. PICK F \in [FileOn(c) -> Files] :
          /\ \A f \in FileOn(c) : Same(F[f], f)
          /\ WithPart(c) = (c.store \ FileOn(c)) \cup {F[f] : f \in FileOn(c)}
    BY WithPartIs
  <2>2. w.store = (c.store \ FileOn(c)) \cup {F[f] : f \in FileOn(c)}
    BY <1>3, <2>1
  <2>3. w.store \subseteq Files
    BY <2>1, <2>2 DEF Disks
  <2>4. /\ w.seg \in Segments /\ Same(w.seg, c.seg) /\ w.seg.dts = c.seg.dts
        /\ w.seg.file = c.seg.file
    BY <1>3 DEF Disks, Segments, Same
  <2>5. w \in Disks
    BY <1>3, <2>3, <2>4 DEF Disks
  <2> QED
    BY <1>1, <2>1, <2>2, <2>4, <2>5, ReplaceStays
<1> QED
  BY <1>1, <1>2, <1>3, AppendPartEffect

LEMMA WritePartStays ==
  ASSUME NEW d \in Disks, NEW fault \in Faults \cup {None}
  PROVE  Stays(d, WritePart(d, fault))
<1>1. Stays(d, Create(d, fault)) /\ Create(d, fault) \in Disks
  BY CreateStays DEF Stays
<1>2. <<>> \in Seq(Samples)
  OBVIOUS
<1>3. Stays(Create(d, fault), AppendPart(Create(d, fault), fault, <<>>))
  BY <1>1, <1>2, AppendPartStays
<1> QED
  BY <1>1, <1>3, StaysOn DEF WritePart

LEMMA CloseFileEffect ==
  ASSUME NEW w \in Disks, NEW without, NEW c, c = CloseFile(w, without)
  PROVE  \/ w.seg.file \in without /\ c = w
         \/ /\ w.seg.file \notin without
            /\ c = [seg |-> [w.seg EXCEPT !.file = "closed"],
                    store |-> IF case.format = "mpegts" THEN w.store
                              ELSE WithDuration(w, w.seg.end - w.seg.dts),
                    hooks |-> Append(w.hooks, <<"complete", w.seg.stream, w.seg.number>>),
                    ok |-> w.ok]
<1>1. CASE w.seg.file \in without
  BY <1>1 DEF CloseFile
<1>2. CASE w.seg.file \notin without
  <2>1. c = [w EXCEPT
              !.store = IF case.format = "mpegts" THEN @
                        ELSE WithDuration(w, w.seg.end - w.seg.dts),
              !.hooks = Called(w, "complete"),
              !.seg.file = "closed"]
    BY <1>2 DEF CloseFile
  <2> QED
    BY <1>2, <2>1 DEF Disks, Called
<1> QED
  BY <1>1, <1>2

LEMMA CloseFileStays ==
  ASSUME NEW w \in Disks, NEW without, None \in without PROVE Stays(w, CloseFile(w, without))
<1>1. PICK c : c = CloseFile(w, without)
  OBVIOUS
<1>2. CASE c = w
  BY <1>1, <1>2, StaysItself
<1>3. ASSUME w.seg.file \notin without,
             c = [seg |-> [w.seg EXCEPT !.file = "closed"],
                  store |-> IF case.format = "mpegts" THEN w.store
                            ELSE WithDuration(w, w.seg.end - w.seg.dts),
                  hooks |-> Append(w.hooks, <<"complete", w.seg.stream, w.seg.number>>),
                  ok |-> w.ok]
      PROVE  Stays(w, c)
  <2>1. w.seg.file # None /\ w.seg \in Segments /\ w.hooks \in Seq(Calls) /\ w.ok \in BOOLEAN
    BY <1>3 DEF Disks
  <2>2. c.seg \in Segments /\ Same(c.seg, w.seg) /\ c.seg.dts = w.seg.dts
    BY <1>3, <2>1 DEF Segments, Same
  <2>3. c.hooks \in Seq(Calls)
    <3>1. <<"complete", w.seg.stream, w.seg.number>> \in Calls
      BY <2>1 DEF Calls, Segments
    <3> QED
      BY <1>3, <2>1, <3>1
  <2>4. CASE case.format = "mpegts"
    <3>1. c \in Disks /\ c.store = w.store
      BY <1>3, <2>1, <2>2, <2>3, <2>4 DEF Disks
    <3> QED
      BY <2>1, <2>2, <3>1, StaysWith
  <2>5. CASE case.format # "mpegts"
    <3>1. w.seg.end - w.seg.dts \in Int
      BY <2>1 DEF Segments
    <3>2. PICK F \in [FileOn(w) -> Files] :
            /\ \A f \in FileOn(w) : Same(F[f], f)
            /\ WithDuration(w, w.seg.end - w.seg.dts) =
                 (w.store \ FileOn(w)) \cup {F[f] : f \in FileOn(w)}
      BY <3>1, WithDurationIs
    <3>3. c.store = (w.store \ FileOn(w)) \cup {F[f] : f \in FileOn(w)}
      BY <1>3, <2>5, <3>2
    <3>4. c.store \subseteq Files
      BY <3>2, <3>3 DEF Disks
    <3>5. c \in Disks
      BY <1>3, <2>1, <2>2, <2>3, <3>4 DEF Disks
    <3> QED
      BY <2>1, <2>2, <3>2, <3>3, <3>5, ReplaceStays
  <2> QED
    BY <2>4, <2>5
<1> QED
  BY <1>1, <1>2, <1>3, CloseFileEffect

LEMMA CloseSegmentStays ==
  ASSUME NEW d \in Disks, NEW fault \in Faults \cup {None}
  PROVE  Stays(d, CloseSegment(d, fault))
<1>1. PICK w : w = IF d.seg.part = <<>> THEN d ELSE WritePart(d, fault)
  OBVIOUS
<1>2. Stays(d, w) /\ w \in Disks
  BY <1>1, StaysItself, WritePartStays DEF Stays
<1>3. Stays(w, CloseFile(w, {None, "closed"}))
  BY <1>2, CloseFileStays
<1>4. CloseSegment(d, fault) = CloseFile(w, {None, "closed"})
  BY <1>1 DEF CloseSegment
<1> QED
  BY <1>2, <1>3, <1>4, StaysOn

LEMMA AppendSampleStays ==
  ASSUME NEW w \in Disks, NEW sample \in Samples PROVE Stays(w, AppendSample(w, sample))
<1>1. PICK c : c = AppendSample(w, sample)
  OBVIOUS
<1>2. w.seg \in Segments /\ Append(w.seg.part, sample) \in Seq(Samples) /\ <<>> \in Seq(Samples)
  BY DEF Disks, Segments
<1>3. /\ c \in Disks /\ c.store = w.store /\ Same(c.seg, w.seg) /\ c.seg.dts = w.seg.dts
      /\ c.seg.file = w.seg.file
  <2>1. CASE ~w.ok
    <3>1. c = [w EXCEPT !.seg.part = <<>>]
      BY <1>1, <2>1 DEF AppendSample
    <3>2. c = [w EXCEPT !.seg = [w.seg EXCEPT !.part = <<>>]]
      BY <3>1
    <3> QED
      BY <1>2, <3>2 DEF Disks, Segments, Same
  <2>2. CASE w.ok /\ Len(w.seg.part) = MaxPartSize
    BY <1>1, <2>2 DEF AppendSample, Disks, Same
  <2>3. CASE w.ok /\ Len(w.seg.part) # MaxPartSize
    <3>1. c = [w EXCEPT !.seg.part = Append(@, sample)]
      BY <1>1, <2>3 DEF AppendSample
    <3>2. c = [w EXCEPT !.seg = [w.seg EXCEPT !.part = Append(w.seg.part, sample)]]
      BY <3>1
    <3> QED
      BY <1>2, <3>2 DEF Disks, Segments, Same
  <2> QED
    BY <2>1, <2>2, <2>3 DEF Disks
<1> QED
  BY <1>1, <1>3, StaysWith

LEMMA MaxOfTwo ==
  ASSUME NEW a \in Int, NEW b \in Int
  PROVE  MaxOf({a, b}) \in {a, b} /\ a <= MaxOf({a, b}) /\ b <= MaxOf({a, b})
<1>1. \E x \in {a, b} : \A y \in {a, b} : y <= x
  <2>1. CASE a <= b
    BY <2>1
  <2>2. CASE b <= a
    BY <2>2
  <2> QED
    BY <2>1, <2>2
<1> QED
  BY <1>1 DEF MaxOf

LEMMA LastsStays ==
  ASSUME NEW d \in Disks, NEW end \in Int
  PROVE  Stays(d, Lasts(d, end)) /\ Lasts(d, end).ok = d.ok /\ Lasts(d, end).hooks = d.hooks
         /\ Lasts(d, end).seg.part = d.seg.part /\ Lasts(d, end).seg.file = d.seg.file
<1>1. PICK c : c = Lasts(d, end)
  OBVIOUS
<1>2. PICK last : last = MaxOf({d.seg.end, end})
  OBVIOUS
<1>3. d.seg \in Segments /\ last \in Int
  BY <1>2, MaxOfTwo DEF Disks, Segments
<1>4. c = [d EXCEPT !.seg = [d.seg EXCEPT !.end = last]]
  BY <1>1, <1>2 DEF Lasts
<1>5. /\ c \in Disks /\ c.store = d.store /\ Same(c.seg, d.seg) /\ c.seg.dts = d.seg.dts
      /\ c.ok = d.ok /\ c.hooks = d.hooks
      /\ c.seg.part = d.seg.part /\ c.seg.file = d.seg.file
  BY <1>3, <1>4 DEF Disks, Segments, Same
<1> QED
  BY <1>1, <1>5, StaysWith

LEMMA WriteSampleStays ==
  ASSUME NEW d \in Disks, NEW sample \in Samples, sample.dts + sample.duration \in Int,
         NEW fault \in Faults \cup {None}
  PROVE  Stays(d, WriteSample(d, sample, fault))
<1>1. PICK e : e = Lasts(d, sample.dts + sample.duration)
  OBVIOUS
<1>2. Stays(d, e) /\ e \in Disks
  BY <1>1, LastsStays DEF Stays
<1>3. PICK w : w = IF PartIsOver(d.seg.part) THEN WritePart(e, fault) ELSE e
  OBVIOUS
<1>4. Stays(e, w) /\ w \in Disks
  BY <1>2, <1>3, StaysItself, WritePartStays DEF Stays
<1>5. Stays(d, w)
  BY <1>2, <1>4, StaysOn
<1>6. Stays(w, AppendSample(w, sample))
  BY <1>4, AppendSampleStays
<1>7. WriteSample(d, sample, fault) = AppendSample(w, sample)
  BY <1>1, <1>3 DEF WriteSample
<1> QED
  BY <1>5, <1>6, <1>7, StaysOn

-----------------------------------------------------------------------------
(* The calls of the hooks.                                                 *)

\* The calls, while a segment is current: n is the number of faults.
CleanFits(h, s) ==
  /\ \A i, j \in DOMAIN h : h[i] = h[j] => i = j
  /\ s.file = None => \A j \in DOMAIN h : h[j] # <<"create", s.stream, s.number>>
  /\ \A j \in DOMAIN h :
       \/ \E c \in DOMAIN h : h[c] = <<"complete", h[j][2], h[j][3]>>
       \/ s.file # "closed" /\ h[j][2] = s.stream /\ h[j][3] = s.number
CallsFit(h, s, n) ==
  /\ \A i, j \in DOMAIN h : h[i] = h[j] /\ h[i][1] = "complete" => i = j
  /\ \A j \in DOMAIN h : h[j][1] = "complete" =>
       \E c \in DOMAIN h : c < j /\ h[c] = <<"create", h[j][2], h[j][3]>>
  /\ s.file # "closed" => \A j \in DOMAIN h : h[j] # <<"complete", s.stream, s.number>>
  /\ s.file # None => \E c \in DOMAIN h : h[c] = <<"create", s.stream, s.number>>
  /\ n = 0 => CleanFits(h, s)

\* All the calls are about segments before this one.
Before(h, k, m) ==
  \A j \in DOMAIN h : h[j][2] < k \/ (h[j][2] = k /\ h[j][3] < m)

CallsStay(d, c, n) ==
  /\ c.seg.stream = d.seg.stream /\ c.seg.number = d.seg.number
  /\ CallsFit(d.hooks, d.seg, n) => CallsFit(c.hooks, c.seg, n)
  /\ \A m \in Nat : Before(d.hooks, d.seg.stream, m) /\ d.seg.number < m
                      => Before(c.hooks, d.seg.stream, m)

LEMMA CallsStayOn ==
  ASSUME NEW b, NEW c, NEW d, NEW n, CallsStay(b, c, n), CallsStay(c, d, n)
  PROVE  CallsStay(b, d, n)
BY DEF CallsStay

\* Nothing but other fields of the segment and of the disk changes.
LEMMA NoCall ==
  ASSUME NEW d, NEW c, NEW n, c.hooks = d.hooks, c.seg.stream = d.seg.stream,
         c.seg.number = d.seg.number, c.seg.file = d.seg.file
  PROVE  CallsStay(d, c, n)
<1>1. CleanFits(d.hooks, d.seg) => CleanFits(c.hooks, c.seg)
  <2>1. CleanFits(d.hooks, d.seg) => CleanFits(d.hooks, c.seg)
    BY Zenon DEF CleanFits
  <2> QED
    BY Zenon, <2>1
<1>2. CallsFit(d.hooks, d.seg, n) => CallsFit(c.hooks, c.seg, n)
  BY <1>1 DEF CallsFit
<1>3. \A m \in Nat : Before(d.hooks, d.seg.stream, m) => Before(c.hooks, d.seg.stream, m)
  OBVIOUS
<1> QED
  BY <1>2, <1>3 DEF CallsStay

LEMMA CallsFitOf ==
  ASSUME NEW h, NEW s, NEW c, NEW n, c.stream = s.stream, c.number = s.number,
         c.file = s.file, CallsFit(h, s, n)
  PROVE  CallsFit(h, c, n)
<1>1. CleanFits(h, s) => CleanFits(h, c)
  BY DEF CleanFits
<1> QED
  BY <1>1 DEF CallsFit

LEMMA AppendIs ==
  ASSUME NEW h \in Seq(Calls), NEW k \in Calls
  PROVE  /\ DOMAIN Append(h, k) = DOMAIN h \cup {Len(h) + 1} /\ Len(h) + 1 \notin DOMAIN h
         /\ \A i \in DOMAIN h : Append(h, k)[i] = h[i] /\ i < Len(h) + 1 /\ i \in Nat
         /\ Append(h, k)[Len(h) + 1] = k
OBVIOUS

LEMMA CallIsBefore ==
  ASSUME NEW h \in Seq(Calls), NEW k \in Calls, NEW m \in Nat, NEW n,
         Before(h, n, m), k[2] = n, k[3] < m
  PROVE  Before(Append(h, k), n, m)
BY AppendIs DEF Before

LEMMA CreateIsCalled ==
  ASSUME NEW h \in Seq(Calls), NEW s \in Segments, NEW c \in Segments, NEW n,
         c.stream = s.stream, c.number = s.number, s.file = None,
         c.file = "open" \/ (c.file = None /\ n # 0), CallsFit(h, s, n)
  PROVE  CallsFit(Append(h, <<"create", s.stream, s.number>>), c, n)
<1>1. PICK k : k = <<"create", s.stream, s.number>>
  OBVIOUS
<1>2. k \in Calls /\ k[1] = "create" /\ k[2] = s.stream /\ k[3] = s.number
  BY <1>1 DEF Calls, Segments
<1>3. PICK g : g = Append(h, k)
  OBVIOUS
<1>4. PICK l : l = Len(h) + 1
  OBVIOUS
<1>5. /\ DOMAIN g = DOMAIN h \cup {l} /\ l \notin DOMAIN h
      /\ \A i \in DOMAIN h : g[i] = h[i] /\ i < l /\ i \in Nat
      /\ g[l] = k
  BY <1>2, <1>3, <1>4, AppendIs
<1>6. s.file # "closed" /\ c.file # "closed"
  BY NoneAssumption
<1>7. \A i, j \in DOMAIN g : g[i] = g[j] /\ g[i][1] = "complete" => i = j
  BY <1>2, <1>5 DEF CallsFit
<1>8. \A j \in DOMAIN g : g[j][1] = "complete" =>
        \E e \in DOMAIN g : e < j /\ g[e] = <<"create", g[j][2], g[j][3]>>
  <2>1. ASSUME NEW j \in DOMAIN g, g[j][1] = "complete"
        PROVE  \E e \in DOMAIN g : e < j /\ g[e] = <<"create", g[j][2], g[j][3]>>
    <3>1. j \in DOMAIN h /\ g[j] = h[j]
      BY <1>2, <1>5, <2>1
    <3>2. PICK e \in DOMAIN h : e < j /\ h[e] = <<"create", h[j][2], h[j][3]>>
      BY <2>1, <3>1 DEF CallsFit
    <3> QED
      BY <1>5, <3>1, <3>2
  <2> QED
    BY <2>1
<1>9. \A j \in DOMAIN g : g[j] # <<"complete", c.stream, c.number>>
  BY <1>2, <1>5, <1>6 DEF CallsFit
<1>10. \E e \in DOMAIN g : g[e] = <<"create", c.stream, c.number>>
  BY <1>1, <1>5
<1>11. ASSUME n = 0 PROVE CleanFits(g, c)
  <2>1. CleanFits(h, s) /\ c.file = "open"
    BY <1>11 DEF CallsFit
  <2>2. \A j \in DOMAIN h : h[j] # k
    BY <1>1, <2>1 DEF CleanFits
  <2>3. \A i, j \in DOMAIN g : g[i] = g[j] => i = j
    BY <1>5, <2>1, <2>2 DEF CleanFits
  <2>4. ASSUME NEW j \in DOMAIN g
        PROVE  \/ \E e \in DOMAIN g : g[e] = <<"complete", g[j][2], g[j][3]>>
               \/ c.file # "closed" /\ g[j][2] = c.stream /\ g[j][3] = c.number
    <3>1. CASE j \in DOMAIN h
      <4>1. \/ \E e \in DOMAIN h : h[e] = <<"complete", h[j][2], h[j][3]>>
            \/ h[j][2] = s.stream /\ h[j][3] = s.number
        BY <2>1, <3>1 DEF CleanFits
      <4> QED
        BY <1>5, <1>6, <3>1, <4>1
    <3>2. CASE j = l
      BY <1>2, <1>5, <1>6, <3>2
    <3> QED
      BY <1>5, <3>1, <3>2
  <2>5. c.file # None
    BY <2>1, NoneAssumption
  <2> QED
    BY <2>3, <2>4, <2>5 DEF CleanFits
<1>12. CallsFit(g, c, n)
  BY <1>7, <1>8, <1>9, <1>10, <1>11 DEF CallsFit
<1> QED
  BY <1>1, <1>3, <1>12

LEMMA CompleteIsCalled ==
  ASSUME NEW h \in Seq(Calls), NEW s \in Segments, NEW c \in Segments, NEW n,
         c.stream = s.stream, c.number = s.number, s.file \notin {None, "closed"},
         c.file = "closed", CallsFit(h, s, n)
  PROVE  CallsFit(Append(h, <<"complete", s.stream, s.number>>), c, n)
<1>1. PICK k : k = <<"complete", s.stream, s.number>>
  OBVIOUS
<1>2. k \in Calls /\ k[1] = "complete" /\ k[2] = s.stream /\ k[3] = s.number
  BY <1>1 DEF Calls, Segments
<1>3. PICK g : g = Append(h, k)
  OBVIOUS
<1>4. PICK l : l = Len(h) + 1
  OBVIOUS
<1>5. /\ DOMAIN g = DOMAIN h \cup {l} /\ l \notin DOMAIN h
      /\ \A i \in DOMAIN h : g[i] = h[i] /\ i < l /\ i \in Nat
      /\ g[l] = k
  BY <1>2, <1>3, <1>4, AppendIs
<1>6. \A j \in DOMAIN h : h[j] # k
  BY <1>1 DEF CallsFit
<1>7. \A i, j \in DOMAIN g : g[i] = g[j] /\ g[i][1] = "complete" => i = j
  BY <1>5, <1>6 DEF CallsFit
<1>13. PICK b \in DOMAIN h : h[b] = <<"create", s.stream, s.number>>
  BY DEF CallsFit
<1>8. \A j \in DOMAIN g : g[j][1] = "complete" =>
        \E e \in DOMAIN g : e < j /\ g[e] = <<"create", g[j][2], g[j][3]>>
  <2>1. ASSUME NEW j \in DOMAIN g, g[j][1] = "complete"
        PROVE  \E e \in DOMAIN g : e < j /\ g[e] = <<"create", g[j][2], g[j][3]>>
    <3>1. CASE j \in DOMAIN h
      <4>1. g[j] = h[j]
        BY <1>5, <3>1
      <4>2. PICK e \in DOMAIN h : e < j /\ h[e] = <<"create", h[j][2], h[j][3]>>
        BY <2>1, <3>1, <4>1 DEF CallsFit
      <4> QED
        BY <1>5, <4>1, <4>2
    <3>2. CASE j = l
      BY <1>2, <1>5, <1>13, <3>2
    <3> QED
      BY <1>5, <3>1, <3>2
  <2> QED
    BY <2>1
<1>10. \E e \in DOMAIN g : g[e] = <<"create", c.stream, c.number>>
  BY <1>5, <1>13
<1>11. ASSUME n = 0 PROVE CleanFits(g, c)
  <2>1. CleanFits(h, s)
    BY <1>11 DEF CallsFit
  <2>3. \A i, j \in DOMAIN g : g[i] = g[j] => i = j
    BY <1>5, <1>6, <2>1 DEF CleanFits
  <2>4. ASSUME NEW j \in DOMAIN g
        PROVE  \E e \in DOMAIN g : g[e] = <<"complete", g[j][2], g[j][3]>>
    <3>1. CASE j \in DOMAIN h
      <4>1. \/ \E e \in DOMAIN h : h[e] = <<"complete", h[j][2], h[j][3]>>
            \/ h[j][2] = s.stream /\ h[j][3] = s.number
        BY <2>1, <3>1 DEF CleanFits
      <4> QED
        BY <1>1, <1>5, <3>1, <4>1
    <3>2. CASE j = l
      BY <1>1, <1>2, <1>5, <3>2
    <3> QED
      BY <1>5, <3>1, <3>2
  <2>5. c.file # None
    BY NoneAssumption
  <2> QED
    BY <2>3, <2>4, <2>5 DEF CleanFits
<1>12. CallsFit(g, c, n)
  BY <1>7, <1>8, <1>10, <1>11 DEF CallsFit
<1> QED
  BY <1>1, <1>3, <1>12

\* The calls go on with a new segment, once the last one is done with.
LEMMA CallsGoOn ==
  ASSUME NEW h \in Seq(Calls), NEW s, NEW c, NEW n, CallsFit(h, s, n),
         n = 0 => s.file \in {None, "closed"},
         c.file = None, c.number \in Nat, Before(h, c.stream, c.number), c.stream \in Nat
  PROVE  CallsFit(h, c, n)
<1>1. \A j \in DOMAIN h : h[j] \in Calls /\ h[j][2] \in Nat /\ h[j][3] \in Nat
  BY DEF Calls
<1>2. \A j \in DOMAIN h : ~(h[j][2] = c.stream /\ h[j][3] = c.number)
  BY <1>1 DEF Before
<1>3. \A j \in DOMAIN h : /\ h[j] # <<"complete", c.stream, c.number>>
                          /\ h[j] # <<"create", c.stream, c.number>>
  BY <1>2
<1>4. ASSUME n = 0 PROVE CleanFits(h, c)
  <2>1. CleanFits(h, s) /\ s.file \in {None, "closed"}
    BY <1>4 DEF CallsFit
  <2>2. ASSUME NEW j \in DOMAIN h
        PROVE  \E e \in DOMAIN h : h[e] = <<"complete", h[j][2], h[j][3]>>
    <3>1. CASE s.file = "closed"
      BY <2>1, <3>1 DEF CleanFits
    <3>2. CASE s.file = None
      <4>1. SUFFICES ASSUME h[j][2] = s.stream, h[j][3] = s.number PROVE FALSE
        BY <2>1 DEF CleanFits
      <4>2. h[j] # <<"create", s.stream, s.number>>
        BY <2>1, <3>2 DEF CleanFits
      <4>3. h[j] # <<"complete", s.stream, s.number>>
        BY <3>2, NoneAssumption DEF CallsFit
      <4> QED
        BY <1>1, <4>1, <4>2, <4>3 DEF Calls
    <3> QED
      BY <2>1, <3>1, <3>2
  <2> QED
    BY <1>3, <2>1, <2>2 DEF CleanFits
<1> QED
  BY <1>3, <1>4 DEF CallsFit

LEMMA CreateCalls ==
  ASSUME NEW d \in Disks, NEW fault \in Faults \cup {None},
         NEW n, fault # None => n # 0
  PROVE  CallsStay(d, Create(d, fault), n)
<1>1. PICK c : c = Create(d, fault)
  OBVIOUS
<1>2. CASE c = d
  BY <1>1, <1>2, NoCall
<1>3. CASE c = [d EXCEPT !.ok = FALSE]
  <2>1. c.hooks = d.hooks /\ c.seg = d.seg
    BY <1>3 DEF Disks
  <2> QED
    BY <1>1, <2>1, NoCall
<1>4. ASSUME NEW f \in Files, d.seg.file = None,
             c = [seg |-> [d.seg EXCEPT !.file = IF fault # "header" THEN "open" ELSE None],
                  store |-> {g \in d.store : g.start # f.start} \cup {f},
                  hooks |-> Append(d.hooks, <<"create", d.seg.stream, d.seg.number>>),
                  ok |-> fault # "header"]
      PROVE  CallsStay(d, c, n)
  <2>1. d.seg \in Segments /\ d.hooks \in Seq(Calls)
    BY DEF Disks
  <2>2. /\ c.seg \in Segments /\ c.seg.stream = d.seg.stream /\ c.seg.number = d.seg.number
        /\ c.seg.file = IF fault # "header" THEN "open" ELSE None
    BY <1>4, <2>1 DEF Segments
  <2>3. c.hooks = Append(d.hooks, <<"create", d.seg.stream, d.seg.number>>)
    BY <1>4
  <2>4. c.seg.file = "open" \/ (c.seg.file = None /\ n # 0)
    BY <2>2, NoneAssumption DEF Faults
  <2>5. CallsFit(d.hooks, d.seg, n) => CallsFit(c.hooks, c.seg, n)
    BY <1>4, <2>1, <2>2, <2>3, <2>4, CreateIsCalled
  <2>6. <<"create", d.seg.stream, d.seg.number>> \in Calls
    BY <2>1 DEF Calls, Segments
  <2>7. ASSUME NEW m \in Nat, Before(d.hooks, d.seg.stream, m), d.seg.number < m
        PROVE  Before(c.hooks, d.seg.stream, m)
    BY <2>1, <2>3, <2>6, <2>7, CallIsBefore
  <2> QED
    BY <2>2, <2>5, <2>7 DEF CallsStay
<1> QED
  BY <1>1, <1>2, <1>3, <1>4, CreateEffect

LEMMA AppendPartCalls ==
  ASSUME NEW c \in Disks, NEW fault, NEW rest, NEW n
  PROVE  CallsStay(c, AppendPart(c, fault, rest), n)
<1>1. PICK w : w = AppendPart(c, fault, rest)
  OBVIOUS
<1>2. CASE w = [c EXCEPT !.ok = FALSE]
  <2>1. w.hooks = c.hooks /\ w.seg = c.seg
    BY <1>2 DEF Disks
  <2> QED
    BY <1>1, <2>1, NoCall
<1>3. CASE w = [seg |-> [c.seg EXCEPT !.part = rest], store |-> WithPart(c),
                hooks |-> c.hooks, ok |-> TRUE]
  <2>1. /\ w.hooks = c.hooks /\ w.seg.stream = c.seg.stream /\ w.seg.number = c.seg.number
        /\ w.seg.file = c.seg.file
    BY <1>3 DEF Disks, Segments
  <2> QED
    BY <1>1, <2>1, NoCall
<1> QED
  BY <1>1, <1>2, <1>3, AppendPartEffect

LEMMA WritePartCalls ==
  ASSUME NEW d \in Disks, NEW fault \in Faults \cup {None},
         NEW n, fault # None => n # 0
  PROVE  CallsStay(d, WritePart(d, fault), n)
<1>1. CallsStay(d, Create(d, fault), n) /\ Create(d, fault) \in Disks
  BY CreateStays, CreateCalls DEF Stays
<1>2. CallsStay(Create(d, fault), AppendPart(Create(d, fault), fault, <<>>), n)
  BY <1>1, AppendPartCalls
<1> QED
  BY <1>1, <1>2, CallsStayOn DEF WritePart

LEMMA CloseFileCalls ==
  ASSUME NEW w \in Disks, NEW n
  PROVE  /\ CallsStay(w, CloseFile(w, {None, "closed"}), n)
         /\ CloseFile(w, {None, "closed"}).seg.file \in {None, "closed"}
<1>1. PICK c : c = CloseFile(w, {None, "closed"})
  OBVIOUS
<1>2. CASE w.seg.file \in {None, "closed"} /\ c = w
  BY <1>1, <1>2, NoCall
<1>3. CASE /\ w.seg.file \notin {None, "closed"}
           /\ c = [seg |-> [w.seg EXCEPT !.file = "closed"],
                   store |-> IF case.format = "mpegts" THEN w.store
                             ELSE WithDuration(w, w.seg.end - w.seg.dts),
                   hooks |-> Append(w.hooks, <<"complete", w.seg.stream, w.seg.number>>),
                   ok |-> w.ok]
  <2>1. w.seg \in Segments /\ w.hooks \in Seq(Calls)
    BY DEF Disks
  <2>2. /\ c.seg \in Segments /\ c.seg.stream = w.seg.stream /\ c.seg.number = w.seg.number
        /\ c.seg.file = "closed"
    BY <1>3, <2>1 DEF Segments
  <2>3. c.hooks = Append(w.hooks, <<"complete", w.seg.stream, w.seg.number>>)
    BY <1>3
  <2>4. CallsFit(w.hooks, w.seg, n) => CallsFit(c.hooks, c.seg, n)
    BY <1>3, <2>1, <2>2, <2>3, CompleteIsCalled
  <2>5. <<"complete", w.seg.stream, w.seg.number>> \in Calls
    BY <2>1 DEF Calls, Segments
  <2>6. ASSUME NEW m \in Nat, Before(w.hooks, w.seg.stream, m), w.seg.number < m
        PROVE  Before(c.hooks, w.seg.stream, m)
    BY <2>1, <2>3, <2>5, <2>6, CallIsBefore
  <2> QED
    BY <1>1, <2>2, <2>4, <2>6 DEF CallsStay
<1> QED
  BY <1>1, <1>2, <1>3, CloseFileEffect

LEMMA CloseSegmentCalls ==
  ASSUME NEW d \in Disks, NEW fault \in Faults \cup {None},
         NEW n, fault # None => n # 0
  PROVE  /\ CallsStay(d, CloseSegment(d, fault), n)
         /\ CloseSegment(d, fault).seg.file \in {None, "closed"}
<1>1. PICK w : w = IF d.seg.part = <<>> THEN d ELSE WritePart(d, fault)
  OBVIOUS
<1>2. CallsStay(d, w, n) /\ w \in Disks
  BY <1>1, NoCall, WritePartCalls, WritePartStays DEF Stays
<1>3. CloseSegment(d, fault) = CloseFile(w, {None, "closed"})
  BY <1>1 DEF CloseSegment
<1> QED
  BY <1>2, <1>3, CloseFileCalls, CallsStayOn

LEMMA AppendSampleCalls ==
  ASSUME NEW w \in Disks, NEW sample \in Samples, NEW n
  PROVE  CallsStay(w, AppendSample(w, sample), n)
<1>1. PICK c : c = AppendSample(w, sample)
  OBVIOUS
<1>2. /\ c.hooks = w.hooks /\ c.seg.stream = w.seg.stream /\ c.seg.number = w.seg.number
      /\ c.seg.file = w.seg.file
  <2>1. CASE ~w.ok
    <3>1. c = [w EXCEPT !.seg = [w.seg EXCEPT !.part = <<>>]]
      BY <1>1, <2>1 DEF AppendSample
    <3> QED
      BY <3>1 DEF Disks, Segments
  <2>2. CASE w.ok /\ Len(w.seg.part) = MaxPartSize
    BY <1>1, <2>2 DEF AppendSample, Disks
  <2>3. CASE w.ok /\ Len(w.seg.part) # MaxPartSize
    <3>1. c = [w EXCEPT !.seg = [w.seg EXCEPT !.part = Append(w.seg.part, sample)]]
      BY <1>1, <2>3 DEF AppendSample
    <3> QED
      BY <3>1 DEF Disks, Segments
  <2> QED
    BY <2>1, <2>2, <2>3
<1> QED
  BY <1>1, <1>2, NoCall

LEMMA WriteSampleCalls ==
  ASSUME NEW d \in Disks, NEW sample \in Samples, sample.dts + sample.duration \in Int,
         NEW fault \in Faults \cup {None}, NEW n, fault # None => n # 0
  PROVE  CallsStay(d, WriteSample(d, sample, fault), n)
<1>1. PICK e : e = Lasts(d, sample.dts + sample.duration)
  OBVIOUS
<1>2. /\ e \in Disks /\ e.hooks = d.hooks /\ e.seg.file = d.seg.file
      /\ e.seg.stream = d.seg.stream /\ e.seg.number = d.seg.number
  BY <1>1, LastsStays DEF Stays, Same
<1>3. CallsStay(d, e, n)
  BY <1>2, NoCall
<1>4. PICK w : w = IF PartIsOver(d.seg.part) THEN WritePart(e, fault) ELSE e
  OBVIOUS
<1>5. CallsStay(e, w, n) /\ w \in Disks
  BY <1>2, <1>4, NoCall, WritePartCalls, WritePartStays DEF Stays
<1>6. CallsStay(w, AppendSample(w, sample), n)
  BY <1>5, AppendSampleCalls
<1>7. WriteSample(d, sample, fault) = AppendSample(w, sample)
  BY <1>1, <1>4 DEF WriteSample
<1> QED
  BY <1>3, <1>5, <1>6, <1>7, CallsStayOn

-----------------------------------------------------------------------------
(* The state.                                                              *)

RecTypes ==
  /\ clock \in 0..MaxTime /\ case \in Cases /\ offset \in [Tracks -> Offsets]
  /\ recorder \in {"off", "running", "failed", "pausing"}
  /\ stream \in 0..MaxStreams /\ faults \in 0..case.faults
  /\ received \in [Tracks -> 0..case.samples] /\ number \in Nat
  /\ store \subseteq Files /\ hooks \in Seq(Calls)
  /\ DOMAIN started = Tracks /\ \A t \in Tracks : started[t] = None \/ started[t] \in Offsets
  /\ recorder \in {"running", "failed"} \/ (seg = None /\ \A t \in Tracks : next[t] = None)

\* A sample that waits: its time stamp is that of its arrival, but for an offset
\* and for what the recorder tolerates.
WaitFits(x, n, begun) ==
  \/ x = None
  \/ /\ case.format = "fmp4" /\ x \in Waiting /\ x.n <= n /\ x.ntp <= clock
     /\ \E p \in Offsets : x.ntp + p <= x.dts
     /\ \E o \in Offsets : x.dts <= x.ntp + o + DriftTolerance
     /\ begun = None => x.dts - x.ntp \in Offsets
  \/ case.format = "mpegts" /\ x \in [n : {0}, ntp : Nat] /\ x.ntp <= clock
NextFits ==
  DOMAIN next = Tracks /\ \A t \in Tracks : WaitFits(next[t], received[t], started[t])

\* A segment in use is the newest; its file, if it has one, is of its name.
SegmentFits(s) ==
  /\ s \in Segments /\ s.stream = stream /\ s.start <= clock
  /\ \E p \in Offsets : s.start + p <= s.dts
IsPast(f) == f.start < clock /\ \A t \in Tracks : next[t] # None => f.start < next[t].ntp
StoreFits ==
  /\ \A f, g \in store : f.start = g.start => f = g
  /\ \A f \in store : f.start <= clock /\ f.stream <= stream
  /\ recorder = "running" =>
       \A f \in store : /\ f.stream < stream \/ seg # None
                        /\ f.stream < stream => IsPast(f)
  /\ seg # None => SegmentFits(seg) /\ seg.number < number /\ FilesFit(store, seg)

\* The segment that is current, or the one that would be.
Current == IF seg # None THEN seg ELSE [stream |-> stream, number |-> number, file |-> None]
HooksFit == Before(hooks, stream, number) /\ CallsFit(hooks, Current, faults)

RecInv == RecTypes /\ NextFits /\ StoreFits /\ HooksFit

LEMMA CaseIs ==
  ASSUME case \in Cases
  PROVE  /\ case.format \in {"fmp4", "mpegts"} /\ case.samples \in Nat /\ case.faults \in Nat
         /\ SegmentDuration \in Nat
BY RecordingsAssumption DEF SegmentDuration

LEMMA OffsetsAreInt == Offsets \subseteq Int /\ DriftTolerance \in Nat /\ MaxBasetime \in Nat
                       /\ MaxTime \in Nat
BY RecordingsAssumption

LEMMA RecInit == ASSUME Init PROVE RecInv
<1>1. RecTypes
  BY CaseIs, OffsetsAreInt, RecordingsAssumption DEF Init, RecTypes
<1>2. NextFits
  BY DEF Init, NextFits, WaitFits
<1>3. StoreFits
  BY DEF Init, StoreFits
<1>4. HooksFit
  <2>1. DOMAIN hooks = {} /\ Current.file = None
    BY DEF Init, Current
  <2> QED
    BY <2>1 DEF HooksFit, Before, CallsFit, CleanFits
<1> QED
  BY <1>1, <1>2, <1>3, <1>4 DEF RecInv

LEMMA RecImplies == RecInv => TypeOK
<1> SUFFICES ASSUME RecInv PROVE TypeOK
  OBVIOUS
<1>1. \A t \in Tracks : next[t] = None \/ next[t].n <= received[t]
  BY DEF RecInv, NextFits, WaitFits, RecTypes
<1>2. seg \in Segments \cup {None} /\ (seg # None => seg.stream = stream /\ seg.number < number)
  BY DEF RecInv, StoreFits, SegmentFits
<1>3. \A f, g \in store : f.start = g.start => f = g
  BY DEF RecInv, StoreFits
<1>4. /\ clock \in 0..MaxTime /\ case \in Cases /\ offset \in [Tracks -> Offsets]
      /\ recorder \in {"off", "running", "failed", "pausing"}
      /\ stream \in 0..MaxStreams /\ faults \in 0..case.faults
      /\ received \in [Tracks -> 0..case.samples]
      /\ store \subseteq Files /\ hooks \in Seq(Calls)
      /\ \A t \in Tracks : started[t] = None \/ started[t] \in Offsets
      /\ recorder \in {"running", "failed"} \/ seg = None
  BY DEF RecInv, RecTypes
<1> QED
  BY <1>1, <1>2, <1>3, <1>4 DEF TypeOK

\* A new segment is the newest.
LEMMA NewSegmentFits ==
  ASSUME RecTypes, NEW x, NEW n \in Nat, x.ntp \in Nat, x.dts \in Int, x.ntp <= clock,
         \E p \in Offsets : x.ntp + p <= x.dts
  PROVE  /\ SegmentFits(NewSegment(x.dts, x.ntp, n))
         /\ NewSegment(x.dts, x.ntp, n).start = x.ntp
         /\ NewSegment(x.dts, x.ntp, n).number = n
         /\ NewSegment(x.dts, x.ntp, n).dts = x.dts
         /\ NewSegment(x.dts, x.ntp, n).part = <<>>
         /\ NewSegment(x.dts, x.ntp, n).file = None
         /\ NewSegment(x.dts, x.ntp, n).stream = stream
<1>1. <<>> \in Seq(Samples) /\ stream \in Nat
  BY OffsetsAreInt, RecordingsAssumption DEF RecTypes
<1>2. NewSegment(x.dts, x.ntp, n) \in Segments
  BY <1>1 DEF NewSegment, Segments
<1> QED
  BY <1>2 DEF NewSegment, SegmentFits

LEMMA NewFilesFit ==
  ASSUME NEW files, NEW s, \A f, g \in files : f.start = g.start => f = g,
         \A f \in files : Older(f, s), s.file = None
  PROVE  FilesFit(files, s)
BY DEF FilesFit

\* With more faults, less is known of the calls.
LEMMA CallsFitStill ==
  ASSUME NEW h, NEW s, NEW n, NEW m, CallsFit(h, s, n), m = 0 => n = 0
  PROVE  CallsFit(h, s, m)
BY DEF CallsFit

\* No call has been made for the segment that comes next.
LEMMA CurrentFits ==
  ASSUME RecInv, NEW n, n = 0 => faults = 0, NEW s, NEW dts, NEW ntp,
         s = IF seg # None THEN seg ELSE NewSegment(dts, ntp, number)
  PROVE  /\ CallsFit(hooks, s, n) /\ s.stream = stream
         /\ \A m \in Nat : number <= m => Before(hooks, stream, m)
<1>1. CallsFit(hooks, Current, n) /\ Before(hooks, stream, number)
  BY CallsFitStill DEF RecInv, HooksFit
<1>2. /\ Current.stream = s.stream /\ Current.number = s.number /\ Current.file = s.file
      /\ s.stream = stream
  <2>1. CASE seg # None
    BY <2>1 DEF Current, RecInv, StoreFits, SegmentFits
  <2>2. CASE seg = None
    BY <2>2 DEF Current, NewSegment
  <2> QED
    BY <2>1, <2>2
<1>3. CallsFit(hooks, s, n)
  BY <1>1, <1>2, CallsFitOf
<1>4. ASSUME NEW m \in Nat, number <= m PROVE Before(hooks, stream, m)
  <2>1. number \in Nat /\ \A j \in DOMAIN hooks : hooks[j] \in Calls
    BY DEF RecInv, RecTypes
  <2>2. \A j \in DOMAIN hooks : hooks[j][3] \in Nat
    BY <2>1 DEF Calls
  <2> QED
    BY <1>1, <1>4, <2>1, <2>2 DEF Before
<1> QED
  BY <1>2, <1>3, <1>4

\* What a write leaves of the calls.
CallsWritten(n) ==
  /\ Before(hooks', stream, number')
  /\ \/ UNCHANGED <<seg, hooks, number>>
     \/ seg' # None /\ CallsFit(hooks', seg', n)

\* A segment that has none yet begins after the one that is done with.
LEMMA CallsOfNext ==
  ASSUME RecTypes, NEW h \in Seq(Calls), NEW s, NEW n, CallsFit(h, s, n),
         s.file \in {None, "closed"}, NEW m \in Nat, Before(h, stream, m), NEW dts, NEW ntp
  PROVE  CallsFit(h, NewSegment(dts, ntp, m), n)
<1>1. PICK c : c = NewSegment(dts, ntp, m)
  OBVIOUS
<1>2. c.file = None /\ c.number = m /\ c.stream = stream
  BY <1>1 DEF NewSegment
<1>3. stream \in Nat
  BY RecordingsAssumption DEF RecTypes
<1> QED
  BY <1>1, <1>2, <1>3, CallsGoOn


-----------------------------------------------------------------------------
(* A sample arrives, with fMP4.                                            *)

\* The set of time stamps of two samples at most has a greatest one.
LEMMA NewestIs ==
  ASSUME NEW waiting, NEW x \in waiting, NEW z \in waiting, x.dts \in Int, z.dts \in Int,
         waiting = {x, z}
  PROVE  \A y \in waiting : y.dts <= MaxOf({w.dts : w \in waiting})
<1>1. {w.dts : w \in waiting} = {x.dts, z.dts}
  OBVIOUS
<1> QED
  BY <1>1, MaxOfTwo

\* The next segment begins with a sample that waits: after the name of the one
\* that it follows, if segments are long.
LEMMA NextIsLater ==
  ASSUME NEW t \in Tracks, NEW x, NEW s, NEW waiting, NEW y \in NextSegmentStarts(waiting),
         waiting = {w \in {next'[u] : u \in Tracks} : w # None}, next'[t] = x, x # None,
         \A u \in Tracks : next'[u] = None \/
            (next'[u] \in Waiting /\ \E o \in Offsets :
               next'[u].dts <= next'[u].ntp + o + DriftTolerance),
         s.start \in Nat, s.dts \in Int, \E p \in Offsets : s.start + p <= s.dts,
         x.dts - s.dts >= SegmentDuration, SegmentDuration \in Nat
  PROVE  (LongSegments => s.start < y.ntp) /\ \E u \in Tracks : y = next'[u] /\ y # None
<1>1. x \in waiting
  OBVIOUS
<1>2. \A w \in waiting : w \in Waiting /\ \E o \in Offsets : w.dts <= w.ntp + o + DriftTolerance
  OBVIOUS
<1>3. PICK z : z \in waiting /\ waiting = {x, z}
  <2>1. PICK u \in Tracks : Tracks = {t, u}
    BY DEF Tracks
  <2>2. CASE next'[u] = None
    <3>1. waiting = {x, x}
      BY <2>1, <2>2
    <3> QED
      BY <1>1, <3>1
  <2>3. CASE next'[u] # None
    <3>1. waiting = {x, next'[u]}
      BY <2>1, <2>3
    <3> QED
      BY <3>1
  <2> QED
    BY <2>2, <2>3
<1>4. PICK newest : newest = MaxOf({w.dts : w \in waiting})
  OBVIOUS
<1>5. \A w \in waiting : w.dts \in Int /\ w.ntp \in Nat
  BY <1>2 DEF Waiting
<1>6. x.dts <= newest
  BY <1>1, <1>3, <1>4, <1>5, NewestIs
<1>7. newest \in Int
  <2>1. {w.dts : w \in waiting} = {x.dts, z.dts}
    BY <1>3
  <2>2. x.dts \in Int /\ z.dts \in Int
    BY <1>1, <1>3, <1>5
  <2>3. MaxOf({x.dts, z.dts}) \in {x.dts, z.dts}
    BY <2>2, MaxOfTwo
  <2> QED
    BY <1>4, <2>1, <2>2, <2>3
<1>8. y \in waiting /\ newest - y.dts <= MaxBasetime
  BY <1>4 DEF NextSegmentStarts
<1>9. PICK o \in Offsets : y.dts <= y.ntp + o + DriftTolerance
  BY <1>2, <1>8
<1>10. PICK p \in Offsets : s.start + p <= s.dts
  OBVIOUS
<1>11. LongSegments => SegmentDuration > MaxBasetime + DriftTolerance + o - p
  BY DEF LongSegments
<1>12. LongSegments => s.start < y.ntp
  BY <1>1, <1>5, <1>6, <1>7, <1>8, <1>9, <1>10, <1>11, OffsetsAreInt
<1> QED
  BY <1>8, <1>12

\* Every file is there already, or of this instance.
Stems(files) ==
  \A g \in files : (g.stream = stream /\ g.start <= clock) \/ \E f \in store : Same(g, f)
\* What a write leaves: of the segment that is written or of the next one.
Written ==
  /\ store' \subseteq Files /\ hooks' \in Seq(Calls) /\ number' \in Nat
  /\ Keeps(store, store') /\ Stems(store')
  /\ recorder' \in {"running", "failed"}
  /\ \A f, g \in store' : f.start = g.start => f = g
  /\ \/ seg = None /\ UNCHANGED <<seg, store>>
     \/ SegmentFits(seg') /\ seg'.number < number' /\ FilesFit(store', seg')

LEMMA DiskIs ==
  ASSUME RecTypes, NEW s \in Segments
  PROVE  Disk(s) \in Disks /\ Disk(s).seg = s /\ Disk(s).store = store
         /\ Disk(s).hooks = hooks /\ Disk(s).ok = TRUE
BY DEF Disk, Disks, RecTypes

\* A new segment of an instance fits, whether it is the first one or not.
LEMMA FirstFits ==
  ASSUME RecInv, recorder = "running", seg = None, NEW c, c.stream = stream, c.file = None,
         \/ c.start = clock
         \/ \E u \in Tracks : next[u] # None /\ c.start = next[u].ntp
  PROVE  FilesFit(store, c)
<1>1. \A f \in store : f.stream < c.stream /\ f.start < c.start
  BY NoneAssumption DEF RecInv, StoreFits, IsPast
<1>2. \A f, g \in store : f.start = g.start => f = g
  BY DEF RecInv, StoreFits
<1> QED
  BY <1>1, <1>2, NewFilesFit DEF Older

LEMMA NextFitsAfter ==
  ASSUME RecInv, recorder = "running", NEW files \in SUBSET Files, NEW s, SegmentFits(s),
         FilesFit(files, s), Comes(store, files, s),
         NEW c, c.stream = stream, c.file = None, c.number \in Nat, s.number < c.number,
         c.start \in Nat, LongSegments => s.start < c.start,
         \/ c.start = clock
         \/ \E u \in Tracks : next[u] # None /\ c.start = next[u].ntp
  PROVE  FilesFit(files, c)
<1>1. ASSUME NEW f \in files PROVE Older(f, c)
  <2>1. /\ f.start \in Nat /\ f.number \in Nat /\ s.start \in Nat /\ s.number \in Nat
        /\ s.stream = stream /\ stream \in Nat /\ f.stream \in Nat
    BY DEF Files, SegmentFits, Segments
  <2>2. CASE Same(f, s)
    BY <2>1, <2>2 DEF Same, Older
  <2>3. CASE ~Same(f, s) /\ f.stream = s.stream
    <3>1. f.number < s.number /\ (LongSegments => f.start < s.start)
      BY <2>1, <2>3 DEF FilesFit, Older
    <3> QED
      BY <2>1, <2>3, <3>1 DEF Older
  <2>4. CASE ~Same(f, s) /\ f.stream # s.stream
    <3>1. f.stream < s.stream
      BY <2>4 DEF FilesFit, Older
    <3>2. PICK g \in store : Same(f, g)
      BY <2>4 DEF Comes
    <3>3. g.stream < stream
      BY <2>1, <3>1, <3>2 DEF Same
    <3>4. IsPast(g)
      BY <3>3 DEF RecInv, StoreFits
    <3>5. f.start < c.start
      BY <3>2, <3>4 DEF IsPast, Same
    <3> QED
      BY <2>1, <3>1, <3>5 DEF Older
  <2> QED
    BY <2>2, <2>3, <2>4
<1>2. \A f, g \in files : f.start = g.start => f = g
  BY DEF FilesFit
<1> QED
  BY <1>1, <1>2, NewFilesFit

LEMMA FilesFitNext == ASSUME case' = case, FilesFit(store', seg') PROVE FilesFit(store, seg)'
BY DEF FilesFit, Older, LongSegments, SegmentDuration

LEMMA StoreKeeps == ASSUME NEW files, files = store PROVE Keeps(store, files) /\ Stems(files)
BY DEF Keeps, Takes, Stems, Same

\* What follows from an operation on the disk.
LEMMA StaysFits ==
  ASSUME RecInv, NEW s, SegmentFits(s), NEW c, FilesFit(store, s), Stays(Disk(s), c)
  PROVE  /\ c \in Disks /\ SegmentFits(c.seg) /\ c.seg.number = s.number
         /\ c.seg.start = s.start /\ c.seg.dts = s.dts
         /\ FilesFit(c.store, c.seg) /\ Keeps(store, c.store)
         /\ Comes(store, c.store, c.seg) /\ Stems(c.store)
<1>1. Disk(s) \in Disks /\ Disk(s).seg = s /\ Disk(s).store = store
  BY DiskIs DEF RecInv, SegmentFits
<1>2. /\ c \in Disks /\ Same(c.seg, s) /\ c.seg.dts = s.dts
      /\ FilesFit(c.store, c.seg) /\ Keeps(store, c.store) /\ Comes(store, c.store, s)
  BY <1>1 DEF Stays
<1>3. c.seg \in Segments
  BY <1>2 DEF Disks
<1>4. SegmentFits(c.seg)
  BY <1>2, <1>3 DEF SegmentFits, Same
<1>5. Comes(store, c.store, c.seg)
  BY <1>2 DEF Comes, Same
<1>6. Stems(c.store)
  BY <1>4, <1>5 DEF Stems, Comes, SegmentFits, Same
<1> QED
  BY <1>2, <1>4, <1>5, <1>6 DEF Same

LEMMA FMP4Writes ==
  ASSUME RecInv, case.format = "fmp4", recorder = "running",
         NEW t \in Tracks, NEW dts, dts = clock + offset[t], NEW sync \in BOOLEAN,
         next[t] # None => next[t].ntp < clock,
         NEW fault \in Faults \cup {None}, WriteFMP4(t, clock, dts, sync, fault),
         received' = [received EXCEPT ![t] = @ + 1], clock' = clock, case' = case,
         received[t] \in Nat, NEW n, fault # None => n # 0, n = 0 => faults = 0
  PROVE  Written /\ CallsWritten(n) /\ NextFits' /\ DOMAIN started' = Tracks
         /\ \A u \in Tracks : started'[u] = None \/ started'[u] \in Offsets
<1>1. /\ clock \in Nat /\ offset[t] \in Offsets /\ offset[t] \in Int /\ dts \in Int
      /\ number \in Nat /\ DOMAIN next = Tracks /\ DOMAIN started = Tracks
      /\ \A u \in Tracks : started[u] = None \/ started[u] \in Offsets
      /\ store \subseteq Files /\ hooks \in Seq(Calls)
  <2>1. /\ clock \in 0..MaxTime /\ offset \in [Tracks -> Offsets] /\ number \in Nat
        /\ DOMAIN next = Tracks /\ DOMAIN started = Tracks
        /\ \A u \in Tracks : started[u] = None \/ started[u] \in Offsets
        /\ store \subseteq Files /\ hooks \in Seq(Calls)
    BY DEF RecInv, RecTypes, NextFits
  <2>2. offset[t] \in Offsets
    BY <2>1
  <2>3. offset[t] \in Int
    BY <2>2, OffsetsAreInt
  <2>4. clock \in Nat
    BY <2>1, OffsetsAreInt
  <2> QED
    BY <2>1, <2>2, <2>3, <2>4
<1> DEFINE prev == next[t]
           x == [track |-> t, n |-> received[t] + 1, ntp |-> clock, sync |-> sync,
                 dts |-> IF prev = None THEN dts ELSE MaxOf({dts, prev.dts})]
           sample == [track |-> t, n |-> prev.n, sync |-> prev.sync, dts |-> prev.dts,
                      duration |-> x.dts - prev.dts]
           waiting == {y \in {next'[u] : u \in Tracks} : y # None}
           first == IF seg = None THEN number + 1 ELSE number
           start == IF seg # None THEN seg ELSE NewSegment(prev.dts, prev.ntp, number)
           writes(current) ==
             \E d \in {WriteSample(Disk(current), sample, fault)},
                over \in {EndsSegment(t, x, current)} :
             \E c \in {IF d.ok /\ over THEN CloseSegment(d, fault) ELSE d} :
               /\ store' = c.store /\ hooks' = c.hooks
               /\ recorder' = IF c.ok THEN "running" ELSE "failed"
               /\ IF c.ok /\ over
                  THEN /\ number' = first + 1
                       /\ \E y \in NextSegmentStarts(waiting) :
                            seg' = NewSegment(y.dts, y.ntp, first)
                  ELSE seg' = c.seg /\ number' = first
<1>2. prev = next[t]
  OBVIOUS
<1>4. x = [track |-> t, n |-> received[t] + 1, ntp |-> clock, sync |-> sync,
           dts |-> IF prev = None THEN dts ELSE MaxOf({dts, prev.dts})]
  OBVIOUS
<1>14. sample = [track |-> t, n |-> prev.n, sync |-> prev.sync, dts |-> prev.dts,
                duration |-> x.dts - prev.dts]
  OBVIOUS
<1>15. waiting = {y \in {next'[u] : u \in Tracks} : y # None}
  OBVIOUS
<1>16. first = IF seg = None THEN number + 1 ELSE number
  OBVIOUS
<1>17. start = IF seg # None THEN seg ELSE NewSegment(prev.dts, prev.ntp, number)
  OBVIOUS
<1>18. /\ next' = [next EXCEPT ![t] = x]
       /\ IF prev = None
          THEN UNCHANGED <<started, number, seg, store, hooks, recorder>>
          ELSE IF Drifts(t, prev.ntp, prev.dts)
          THEN recorder' = "failed" /\ UNCHANGED <<started, number, seg, store, hooks>>
          ELSE /\ started' = IF started[t] # None THEN started
                             ELSE [started EXCEPT ![t] = prev.dts - prev.ntp]
               /\ \E current \in {start} :
                  IF prev.dts < current.dts
                  THEN UNCHANGED <<number, seg, store, hooks, recorder>>
                  ELSE writes(current)
  BY DEF WriteFMP4
<1> HIDE DEF prev, x, sample, waiting, first, start
<1>3. \/ prev = None
      \/ /\ prev \in Waiting /\ prev.n <= received[t] /\ prev.ntp <= clock
         /\ \E p \in Offsets : prev.ntp + p <= prev.dts
         /\ \E o \in Offsets : prev.dts <= prev.ntp + o + DriftTolerance
         /\ started[t] = None => prev.dts - prev.ntp \in Offsets
  BY <1>2 DEF RecInv, NextFits, WaitFits
<1>5. next' = [next EXCEPT ![t] = x]
  BY <1>18
<1>6. /\ x \in Waiting /\ x.ntp = clock /\ x.n = received[t] + 1 /\ x # None
      /\ \E p \in Offsets : x.ntp + p <= x.dts
      /\ \E o \in Offsets : x.dts <= x.ntp + o + DriftTolerance
      /\ prev = None => x.dts - x.ntp \in Offsets
  <2>1. CASE prev = None
    <3>1. x.dts = clock + offset[t] /\ x.ntp = clock /\ x.n = received[t] + 1
      BY <1>4, <2>1
    <3>2. x \in Waiting
      BY <1>1, <1>4, <2>1 DEF Waiting
    <3>3. x.dts - x.ntp = offset[t]
      BY <1>1, <3>1
    <3>4. x # None
      BY <3>2, NoneAssumption
    <3>5. x.ntp + offset[t] <= x.dts /\ x.dts <= x.ntp + offset[t] + DriftTolerance
      BY <1>1, <3>1, OffsetsAreInt
    <3> QED
      BY <1>1, <3>1, <3>2, <3>3, <3>4, <3>5
  <2>2. CASE prev # None
    <3>1. prev.dts \in Int /\ prev.ntp \in Nat /\ prev.ntp < clock
      BY <1>2, <1>3, <2>2 DEF Waiting
    <3>2. PICK m : m = MaxOf({dts, prev.dts})
      OBVIOUS
    <3>3. m \in {dts, prev.dts} /\ dts <= m
      BY <1>1, <3>1, <3>2, MaxOfTwo
    <3>4. x.dts = m /\ x.ntp = clock /\ x.n = received[t] + 1
      BY <1>4, <2>2, <3>2
    <3>5. x \in Waiting
      BY <1>1, <1>4, <2>2, <3>1, <3>2, <3>3 DEF Waiting
    <3>6. x.ntp + offset[t] <= x.dts
      BY <1>1, <3>3, <3>4
    <3>7. PICK o \in Offsets : prev.dts <= prev.ntp + o + DriftTolerance
      BY <1>3, <2>2
    <3>8. CASE m = dts
      BY <1>1, <2>2, <3>4, <3>5, <3>6, <3>8, OffsetsAreInt, NoneAssumption
    <3>9. CASE m = prev.dts
      <4>1. x.dts <= x.ntp + o + DriftTolerance
        BY <1>1, <3>1, <3>4, <3>7, <3>9, OffsetsAreInt
      <4> QED
        BY <1>1, <2>2, <3>4, <3>5, <3>6, <4>1, NoneAssumption
    <3> QED
      BY <3>3, <3>8, <3>9
  <2> QED
    BY <2>1, <2>2
<1>7. /\ next'[t] = x /\ DOMAIN next' = Tracks
      /\ \A u \in Tracks \ {t} : next'[u] = next[u]
  BY <1>1, <1>5
<1>8. received'[t] = received[t] + 1 /\ \A u \in Tracks \ {t} : received'[u] = received[u]
  BY DEF RecInv, RecTypes
\* What waits fits, if the offset of the track is known once it has two samples.
<1>9. ASSUME DOMAIN started' = Tracks, \A u \in Tracks \ {t} : started'[u] = started[u],
             prev = None \/ started'[t] # None
      PROVE  NextFits'
  <2>1. WaitFits(next[t], received[t], started[t])'
    <3>1. x.n <= received'[t] /\ x.ntp <= clock' /\ case'.format = "fmp4"
      BY <1>6, <1>8, <1>1
    <3> QED
      BY <1>6, <1>7, <1>9, <3>1 DEF WaitFits
  <2>2. ASSUME NEW u \in Tracks \ {t} PROVE WaitFits(next[u], received[u], started[u])'
    <3>1. WaitFits(next[u], received[u], started[u])
      BY DEF RecInv, NextFits
    <3>2. next'[u] = next[u] /\ received'[u] = received[u] /\ started'[u] = started[u]
      BY <1>7, <1>8, <1>9
    <3> QED
      BY <3>1, <3>2 DEF WaitFits
  <2> QED
    BY <1>7, <2>1, <2>2 DEF NextFits
<1> DEFINE quiet == UNCHANGED <<number, seg, store, hooks>>
<1>10. ASSUME quiet, recorder' \in {"running", "failed"} PROVE Written /\ CallsWritten(n)
  <2>1. /\ \A f, g \in store : f.start = g.start => f = g
        /\ seg # None => SegmentFits(seg) /\ seg.number < number /\ FilesFit(store, seg)
    BY DEF RecInv, StoreFits
  <2>2. Keeps(store, store') /\ Stems(store')
    BY <1>10, StoreKeeps
  <2>3. \A u \in Tracks : next'[u] # None => next'[u] = next[u] \/ next'[u].ntp = clock
    BY <1>6, <1>7
  <2>6. CallsWritten(n)
    BY <1>10 DEF CallsWritten, RecInv, HooksFit
  <2>4. CASE seg = None
    BY <1>1, <1>10, <2>1, <2>2, <2>3, <2>4, <2>6 DEF Written
  <2>5. CASE seg # None
    <3>1. SegmentFits(seg')
      BY <1>10, <2>1, <2>5
    <3> QED
      BY <1>1, <1>10, <2>1, <2>2, <2>5, <2>6, <3>1 DEF Written
  <2> QED
    BY <2>4, <2>5
<1>11. CASE prev = None
  <2>1. UNCHANGED <<started, number, seg, store, hooks, recorder>>
    BY <1>11, <1>18
  <2> QED
    BY <1>1, <1>9, <1>10, <1>11, <2>1
<1>12. CASE prev # None /\ Drifts(t, prev.ntp, prev.dts)
  <2>1. recorder' = "failed" /\ UNCHANGED <<started, number, seg, store, hooks>>
    BY <1>12, <1>18
  <2>2. started[t] # None
    BY <1>12 DEF Drifts
  <2> QED
    BY <1>1, <1>9, <1>10, <2>1, <2>2
<1>13. CASE prev # None /\ ~Drifts(t, prev.ntp, prev.dts)
  <2>2. sample \in Samples /\ sample.dts + sample.duration \in Int
    BY <1>3, <1>6, <1>13, <1>14 DEF Samples, Waiting
  <2>5. /\ started' = IF started[t] # None THEN started
                      ELSE [started EXCEPT ![t] = prev.dts - prev.ntp]
        /\ IF prev.dts < start.dts
           THEN UNCHANGED <<number, seg, store, hooks, recorder>>
           ELSE writes(start)
    <3> HIDE DEF writes
    <3> QED
      BY <1>13, <1>18
  <2>6. /\ DOMAIN started' = Tracks /\ \A u \in Tracks \ {t} : started'[u] = started[u]
        /\ started'[t] \in Offsets
    <3>1. CASE started[t] # None
      BY <1>1, <2>5, <3>1
    <3>2. CASE started[t] = None
      BY <1>1, <1>3, <1>13, <2>5, <3>2
    <3> QED
      BY <3>1, <3>2
  <2>7. \A u \in Tracks : started'[u] = None \/ started'[u] \in Offsets
    BY <1>1, <2>6
  <2>8. NextFits'
    <3>1. started'[t] # None
      BY <2>6, OffsetsAreInt, NoneAssumption
    <3> QED
      BY <1>9, <2>6, <3>1
  <2>10. /\ SegmentFits(start) /\ FilesFit(store, start) /\ start.number < first
         /\ first \in Nat /\ (prev.dts < start.dts => seg # None)
    <3>1. CASE seg # None
      BY <1>1, <1>16, <1>17, <3>1 DEF RecInv, StoreFits
    <3>2. CASE seg = None
      <4>1. /\ prev.ntp \in Nat /\ prev.dts \in Int /\ prev.ntp <= clock
            /\ \E p \in Offsets : prev.ntp + p <= prev.dts
        BY <1>3, <1>13 DEF Waiting
      <4>2. /\ SegmentFits(start) /\ start.start = prev.ntp /\ start.number = number
            /\ start.dts = prev.dts
        BY <1>1, <1>17, <3>2, <4>1, NewSegmentFits DEF RecInv
      <4>3. FilesFit(store, start)
        <5>1. start.stream = stream /\ start.file = None
          BY <1>17, <3>2 DEF NewSegment
        <5> QED
          BY <1>2, <1>13, <3>2, <4>2, <5>1, FirstFits
      <4> QED
        BY SMTT(30), <1>1, <1>16, <3>2, <4>1, <4>2, <4>3
    <3> QED
      BY <3>1, <3>2
  <2>13. /\ CallsFit(hooks, start, n) /\ start.stream = stream
         /\ Before(hooks, stream, first)
    <3>1. number <= first
      BY <1>1, <1>16
    <3> QED
      BY <1>17, <2>10, <3>1, CurrentFits
  <2>11. CASE prev.dts < start.dts
    <3>1. UNCHANGED <<number, seg, store, hooks, recorder>>
      BY <2>5, <2>11
    <3> QED
      BY <1>10, <2>6, <2>7, <2>8, <3>1
  <2>12. CASE ~(prev.dts < start.dts)
    <3>1. PICK d, over, c :
            /\ d = WriteSample(Disk(start), sample, fault) /\ over = EndsSegment(t, x, start)
            /\ c = IF d.ok /\ over THEN CloseSegment(d, fault) ELSE d
            /\ store' = c.store /\ hooks' = c.hooks
            /\ recorder' = IF c.ok THEN "running" ELSE "failed"
            /\ IF c.ok /\ over
               THEN /\ number' = first + 1
                    /\ \E y \in NextSegmentStarts(waiting) :
                         seg' = NewSegment(y.dts, y.ntp, first)
               ELSE seg' = c.seg /\ number' = first
      BY <2>5, <2>12
    <3>2. Stays(Disk(start), d) /\ d \in Disks /\ Disk(start) \in Disks
      <4>1. Disk(start) \in Disks
        BY <2>10, DiskIs DEF RecInv, SegmentFits
      <4> QED
        BY <2>2, <3>1, <4>1, WriteSampleStays DEF Stays
    <3>3. Stays(Disk(start), c)
      <4>1. Stays(d, c)
        BY <3>1, <3>2, CloseSegmentStays, StaysItself
      <4> QED
        BY <3>2, <4>1, StaysOn
    <3>4. /\ c \in Disks /\ SegmentFits(c.seg) /\ c.seg.number = start.number
          /\ c.seg.start = start.start /\ c.seg.dts = start.dts
          /\ FilesFit(c.store, c.seg) /\ Keeps(store, c.store)
          /\ Comes(store, c.store, c.seg) /\ Stems(c.store)
      BY <2>10, <3>3, StaysFits
    <3>5. /\ store' \subseteq Files /\ hooks' \in Seq(Calls) /\ Keeps(store, store')
          /\ Stems(store') /\ recorder' \in {"running", "failed"}
          /\ \A f, g \in store' : f.start = g.start => f = g
      BY <3>1, <3>4 DEF Disks, FilesFit
    <3>8. CallsStay(Disk(start), c, n) /\ (c.ok /\ over => c.seg.file \in {None, "closed"})
      <4>1. Disk(start) \in Disks
        BY <2>10, DiskIs DEF RecInv, SegmentFits
      <4>2. CallsStay(Disk(start), d, n)
        BY <2>2, <3>1, <4>1, WriteSampleCalls
      <4>3. CASE d.ok /\ over
        <5>1. c = CloseSegment(d, fault)
          BY <3>1, <4>3
        <5>2. CallsStay(d, c, n) /\ c.seg.file \in {None, "closed"}
          BY <3>2, <5>1, CloseSegmentCalls
        <5> QED
          BY <4>2, <5>2, CallsStayOn
      <4>4. CASE ~(d.ok /\ over)
        <5>1. c = d
          BY <3>1, <4>4
        <5> QED
          BY <4>2, <4>4, <5>1
      <4> QED
        BY <4>3, <4>4
    <3>9. /\ CallsFit(c.hooks, c.seg, n) /\ Before(c.hooks, stream, first)
          /\ c.hooks \in Seq(Calls)
      <4>1. Disk(start).hooks = hooks /\ Disk(start).seg = start
        BY DEF Disk
      <4> QED
        BY <2>10, <2>13, <3>4, <3>8, <4>1 DEF CallsStay, Disks
    <3>6. CASE ~(c.ok /\ over)
      <4>1. seg' = c.seg /\ number' = first
        BY <3>1, <3>6
      <4>2. SegmentFits(seg') /\ seg'.number < number' /\ FilesFit(store', seg')
        BY <2>10, <3>1, <3>4, <4>1
      <4>3. number' \in Nat
        BY <2>10, <4>1
      <4>4. Written
        BY <3>5, <4>2, <4>3 DEF Written
      <4>5. CallsWritten(n)
        <5>1. seg' # None
          BY <4>2, NoneAssumption DEF SegmentFits
        <5> QED
          BY <3>1, <3>9, <4>1, <5>1 DEF CallsWritten
      <4> QED
        BY <2>6, <2>7, <2>8, <4>4, <4>5
    <3>7. CASE c.ok /\ over
      <4>1. PICK y \in NextSegmentStarts(waiting) : seg' = NewSegment(y.dts, y.ntp, first)
        BY <3>1, <3>7
      <4>2. x.dts - start.dts >= SegmentDuration
        BY <3>1, <3>7 DEF EndsSegment
      <4>3. \A u \in Tracks : next'[u] = None \/
              (/\ next'[u] \in Waiting /\ next'[u].ntp <= clock
               /\ \E p \in Offsets : next'[u].ntp + p <= next'[u].dts
               /\ \E o \in Offsets : next'[u].dts <= next'[u].ntp + o + DriftTolerance)
        BY <2>8 DEF NextFits, WaitFits
      <4>4. start.start \in Nat /\ start.dts \in Int /\ \E p \in Offsets : start.start + p <= start.dts
        BY <2>10 DEF SegmentFits, Segments
      <4>5. (LongSegments => start.start < y.ntp) /\ \E u \in Tracks : y = next'[u] /\ y # None
        <5>1. SegmentDuration \in Nat
          BY CaseIs DEF RecInv, RecTypes
        <5>2. /\ waiting = {w \in {next'[u] : u \in Tracks} : w # None}
              /\ next'[t] = x /\ x # None
          BY <1>6, <1>7, <1>15
        <5>3. \A u \in Tracks : next'[u] = None \/
                (next'[u] \in Waiting /\ \E o \in Offsets :
                   next'[u].dts <= next'[u].ntp + o + DriftTolerance)
          BY <4>3
        <5> HIDE DEF quiet, writes
        <5> QED
          BY <4>2, <4>4, <5>1, <5>2, <5>3, NextIsLater
      <4>6. /\ y.ntp \in Nat /\ y.dts \in Int /\ y.ntp <= clock
            /\ \E p \in Offsets : y.ntp + p <= y.dts
        BY <4>3, <4>5 DEF Waiting
      <4>7. /\ SegmentFits(NewSegment(y.dts, y.ntp, first))
            /\ NewSegment(y.dts, y.ntp, first).start = y.ntp
            /\ NewSegment(y.dts, y.ntp, first).number = first
        BY <2>10, <4>6, NewSegmentFits DEF RecInv
      <4>8. c.seg.start = start.start /\ c.seg.number < first /\ store' = c.store
        BY <2>10, <3>1, <3>4
      <4> HIDE DEF quiet
      <4>9. FilesFit(store', NewSegment(y.dts, y.ntp, first))
        <5>1. y.ntp = clock \/ \E u \in Tracks : next[u] # None /\ y.ntp = next[u].ntp
          BY <1>6, <1>7, <4>5
        <5>2. PICK z : z = NewSegment(y.dts, y.ntp, first)
          OBVIOUS
        <5>3. z.stream = stream /\ z.file = None /\ z.number = first /\ z.start = y.ntp
          BY <5>2 DEF NewSegment
        <5>4. c.store \in SUBSET Files
          BY <3>4 DEF Disks
        <5> QED
          BY <2>10, <3>4, <4>5, <4>6, <4>8, <5>1, <5>2, <5>3, <5>4, NextFitsAfter
      <4>12. number' = first + 1
        BY <3>1, <3>7
      <4>10. number' \in Nat /\ first < number'
        BY <2>10, <4>12
      <4>11. SegmentFits(seg') /\ seg'.number < number' /\ FilesFit(store', seg')
        BY <4>1, <4>7, <4>9, <4>10
      <4>13. Written
        BY <3>5, <4>10, <4>11 DEF Written
      <4>14. CallsWritten(n)
        <5>1. seg' # None
          BY <4>11, NoneAssumption DEF SegmentFits
        <5>2. CallsFit(c.hooks, NewSegment(y.dts, y.ntp, first), n)
          BY <2>10, <3>7, <3>8, <3>9, CallsOfNext DEF RecInv
        <5>3. Before(c.hooks, stream, first + 1)
          <6>1. \A j \in DOMAIN c.hooks : c.hooks[j] \in Calls /\ c.hooks[j][3] \in Nat
            BY <3>9 DEF Calls
          <6> QED
            BY <2>10, <3>9, <6>1 DEF Before
        <5> QED
          BY <3>1, <4>1, <4>12, <5>1, <5>2, <5>3 DEF CallsWritten
      <4> QED
        BY <2>6, <2>7, <2>8, <4>13, <4>14
    <3> QED
      BY <3>6, <3>7
  <2> QED
    BY <2>11, <2>12
<1> QED
  BY <1>11, <1>12, <1>13

-----------------------------------------------------------------------------
(* A sample arrives, with MPEG-TS.                                         *)

LEMMA StaysFitsOn ==
  ASSUME RecTypes, NEW e \in Disks, SegmentFits(e.seg), FilesFit(e.store, e.seg),
         NEW c, Stays(e, c)
  PROVE  /\ c \in Disks /\ SegmentFits(c.seg) /\ c.seg.number = e.seg.number
         /\ FilesFit(c.store, c.seg) /\ Keeps(e.store, c.store)
         /\ Stems(e.store) => Stems(c.store)
<1>1. /\ c \in Disks /\ Same(c.seg, e.seg) /\ c.seg.dts = e.seg.dts
      /\ FilesFit(c.store, c.seg) /\ Keeps(e.store, c.store)
  BY DEF Stays
<1>2. c.seg \in Segments
  BY <1>1 DEF Disks
<1>3. SegmentFits(c.seg)
  BY <1>1, <1>2 DEF SegmentFits, Same
<1>4. ASSUME Stems(e.store) PROVE Stems(c.store)
  <2>1. Comes(e.store, c.store, e.seg)
    BY DEF Stays
  <2> QED
    BY <1>4, <2>1 DEF Stems, Comes, SegmentFits, Same
<1> QED
  BY <1>1, <1>3, <1>4 DEF Same

\* The segment of a disk is replaced by another record of it.
LEMMA SegmentOf ==
  ASSUME NEW s \in Segments, NEW end \in Int, NEW flushed \in Int, NEW part \in Seq(Samples)
  PROVE  \A c : c = [s EXCEPT !.end = end, !.flushed = flushed, !.part = part] =>
           c \in Segments /\ Same(c, s) /\ c.dts = s.dts /\ c.part = part
BY Zenon DEF Segments, Same

LEMMA TSWrites ==
  ASSUME RecInv, case.format = "mpegts", recorder = "running",
         NEW t \in Tracks, NEW dts, dts = clock + offset[t], NEW sync \in BOOLEAN,
         NEW fault \in Faults \cup {None}, WriteTS(t, clock, dts, sync, fault),
         received' = [received EXCEPT ![t] = @ + 1], clock' = clock, case' = case,
         received[t] \in Nat, NEW n, fault # None => n # 0, n = 0 => faults = 0
  PROVE  Written /\ CallsWritten(n) /\ NextFits' /\ DOMAIN started' = Tracks
         /\ \A u \in Tracks : started'[u] = None \/ started'[u] \in Offsets
<1> DEFINE sample == [track |-> t, n |-> received[t] + 1]
           Over(s) == /\ seg # None /\ (t = Video \/ ~HasVideo) /\ sync
                      /\ dts - s.dts >= SegmentDuration
           Flush(s) == IF Over(s) THEN CloseSegment([Disk(s) EXCEPT !.seg.end = dts], fault)
                       ELSE IF seg # None /\ dts - s.flushed >= PartDuration
                       THEN WritePart(Disk([s EXCEPT !.flushed = dts]), fault)
                       ELSE Disk(s)
           With(s) == [s EXCEPT !.end = dts, !.part = Append(@, sample)]
           Add(d)  == IF Len(d.seg.part) > MaxPartSize THEN WritePart(d, fault) ELSE d
           start == IF seg = None THEN NewSegment(dts, clock, number) ELSE seg
           begun(d) == IF Over(start) THEN NewSegment(dts, clock, number) ELSE d.seg
<1>1. /\ next' = [next EXCEPT ![t] = [n |-> 0, ntp |-> clock]]
      /\ IF Drifts(t, clock, dts)
         THEN recorder' = "failed" /\ UNCHANGED <<started, number, seg, store, hooks>>
         ELSE /\ started' = IF started[t] # None THEN started
                            ELSE [started EXCEPT ![t] = dts - clock]
              /\ \E current \in {start} :
                 \E d \in {Flush(current)} :
                   /\ number' = IF d.ok /\ (Over(current) \/ seg = None)
                                THEN number + 1 ELSE number
                   /\ \E w \in {IF ~d.ok THEN d
                                ELSE Add([d EXCEPT !.seg =
                                   With(IF Over(current) THEN NewSegment(dts, clock, number)
                                        ELSE @)])} :
                        /\ store' = w.store /\ hooks' = w.hooks
                        /\ recorder' = IF w.ok THEN "running" ELSE "failed"
                        /\ seg' = IF w.ok THEN w.seg ELSE [w.seg EXCEPT !.part = <<>>]
  BY Zenon DEF WriteTS
<1>2. sample \in Samples
  BY DEF Samples
<1>3. start = IF seg = None THEN NewSegment(dts, clock, number) ELSE seg
  OBVIOUS
<1>4. Over(start) => seg # None /\ dts - start.dts >= SegmentDuration
  OBVIOUS
<1>5. \A s : Flush(s) = IF Over(s) THEN CloseSegment([Disk(s) EXCEPT !.seg.end = dts], fault)
                        ELSE IF seg # None /\ dts - s.flushed >= PartDuration
                        THEN WritePart(Disk([s EXCEPT !.flushed = dts]), fault)
                        ELSE Disk(s)
  OBVIOUS
<1>6. \A s : With(s) = [s EXCEPT !.end = dts, !.part = Append(@, sample)]
  OBVIOUS
<1>7. \A d : Add(d) = IF Len(d.seg.part) > MaxPartSize THEN WritePart(d, fault) ELSE d
  OBVIOUS
<1> HIDE DEF sample, Over, Flush, With, Add, start
<1>8. /\ clock \in Nat /\ offset[t] \in Offsets /\ offset[t] \in Int /\ dts \in Int
      /\ number \in Nat /\ DOMAIN next = Tracks /\ DOMAIN started = Tracks
      /\ \A u \in Tracks : started[u] = None \/ started[u] \in Offsets
      /\ store \subseteq Files /\ hooks \in Seq(Calls)
  <2>1. /\ clock \in 0..MaxTime /\ offset \in [Tracks -> Offsets] /\ number \in Nat
        /\ DOMAIN next = Tracks /\ DOMAIN started = Tracks
        /\ \A u \in Tracks : started[u] = None \/ started[u] \in Offsets
        /\ store \subseteq Files /\ hooks \in Seq(Calls)
    BY DEF RecInv, RecTypes, NextFits
  <2>2. offset[t] \in Offsets
    BY <2>1
  <2>3. offset[t] \in Int
    BY <2>2, OffsetsAreInt
  <2>4. clock \in Nat
    BY <2>1, OffsetsAreInt
  <2> QED
    BY <2>1, <2>2, <2>3, <2>4
<1>9. NextFits'
  <2>1. WaitFits(next[t], received[t], started[t])'
    <3>1. next'[t] = [n |-> 0, ntp |-> clock]
      BY <1>1, <1>8
    <3> QED
      BY <1>8, <3>1 DEF WaitFits
  <2>2. ASSUME NEW u \in Tracks \ {t} PROVE WaitFits(next[u], received[u], started[u])'
    <3>1. WaitFits(next[u], received[u], started[u])
      BY DEF RecInv, NextFits
    <3>2. next'[u] = next[u]
      BY <1>1, <1>8
    <3>4. next[u] = None \/ (next[u] \in [n : {0}, ntp : Nat] /\ next[u].ntp <= clock)
      BY <3>1 DEF WaitFits
    <3>3. next'[u] = None \/ (next'[u] \in [n : {0}, ntp : Nat] /\ next'[u].ntp <= clock)
      BY <3>2, <3>4
    <3> QED
      BY <3>3 DEF WaitFits
  <2>3. DOMAIN next' = Tracks
    BY <1>1, <1>8
  <2> QED
    BY <2>1, <2>2, <2>3 DEF NextFits
<1>10. /\ \A f, g \in store : f.start = g.start => f = g
       /\ seg # None => SegmentFits(seg) /\ seg.number < number /\ FilesFit(store, seg)
  BY DEF RecInv, StoreFits
<1>11. CASE Drifts(t, clock, dts)
  <2>1. recorder' = "failed" /\ UNCHANGED <<started, number, seg, store, hooks>>
    BY <1>1, <1>11
  <2>2. Keeps(store, store') /\ Stems(store')
    BY <2>1, StoreKeeps
  <2>5. CallsWritten(n)
    BY <2>1 DEF CallsWritten, RecInv, HooksFit
  <2>3. CASE seg = None
    BY <1>8, <1>9, <1>10, <2>1, <2>2, <2>3, <2>5 DEF Written
  <2>4. CASE seg # None
    <3>1. SegmentFits(seg')
      BY <1>10, <2>1, <2>4
    <3>2. Written
      BY <1>8, <1>10, <2>1, <2>2, <2>4, <3>1 DEF Written
    <3> QED
      BY <1>8, <1>9, <2>1, <2>5, <3>2
  <2> QED
    BY <2>3, <2>4
<1>12. CASE ~Drifts(t, clock, dts)
  <2>1. /\ started' = IF started[t] # None THEN started
                      ELSE [started EXCEPT ![t] = dts - clock]
        /\ \E d \in {Flush(start)} :
             /\ number' = IF d.ok /\ (Over(start) \/ seg = None)
                          THEN number + 1 ELSE number
             /\ \E w \in {IF ~d.ok THEN d
                          ELSE Add([d EXCEPT !.seg =
                             With(IF Over(start) THEN NewSegment(dts, clock, number)
                                  ELSE @)])} :
                  /\ store' = w.store /\ hooks' = w.hooks
                  /\ recorder' = IF w.ok THEN "running" ELSE "failed"
                  /\ seg' = IF w.ok THEN w.seg ELSE [w.seg EXCEPT !.part = <<>>]
    BY <1>1, <1>12
  <2>2. /\ DOMAIN started' = Tracks
        /\ \A u \in Tracks : started'[u] = None \/ started'[u] \in Offsets
    <3>1. dts - clock = offset[t]
      BY <1>8
    <3>2. dts - clock \in Offsets
      BY <1>8, <3>1
    <3>3. CASE started[t] # None
      BY <1>8, <2>1, <3>3
    <3>4. CASE started[t] = None
      BY <1>8, <2>1, <3>2, <3>4
    <3> QED
      BY <3>3, <3>4
  <2>3. PICK d : /\ d = Flush(start)
                 /\ number' = IF d.ok /\ (Over(start) \/ seg = None)
                              THEN number + 1 ELSE number
                 /\ \E w \in {IF ~d.ok THEN d
                              ELSE Add([d EXCEPT !.seg =
                                 With(IF Over(start) THEN NewSegment(dts, clock, number)
                                      ELSE @)])} :
                      /\ store' = w.store /\ hooks' = w.hooks
                      /\ recorder' = IF w.ok THEN "running" ELSE "failed"
                      /\ seg' = IF w.ok THEN w.seg ELSE [w.seg EXCEPT !.part = <<>>]
    BY <2>1
  <2>4. PICK w : /\ w = IF ~d.ok THEN d
                        ELSE Add([d EXCEPT !.seg =
                               With(IF Over(start) THEN NewSegment(dts, clock, number)
                                    ELSE @)])
                 /\ store' = w.store /\ hooks' = w.hooks
                 /\ recorder' = IF w.ok THEN "running" ELSE "failed"
                 /\ seg' = IF w.ok THEN w.seg ELSE [w.seg EXCEPT !.part = <<>>]
    BY <2>3
  <2>5. /\ SegmentFits(NewSegment(dts, clock, number))
        /\ NewSegment(dts, clock, number).start = clock
        /\ NewSegment(dts, clock, number).number = number
        /\ NewSegment(dts, clock, number).dts = dts
        /\ NewSegment(dts, clock, number).flushed = dts
    <3>1. PICK y : y = [ntp |-> clock, dts |-> dts]
      OBVIOUS
    <3>2. y.ntp = clock /\ y.dts = dts /\ \E p \in Offsets : y.ntp + p <= y.dts
      BY <1>8, <3>1
    <3>3. /\ SegmentFits(NewSegment(y.dts, y.ntp, number))
          /\ NewSegment(y.dts, y.ntp, number).start = y.ntp
          /\ NewSegment(y.dts, y.ntp, number).number = number
          /\ NewSegment(y.dts, y.ntp, number).dts = y.dts
      BY <1>8, <3>2, NewSegmentFits DEF RecInv
    <3>4. NewSegment(dts, clock, number).flushed = dts
      BY DEF NewSegment
    <3> QED
      BY <3>2, <3>3, <3>4
  <2>6. /\ SegmentFits(start) /\ FilesFit(store, start) /\ start \in Segments
        /\ (seg # None => start.number < number)
        /\ (seg = None => start.number = number /\ start.dts = dts /\ start.flushed = dts)
    <3>1. CASE seg # None
      BY <1>3, <1>10, <3>1 DEF SegmentFits
    <3>2. CASE seg = None
      <4>1. FilesFit(store, start)
        <5>1. start.stream = stream /\ start.file = None
          BY <1>3, <3>2 DEF NewSegment
        <5> QED
          BY <1>3, <2>5, <3>2, <5>1, FirstFits
      <4> QED
        BY <1>3, <2>5, <3>2, <4>1 DEF SegmentFits
    <3> QED
      BY <3>1, <3>2
  <2>7. Disk(start) \in Disks /\ Disk(start).seg = start /\ Disk(start).store = store
        /\ Disk(start).ok = TRUE
    BY <2>6, DiskIs DEF RecInv
  <2>8. Stays(Disk(start), d) /\ (seg = None => ~Over(start) /\ d.ok)
    <3>1. start.end \in Int /\ start.flushed \in Int /\ start.part \in Seq(Samples)
      BY <2>6 DEF Segments
    <3>2. CASE Over(start)
      <4>1. PICK b : b = [Disk(start) EXCEPT !.seg.end = dts]
        OBVIOUS
      <4>2. PICK s : s = [start EXCEPT !.end = dts]
        OBVIOUS
      <4>3. s \in Segments /\ Same(s, start) /\ s.dts = start.dts /\ s.file = start.file
        BY <1>8, <2>6, <4>2 DEF Segments, Same
      <4>4. b = [Disk(start) EXCEPT !.seg = s]
        BY <2>7, <4>1, <4>2
      <4>5. b \in Disks /\ b.store = Disk(start).store /\ b.seg = s
        BY <2>7, <4>3, <4>4 DEF Disks
      <4>6. Stays(Disk(start), b)
        BY <2>7, <4>3, <4>5, StaysWith
      <4>7. Stays(b, d)
        BY <1>5, <2>3, <3>2, <4>1, <4>5, CloseSegmentStays
      <4>8. seg # None
        BY <1>4, <3>2
      <4> QED
        BY <2>7, <4>6, <4>7, <4>8, StaysOn
    <3>3. CASE ~Over(start) /\ seg # None /\ dts - start.flushed >= PartDuration
      <4>1. PICK s : s = [start EXCEPT !.flushed = dts]
        OBVIOUS
      <4>2. s \in Segments /\ Same(s, start) /\ s.dts = start.dts /\ s.file = start.file
        BY <1>8, <2>6, <4>1 DEF Segments, Same
      <4>3. Disk(s) \in Disks /\ Disk(s).seg = s /\ Disk(s).store = store
        BY <4>2, DiskIs DEF RecInv
      <4>4. Stays(Disk(start), Disk(s))
        BY <2>7, <4>2, <4>3, StaysWith
      <4>5. Stays(Disk(s), d)
        BY <1>5, <2>3, <3>3, <4>1, <4>3, WritePartStays
      <4> QED
        BY <2>7, <3>3, <4>4, <4>5, StaysOn
    <3>4. CASE ~Over(start) /\ ~(seg # None /\ dts - start.flushed >= PartDuration)
      BY <1>5, <2>3, <2>7, <3>4, StaysItself
    <3> QED
      BY <3>2, <3>3, <3>4
  <2>13. /\ CallsStay(Disk(start), d, n)
         /\ Over(start) => d.seg.file \in {None, "closed"} /\ seg # None
    <3>2. CASE Over(start)
      <4>1. PICK b : b = [Disk(start) EXCEPT !.seg.end = dts]
        OBVIOUS
      <4>2. PICK s : s = [start EXCEPT !.end = dts]
        OBVIOUS
      <4>3. /\ s \in Segments /\ s.stream = start.stream /\ s.number = start.number
            /\ s.file = start.file
        BY <1>8, <2>6, <4>2 DEF Segments
      <4>4. b = [Disk(start) EXCEPT !.seg = s]
        BY <2>7, <4>1, <4>2
      <4>5. b \in Disks /\ b.hooks = Disk(start).hooks /\ b.seg = s
        BY <2>7, <4>3, <4>4 DEF Disks
      <4>6. CallsStay(Disk(start), b, n)
        BY <2>7, <4>3, <4>5, NoCall
      <4>7. d = CloseSegment(b, fault)
        BY <1>5, <2>3, <3>2, <4>1
      <4>8. CallsStay(b, d, n) /\ d.seg.file \in {None, "closed"}
        BY <1>5, <4>5, <4>7, CloseSegmentCalls
      <4> QED
        BY <2>8, <3>2, <4>6, <4>8, CallsStayOn
    <3>3. CASE ~Over(start) /\ seg # None /\ dts - start.flushed >= PartDuration
      <4>1. PICK s : s = [start EXCEPT !.flushed = dts]
        OBVIOUS
      <4>2. /\ s \in Segments /\ s.stream = start.stream /\ s.number = start.number
            /\ s.file = start.file
        BY <1>8, <2>6, <4>1 DEF Segments
      <4>3. Disk(s) \in Disks /\ Disk(s).seg = s /\ Disk(s).hooks = Disk(start).hooks
        BY <2>6, <4>2, DiskIs DEF RecInv
      <4>4. CallsStay(Disk(start), Disk(s), n)
        BY <2>7, <4>2, <4>3, NoCall
      <4>5. CallsStay(Disk(s), d, n)
        BY <1>5, <2>3, <3>3, <4>1, <4>3, WritePartCalls
      <4> QED
        BY <3>3, <4>4, <4>5, CallsStayOn
    <3>4. CASE ~Over(start) /\ ~(seg # None /\ dts - start.flushed >= PartDuration)
      BY <1>5, <2>3, <2>7, <3>4, NoCall
    <3> QED
      BY <3>2, <3>3, <3>4
  <2>9. /\ d \in Disks /\ SegmentFits(d.seg) /\ d.seg.number = start.number
        /\ d.seg.start = start.start /\ d.seg.dts = start.dts
        /\ FilesFit(d.store, d.seg) /\ Keeps(store, d.store)
        /\ Comes(store, d.store, d.seg) /\ Stems(d.store)
    BY <2>6, <2>8, StaysFits
  <2>14. /\ CallsFit(d.hooks, d.seg, n) /\ d.hooks \in Seq(Calls) /\ start.stream = stream
         /\ \A m \in Nat : start.number < m /\ number <= m => Before(d.hooks, stream, m)
    <3>1. /\ CallsFit(hooks, start, n) /\ start.stream = stream
          /\ \A m \in Nat : number <= m => Before(hooks, stream, m)
      BY <1>3, CurrentFits
    <3>2. Disk(start).hooks = hooks
      BY DEF Disk
    <3> QED
      BY <2>7, <2>9, <2>13, <3>1, <3>2 DEF CallsStay, Disks
  <2>10. /\ w \in Disks /\ SegmentFits(w.seg) /\ FilesFit(w.store, w.seg)
         /\ Keeps(store, w.store) /\ Stems(w.store)
         /\ w.seg.number < number' /\ number' \in Nat
         /\ CallsFit(w.hooks, w.seg, n) /\ Before(w.hooks, stream, number')
    <3>1. CASE ~d.ok
      <4>1. w = d /\ seg # None
        BY <2>4, <2>8, <3>1
      <4>2. number' = number
        BY <2>3, <3>1
      <4> QED
        BY <1>8, <2>6, <2>9, <2>14, <4>1, <4>2
    <3>2. CASE d.ok
      <4>1. PICK base : base = IF Over(start) THEN NewSegment(dts, clock, number) ELSE d.seg
        OBVIOUS
      <4>2. /\ SegmentFits(base) /\ FilesFit(d.store, base) /\ base.number < number'
            /\ number' \in Nat
        <5>1. CASE Over(start)
          <6>1. base = NewSegment(dts, clock, number) /\ number' = number + 1
            BY <2>3, <3>2, <4>1, <5>1
          <6>2. LongSegments => start.start < clock
            <7>1. PICK p \in Offsets : start.start + p <= start.dts
              BY <2>6 DEF SegmentFits
            <7>2. LongSegments => SegmentDuration > MaxBasetime + DriftTolerance + offset[t] - p
              BY <1>8 DEF LongSegments
            <7>3. start.start \in Nat /\ start.dts \in Int /\ p \in Int
              BY <2>6, OffsetsAreInt DEF Segments
            <7>7. offset[t] \in Int
              BY <1>8
            <7>4. PICK q \in Int : q = offset[t]
              BY <7>7
            <7>8. dts = clock + q
              BY <7>4
            <7>9. dts - start.dts >= SegmentDuration
              BY <1>4, <5>1
            <7>5. clock + q - start.dts >= SegmentDuration
              BY <1>8, <7>3, <7>4, <7>8, <7>9
            <7>6. /\ LongSegments => SegmentDuration > MaxBasetime + DriftTolerance + q - p
                  /\ MaxBasetime \in Nat /\ DriftTolerance \in Nat /\ SegmentDuration \in Nat
              BY <7>2, <7>4, OffsetsAreInt, CaseIs DEF RecInv, RecTypes
            <7> QED
              BY <1>8, <7>1, <7>3, <7>5, <7>6
          <6>3. /\ base.stream = stream /\ base.file = None
                /\ base.number = number /\ base.start = clock
            BY <6>1 DEF NewSegment
          <6>4. d.seg.number < number /\ d.store \in SUBSET Files
            BY <1>4, <2>6, <2>9, <5>1 DEF Disks
          <6>5. FilesFit(d.store, base)
            BY <1>8, <2>9, <6>2, <6>3, <6>4, NextFitsAfter
          <6> QED
            BY <1>8, <2>5, <6>1, <6>5
        <5>2. CASE ~Over(start)
          <6>1. base = d.seg
            BY <4>1, <5>2
          <6>2. CASE seg = None
            <7>1. number' = number + 1
              BY <2>3, <3>2, <6>2
            <7> QED
              BY <1>8, <2>6, <2>9, <6>1, <6>2, <7>1
          <6>3. CASE seg # None
            <7>1. number' = number
              BY <2>3, <5>2, <6>3
            <7> QED
              BY <1>8, <2>6, <2>9, <6>1, <6>3, <7>1
          <6> QED
            BY <6>2, <6>3
        <5> QED
          BY <5>1, <5>2
      <4>11. CallsFit(d.hooks, base, n) /\ Before(d.hooks, stream, number')
        <5>1. CASE Over(start)
          <6>1. base = NewSegment(dts, clock, number) /\ number' = number + 1
            BY <2>3, <3>2, <4>1, <5>1
          <6>2. start.number < number /\ start.number \in Nat
            BY <2>6, <2>13, <5>1 DEF Segments
          <6>3. /\ Before(d.hooks, stream, number) /\ Before(d.hooks, stream, number + 1)
            <7>1. number \in Nat /\ number + 1 \in Nat /\ number <= number /\ number <= number + 1
              BY <1>8
            <7>2. start.number < number + 1
              BY <6>2, <7>1
            <7> QED
              BY <2>14, <6>2, <7>1, <7>2
          <6>4. CallsFit(d.hooks, base, n)
            BY <1>8, <2>13, <2>14, <5>1, <6>1, <6>3, CallsOfNext DEF RecInv
          <6> QED
            BY <6>1, <6>3, <6>4
        <5>2. CASE ~Over(start)
          <6>1. base = d.seg /\ start.number = base.number
            BY <2>9, <4>1, <5>2
          <6>2. number <= number'
            BY <1>8, <2>3
          <6> QED
            BY <2>14, <4>2, <6>1, <6>2
        <5> QED
          BY <5>1, <5>2
      <4>3. PICK s : s = With(base)
        OBVIOUS
      <4>4. /\ s \in Segments /\ SegmentFits(s) /\ FilesFit(d.store, s) /\ s.number = base.number
            /\ s.stream = base.stream /\ s.file = base.file
        <5>1. base \in Segments
          BY <4>2 DEF SegmentFits
        <5>2. Append(base.part, sample) \in Seq(Samples)
          BY <1>2, <5>1 DEF Segments
        <5>3. s = [base EXCEPT !.end = dts, !.part = Append(base.part, sample)]
          BY <1>6, <4>3
        <5>4. s \in Segments /\ Same(s, base) /\ s.dts = base.dts /\ s.file = base.file
          BY <1>8, <5>1, <5>2, <5>3 DEF Segments, Same
        <5>5. SegmentFits(s)
          BY <4>2, <5>4 DEF SegmentFits, Same
        <5>6. FilesFit(d.store, s)
          BY <4>2, <5>4 DEF FilesFit, Same, Older
        <5> QED
          BY <5>4, <5>5, <5>6 DEF Same
      <4>5. PICK e : e = [d EXCEPT !.seg = s]
        OBVIOUS
      <4>6. e \in Disks /\ e.seg = s /\ e.store = d.store /\ e.hooks = d.hooks
        BY <2>9, <4>4, <4>5 DEF Disks
      <4>7. w = Add(e)
        BY <2>4, <3>2, <4>1, <4>3, <4>5
      <4>8. Stays(e, w)
        BY <1>7, <4>6, <4>7, WritePartStays, StaysItself
      <4>9. /\ w \in Disks /\ SegmentFits(w.seg) /\ w.seg.number = s.number
            /\ FilesFit(w.store, w.seg) /\ Keeps(d.store, w.store) /\ Stems(w.store)
        BY <2>9, <4>4, <4>6, <4>8, StaysFitsOn DEF RecInv
      <4>10. Keeps(store, w.store)
        BY <1>8, <2>9, <4>9, KeepsOn DEF Disks
      <4>12. CallsStay(e, w, n)
        BY <1>7, <4>6, <4>7, WritePartCalls, NoCall
      <4>13. CallsFit(e.hooks, e.seg, n)
        BY <4>4, <4>6, <4>11, CallsFitOf
      <4>14. e.seg.stream = stream /\ e.seg.number < number'
        BY <4>2, <4>4, <4>6 DEF SegmentFits
      <4>15. CallsFit(w.hooks, w.seg, n) /\ Before(w.hooks, stream, number')
        BY <4>2, <4>6, <4>11, <4>12, <4>13, <4>14 DEF CallsStay
      <4> QED
        BY <4>2, <4>4, <4>9, <4>10, <4>15
    <3> QED
      BY <3>1, <3>2
  <2>11. SegmentFits(seg') /\ seg'.number < number' /\ FilesFit(store', seg')
    <3>1. CASE w.ok
      BY <2>4, <2>10, <3>1
    <3>2. CASE ~w.ok
      <4>1. seg' = [w.seg EXCEPT !.part = <<>>]
        BY <2>4, <3>2
      <4>2. w.seg \in Segments /\ <<>> \in Seq(Samples)
        BY <2>10 DEF SegmentFits
      <4>3. seg' \in Segments /\ Same(seg', w.seg) /\ seg'.dts = w.seg.dts /\ seg'.file = w.seg.file
        BY <4>1, <4>2 DEF Segments, Same
      <4>4. SegmentFits(seg')
        BY <2>10, <4>3 DEF SegmentFits, Same
      <4>5. FilesFit(store', seg')
        BY <2>4, <2>10, <4>3 DEF FilesFit, Same, Older
      <4> QED
        BY <2>10, <4>3, <4>4, <4>5 DEF Same
    <3> QED
      BY <3>1, <3>2
  <2>12. Written
    <3>1. /\ store' \subseteq Files /\ hooks' \in Seq(Calls)
          /\ \A f, g \in store' : f.start = g.start => f = g
          /\ Stems(store')
          /\ Keeps(store, store') /\ recorder' \in {"running", "failed"}
      BY <2>4, <2>10 DEF Disks, FilesFit
    <3> QED
      BY <2>10, <2>11, <3>1 DEF Written
  <2>15. CallsWritten(n)
    <3>1. seg' # None
      BY <2>11, NoneAssumption DEF SegmentFits
    <3>2. CASE w.ok
      BY <2>4, <2>10, <3>1, <3>2 DEF CallsWritten
    <3>3. CASE ~w.ok
      <4>1. seg' = [w.seg EXCEPT !.part = <<>>] /\ w.seg \in Segments
        BY <2>4, <2>10, <3>3 DEF SegmentFits
      <4>2. seg'.stream = w.seg.stream /\ seg'.number = w.seg.number /\ seg'.file = w.seg.file
        BY <4>1 DEF Segments
      <4>4. PICK z : z = seg'
        OBVIOUS
      <4>5. CallsFit(w.hooks, z, n)
        BY <2>10, <4>2, <4>4, CallsFitOf
      <4>3. CallsFit(hooks', seg', n)
        BY <2>4, <4>4, <4>5
      <4> QED
        BY <2>4, <2>10, <3>1, <4>3 DEF CallsWritten
    <3> QED
      BY <3>2, <3>3
  <2> QED
    BY <1>9, <2>2, <2>12, <2>15
<1> QED
  BY Zenon, <1>11, <1>12

-----------------------------------------------------------------------------
(* The steps.                                                              *)

StepKeeps ==
  \A f \in store :
    \/ \E g \in store' : Takes(g, f)
    \/ case.deleteAfter # 0 /\ f.start + case.deleteAfter <= clock
    \/ faults' > faults

LEMMA KeepsIsEnough == Keeps(store, store') => StepKeeps
BY DEF Keeps, StepKeeps

LEMMA TypesAre ==
  ASSUME RecInv
  PROVE  /\ clock \in Nat /\ clock \in 0..MaxTime /\ case \in Cases
         /\ faults \in Nat /\ case.faults \in Nat /\ case.samples \in Nat
         /\ case.format \in {"fmp4", "mpegts"} /\ case.deleteAfter \in Nat
         /\ \A u \in Tracks : received[u] \in Nat
<1>1. /\ clock \in 0..MaxTime /\ case \in Cases /\ faults \in 0..case.faults
      /\ received \in [Tracks -> 0..case.samples]
  BY DEF RecInv, RecTypes
<1>2. /\ case.faults \in Nat /\ case.samples \in Nat /\ case.format \in {"fmp4", "mpegts"}
      /\ case.deleteAfter \in Nat
  BY <1>1, RecordingsAssumption
<1> QED
  BY <1>1, <1>2, OffsetsAreInt

\* What waits is what has arrived now, or is waiting already.
LEMMA ArrivalWaits ==
  ASSUME NEW t \in Tracks, NEW dts, NEW sync, NEW fault, DOMAIN next = Tracks,
         WriteFMP4(t, clock, dts, sync, fault) \/ WriteTS(t, clock, dts, sync, fault)
  PROVE  \A u \in Tracks : next'[u] = next[u] \/ next'[u].ntp = clock
<1> DEFINE prev == next[t]
           x == [track |-> t, n |-> received[t] + 1, ntp |-> clock, sync |-> sync,
                 dts |-> IF prev = None THEN dts ELSE MaxOf({dts, prev.dts})]
           z == [n |-> 0, ntp |-> clock]
<1>1. next' = [next EXCEPT ![t] = x] \/ next' = [next EXCEPT ![t] = z]
  BY DEF WriteFMP4, WriteTS
<1>2. x.ntp = clock /\ z.ntp = clock
  OBVIOUS
<1> HIDE DEF x, z
<1> QED
  BY <1>1, <1>2

LEMMA ReceiveStep ==
  ASSUME RecInv, NEW t \in Tracks, Receive(t)
  PROVE  RecInv' /\ StepKeeps
<1>1. PICK dts : dts = clock + offset[t]
  OBVIOUS
<1>2. /\ recorder = "running"
      /\ received[Video] + received[Audio] < case.samples
      /\ next[t] # None => next[t].ntp < clock
      /\ received' = [received EXCEPT ![t] = @ + 1]
      /\ UNCHANGED <<clock, case, offset, stream>>
  BY DEF Receive
<1>3. PICK sync \in BOOLEAN, fault \in Faults \cup {None} :
        /\ \/ case.format = "fmp4" /\ WriteFMP4(t, clock, dts, sync, fault)
           \/ case.format = "mpegts" /\ WriteTS(t, clock, dts, sync, fault)
        /\ IF fault = None THEN UNCHANGED faults
           ELSE faults' = faults + 1 /\ recorder' = "failed"
        /\ fault = None \/ faults < case.faults
  <2>1. (IF t = Video THEN VideoSyncs ELSE AudioSyncs) \subseteq BOOLEAN
    BY DEF VideoSyncs, AudioSyncs
  <2>2. ({None} \cup IF faults < case.faults THEN Faults ELSE {}) \subseteq Faults \cup {None}
    OBVIOUS
  <2>3. PICK sync \in IF t = Video THEN VideoSyncs ELSE AudioSyncs,
             fault \in {None} \cup IF faults < case.faults THEN Faults ELSE {} :
          /\ \/ case.format = "fmp4" /\ WriteFMP4(t, clock, dts, sync, fault)
             \/ /\ case.format = "mpegts" /\ fault # "header"
                /\ WriteTS(t, clock, dts, sync, fault)
          /\ IF fault = None THEN UNCHANGED faults
             ELSE faults' = faults + 1 /\ recorder' = "failed"
    BY <1>1 DEF Receive
  <2>4. sync \in BOOLEAN /\ fault \in Faults \cup {None}
    BY <2>1, <2>2
  <2>5. fault = None \/ faults < case.faults
    OBVIOUS
  <2> QED
    BY <2>3, <2>4, <2>5
<1>4. received[t] \in Nat
  BY TypesAre
<1>11. (fault # None => faults' # 0) /\ (faults' = 0 => faults = 0)
  BY <1>3, TypesAre
<1>5. /\ Written /\ CallsWritten(faults') /\ NextFits' /\ DOMAIN started' = Tracks
      /\ \A u \in Tracks : started'[u] = None \/ started'[u] \in Offsets
  <2>1. CASE case.format = "fmp4" /\ WriteFMP4(t, clock, dts, sync, fault)
    BY <1>1, <1>2, <1>4, <1>11, <2>1, FMP4Writes
  <2>2. CASE case.format = "mpegts" /\ WriteTS(t, clock, dts, sync, fault)
    BY <1>1, <1>2, <1>4, <1>11, <2>2, TSWrites
  <2> QED
    BY <1>3, <2>1, <2>2
<1>13. \A u \in Tracks : next'[u] = next[u] \/ next'[u].ntp = clock
  BY <1>3, ArrivalWaits DEF RecInv, NextFits
<1>6. received' \in [Tracks -> 0..case.samples]
  <2>1. received \in [Tracks -> 0..case.samples] /\ Tracks = {Video, Audio}
    BY DEF RecInv, RecTypes, Tracks
  <2>2. received[Video] \in Nat /\ received[Audio] \in Nat /\ case.samples \in Nat
    BY <2>1, TypesAre
  <2>3. received[t] + 1 \in 0..case.samples
    BY <1>2, <2>1, <2>2
  <2> QED
    BY <1>2, <2>1, <2>3
<1>7. faults' \in 0..case.faults
  <2>1. faults \in 0..case.faults /\ case.faults \in Nat
    BY TypesAre DEF RecInv, RecTypes
  <2> QED
    BY <1>3, <2>1
<1>8. RecTypes'
  <2>1. /\ clock \in 0..MaxTime /\ case \in Cases /\ offset \in [Tracks -> Offsets]
        /\ stream \in 0..MaxStreams
    BY DEF RecInv, RecTypes
  <2>2. /\ recorder' \in {"running", "failed"} /\ number' \in Nat
        /\ store' \subseteq Files /\ hooks' \in Seq(Calls)
    BY <1>5 DEF Written
  <2> QED
    BY <1>2, <1>5, <1>6, <1>7, <2>1, <2>2 DEF RecTypes
<1>9. StoreFits'
  <2>1. /\ \A f, g \in store' : f.start = g.start => f = g
        /\ \A f \in store' : f.start <= clock' /\ f.stream <= stream'
    <3>1. ASSUME NEW g \in store' PROVE g.start <= clock /\ g.stream <= stream
      <4>1. CASE g.stream = stream /\ g.start <= clock
        BY <4>1, RecordingsAssumption DEF RecInv, RecTypes
      <4>2. CASE \E f \in store : Same(g, f)
        BY <4>2 DEF RecInv, StoreFits, Same
      <4> QED
        BY <1>5, <4>1, <4>2 DEF Written, Stems
    <3> QED
      BY <1>2, <1>5, <3>1 DEF Written
  <2>4. ASSUME NEW f, IsPast(f) PROVE IsPast(f)'
    BY <1>2, <1>13, <2>4 DEF IsPast
  <2>5. ASSUME NEW g \in store', g.stream < stream' PROVE IsPast(g)'
    <3>1. PICK f \in store : Same(g, f)
      <4>1. g.stream # stream
        BY <1>2, <2>5, RecordingsAssumption DEF RecInv, RecTypes
      <4> QED
        BY <1>5, <4>1 DEF Written, Stems
    <3>2. IsPast(f)
      BY <1>2, <2>5, <3>1 DEF RecInv, StoreFits, Same
    <3>3. IsPast(g)
      BY <3>1, <3>2 DEF IsPast, Same
    <3> QED
      BY <2>4, <3>3
  <2>2. CASE seg = None /\ UNCHANGED <<seg, store>>
    <3>1. \A f \in store' : f.stream < stream'
      BY <1>2, <2>2 DEF RecInv, StoreFits
    <3>2. seg' = None
      BY <2>2
    <3> QED
      BY <2>1, <2>5, <3>1, <3>2 DEF StoreFits
  <2>3. CASE SegmentFits(seg') /\ seg'.number < number' /\ FilesFit(store', seg')
    <3>1. seg' # None
      BY <2>3, NoneAssumption DEF SegmentFits
    <3>2. SegmentFits(seg)'
      BY <1>2, <2>3 DEF SegmentFits
    <3> QED
      BY <1>2, <2>1, <2>3, <2>5, <3>1, <3>2, FilesFitNext DEF StoreFits
  <2> QED
    BY <1>5, <2>2, <2>3 DEF Written
<1>10. StepKeeps
  BY <1>5, KeepsIsEnough DEF Written
<1>12. HooksFit'
  <2>1. Before(hooks', stream', number')
    BY <1>2, <1>5 DEF CallsWritten
  <2>2. CASE UNCHANGED <<seg, hooks, number>>
    <3>1. Current' = Current
      BY <1>2, <2>2 DEF Current
    <3>2. CallsFit(hooks, Current, faults')
      BY <1>11, CallsFitStill DEF RecInv, HooksFit
    <3> QED
      BY <2>1, <2>2, <3>1, <3>2 DEF HooksFit
  <2>3. CASE seg' # None /\ CallsFit(hooks', seg', faults')
    <3>1. Current' = seg'
      BY <2>3 DEF Current
    <3> QED
      BY <2>1, <2>3, <3>1 DEF HooksFit
  <2> QED
    BY <1>5, <2>2, <2>3 DEF CallsWritten
<1> QED
  BY <1>5, <1>8, <1>9, <1>10, <1>12 DEF RecInv

\* The clock goes on, or nothing but the recorder and the offsets changes.
LEMMA OnlyLater ==
  ASSUME RecInv, clock \in Nat, clock' \in Nat, clock <= clock',
         UNCHANGED <<case, store, stream, received, started, next, seg, hooks>>,
         number' = number, faults' = 0 => faults = 0,
         recorder' = "running" => recorder = "running"
  PROVE  NextFits' /\ StoreFits' /\ HooksFit' /\ StepKeeps
<1>1. NextFits'
  <2>1. ASSUME NEW u \in Tracks PROVE WaitFits(next[u], received[u], started[u])'
    <3>1. WaitFits(next[u], received[u], started[u])
      BY DEF RecInv, NextFits
    <3>2. next[u] # None => next[u].ntp \in Nat /\ next[u].ntp <= clock'
      BY <3>1 DEF WaitFits, Waiting
    <3> QED
      BY <3>1, <3>2 DEF WaitFits
  <2> QED
    BY <2>1 DEF RecInv, NextFits
<1>2. \A f \in store : f.start \in Nat /\ f.start <= clock /\ f.stream <= stream
  BY DEF RecInv, RecTypes, StoreFits, Files
<1>3. \A f \in store : f.start <= clock'
  BY <1>2
<1>4. ASSUME recorder' = "running", NEW f \in store
      PROVE  (f.stream < stream \/ seg # None) /\ (f.stream < stream => IsPast(f)')
  <2>1. (f.stream < stream \/ seg # None) /\ (f.stream < stream => IsPast(f))
    BY <1>4 DEF RecInv, StoreFits
  <2> QED
    BY <1>2, <2>1 DEF IsPast
<1>5. ASSUME seg # None PROVE SegmentFits(seg)' /\ seg.number < number' /\ FilesFit(store, seg)'
  <2>1. SegmentFits(seg) /\ seg.number < number /\ FilesFit(store, seg)
    BY <1>5 DEF RecInv, StoreFits
  <2>2. seg.start \in Nat /\ seg.start <= clock'
    BY <2>1 DEF SegmentFits, Segments
  <2>3. SegmentFits(seg)'
    BY <2>1, <2>2 DEF SegmentFits
  <2> QED
    BY <1>5, <2>1, <2>3, FilesFitNext
<1>6. StoreFits'
  <2>1. \A f, g \in store : f.start = g.start => f = g
    BY DEF RecInv, StoreFits
  <2> QED
    BY <1>2, <1>3, <1>4, <1>5, <2>1 DEF StoreFits
<1>7. StepKeeps
  BY KeepsIsEnough, StoreKeeps
<1>8. HooksFit'
  <2>1. Current' = Current
    BY DEF Current
  <2>2. CallsFit(hooks, Current, faults')
    BY CallsFitStill DEF RecInv, HooksFit
  <2> QED
    BY <2>1, <2>2 DEF RecInv, HooksFit
<1> QED
  BY <1>1, <1>6, <1>7, <1>8

\* The end of an instance: the segment is closed, or lost.
LEMMA EndsStep ==
  ASSUME RecInv, NoInstance, recorder' \in {"off", "pausing"},
         CloseFormat \/ (UNCHANGED <<store, hooks>> /\ faults' # 0),
         faults' = 0 => faults = 0,
         UNCHANGED <<clock, case, offset, stream, received, number>>,
         faults' \in 0..case.faults
  PROVE  RecInv' /\ StepKeeps
<1>1. /\ store' \subseteq Files /\ hooks' \in Seq(Calls) /\ Keeps(store, store')
      /\ (\A f, g \in store' : f.start = g.start => f = g) /\ Stems(store')
  <2>1. CASE UNCHANGED <<store, hooks>>
    BY <2>1, StoreKeeps DEF RecInv, RecTypes, StoreFits
  <2>2. CASE CloseFormat /\ seg # None
    <3>1. PICK d : d = CloseSegment(Disk(seg), None)
      OBVIOUS
    <3>2. store' = d.store /\ hooks' = d.hooks
      BY <2>2, <3>1 DEF CloseFormat
    <3>3. SegmentFits(seg) /\ FilesFit(store, seg)
      BY <2>2 DEF RecInv, StoreFits
    <3>4. Disk(seg) \in Disks
      BY <3>3, DiskIs DEF RecInv, SegmentFits
    <3>5. Stays(Disk(seg), d)
      BY <3>1, <3>4, CloseSegmentStays
    <3>6. /\ d \in Disks /\ FilesFit(d.store, d.seg) /\ Keeps(store, d.store)
          /\ Stems(d.store)
      BY <3>3, <3>5, StaysFits
    <3> QED
      BY <3>2, <3>6 DEF Disks, FilesFit
  <2>3. CASE CloseFormat /\ seg = None
    <3>1. UNCHANGED <<store, hooks>>
      BY <2>3 DEF CloseFormat
    <3> QED
      BY <2>1, <3>1
  <2> QED
    BY <2>1, <2>2, <2>3
<1>2. seg' = None /\ next' = [t \in Tracks |-> None] /\ started' = [t \in Tracks |-> None]
  BY DEF NoInstance
<1>3. RecTypes'
  <2>1. /\ clock \in 0..MaxTime /\ case \in Cases /\ offset \in [Tracks -> Offsets]
        /\ stream \in 0..MaxStreams /\ number \in Nat
        /\ received \in [Tracks -> 0..case.samples]
    BY DEF RecInv, RecTypes
  <2>2. /\ DOMAIN started' = Tracks /\ \A t \in Tracks : started'[t] = None
        /\ \A t \in Tracks : next'[t] = None
    BY <1>2
  <2> QED
    BY <1>1, <1>2, <2>1, <2>2 DEF RecTypes
<1>4. NextFits'
  BY <1>2 DEF NextFits, WaitFits
<1>5. StoreFits'
  <2>1. ASSUME NEW g \in store' PROVE g.start <= clock /\ g.stream <= stream
    <3>1. CASE g.stream = stream /\ g.start <= clock
      BY <3>1, RecordingsAssumption DEF RecInv, RecTypes
    <3>2. CASE \E f \in store : Same(g, f)
      BY <3>2 DEF RecInv, StoreFits, Same
    <3> QED
      BY <1>1, <3>1, <3>2 DEF Stems
  <2> QED
    BY <1>1, <1>2, <2>1 DEF StoreFits
<1>6. HooksFit'
  <2>1. \E s : /\ CallsFit(hooks', s, faults') /\ Before(hooks', stream, number)
               /\ faults' = 0 => s.file \in {None, "closed"}
    <3>1. CallsFit(hooks, Current, faults') /\ Before(hooks, stream, number)
      BY CallsFitStill DEF RecInv, HooksFit
    <3>2. CASE UNCHANGED <<store, hooks>> /\ faults' # 0
      BY <3>1, <3>2
    <3>3. CASE CloseFormat /\ seg = None
      <4>1. hooks' = hooks /\ Current.file = None
        BY <3>3 DEF CloseFormat, Current
      <4> QED
        BY <3>1, <4>1
    <3>4. CASE CloseFormat /\ seg # None
      <4>1. PICK d : d = CloseSegment(Disk(seg), None)
        OBVIOUS
      <4>2. hooks' = d.hooks
        BY <3>4, <4>1 DEF CloseFormat
      <4>3. SegmentFits(seg) /\ seg.number < number /\ number \in Nat /\ Current = seg
        BY <3>4 DEF RecInv, RecTypes, StoreFits, Current
      <4>4. Disk(seg) \in Disks /\ Disk(seg).seg = seg /\ Disk(seg).hooks = hooks
        BY <4>3, DiskIs DEF RecInv, SegmentFits
      <4>5. CallsStay(Disk(seg), d, faults') /\ d.seg.file \in {None, "closed"}
        BY <4>1, <4>4, CloseSegmentCalls
      <4>6. CallsFit(d.hooks, d.seg, faults') /\ Before(d.hooks, stream, number)
        BY <3>1, <4>3, <4>4, <4>5 DEF CallsStay, SegmentFits
      <4> QED
        BY <4>2, <4>5, <4>6
    <3> QED
      BY <3>2, <3>3, <3>4
  <2>2. PICK s : /\ CallsFit(hooks', s, faults') /\ Before(hooks', stream, number)
                 /\ faults' = 0 => s.file \in {None, "closed"}
    BY <2>1
  <2>3. PICK c : c = [stream |-> stream, number |-> number, file |-> None]
    OBVIOUS
  <2>4. /\ c.stream = stream /\ c.number = number /\ c.file = None
        /\ stream \in Nat /\ number \in Nat
    BY <2>3, RecordingsAssumption DEF RecInv, RecTypes
  <2>5. CallsFit(hooks', c, faults')
    BY <1>1, <2>2, <2>4, CallsGoOn
  <2>6. Current' = c
    BY <1>2, <2>3 DEF Current
  <2> QED
    BY <2>2, <2>5, <2>6 DEF HooksFit
<1> QED
  BY <1>1, <1>3, <1>4, <1>5, <1>6, KeepsIsEnough DEF RecInv

\* Files go, the one that is being written too.
LEMMA UnlinkStep ==
  ASSUME RecInv, NEW files, Unlink(files), faults' \in 0..case.faults,
         faults' = 0 => faults = 0
  PROVE  RecInv'
<1>1. /\ store' = store \ files
      /\ seg' = IF seg # None /\ seg.file = "open" /\ (\E f \in files : f.start = seg.start)
                THEN [seg EXCEPT !.file = "removed"] ELSE seg
      /\ UNCHANGED <<clock, case, offset, recorder, stream, received, started, next,
                     number, hooks>>
  BY DEF Unlink
<1>4. CallsFit(hooks, Current, faults') /\ Before(hooks, stream, number)
  BY CallsFitStill DEF RecInv, HooksFit
<1>2. CASE seg = None
  <2>1. seg' = None
    BY <1>1, <1>2
  <2>5. HooksFit'
    <3>1. Current' = Current
      BY <1>1, <1>2, <2>1 DEF Current
    <3> QED
      BY <1>1, <1>4, <3>1 DEF HooksFit
  <2>2. RecTypes'
    BY <1>1, <2>1 DEF RecInv, RecTypes
  <2>3. NextFits'
    BY <1>1 DEF RecInv, NextFits, WaitFits
  <2>4. StoreFits'
    BY <1>1, <1>2, <2>1 DEF RecInv, StoreFits, IsPast
  <2> QED
    BY <2>2, <2>3, <2>4, <2>5 DEF RecInv
<1>3. CASE seg # None
  <2>1. SegmentFits(seg) /\ seg.number < number /\ FilesFit(store, seg) /\ seg \in Segments
    BY <1>3 DEF RecInv, StoreFits, SegmentFits
  <2>2. /\ seg' \in Segments /\ Same(seg', seg) /\ seg'.dts = seg.dts
        /\ seg'.file # None => seg.file # None
    BY <1>1, <2>1, NoneAssumption DEF Segments, Same
  <2>3. RecTypes'
    BY <1>1, <1>3 DEF RecInv, RecTypes
  <2>4. NextFits'
    BY <1>1 DEF RecInv, NextFits, WaitFits
  <2>5. SegmentFits(seg)'
    BY <1>1, <2>1, <2>2 DEF SegmentFits, Same
  <2>6. FilesFit(store, seg)'
    <3>1. FilesFit(store', seg')
      BY <1>1, <2>1, <2>2 DEF FilesFit, Same, Older
    <3> QED
      BY <1>1, <3>1, FilesFitNext
  <2>7. seg' # None
    BY <2>2, NoneAssumption
  <2>8. StoreFits'
    <3>1. /\ \A f, g \in store : f.start = g.start => f = g
          /\ \A f \in store : f.start <= clock /\ f.stream <= stream
          /\ recorder = "running" => \A f \in store : f.stream < stream => IsPast(f)
      BY DEF RecInv, StoreFits
    <3>2. seg'.number < number'
      BY <1>1, <2>1, <2>2 DEF Same
    <3> QED
      BY <1>1, <2>5, <2>6, <2>7, <3>1, <3>2 DEF StoreFits, IsPast
  <2>9. HooksFit'
    <3>1. PICK c : c = seg'
      OBVIOUS
    <3>2. /\ c.stream = seg.stream /\ c.number = seg.number
          /\ c.file = seg.file \/ (seg.file = "open" /\ c.file = "removed")
      BY <1>1, <2>1, <3>1 DEF Segments
    <3>3. Current = seg /\ Current' = c
      BY <1>3, <2>7, <3>1 DEF Current
    <3>4. CallsFit(hooks, seg, faults')
      BY <1>4, <3>3
    <3>5. CallsFit(hooks, c, faults')
      <4>1. CASE c.file = seg.file
        BY <3>2, <3>4, <4>1, CallsFitOf
      <4>2. CASE seg.file = "open" /\ c.file = "removed"
        <5>1. seg.file # None /\ c.file # None
          BY <4>2, NoneAssumption
        <5>2. CleanFits(hooks, seg) => CleanFits(hooks, c)
          BY <3>2, <4>2, <5>1 DEF CleanFits
        <5> QED
          BY <3>2, <3>4, <4>2, <5>1, <5>2 DEF CallsFit
      <4> QED
        BY <3>2, <4>1, <4>2
    <3> QED
      BY <1>1, <1>4, <3>3, <3>5 DEF HooksFit
  <2> QED
    BY <2>3, <2>4, <2>8, <2>9 DEF RecInv
<1> QED
  BY <1>2, <1>3

LEMMA RecStep ==
  ASSUME RecInv, [Next]_vars
  PROVE  RecInv' /\ StepKeeps
<1>1. /\ clock \in Nat /\ clock \in 0..MaxTime /\ MaxTime \in Nat
      /\ faults \in 0..case.faults /\ faults \in Nat /\ case.faults \in Nat
  BY TypesAre, OffsetsAreInt DEF RecInv, RecTypes
<1>2. ASSUME NEW t \in Tracks, Receive(t) PROVE RecInv' /\ StepKeeps
  BY <1>2, ReceiveStep
<1>3. ASSUME NEW t \in Tracks, Jump(t) PROVE RecInv' /\ StepKeeps
  <2>1. /\ faults < case.faults /\ faults' = faults + 1
        /\ offset' \in {[offset EXCEPT ![t] = o] : o \in Offsets \ {offset[t]}}
        /\ UNCHANGED <<clock, case, store, recorder, writing, hooks>>
    BY <1>3 DEF Jump
  <2>2. offset' \in [Tracks -> Offsets]
    BY <2>1 DEF RecInv, RecTypes
  <2>3. RecTypes'
    BY <1>1, <2>1, <2>2 DEF RecInv, RecTypes, writing
  <2>4. NextFits' /\ StoreFits' /\ HooksFit' /\ StepKeeps
    <3>1. /\ UNCHANGED <<case, store, stream, received, started, next, seg, hooks>>
          /\ number' = number /\ recorder' = recorder /\ clock' = clock
      BY <2>1 DEF writing
    <3>3. clock' \in Nat /\ clock <= clock'
      BY <1>1, <3>1
    <3>2. number' \in Nat
      BY <2>3 DEF RecTypes
    <3>4. faults' = 0 => faults = 0
      BY <1>1, <2>1
    <3> QED
      BY <1>1, <3>1, <3>2, <3>3, <3>4, OnlyLater
  <2> QED
    BY <2>3, <2>4 DEF RecInv
<1>4. CASE ReaderFails
  <2>1. /\ recorder = "running" /\ faults < case.faults
        /\ recorder' = "failed" /\ faults' = faults + 1
        /\ UNCHANGED <<clock, case, offset, store, writing, hooks>>
    BY <1>4 DEF ReaderFails
  <2>2. RecTypes'
    BY <1>1, <2>1 DEF RecInv, RecTypes, writing
  <2>3. NextFits' /\ StoreFits' /\ HooksFit' /\ StepKeeps
    <3>1. UNCHANGED <<case, store, stream, received, started, next, seg, hooks, clock, number>>
      BY <2>1 DEF writing
    <3>2. number' \in Nat
      BY <2>2 DEF RecTypes
    <3> QED
      BY <1>1, <2>1, <3>1, <3>2, OnlyLater
  <2> QED
    BY <2>2, <2>3 DEF RecInv
<1>5. CASE InstanceEnds
  BY <1>1, <1>5, EndsStep DEF InstanceEnds
<1>6. CASE Initialize
  <2>1. /\ recorder \in {"off", "pausing"} /\ stream < MaxStreams /\ clock < MaxTime
        /\ recorder' = "running" /\ stream' = stream + 1 /\ number' = 0
        /\ clock' = clock + 1
        /\ UNCHANGED <<case, offset, store, received, started, next, seg, hooks, faults>>
    BY <1>6 DEF Initialize
  <2>2. seg = None /\ \A t \in Tracks : next[t] = None
    BY <2>1 DEF RecInv, RecTypes
  <2>3. clock' \in 0..MaxTime /\ clock' \in Nat /\ clock < clock'
    BY <1>1, <2>1
  <2>4. stream' \in 0..MaxStreams
    <3>1. MaxStreams \in Nat /\ stream \in 0..MaxStreams
      BY RecordingsAssumption DEF RecInv, RecTypes
    <3> QED
      BY <2>1, <3>1
  <2>5. RecTypes'
    BY <2>1, <2>2, <2>3, <2>4 DEF RecInv, RecTypes
  <2>6. NextFits'
    BY <2>1, <2>2 DEF RecInv, NextFits, WaitFits
  <2>7. StoreFits'
    <3>1. /\ \A f, g \in store : f.start = g.start => f = g
          /\ \A f \in store : /\ f.start <= clock /\ f.start \in Nat
                              /\ f.stream <= stream /\ f.stream \in Nat
      BY DEF RecInv, StoreFits, RecTypes, Files
    <3>2. stream \in Nat
      BY RecordingsAssumption DEF RecInv, RecTypes
    <3>3. \A f \in store : f.start < clock' /\ f.start <= clock' /\ f.stream < stream'
      BY <1>1, <2>1, <2>3, <3>1, <3>2
    <3> QED
      BY <2>1, <2>2, <3>1, <3>3 DEF StoreFits, IsPast
  <2>8. StepKeeps
    BY <2>1, KeepsIsEnough, StoreKeeps
  <2>9. HooksFit'
    <3>1. PICK c : c = [stream |-> stream + 1, number |-> 0, file |-> None]
      OBVIOUS
    <3>2. c.stream = stream + 1 /\ c.number = 0 /\ c.file = None /\ Current' = c
      BY <2>1, <2>2, <3>1 DEF Current
    <3>3. /\ hooks \in Seq(Calls) /\ stream \in Nat /\ CallsFit(hooks, Current, faults)
          /\ Before(hooks, stream, number) /\ Current.file = None
      BY <2>2, RecordingsAssumption DEF RecInv, RecTypes, HooksFit, Current
    <3>4. Before(hooks, stream + 1, 0)
      <4>1. \A j \in DOMAIN hooks : hooks[j] \in Calls /\ hooks[j][2] \in Nat
        BY <3>3 DEF Calls
      <4> QED
        BY <3>3, <4>1 DEF Before
    <3>5. CallsFit(hooks, c, faults)
      BY <3>2, <3>3, <3>4, CallsGoOn
    <3> QED
      BY <2>1, <3>2, <3>4, <3>5 DEF HooksFit
  <2> QED
    BY <2>5, <2>6, <2>7, <2>8, <2>9 DEF RecInv
<1>7. CASE Close
  BY <1>1, <1>7, EndsStep DEF Close
<1>8. CASE Crash
  <2>1. faults' \in 0..case.faults
    BY <1>1, <1>8 DEF Crash
  <2>2. faults' # 0
    BY <1>1, <1>8 DEF Crash
  <2> QED
    BY <1>8, <2>1, <2>2, EndsStep DEF Crash
<1>9. CASE Clean
  <2>1. case.deleteAfter # 0 /\ Unlink(Expired) /\ UNCHANGED faults
    BY <1>9 DEF Clean
  <2>2. RecInv'
    BY <1>1, <2>1, UnlinkStep
  <2>3. StepKeeps
    <3>1. store' = store \ Expired
      BY <2>1 DEF Unlink
    <3>2. ASSUME NEW f \in Expired PROVE f \in store /\ f.start + case.deleteAfter <= clock
      <4>1. f \in store /\ f.start <= clock - case.deleteAfter
        BY DEF Expired
      <4>2. f.start \in Nat /\ case.deleteAfter \in Nat
        BY <4>1, TypesAre DEF RecInv, RecTypes, Files
      <4> QED
        BY <1>1, <4>1, <4>2
    <3> QED
      BY <2>1, <3>1, <3>2 DEF StepKeeps, Takes
  <2> QED
    BY <2>2, <2>3
<1>10. CASE DeleteSegment
  <2>1. faults < case.faults /\ faults' = faults + 1 /\ \E f \in store : Unlink({f})
    BY <1>10 DEF DeleteSegment
  <2>2. faults' > faults /\ faults' \in 0..case.faults /\ (faults' = 0 => faults = 0)
    BY <1>1, <2>1
  <2> QED
    BY <2>1, <2>2, UnlinkStep DEF StepKeeps
<1>11. CASE Tick
  <2>1. /\ clock < MaxTime /\ clock' = clock + 1
        /\ UNCHANGED <<case, offset, store, recorder, writing, hooks, faults>>
    BY <1>11 DEF Tick
  <2>2. clock' \in 0..MaxTime /\ clock' \in Nat /\ clock <= clock'
    BY <1>1, <2>1
  <2>3. RecTypes'
    BY <2>1, <2>2 DEF RecInv, RecTypes, writing
  <2>4. NextFits' /\ StoreFits' /\ HooksFit' /\ StepKeeps
    <3>1. /\ UNCHANGED <<case, store, stream, received, started, next, seg, hooks>>
          /\ number' = number /\ recorder' = recorder
      BY <2>1 DEF writing
    <3>2. number' \in Nat
      BY <2>3 DEF RecTypes
    <3>4. faults' = 0 => faults = 0
      BY <1>1, <2>1
    <3> QED
      BY <1>1, <2>2, <3>1, <3>2, <3>4, OnlyLater
  <2> QED
    BY <2>3, <2>4 DEF RecInv
<1>12. CASE UNCHANGED vars
  <2>1. UNCHANGED <<clock, case, offset, store, recorder, stream, received, started, next,
                    number, seg, hooks, faults>>
    BY <1>12 DEF vars, writing
  <2>2. RecTypes'
    BY <2>1 DEF RecInv, RecTypes
  <2>3. number' \in Nat
    BY <2>2 DEF RecTypes
  <2>4. NextFits' /\ StoreFits' /\ HooksFit' /\ StepKeeps
    <3>1. /\ UNCHANGED <<case, store, stream, received, started, next, seg, hooks>>
          /\ number' = number /\ recorder' = recorder
      BY <2>1
    <3>2. clock' \in Nat /\ clock <= clock'
      BY <1>1, <2>1
    <3>4. faults' = 0 => faults = 0
      BY <1>1, <2>1
    <3> QED
      BY <1>1, <2>3, <3>1, <3>2, <3>4, OnlyLater
  <2> QED
    BY <2>2, <2>4 DEF RecInv
<1> QED
  BY <1>2, <1>3, <1>4, <1>5, <1>6, <1>7, <1>8, <1>9, <1>10, <1>11, <1>12 DEF
     Next

LEMMA RecAgrees == ASSUME RecInv PROVE HooksAgree
<1>1. /\ hooks \in Seq(Calls) /\ CallsFit(hooks, Current, faults)
      /\ Before(hooks, stream, number) /\ stream \in Nat /\ number \in Nat
  BY RecordingsAssumption DEF RecInv, RecTypes, HooksFit
<1> SUFFICES ASSUME NEW i \in DOMAIN hooks
             PROVE  LET k == Tail(hooks[i])
                        At(hook) == {j \in DOMAIN hooks : hooks[j] = <<hook>> \o k}
                    IN /\ Cardinality(At("complete")) <= 1
                       /\ \A j \in At("complete") : \E c \in At("create") : c < j
                       /\ faults = 0 =>
                            /\ Cardinality(At("create")) = 1
                            /\ \/ Cardinality(At("complete")) = 1
                               \/ seg # None /\ k = <<seg.stream, seg.number>>
  BY DEF HooksAgree
<1>2. PICK a, b, e : hooks[i] = <<e, a, b>> /\ e \in {"create", "complete"} /\ a \in Nat /\ b \in Nat
  BY <1>1 DEF Calls
<1> DEFINE k == Tail(hooks[i])
           At(hook) == {j \in DOMAIN hooks : hooks[j] = <<hook>> \o k}
<1>3. k = <<a, b>> /\ hooks[i][2] = a /\ hooks[i][3] = b
  BY <1>2
<1>4. \A hook \in {"create", "complete"} : At(hook) = {j \in DOMAIN hooks : hooks[j] = <<hook, a, b>>}
  <2>1. ASSUME NEW hook \in {"create", "complete"} PROVE <<hook>> \o <<a, b>> = <<hook, a, b>>
    <3> DEFINE S == {"create", "complete"} \cup Nat
    <3>1. <<hook>> \in Seq(S) /\ <<a, b>> \in Seq(S)
      BY <1>2
    <3>2. /\ Len(<<hook>> \o <<a, b>>) = 3 /\ <<hook>> \o <<a, b>> \in Seq(S)
          /\ (<<hook>> \o <<a, b>>)[1] = hook /\ (<<hook>> \o <<a, b>>)[2] = a
          /\ (<<hook>> \o <<a, b>>)[3] = b
      BY <3>1
    <3> DEFINE w == <<hook>> \o <<a, b>>
    <3>3. w \in Seq(S) /\ Len(w) = 3 /\ w[1] = hook /\ w[2] = a /\ w[3] = b
      BY <3>2
    <3> HIDE DEF w
    <3>4. w = [m \in 1..3 |-> w[m]]
      BY <3>3
    <3>5. <<hook, a, b>> = [m \in 1..3 |-> w[m]]
      BY <3>3
    <3>6. w = <<hook, a, b>>
      BY <3>4, <3>5
    <3> QED
      BY <3>6 DEF w
  <2> QED
    BY <1>3, <2>1
<1> HIDE DEF At, k
<1>5. \A j, l \in At("complete") : j = l
  <2>1. ASSUME NEW j \in At("complete"), NEW l \in At("complete") PROVE j = l
    <3>1. /\ j \in DOMAIN hooks /\ l \in DOMAIN hooks
          /\ hooks[j] = <<"complete", a, b>> /\ hooks[l] = hooks[j]
      BY <1>4
    <3>2. hooks[j][1] = "complete"
      BY <3>1
    <3> QED
      BY <1>1, <3>1, <3>2 DEF CallsFit
  <2> QED
    BY <2>1
<1>6. Cardinality(At("complete")) <= 1 /\ (At("complete") # {} => Cardinality(At("complete")) = 1)
  <2>1. CASE At("complete") = {}
    BY <2>1, FS_EmptySet
  <2>2. CASE At("complete") # {}
    <3>1. PICK j : At("complete") = {j}
      BY <1>5, <2>2
    <3> QED
      BY <3>1, FS_Singleton
  <2> QED
    BY <2>1, <2>2
<1>7. \A j \in At("complete") : \E c \in At("create") : c < j
  BY <1>1, <1>4 DEF CallsFit
<1>8. ASSUME faults = 0
      PROVE  /\ Cardinality(At("create")) = 1
             /\ \/ Cardinality(At("complete")) = 1
                \/ seg # None /\ k = <<seg.stream, seg.number>>
  <2>1. CleanFits(hooks, Current)
    BY <1>1, <1>8 DEF CallsFit
  <2>2. At("create") # {}
    BY <1>2, <1>4, <1>7
  <2>3. \A j, l \in At("create") : j = l
    BY <1>4, <2>1 DEF CleanFits
  <2>4. PICK j : At("create") = {j}
    BY <2>2, <2>3
  <2>5. Cardinality(At("create")) = 1
    BY <2>4, FS_Singleton
  <2>6. \/ \E c \in DOMAIN hooks : hooks[c] = <<"complete", a, b>>
        \/ a = Current.stream /\ b = Current.number
    BY <1>3, <2>1 DEF CleanFits
  <2>7. CASE \E c \in DOMAIN hooks : hooks[c] = <<"complete", a, b>>
    BY <1>4, <1>6, <2>5, <2>7
  <2>8. CASE a = Current.stream /\ b = Current.number
    <3>1. seg # None
      BY <1>1, <1>2, <1>3, <2>8 DEF Current, Before
    <3> QED
      BY <1>3, <2>5, <2>8, <3>1 DEF Current
  <2> QED
    BY <2>6, <2>7, <2>8
<1> QED
  BY <1>6, <1>7, <1>8 DEF At, k

-----------------------------------------------------------------------------
(* The samples, and where they are.                                        *)

\* The samples that fMP4 writes.
Timed == [track : Tracks, n : Nat, sync : BOOLEAN, dts : Int, duration : Int]

\* The samples of a track in a part, and in the segment at hand.
In(p, t) == {s \in Range(p) : s.track = t}
Own(d, t) == In(d.seg.part, t) \cup UNION {Held(f, t) : f \in FileOn(d)}

\* The numbers of the samples grow, within a part, a file, and from file to file.
Below(P, Q) == \A p \in P, q \in Q : p.n < q.n
Ordered(p) == \A j, l \in DOMAIN p : j < l /\ p[j].track = p[l].track => p[j].n < p[l].n
FileOrdered(f) ==
  \A i, k \in DOMAIN f.parts : \A j \in DOMAIN f.parts[i], l \in DOMAIN f.parts[k] :
    f.parts[i][j].track = f.parts[k][l].track /\ (i < k \/ (i = k /\ j < l)) =>
      f.parts[i][j].n < f.parts[k][l].n
FilesOrdered(files) ==
  \A f \in files : FileOrdered(f) /\ \A g \in files : Earlier(f, g) =>
    (LongSegments => f.start < g.start) /\ \A t \in Tracks : Below(Held(f, t), Held(g, t))
OrderFits(d) ==
  /\ FilesOrdered(d.store) /\ Ordered(d.seg.part)
  /\ \A f \in d.store, t \in Tracks : Below(Held(f, t), In(d.seg.part, t))

\* All the samples of a track are before the n-th one.
FilesFresh(files, t, n) == \A f \in files : \A s \in Held(f, t) : s.n < n
Fresh(d, t, n) == FilesFresh(d.store, t, n) /\ \A s \in In(d.seg.part, t) : s.n < n

\* With fMP4, none is before the beginning of its segment.
FilesTimed(files) == \A f \in files, t \in Tracks : \A s \in Held(f, t) : s \in Timed /\ s.dts >= f.dts
TimesFit(d) ==
  /\ FilesTimed(d.store)
  /\ \A t \in Tracks : \A s \in In(d.seg.part, t) : s \in Timed /\ s.dts >= d.seg.dts
  /\ \A f \in d.store : Same(f, d.seg) => f.dts = d.seg.dts

\* An operation on the disk keeps that.
Kept(d, c) ==
  FilesFit(d.store, d.seg) =>
    /\ OrderFits(d) => OrderFits(c)
    /\ TimesFit(d) => TimesFit(c)
    /\ \A t \in Tracks, n \in Nat : Fresh(d, t, n) => Fresh(c, t, n)

\* A file has got a part.
Longer(g, f, p) == g.parts = Append(f.parts, p)

\* A file that is new, is as it was, or has got the part that the segment had.
Grown(d, c, g) ==
  \/ g.parts = <<>> /\ Same(g, d.seg) /\ g.dts = d.seg.dts
  \/ \E f \in d.store :
       /\ Same(g, f) /\ g.dts = f.dts
       /\ \/ g.parts = f.parts
          \/ f \in FileOn(d) /\ Longer(g, f, d.seg.part) /\ c.seg.part = <<>>
Grows(d, c) ==
  /\ c \in Disks /\ Same(c.seg, d.seg) /\ c.seg.dts = d.seg.dts
  /\ c.seg.part \in {d.seg.part, <<>>}
  /\ \A g \in c.store : Grown(d, c, g)

LEMMA HeldIs ==
  ASSUME NEW f, NEW t, NEW s
  PROVE  s \in Held(f, t) <=>
           /\ s.track = t
           /\ \E i \in DOMAIN f.parts : \E j \in DOMAIN f.parts[i] : s = f.parts[i][j]
BY DEF Held, Range

LEMMA HeldPlace ==
  ASSUME NEW f, NEW t, NEW s \in Held(f, t)
  PROVE  s.track = t /\ \E i \in DOMAIN f.parts : \E j \in DOMAIN f.parts[i] : s = f.parts[i][j]
BY DEF Held, Range

LEMMA PlaceHeld ==
  ASSUME NEW f, NEW i \in DOMAIN f.parts, NEW j \in DOMAIN f.parts[i]
  PROVE  f.parts[i][j] \in Held(f, f.parts[i][j].track)
BY Zenon, HeldIs

LEMMA InIs ==
  ASSUME NEW p, NEW t, NEW s
  PROVE  s \in In(p, t) <=> s.track = t /\ \E j \in DOMAIN p : s = p[j]
BY DEF In, Range

LEMMA NoSamples == ASSUME NEW f, NEW t, f.parts = <<>> PROVE Held(f, t) = {}
BY HeldIs

LEMMA NothingIn == ASSUME NEW t PROVE In(<<>>, t) = {}
BY InIs

LEMMA SamePlaces == ASSUME NEW f, NEW g, NEW t, g.parts = f.parts PROVE Held(g, t) = Held(f, t)
BY DEF Held

LEMMA HeldAppend ==
  ASSUME NEW f, NEW g, NEW p \in Seq(Samples), NEW t,
         f.parts \in Seq(Seq(Samples)), Longer(g, f, p)
  PROVE  Held(g, t) = Held(f, t) \cup In(p, t)
<1>1. /\ DOMAIN g.parts = DOMAIN f.parts \cup {Len(f.parts) + 1}
      /\ g.parts[Len(f.parts) + 1] = p
      /\ \A i \in DOMAIN f.parts : g.parts[i] = f.parts[i]
  BY DEF Longer
<1>2. ASSUME NEW s, s \in Held(g, t) PROVE s \in Held(f, t) \/ s \in In(p, t)
  <2>1. PICK i \in DOMAIN g.parts : s.track = t /\ \E j \in DOMAIN g.parts[i] : s = g.parts[i][j]
    BY <1>2, HeldPlace
  <2>2. CASE i \in DOMAIN f.parts
    <3>1. PICK j \in DOMAIN f.parts[i] : s = f.parts[i][j]
      BY <1>1, <2>1, <2>2
    <3> QED
      BY <2>1, <2>2, <3>1, PlaceHeld
  <2>3. CASE i = Len(f.parts) + 1
    <3>1. \E j \in DOMAIN p : s = p[j]
      BY <1>1, <2>1, <2>3
    <3> QED
      BY <2>1, <3>1, InIs
  <2> QED
    BY <1>1, <2>1, <2>2, <2>3
<1>3. ASSUME NEW s, s \in Held(f, t) PROVE s \in Held(g, t)
  <2>1. PICK i \in DOMAIN f.parts : s.track = t /\ \E j \in DOMAIN f.parts[i] : s = f.parts[i][j]
    BY <1>3, HeldPlace
  <2>2. i \in DOMAIN g.parts
    BY <1>1
  <2>3. PICK j \in DOMAIN g.parts[i] : s = g.parts[i][j]
    BY <1>1, <2>1
  <2> QED
    BY <2>1, <2>2, <2>3, PlaceHeld
<1>4. ASSUME NEW s, s \in In(p, t) PROVE s \in Held(g, t)
  <2>1. s.track = t /\ \E j \in DOMAIN p : s = p[j]
    BY <1>4, InIs
  <2>2. PICK i \in DOMAIN g.parts : \E j \in DOMAIN g.parts[i] : s = g.parts[i][j]
    BY <1>1, <2>1
  <2> QED
    BY <2>1, <2>2, PlaceHeld
<1> QED
  BY <1>2, <1>3, <1>4

LEMMA InAppend ==
  ASSUME NEW p \in Seq(Samples), NEW x \in Samples, NEW t
  PROVE  In(Append(p, x), t) = In(p, t) \cup (IF x.track = t THEN {x} ELSE {})
<1>1. PICK q : q = Append(p, x)
  OBVIOUS
<1>2. /\ DOMAIN q = DOMAIN p \cup {Len(p) + 1} /\ q[Len(p) + 1] = x
      /\ \A i \in DOMAIN p : q[i] = p[i]
  BY <1>1
<1>3. ASSUME NEW s PROVE s \in In(q, t) <=> s \in In(p, t) \/ (s = x /\ x.track = t)
  BY <1>2, InIs
<1> QED
  BY <1>1, <1>3

LEMMA OrderedAppend ==
  ASSUME NEW p \in Seq(Samples), NEW x \in Samples, Ordered(p),
         \A s \in In(p, x.track) : s.n < x.n
  PROVE  Ordered(Append(p, x))
<1>1. PICK q : q = Append(p, x)
  OBVIOUS
<1>2. /\ DOMAIN q = DOMAIN p \cup {Len(p) + 1} /\ q[Len(p) + 1] = x
      /\ DOMAIN p = 1..Len(p) /\ Len(p) \in Nat /\ \A i \in DOMAIN p : q[i] = p[i]
  BY <1>1
<1>3. ASSUME NEW j \in DOMAIN q, NEW l \in DOMAIN q, j < l, q[j].track = q[l].track
      PROVE  q[j].n < q[l].n
  <2>1. j \in DOMAIN p
    BY <1>2, <1>3
  <2>2. CASE l \in DOMAIN p
    BY <1>2, <1>3, <2>1, <2>2 DEF Ordered
  <2>3. CASE l = Len(p) + 1
    <3>1. p[j] \in In(p, x.track)
      BY <1>2, <1>3, <2>1, <2>3, InIs
    <3> QED
      BY <1>2, <2>1, <2>3, <3>1
  <2> QED
    BY <1>2, <2>2, <2>3
<1> QED
  BY <1>1, <1>3 DEF Ordered

LEMMA FileOrderedAppend ==
  ASSUME NEW f, NEW g, NEW p \in Seq(Samples), f.parts \in Seq(Seq(Samples)),
         Longer(g, f, p), FileOrdered(f), Ordered(p),
         \A t \in Tracks : Below(Held(f, t), In(p, t))
  PROVE  FileOrdered(g)
<1>1. /\ DOMAIN g.parts = DOMAIN f.parts \cup {Len(f.parts) + 1} /\ DOMAIN f.parts = 1..Len(f.parts)
      /\ g.parts[Len(f.parts) + 1] = p /\ Len(f.parts) \in Nat
      /\ \A i \in DOMAIN f.parts : g.parts[i] = f.parts[i]
  BY DEF Longer
<1>2. ASSUME NEW i \in DOMAIN g.parts, NEW k \in DOMAIN g.parts,
             NEW j \in DOMAIN g.parts[i], NEW l \in DOMAIN g.parts[k],
             g.parts[i][j].track = g.parts[k][l].track, i < k \/ (i = k /\ j < l)
      PROVE  g.parts[i][j].n < g.parts[k][l].n
  <2>1. CASE k \in DOMAIN f.parts
    <3>1. i \in DOMAIN f.parts
      BY <1>1, <1>2, <2>1
    <3> QED
      BY <1>1, <1>2, <2>1, <3>1 DEF FileOrdered
  <2>2. CASE i = Len(f.parts) + 1 /\ k = Len(f.parts) + 1
    BY <1>1, <1>2, <2>2 DEF Ordered
  <2>3. CASE i \in DOMAIN f.parts /\ k = Len(f.parts) + 1
    <3>1. PICK s : s = p[l] /\ s = g.parts[k][l]
      BY <1>1, <2>3
    <3>2. PICK r : r = f.parts[i][j] /\ r = g.parts[i][j]
      BY <1>1, <2>3
    <3>3. s \in Samples /\ s.track \in Tracks
      <4>1. s \in Samples
        BY <1>1, <2>3, <3>1
      <4> QED
        BY <4>1 DEF Samples
    <3>4. s \in In(p, s.track) /\ r \in Held(f, s.track)
      <4>1. j \in DOMAIN f.parts[i] /\ l \in DOMAIN p /\ r.track = s.track
        BY <1>1, <1>2, <2>3, <3>1, <3>2
      <4>2. r \in Held(f, r.track)
        BY <2>3, <3>2, <4>1, PlaceHeld
      <4> QED
        BY <3>1, <4>1, <4>2, InIs
    <3> QED
      BY <3>1, <3>2, <3>3, <3>4 DEF Below
  <2> QED
    BY <1>1, <1>2, <2>1, <2>2, <2>3
<1> QED
  BY <1>2 DEF FileOrdered

\* What the files hold after such an operation.
LEMMA GrownHolds ==
  ASSUME NEW d \in Disks, FilesFit(d.store, d.seg), NEW c, NEW g, Grown(d, c, g)
  PROVE  \/ /\ Same(g, d.seg) /\ g.dts = d.seg.dts /\ g.parts = <<>>
            /\ \A t : Held(g, t) = {}
         \/ \E f \in d.store :
              /\ Same(g, f) /\ g.dts = f.dts
              /\ \/ g.parts = f.parts /\ \A t : Held(g, t) = Held(f, t)
                 \/ /\ Same(f, d.seg) /\ Longer(g, f, d.seg.part)
                    /\ c.seg.part = <<>>
                    /\ \A t : Held(g, t) = Held(f, t) \cup In(d.seg.part, t)
<1>1. CASE g.parts = <<>> /\ Same(g, d.seg) /\ g.dts = d.seg.dts
  BY <1>1, NoSamples
<1>4. \A f \in FileOn(d) : Same(f, d.seg)
  BY DEF FileOn, FilesFit
<1>2. ASSUME NEW f \in d.store, Same(g, f), g.dts = f.dts, g.parts = f.parts
      PROVE  \A t : Held(g, t) = Held(f, t)
  BY <1>2, SamePlaces
<1>3. ASSUME NEW f \in d.store, Longer(g, f, d.seg.part), NEW t
      PROVE  Held(g, t) = Held(f, t) \cup In(d.seg.part, t)
  <2>1. PICK p : p = d.seg.part
    OBVIOUS
  <2>2. f.parts \in Seq(Seq(Samples)) /\ p \in Seq(Samples) /\ Longer(g, f, p)
    BY <1>3, <2>1 DEF Disks, Files, Segments
  <2>3. Held(g, t) = Held(f, t) \cup In(p, t)
    BY <2>2, HeldAppend
  <2> QED
    BY <2>1, <2>3
<1> QED
  BY <1>1, <1>2, <1>3, <1>4 DEF Grown

LEMMA GrowsKeeps == ASSUME NEW d \in Disks, NEW c, Grows(d, c) PROVE Kept(d, c)
<1> SUFFICES ASSUME FilesFit(d.store, d.seg)
             PROVE  /\ OrderFits(d) => OrderFits(c)
                    /\ TimesFit(d) => TimesFit(c)
                    /\ \A t \in Tracks, n \in Nat : Fresh(d, t, n) => Fresh(c, t, n)
  BY DEF Kept
<1>1. /\ c \in Disks /\ Same(c.seg, d.seg) /\ c.seg.dts = d.seg.dts
      /\ c.seg.part = d.seg.part \/ c.seg.part = <<>>
  BY DEF Grows
<1>2. \A g \in c.store :
         \/ /\ Same(g, d.seg) /\ g.dts = d.seg.dts /\ g.parts = <<>>
            /\ \A t : Held(g, t) = {}
         \/ \E f \in d.store :
              /\ Same(g, f) /\ g.dts = f.dts
              /\ \/ g.parts = f.parts /\ \A t : Held(g, t) = Held(f, t)
                 \/ /\ Same(f, d.seg) /\ Longer(g, f, d.seg.part)
                    /\ c.seg.part = <<>>
                    /\ \A t : Held(g, t) = Held(f, t) \cup In(d.seg.part, t)
  BY GrownHolds DEF Grows
<1>3. \A f \in d.store : /\ ~Earlier(d.seg, f)
                         /\ Earlier(f, d.seg) => (LongSegments => f.start < d.seg.start)
  <2>1. \A f \in d.store : /\ f.stream \in Nat /\ d.seg.stream \in Nat
                           /\ f.number \in Nat /\ d.seg.number \in Nat
    BY DEF Disks, Files, Segments
  <2> QED
    BY <2>1 DEF FilesFit, Same, Older, Earlier
<1>4. \A t \in Tracks : \A s \in In(c.seg.part, t) : s \in In(d.seg.part, t) /\ c.seg.part = d.seg.part
  BY <1>1, NothingIn
<1>5. ASSUME OrderFits(d) PROVE OrderFits(c)
  <2>1. \A f \in d.store : FileOrdered(f)
    BY <1>5 DEF OrderFits, FilesOrdered
  <2>2. ASSUME NEW g \in c.store PROVE FileOrdered(g)
    <3>1. CASE g.parts = <<>>
      BY <3>1 DEF FileOrdered
    <3>2. ASSUME NEW f \in d.store, g.parts = f.parts PROVE FileOrdered(g)
      BY <2>1, <3>2 DEF FileOrdered
    <3>3. ASSUME NEW f \in d.store, Longer(g, f, d.seg.part) PROVE FileOrdered(g)
      <4>1. f.parts \in Seq(Seq(Samples)) /\ d.seg.part \in Seq(Samples)
        BY DEF Disks, Files, Segments
      <4>2. Ordered(d.seg.part) /\ \A t \in Tracks : Below(Held(f, t), In(d.seg.part, t))
        BY <1>5 DEF OrderFits
      <4> QED
        BY <2>1, <3>3, <4>1, <4>2, FileOrderedAppend
    <3> QED
      BY <1>2, <3>1, <3>2, <3>3
  <2>3. ASSUME NEW g \in c.store, NEW h \in c.store, NEW t \in Tracks, Earlier(g, h),
               NEW p \in Held(g, t), NEW q \in Held(h, t)
        PROVE  p.n < q.n
    <3>1. PICK f \in d.store : Same(g, f) /\ (p \in Held(f, t) \/ Same(f, d.seg))
      BY <1>2
    <3>2. PICK e \in d.store : Same(h, e) /\ (q \in Held(e, t) \/ q \in In(d.seg.part, t))
      BY <1>2
    <3>3. Earlier(f, e) /\ ~Same(f, d.seg)
      BY <1>3, <2>3, <3>1, <3>2 DEF Earlier, Same
    <3>4. Below(Held(f, t), Held(e, t)) /\ Below(Held(f, t), In(d.seg.part, t))
      BY <1>5, <3>3 DEF OrderFits, FilesOrdered
    <3> QED
      BY <3>1, <3>2, <3>3, <3>4 DEF Below
  <2>6. ASSUME NEW g \in c.store, NEW h \in c.store, Earlier(g, h), LongSegments
        PROVE  g.start < h.start
    <3>1. (\E f \in d.store : Same(g, f)) \/ Same(g, d.seg)
      BY <1>2
    <3>2. (\E f \in d.store : Same(h, f)) \/ Same(h, d.seg)
      BY <1>2
    <3>3. ~Same(g, d.seg)
      <4>1. ~Earlier(d.seg, d.seg)
        BY DEF Earlier, Disks, Segments
      <4> QED
        BY <1>3, <2>6, <3>2, <4>1 DEF Earlier, Same
    <3>4. \A f, e \in d.store : Earlier(f, e) => f.start < e.start
      BY <1>5, <2>6 DEF OrderFits, FilesOrdered
    <3> QED
      BY <1>3, <2>6, <3>1, <3>2, <3>3, <3>4 DEF Earlier, Same
  <2>4. Ordered(c.seg.part)
    <3>1. CASE c.seg.part = d.seg.part
      BY <1>5, <3>1 DEF OrderFits
    <3>2. CASE c.seg.part = <<>>
      BY <3>2 DEF Ordered
    <3> QED
      BY <1>1, <3>1, <3>2
  <2>5. ASSUME NEW g \in c.store, NEW t \in Tracks, NEW p \in Held(g, t), NEW q \in In(c.seg.part, t)
        PROVE  p.n < q.n
    <3>1. q \in In(d.seg.part, t) /\ c.seg.part # <<>>
      BY <1>4, NothingIn
    <3>2. PICK f \in d.store : p \in Held(f, t)
      BY <1>2, <3>1
    <3> QED
      BY <1>5, <3>1, <3>2 DEF OrderFits, Below
  <2> QED
    BY <2>2, <2>3, <2>4, <2>5, <2>6 DEF OrderFits, FilesOrdered, Below
<1>6. ASSUME TimesFit(d) PROVE TimesFit(c)
  <2>1. ASSUME NEW g \in c.store, NEW t \in Tracks, NEW s \in Held(g, t)
        PROVE  s \in Timed /\ s.dts >= g.dts
    <3>1. PICK f \in d.store :
            /\ g.dts = f.dts
            /\ s \in Held(f, t) \/ (Same(f, d.seg) /\ s \in In(d.seg.part, t))
      BY <1>2
    <3> QED
      BY <1>6, <3>1 DEF TimesFit, FilesTimed
  <2>2. ASSUME NEW g \in c.store, Same(g, c.seg) PROVE g.dts = c.seg.dts
    BY <1>1, <1>2, <1>6, <2>2 DEF TimesFit, Same
  <2>3. \A t \in Tracks : \A s \in In(c.seg.part, t) : s \in Timed /\ s.dts >= c.seg.dts
    BY <1>1, <1>4, <1>6 DEF TimesFit
  <2> QED
    BY <2>1, <2>2, <2>3 DEF TimesFit, FilesTimed
<1>7. ASSUME NEW t \in Tracks, NEW n \in Nat, Fresh(d, t, n) PROVE Fresh(c, t, n)
  <2>1. ASSUME NEW g \in c.store, NEW s \in Held(g, t) PROVE s.n < n
    <3>1. (\E f \in d.store : s \in Held(f, t)) \/ s \in In(d.seg.part, t)
      BY <1>2
    <3> QED
      BY <1>7, <3>1 DEF Fresh, FilesFresh
  <2>2. \A s \in In(c.seg.part, t) : s.n < n
    BY <1>4, <1>7 DEF Fresh
  <2> QED
    BY <2>1, <2>2 DEF Fresh, FilesFresh
<1> QED
  BY <1>5, <1>6, <1>7

LEMMA KeptOn ==
  ASSUME NEW b, NEW c, NEW d, Stays(b, c), Kept(b, c), Kept(c, d) PROVE Kept(b, d)
<1>1. FilesFit(b.store, b.seg) => FilesFit(c.store, c.seg)
  BY DEF Stays
<1> QED
  BY <1>1 DEF Kept

LEMMA KeptItself == ASSUME NEW d PROVE Kept(d, d)
BY DEF Kept

\* Another record of the same segment, with the same files and part, or without it.
LEMMA GrowsNot ==
  ASSUME NEW d, NEW c \in Disks, c.store = d.store, Same(c.seg, d.seg),
         c.seg.dts = d.seg.dts, c.seg.part \in {d.seg.part, <<>>}
  PROVE  Grows(d, c)
BY DEF Grows, Grown, Same

LEMMA CreateKeeps ==
  ASSUME NEW d \in Disks, NEW fault \in Faults \cup {None}
  PROVE  Kept(d, Create(d, fault))
<1>1. PICK c : c = Create(d, fault)
  OBVIOUS
<1>2. c \in Disks /\ Same(c.seg, d.seg) /\ c.seg.dts = d.seg.dts
  BY <1>1, CreateStays DEF Stays
<1>3. CASE c = d
  BY <1>1, <1>3, KeptItself
<1>4. CASE c = [d EXCEPT !.ok = FALSE]
  <2>1. c.store = d.store /\ c.seg = d.seg
    BY <1>4 DEF Disks
  <2> QED
    BY <1>1, <1>2, <2>1, GrowsNot, GrowsKeeps
<1>5. ASSUME NEW f \in Files, Same(f, d.seg), f.dts = d.seg.dts, f.parts = <<>>,
             c = [seg |-> [d.seg EXCEPT !.file = IF fault # "header" THEN "open" ELSE None],
                  store |-> {g \in d.store : g.start # f.start} \cup {f},
                  hooks |-> Append(d.hooks, <<"create", d.seg.stream, d.seg.number>>),
                  ok |-> fault # "header"]
      PROVE  Kept(d, c)
  <2>1. c.seg.part = d.seg.part /\ c.store = {g \in d.store : g.start # f.start} \cup {f}
    BY <1>5 DEF Disks, Segments
  <2>2. ASSUME NEW g \in c.store PROVE Grown(d, c, g)
    BY <1>5, <2>1, <2>2 DEF Grown, Same
  <2> QED
    BY <1>2, <2>1, <2>2, GrowsKeeps DEF Grows
<1> QED
  BY <1>1, <1>3, <1>4, <1>5, CreateEffect

\* What a file is when a part or its duration has been written.
LEMMA WithPartFiles ==
  ASSUME NEW d \in Disks, NEW g \in WithPart(d)
  PROVE  \/ g \in d.store \ FileOn(d)
         \/ \E f \in FileOn(d) :
              /\ Same(g, f) /\ g.dts = f.dts /\ g.header = f.header /\ g.duration = f.duration
              /\ Longer(g, f, d.seg.part)
<1>1. CASE g \in d.store \ FileOn(d)
  BY <1>1
<1>2. CASE g \notin d.store \ FileOn(d)
  <2>1. PICK f \in FileOn(d) : g = [f EXCEPT !.parts = Append(@, d.seg.part)]
    BY <1>2 DEF WithPart
  <2>2. f \in Files
    BY DEF FileOn, Disks
  <2> QED
    BY <2>1, <2>2 DEF Same, Longer, Files
<1> QED
  BY <1>1, <1>2

LEMMA WithDurationFiles ==
  ASSUME NEW d \in Disks, NEW duration, NEW g \in WithDuration(d, duration)
  PROVE  \/ g \in d.store \ FileOn(d)
         \/ \E f \in FileOn(d) :
              /\ Same(g, f) /\ g.dts = f.dts /\ g.header = f.header /\ g.duration = duration
              /\ g.parts = f.parts
<1>1. CASE g \in d.store \ FileOn(d)
  BY <1>1
<1>2. CASE g \notin d.store \ FileOn(d)
  <2>1. PICK f \in FileOn(d) : g = [f EXCEPT !.duration = duration]
    BY <1>2 DEF WithDuration
  <2>2. f \in Files
    BY DEF FileOn, Disks
  <2> QED
    BY <2>1, <2>2 DEF Same, Files
<1> QED
  BY <1>1, <1>2

LEMMA AppendPartKeeps ==
  ASSUME NEW d \in Disks, NEW fault PROVE Kept(d, AppendPart(d, fault, <<>>))
<1>1. PICK c : c = AppendPart(d, fault, <<>>)
  OBVIOUS
<1>2. c \in Disks /\ Same(c.seg, d.seg) /\ c.seg.dts = d.seg.dts
  <2>1. <<>> \in Seq(Samples)
    OBVIOUS
  <2> QED
    BY <1>1, <2>1, AppendPartStays DEF Stays
<1>3. CASE c = [d EXCEPT !.ok = FALSE]
  <2>1. c.store = d.store /\ c.seg = d.seg
    BY <1>3 DEF Disks
  <2> QED
    BY <1>1, <1>2, <2>1, GrowsNot, GrowsKeeps
<1>4. CASE c = [seg |-> [d.seg EXCEPT !.part = <<>>], store |-> WithPart(d),
                hooks |-> d.hooks, ok |-> TRUE]
  <2>1. c.store = WithPart(d) /\ c.seg.part = <<>>
    BY <1>4 DEF Disks, Segments
  <2>2. ASSUME NEW g \in c.store PROVE Grown(d, c, g)
    BY <2>1, <2>2, WithPartFiles DEF Grown, Same, FileOn
  <2>3. c.seg.part \in {d.seg.part, <<>>}
    BY <2>1
  <2>4. Grows(d, c)
    BY <1>2, <2>2, <2>3 DEF Grows
  <2> QED
    BY <1>1, <2>4, GrowsKeeps
<1> QED
  BY <1>1, <1>3, <1>4, AppendPartEffect

LEMMA WritePartKeeps ==
  ASSUME NEW d \in Disks, NEW fault \in Faults \cup {None}
  PROVE  Kept(d, WritePart(d, fault))
<1>1. PICK c : c = Create(d, fault)
  OBVIOUS
<1>2. Stays(d, c) /\ c \in Disks /\ Kept(d, c)
  BY <1>1, CreateStays, CreateKeeps DEF Stays
<1>3. Kept(c, AppendPart(c, fault, <<>>))
  BY <1>2, AppendPartKeeps
<1> QED
  BY <1>1, <1>2, <1>3, KeptOn DEF WritePart

LEMMA CloseFileKeeps ==
  ASSUME NEW d \in Disks, NEW without, None \in without
  PROVE  Kept(d, CloseFile(d, without))
<1>1. PICK c : c = CloseFile(d, without)
  OBVIOUS
<1>2. c \in Disks /\ Same(c.seg, d.seg) /\ c.seg.dts = d.seg.dts
  BY <1>1, CloseFileStays DEF Stays
<1>3. CASE c = d
  BY <1>1, <1>3, KeptItself
<1>4. CASE c = [seg |-> [d.seg EXCEPT !.file = "closed"],
                store |-> IF case.format = "mpegts" THEN d.store
                          ELSE WithDuration(d, d.seg.end - d.seg.dts),
                hooks |-> Append(d.hooks, <<"complete", d.seg.stream, d.seg.number>>),
                ok |-> d.ok]
  <2>1. c.seg.part = d.seg.part
    BY <1>4 DEF Disks, Segments
  <2>2. ASSUME NEW g \in c.store PROVE Grown(d, c, g)
    <3>1. g \in d.store \/ g \in WithDuration(d, d.seg.end - d.seg.dts)
      BY <1>4
    <3>2. g \in d.store \/ \E f \in FileOn(d) : Same(g, f) /\ g.dts = f.dts /\ g.parts = f.parts
      BY <3>1, WithDurationFiles
    <3> QED
      BY <3>2 DEF Grown, Same, FileOn
  <2>3. Grows(d, c)
    BY <1>2, <2>1, <2>2 DEF Grows
  <2> QED
    BY <1>1, <2>3, GrowsKeeps
<1> QED
  BY <1>1, <1>3, <1>4, CloseFileEffect

LEMMA CloseSegmentKeeps ==
  ASSUME NEW d \in Disks, NEW fault \in Faults \cup {None}
  PROVE  Kept(d, CloseSegment(d, fault))
<1>1. PICK w : w = IF d.seg.part = <<>> THEN d ELSE WritePart(d, fault)
  OBVIOUS
<1>2. Stays(d, w) /\ w \in Disks /\ Kept(d, w)
  BY <1>1, StaysItself, WritePartStays, KeptItself, WritePartKeeps DEF Stays
<1>3. Kept(w, CloseFile(w, {None, "closed"}))
  BY <1>2, CloseFileKeeps
<1>4. CloseSegment(d, fault) = CloseFile(w, {None, "closed"})
  BY <1>1 DEF CloseSegment
<1> QED
  BY <1>2, <1>3, <1>4, KeptOn

LEMMA LastsKeeps ==
  ASSUME NEW d \in Disks, NEW end \in Int PROVE Kept(d, Lasts(d, end))
<1>1. PICK c : c = Lasts(d, end)
  OBVIOUS
<1>2. c \in Disks /\ Same(c.seg, d.seg) /\ c.seg.dts = d.seg.dts /\ c.seg.part = d.seg.part
  BY <1>1, LastsStays DEF Stays
<1>3. c.store = d.store
  BY <1>1 DEF Lasts, Disks
<1> QED
  BY <1>1, <1>2, <1>3, GrowsNot, GrowsKeeps

\* A sample is added that is later than those of its track.
Adds(d, c, x) ==
  FilesFit(d.store, d.seg) =>
    /\ OrderFits(d) /\ Fresh(d, x.track, x.n) => OrderFits(c)
    /\ TimesFit(d) /\ x \in Timed /\ x.dts >= d.seg.dts => TimesFit(c)
    /\ \A t \in Tracks, n \in Nat : Fresh(d, t, n) /\ (t = x.track => x.n < n) => Fresh(c, t, n)

LEMMA KeptAdds ==
  ASSUME NEW d, NEW c, NEW x, Kept(d, c) PROVE Adds(d, c, x)
BY DEF Kept, Adds

LEMMA AddsOn ==
  ASSUME NEW b, NEW c, NEW d, NEW x \in Samples, Stays(b, c), Kept(b, c), Adds(c, d, x)
  PROVE  Adds(b, d, x)
<1>1. FilesFit(b.store, b.seg) => FilesFit(c.store, c.seg) /\ c.seg.dts = b.seg.dts
  BY DEF Stays
<1>2. x.track \in Tracks /\ x.n \in Nat
  BY DEF Samples
<1> QED
  BY <1>1, <1>2 DEF Kept, Adds

LEMMA AppendSampleAdds ==
  ASSUME NEW d \in Disks, NEW x \in Samples PROVE Adds(d, AppendSample(d, x), x)
<1>1. PICK c : c = AppendSample(d, x)
  OBVIOUS
<1>2. c \in Disks /\ Same(c.seg, d.seg) /\ c.seg.dts = d.seg.dts
  BY <1>1, AppendSampleStays DEF Stays
<1>3. CASE ~d.ok
  <2>1. c = [d EXCEPT !.seg.part = <<>>]
    BY <1>1, <1>3 DEF AppendSample
  <2>2. c.store = d.store /\ c.seg.part = <<>>
    BY <2>1 DEF Disks, Segments
  <2> QED
    BY <1>1, <1>2, <2>2, GrowsNot, GrowsKeeps, KeptAdds
<1>4. CASE d.ok /\ Len(d.seg.part) = MaxPartSize
  <2>1. c.store = d.store /\ c.seg = d.seg
    BY <1>1, <1>4 DEF AppendSample, Disks
  <2> QED
    BY <1>1, <1>2, <2>1, GrowsNot, GrowsKeeps, KeptAdds
<1>5. CASE d.ok /\ Len(d.seg.part) # MaxPartSize
  <2>1. c = [d EXCEPT !.seg.part = Append(@, x)]
    BY <1>1, <1>5 DEF AppendSample
  <2>2. c.store = d.store /\ c.seg.part = Append(d.seg.part, x)
    BY <2>1 DEF Disks, Segments
  <2>3. PICK p : p = d.seg.part
    OBVIOUS
  <2>4. p \in Seq(Samples)
    BY <2>3 DEF Disks, Segments
  <2>5. \A t : In(c.seg.part, t) = In(p, t) \cup (IF x.track = t THEN {x} ELSE {})
    BY <2>2, <2>3, <2>4, InAppend
  <2>6. ASSUME OrderFits(d), Fresh(d, x.track, x.n) PROVE OrderFits(c)
    <3>1. Ordered(c.seg.part)
      BY <2>2, <2>3, <2>4, <2>6, OrderedAppend DEF OrderFits, Fresh
    <3>2. \A f \in c.store, t \in Tracks : Below(Held(f, t), In(c.seg.part, t))
      BY <2>2, <2>3, <2>5, <2>6 DEF OrderFits, Fresh, FilesFresh, Below
    <3> QED
      BY <2>2, <2>6, <3>1, <3>2 DEF OrderFits
  <2>7. ASSUME TimesFit(d), x \in Timed, x.dts >= d.seg.dts PROVE TimesFit(c)
    BY <1>2, <2>2, <2>3, <2>5, <2>7 DEF TimesFit, Same
  <2>8. ASSUME NEW t \in Tracks, NEW n \in Nat, Fresh(d, t, n), t = x.track => x.n < n
        PROVE  Fresh(c, t, n)
    BY <2>2, <2>3, <2>5, <2>8 DEF Fresh
  <2> QED
    BY <1>1, <2>6, <2>7, <2>8 DEF Adds
<1> QED
  BY <1>3, <1>4, <1>5

LEMMA WriteSampleAdds ==
  ASSUME NEW d \in Disks, NEW x \in Samples, x.dts + x.duration \in Int,
         NEW fault \in Faults \cup {None}
  PROVE  Adds(d, WriteSample(d, x, fault), x)
<1>1. PICK e : e = Lasts(d, x.dts + x.duration)
  OBVIOUS
<1>2. Stays(d, e) /\ e \in Disks /\ Kept(d, e)
  BY <1>1, LastsStays, LastsKeeps DEF Stays
<1>3. PICK w : w = IF PartIsOver(d.seg.part) THEN WritePart(e, fault) ELSE e
  OBVIOUS
<1>4. Stays(e, w) /\ w \in Disks /\ Kept(e, w)
  BY <1>2, <1>3, StaysItself, WritePartStays, KeptItself, WritePartKeeps DEF
     Stays
<1>5. Adds(e, AppendSample(w, x), x)
  BY <1>4, AppendSampleAdds, AddsOn
<1>6. WriteSample(d, x, fault) = AppendSample(w, x)
  BY <1>1, <1>3 DEF WriteSample
<1> QED
  BY <1>2, <1>5, <1>6, AddsOn

-----------------------------------------------------------------------------
(* The samples, while nothing fails.                                       *)

\* The end of a segment is that of its last sample, unless one has been refused,
\* and its file has what the header and the state of it say.
Until(s) == s.dts + s.duration
DurationFits(f) ==
  f.duration # 0 =>
    /\ \A t \in Tracks : \A s \in Held(f, t) : EndIn(f, s) <= f.duration
    /\ Len(Last(f.parts)) < MaxPartSize =>
         \E t \in Tracks : \E s \in Held(f, t) : EndIn(f, s) = f.duration
FilesLast(files) == \A f \in files : f.header /\ DurationFits(f)
EndIsTrue(d) == d.seg.end = d.seg.dts \/ \E t \in Tracks : \E s \in Own(d, t) : Until(s) = d.seg.end
LastsFits(d) ==
  /\ FilesLast(d.store)
  /\ d.seg.file = "open" => \E f \in d.store : Same(f, d.seg)
  /\ \A f \in d.store : Same(f, d.seg) =>
       d.seg.file \in {"open", "closed"} /\ (d.seg.file = "open" => f.duration = 0)
  /\ \A t \in Tracks : \A s \in Own(d, t) : Until(s) <= d.seg.end

\* If no track is too far ahead of the video: the video goes on where that of
\* the segment before has stopped.
Joined(P, S) == \A p \in P, s \in S : IsLast(p, P) /\ IsFirst(s, S) => s.sync /\ s.n = p.n + 1
FilesJoined(files) ==
  \A f, g \in files : Follows(f, g) => Joined(Held(f, Video), Held(g, Video))
JoinFits(d) ==
  /\ FilesJoined(d.store)
  /\ \A f \in d.store : Follows(f, d.seg) /\ d.seg.file # "removed" =>
                          Joined(Held(f, Video), Own(d, Video))
  /\ \A f \in d.store : Same(f, d.seg) \/ Earlier(f, d.seg)

\* w is the sample of the video that is written next.
GoesOn(d, w) ==
  /\ \A p \in Own(d, Video) : IsLast(p, Own(d, Video)) =>
       w # None /\ w.n = p.n + 1 /\ w.dts >= d.seg.dts
  /\ Own(d, Video) = {} /\ d.seg.file # "removed" =>
       \A f \in d.store : Follows(f, d.seg) =>
         \A p \in Held(f, Video) : IsLast(p, Held(f, Video)) =>
           w # None /\ w.sync /\ w.n = p.n + 1 /\ w.dts >= d.seg.dts

LEMMA OwnIs ==
  ASSUME NEW d \in Disks, FilesFit(d.store, d.seg), NEW t
  PROVE  /\ FileOn(d) = {} => Own(d, t) = In(d.seg.part, t)
         /\ \A f \in FileOn(d) : FileOn(d) = {f} /\ Own(d, t) = In(d.seg.part, t) \cup Held(f, t)
<1>1. \A f, g \in FileOn(d) : f = g
  BY DEF FileOn, FilesFit
<1>2. ASSUME NEW f \in FileOn(d)
      PROVE  FileOn(d) = {f} /\ Own(d, t) = In(d.seg.part, t) \cup Held(f, t)
  <2>1. FileOn(d) = {f}
    BY <1>1
  <2>2. UNION {Held(g, t) : g \in {f}} = Held(f, t)
    OBVIOUS
  <2> QED
    BY <2>1, <2>2 DEF Own
<1> QED
  BY <1>2 DEF Own

\* The same segment, but for its end.
Alike(d, c) ==
  /\ c.store = d.store /\ Same(c.seg, d.seg) /\ c.seg.dts = d.seg.dts /\ c.seg.file = d.seg.file

LEMMA AlikeOwn ==
  ASSUME NEW d, NEW c, Alike(d, c), NEW t
  PROVE  /\ FileOn(c) = FileOn(d)
         /\ c.seg.part = d.seg.part => Own(c, t) = Own(d, t)
BY DEF Alike, FileOn, Own, Same

LEMMA AlikeFits ==
  ASSUME NEW d, NEW c, Alike(d, c), Own(c, Video) = Own(d, Video)
  PROVE  /\ JoinFits(d) => JoinFits(c)
         /\ \A w : GoesOn(d, w) => GoesOn(c, w)
<1>1. /\ c.store = d.store /\ c.seg.file = d.seg.file /\ c.seg.dts = d.seg.dts
      /\ c.seg.stream = d.seg.stream /\ c.seg.number = d.seg.number /\ c.seg.start = d.seg.start
  BY DEF Alike, Same
<1>2. JoinFits(d) => JoinFits(c)
  BY <1>1 DEF JoinFits, Follows, Same, Earlier
<1>3. ASSUME NEW w, GoesOn(d, w) PROVE GoesOn(c, w)
  BY <1>1, <1>3 DEF GoesOn, Follows
<1> QED
  BY <1>2, <1>3

\* The file of the segment gets the part.
LEMMA WithPartMakes ==
  ASSUME NEW d \in Disks, FilesFit(d.store, d.seg), NEW f \in FileOn(d)
  PROVE  \E g \in WithPart(d) :
           /\ g.start = f.start /\ g.dts = f.dts /\ g.header = f.header /\ g.duration = f.duration
           /\ WithPart(d) = {h \in d.store : h.start # g.start} \cup {g}
           /\ \A t : Held(g, t) = Own(d, t)
           /\ Last(g.parts) = d.seg.part
<1>1. PICK g : g = [f EXCEPT !.parts = Append(@, d.seg.part)]
  OBVIOUS
<1>2. f \in Files /\ f \in d.store /\ d.seg.part \in Seq(Samples)
  BY DEF FileOn, Disks, Segments
<1>3. /\ g.start = f.start /\ g.dts = f.dts /\ g.header = f.header /\ g.duration = f.duration
      /\ Longer(g, f, d.seg.part) /\ f.parts \in Seq(Seq(Samples))
  BY <1>1, <1>2 DEF Longer, Files
<1>4. FileOn(d) = {f}
  BY OwnIs
<1>5. WithPart(d) = (d.store \ {f}) \cup {g}
  <2>1. {[e EXCEPT !.parts = Append(@, d.seg.part)] : e \in {f}} = {g}
    BY <1>1
  <2> QED
    BY <1>4, <2>1 DEF WithPart
<1>6. d.store \ {f} = {h \in d.store : h.start # g.start}
  BY <1>2, <1>3 DEF FilesFit
<1>7. ASSUME NEW t PROVE Held(g, t) = Own(d, t)
  <2>1. PICK p : p = d.seg.part
    OBVIOUS
  <2>2. p \in Seq(Samples) /\ Longer(g, f, p)
    BY <1>2, <1>3, <2>1
  <2>3. Held(g, t) = Held(f, t) \cup In(p, t)
    BY <1>3, <2>2, HeldAppend
  <2>4. Own(d, t) = In(d.seg.part, t) \cup Held(f, t)
    BY OwnIs
  <2> QED
    BY <2>1, <2>3, <2>4
<1>8. Last(g.parts) = d.seg.part
  <2>1. g.parts = Append(f.parts, d.seg.part) /\ Len(f.parts) \in Nat
    BY <1>3 DEF Longer
  <2> QED
    BY <1>2, <1>3, <2>1 DEF Last
<1> QED
  BY <1>3, <1>5, <1>6, <1>7, <1>8

\* What has become of the part.
Flushed(d, c) ==
  /\ c \in Disks /\ c.ok /\ Same(c.seg, d.seg) /\ c.seg.dts = d.seg.dts
  /\ c.seg.part = <<>> /\ c.seg.end = d.seg.end
  /\ c.seg.file = IF d.seg.file = None THEN "open" ELSE d.seg.file
  /\ d.seg.file = "removed" => c.store = d.store
  /\ d.seg.file # "removed" => \E g \in c.store :
       /\ g.start = d.seg.start /\ g.dts = d.seg.dts /\ g.header /\ g.duration = 0
       /\ c.store = {h \in d.store : h.start # g.start} \cup {g}
       /\ \A t : Held(g, t) = Own(d, t)
       /\ Last(g.parts) = d.seg.part


LEMMA WritePartMakes ==
  ASSUME NEW d \in Disks, FilesFit(d.store, d.seg), TimesFit(d), LastsFits(d),
         d.ok, d.seg.file # "closed"
  PROVE  Flushed(d, WritePart(d, None))
<1>1. PICK b, c : b = Create(d, None) /\ c = AppendPart(b, None, <<>>)
  OBVIOUS
<1>2. c = WritePart(d, None)
  BY <1>1 DEF WritePart
<1>3. /\ None # "part" /\ None # "create" /\ None # "header"
      /\ None # "open" /\ None # "removed" /\ None # "closed"
  BY NoneAssumption DEF Faults
<1>4. c \in Disks /\ Same(c.seg, d.seg) /\ c.seg.dts = d.seg.dts
  BY <1>2, WritePartStays DEF Stays
<1>5. b \in Disks /\ Stays(d, b) /\ FilesFit(b.store, b.seg)
  BY <1>1, CreateStays DEF Stays
<1>6. d.seg \in Segments /\ d.seg.file \in {None, "open", "removed"}
  BY DEF Disks, Segments
<1>7. ASSUME b.ok, b.seg.file # "closed"
      PROVE  /\ c.ok /\ c.seg.part = <<>> /\ c.seg.end = b.seg.end /\ c.seg.file = b.seg.file
             /\ c.store = WithPart(b)
  <2>1. c = [seg |-> [b.seg EXCEPT !.part = <<>>], store |-> WithPart(b), hooks |-> b.hooks,
             ok |-> TRUE]
    BY <1>1, <1>3, <1>5, <1>7, AppendPartEffect
  <2> QED
    BY <1>5, <2>1 DEF Disks, Segments
<1>8. CASE d.seg.file = "removed"
  <2>1. b = d
    BY <1>1, <1>3, <1>8, CreateEffect
  <2>2. FileOn(d) = {}
    BY <1>8 DEF FileOn
  <2>3. WithPart(d) = d.store
    BY <2>2 DEF WithPart
  <2> QED
    BY <1>2, <1>3, <1>4, <1>7, <1>8, <2>1, <2>3 DEF Flushed
<1>9. CASE d.seg.file = "open"
  <2>1. b = d
    BY <1>1, <1>3, <1>9, CreateEffect
  <2>2. PICK f \in d.store : Same(f, d.seg)
    BY <1>9 DEF LastsFits
  <2>3. /\ f.header /\ f.duration = 0 /\ f.dts = d.seg.dts /\ f.start = d.seg.start
        /\ f \in FileOn(d)
    BY <1>3, <1>9, <2>2 DEF LastsFits, FilesLast, TimesFit, FileOn, Same
  <2>4. PICK g \in WithPart(d) :
           /\ g.start = f.start /\ g.dts = f.dts /\ g.header = f.header /\ g.duration = f.duration
           /\ WithPart(d) = {h \in d.store : h.start # g.start} \cup {g}
           /\ \A t : Held(g, t) = Own(d, t)
           /\ Last(g.parts) = d.seg.part
    BY <2>3, WithPartMakes
  <2>5. /\ c.ok /\ c.seg.part = <<>> /\ c.seg.end = d.seg.end /\ c.seg.file = d.seg.file
        /\ c.store = WithPart(d)
    BY <1>7, <1>9, <2>1
  <2> QED
    BY <1>2, <1>3, <1>4, <1>9, <2>2, <2>3, <2>4, <2>5 DEF Flushed
<1>10. CASE d.seg.file = None
  <2>1. PICK f \in Files :
          /\ Same(f, d.seg) /\ f.dts = d.seg.dts
          /\ f.parts = <<>> /\ f.duration = 0 /\ f.header = (None # "header")
          /\ b = [seg |-> [d.seg EXCEPT !.file = IF None # "header" THEN "open" ELSE None],
                  store |-> {g \in d.store : g.start # f.start} \cup {f},
                  hooks |-> Append(d.hooks, <<"create", d.seg.stream, d.seg.number>>),
                  ok |-> None # "header"]
    BY <1>1, <1>3, <1>10, CreateEffect
  <2>2. /\ b.ok /\ b.seg.file = "open" /\ b.seg.start = d.seg.start /\ b.seg.part = d.seg.part
        /\ b.seg.end = d.seg.end /\ b.store = {g \in d.store : g.start # f.start} \cup {f}
        /\ f.start = d.seg.start /\ f.header
    BY <1>3, <1>6, <2>1 DEF Segments, Same
  <2>3. FileOn(d) = {}
    BY <1>10 DEF FileOn
  <2>4. f \in FileOn(b)
    BY <1>3, <2>2 DEF FileOn
  <2>5. PICK g \in WithPart(b) :
           /\ g.start = f.start /\ g.dts = f.dts /\ g.header = f.header /\ g.duration = f.duration
           /\ WithPart(b) = {h \in b.store : h.start # g.start} \cup {g}
           /\ \A t : Held(g, t) = Own(b, t)
           /\ Last(g.parts) = b.seg.part
    BY <1>5, <2>4, WithPartMakes
  <2>6. WithPart(b) = {h \in d.store : h.start # g.start} \cup {g}
    BY <2>2, <2>5
  <2>7. ASSUME NEW t PROVE Held(g, t) = Own(d, t)
    <3>1. Own(b, t) = In(b.seg.part, t) \cup Held(f, t)
      BY <1>5, <2>4, OwnIs
    <3>2. Held(f, t) = {}
      BY <2>1, NoSamples
    <3>3. Own(d, t) = In(d.seg.part, t)
      BY <2>3, OwnIs
    <3> QED
      BY <2>2, <2>5, <3>1, <3>2, <3>3
  <2>8. /\ c.ok /\ c.seg.part = <<>> /\ c.seg.end = d.seg.end /\ c.seg.file = "open"
        /\ c.store = WithPart(b)
    BY <1>7, <2>2
  <2> QED
    <3>1. /\ g.start = d.seg.start /\ g.dts = d.seg.dts /\ g.header /\ g.duration = 0
          /\ Last(g.parts) = d.seg.part
      BY <2>1, <2>2, <2>5
    <3>2. g \in c.store /\ c.store = {h \in d.store : h.start # g.start} \cup {g}
      BY <2>5, <2>6, <2>8
    <3> QED
      BY <1>2, <1>3, <1>4, <1>10, <2>7, <2>8, <3>1, <3>2 DEF Flushed
<1> QED
  BY <1>6, <1>8, <1>9, <1>10

\* What the segment holds then.
LEMMA FlushedOwn ==
  ASSUME NEW d \in Disks, FilesFit(d.store, d.seg), NEW c, Flushed(d, c),
         FilesFit(c.store, c.seg), LastsFits(d), NEW t
  PROVE  Own(c, t) = IF d.seg.file = "removed" THEN {} ELSE Own(d, t)
<1>1. c \in Disks /\ c.seg.part = <<>> /\ c.seg.start = d.seg.start /\ In(c.seg.part, t) = {}
  BY NothingIn DEF Flushed, Same
<1>2. CASE d.seg.file = "removed"
  <2>1. FileOn(c) = {}
    BY <1>2, NoneAssumption DEF Flushed, FileOn
  <2> QED
    BY <1>1, <1>2, <2>1, OwnIs
<1>3. CASE d.seg.file # "removed"
  <2>1. PICK g \in c.store : g.start = d.seg.start /\ Held(g, t) = Own(d, t)
    BY <1>3 DEF Flushed
  <2>2. c.seg.file \notin {None, "removed"}
    BY <1>3, NoneAssumption DEF Flushed
  <2>3. g \in FileOn(c)
    BY <1>1, <2>1, <2>2 DEF FileOn
  <2>4. Own(c, t) = In(c.seg.part, t) \cup Held(g, t)
    BY <1>1, <2>3, OwnIs
  <2> QED
    BY <1>1, <1>3, <2>1, <2>4
<1> QED
  BY <1>2, <1>3

LEMMA FlushedFits ==
  ASSUME NEW d \in Disks, FilesFit(d.store, d.seg), NEW c, Flushed(d, c),
         FilesFit(c.store, c.seg), LastsFits(d), d.seg.file # "closed"
  PROVE  /\ LastsFits(c)
         /\ d.seg.file # "removed" /\ EndIsTrue(d) => EndIsTrue(c)
         /\ JoinFits(d) => JoinFits(c)
         /\ \A w : GoesOn(d, w) => GoesOn(c, w)
<1>1. /\ c \in Disks /\ Same(c.seg, d.seg) /\ c.seg.dts = d.seg.dts /\ c.seg.part = <<>>
      /\ c.seg.end = d.seg.end
      /\ c.seg.file = IF d.seg.file = None THEN "open" ELSE d.seg.file
  BY DEF Flushed
<1>2. \A t : Own(c, t) = IF d.seg.file = "removed" THEN {} ELSE Own(d, t)
  BY FlushedOwn
<1>3. \A h \in d.store \cup c.store : h \in Files /\ h.number \in Nat /\ h.stream \in Nat
  BY <1>1 DEF Disks, Files
<1>4. d.seg.number \in Nat /\ d.seg.stream \in Nat
  BY DEF Disks, Segments
<1>5. CASE d.seg.file = "removed"
  <2>1. c.store = d.store /\ c.seg.file = "removed"
    BY <1>1, <1>5, NoneAssumption DEF Flushed
  <2>2. LastsFits(c)
    BY <1>1, <1>2, <1>5, <2>1 DEF LastsFits, Same
  <2>3. JoinFits(d) => JoinFits(c)
    BY <1>1, <2>1 DEF JoinFits, Same, Earlier
  <2>4. \A w : GoesOn(c, w)
    BY <1>2, <1>5, <2>1 DEF GoesOn
  <2> QED
    BY <1>5, <2>2, <2>3, <2>4
<1>6. CASE d.seg.file # "removed"
  <2>1. PICK g \in c.store :
          /\ g.start = d.seg.start /\ g.dts = d.seg.dts /\ g.header /\ g.duration = 0
          /\ c.store = {h \in d.store : h.start # g.start} \cup {g}
          /\ \A t : Held(g, t) = Own(d, t)
    BY <1>6 DEF Flushed
  <2>2. c.seg.file = "open"
    BY <1>1, <1>6, NoneAssumption DEF Disks, Segments
  <2>3. \A t : Own(c, t) = Own(d, t)
    BY <1>2, <1>6
  <2>4. Same(g, d.seg)
    <3>1. c.seg.file # None /\ g.start = c.seg.start
      BY <1>1, <2>1, <2>2, NoneAssumption DEF Same
    <3> QED
      BY <1>1, <3>1 DEF FilesFit, Same
  <2>5. LastsFits(c)
    <3>1. \A h \in c.store : h.header /\ DurationFits(h)
      BY <2>1 DEF LastsFits, FilesLast, DurationFits
    <3>2. \A h \in c.store : Same(h, c.seg) => h.duration = 0
      BY <1>1, <2>1 DEF Same
    <3> QED
      BY <1>1, <2>1, <2>2, <2>3, <2>4, <3>1, <3>2 DEF LastsFits, FilesLast, Same
  <2>6. EndIsTrue(d) => EndIsTrue(c)
    BY <1>1, <2>3 DEF EndIsTrue
  <2>7. ASSUME JoinFits(d) PROVE JoinFits(c)
    <3>1. \A h \in c.store : Same(h, c.seg) \/ Earlier(h, c.seg)
      BY <1>1, <2>1, <2>4, <2>7 DEF JoinFits, Same, Earlier
    <3>2. \A e, h \in c.store : Follows(e, h) => h = g \/ (e # g /\ h \in d.store)
      BY <1>1, <1>3, <1>4, <2>1, <2>4, <3>1 DEF Follows, Same, Earlier
    <3>3. \A e \in c.store : Follows(e, d.seg) => e # g /\ e \in d.store
      BY <1>3, <1>4, <2>1, <2>4 DEF Follows, Same
    <3>4. ASSUME NEW e \in c.store, NEW h \in c.store, Follows(e, h)
          PROVE  Joined(Held(e, Video), Held(h, Video))
      <4>1. CASE h = g
        <5>1. Follows(e, d.seg)
          BY <2>4, <3>4, <4>1 DEF Follows, Same
        <5>2. Joined(Held(e, Video), Own(d, Video))
          BY <1>6, <2>7, <3>3, <5>1 DEF JoinFits
        <5> QED
          BY <2>1, <4>1, <5>2
      <4>2. CASE e # g /\ h \in d.store
        BY <2>1, <2>7, <3>4, <4>2 DEF JoinFits, FilesJoined
      <4> QED
        BY <3>2, <3>4, <4>1, <4>2
    <3>5. ASSUME NEW e \in c.store, Follows(e, c.seg) PROVE Joined(Held(e, Video), Own(c, Video))
      <4>1. Follows(e, d.seg)
        BY <1>1, <3>5 DEF Follows, Same
      <4>2. Joined(Held(e, Video), Own(d, Video))
        BY <1>6, <2>7, <3>3, <4>1 DEF JoinFits
      <4> QED
        BY <2>3, <4>2
    <3> QED
      BY <3>1, <3>4, <3>5 DEF JoinFits, FilesJoined
  <2>8. ASSUME NEW w, GoesOn(d, w) PROVE GoesOn(c, w)
    <3>1. \A e \in c.store : Follows(e, c.seg) => Follows(e, d.seg) /\ e \in d.store
      BY <1>1, <1>3, <1>4, <2>1, <2>4 DEF Follows, Same
    <3> QED
      BY <1>1, <1>6, <2>3, <2>8, <3>1 DEF GoesOn
  <2> QED
    BY <2>5, <2>6, <2>7, <2>8
<1> QED
  BY <1>5, <1>6

\* The segment lasts longer; the sample that makes it last is not in it yet.
LEMMA LastsFit ==
  ASSUME NEW d \in Disks, NEW end \in Int, NEW e, e = Lasts(d, end)
  PROVE  /\ Alike(d, e) /\ e.seg.part = d.seg.part /\ e.ok = d.ok /\ e \in Disks
         /\ e.seg.end \in {d.seg.end, end} /\ d.seg.end <= e.seg.end /\ end <= e.seg.end
<1>1. PICK last : last = MaxOf({d.seg.end, end})
  OBVIOUS
<1>2. d.seg \in Segments /\ d.seg.end \in Int
  BY DEF Disks, Segments
<1>3. last \in {d.seg.end, end} /\ d.seg.end <= last /\ end <= last
  BY <1>1, <1>2, MaxOfTwo
<1>4. e = [d EXCEPT !.seg = [d.seg EXCEPT !.end = last]]
  BY <1>1 DEF Lasts
<1>5. /\ e.store = d.store /\ Same(e.seg, d.seg) /\ e.seg.dts = d.seg.dts
      /\ e.seg.file = d.seg.file /\ e.seg.part = d.seg.part /\ e.ok = d.ok /\ e.seg.end = last
  BY <1>2, <1>4 DEF Disks, Segments, Same
<1>6. e \in Disks
  BY LastsStays DEF Stays
<1> QED
  BY <1>3, <1>5, <1>6 DEF Alike

\* The segment ends where the sample does, or later.
Ends(d, e, x) ==
  /\ Alike(d, e) /\ e.seg.part = d.seg.part /\ e.ok = d.ok
  /\ e.seg.end \in {d.seg.end, Until(x)} /\ d.seg.end <= e.seg.end /\ Until(x) <= e.seg.end

LEMMA LastsTimed ==
  ASSUME NEW d \in Disks, NEW x \in Timed
  PROVE  \E e \in Disks : e = Lasts(d, Until(x)) /\ Ends(d, e, x)
<1>1. Until(x) \in Int
  BY DEF Until, Timed
<1>2. PICK e : e = Lasts(d, Until(x))
  OBVIOUS
<1>3. e \in Disks /\ Ends(d, e, x)
  BY <1>1, <1>2, LastsFit DEF Ends
<1> QED
  BY <1>2, <1>3

\* What a sample finds when it is added.
LEMMA BeforeSample ==
  ASSUME NEW d \in Disks, FilesFit(d.store, d.seg), TimesFit(d), LastsFits(d), d.ok,
         d.seg.file # "closed", NEW x \in Timed, NEW c, c = WriteSample(d, x, None)
  PROVE  \E w \in Disks :
           /\ c = AppendSample(w, x) /\ w.ok /\ LastsFits(w) /\ w.seg.file # "closed"
           /\ Until(x) <= w.seg.end /\ w.seg.end \in {d.seg.end, Until(x)}
           /\ Same(w.seg, d.seg) /\ w.seg.dts = d.seg.dts
           /\ d.seg.file = "removed" => w.seg.file = "removed"
           /\ \A t : IF d.seg.file = "removed" THEN Own(w, t) \subseteq Own(d, t)
                     ELSE Own(w, t) = Own(d, t)
           /\ JoinFits(d) => JoinFits(w)
           /\ \A y : GoesOn(d, y) => GoesOn(w, y)
<1>1. Until(x) \in Int /\ Until(x) = x.dts + x.duration
  BY DEF Until, Timed
<1>2. PICK e \in Disks : e = Lasts(d, Until(x)) /\ Ends(d, e, x)
  BY Zenon, LastsTimed
<1>3. /\ Alike(d, e) /\ e.seg.part = d.seg.part /\ e.ok = d.ok /\ e \in Disks
      /\ e.seg.end \in {d.seg.end, Until(x)} /\ d.seg.end <= e.seg.end /\ Until(x) <= e.seg.end
  BY Zenon, <1>2 DEF Ends
<1>4. \A t : Own(e, t) = Own(d, t)
  BY <1>3, AlikeOwn
<1>5. (JoinFits(d) => JoinFits(e)) /\ \A y : GoesOn(d, y) => GoesOn(e, y)
  BY <1>3, <1>4, AlikeFits
<1>6. /\ e.store = d.store /\ Same(e.seg, d.seg) /\ e.seg.dts = d.seg.dts
      /\ e.seg.file = d.seg.file
  BY <1>3 DEF Alike
<1>7. FilesFit(e.store, e.seg) /\ TimesFit(e)
  BY <1>3, <1>6 DEF FilesFit, TimesFit, Same, Older
<1>8. LastsFits(e)
  <2>1. \A t \in Tracks : \A s \in Own(d, t) : Until(s) \in Int
    <3>1. ASSUME NEW t \in Tracks, NEW s \in Own(d, t) PROVE s \in Timed
      <4>1. s \in In(d.seg.part, t) \/ \E f \in d.store : s \in Held(f, t)
        BY DEF Own, FileOn
      <4> QED
        BY <4>1 DEF TimesFit, FilesTimed
    <3> QED
      BY <3>1 DEF Until, Timed
  <2>2. d.seg.end \in Int /\ e.seg.end \in Int
    BY <1>3 DEF Disks, Segments
  <2>3. \A t \in Tracks : \A s \in Own(e, t) : Until(s) <= e.seg.end
    BY <1>3, <1>4, <2>1, <2>2 DEF LastsFits
  <2> QED
    BY <1>6, <2>3 DEF LastsFits, Same
<1>9. PICK w : w = IF PartIsOver(d.seg.part) THEN WritePart(e, None) ELSE e
  OBVIOUS
<1>10. c = AppendSample(w, x)
  BY <1>1, <1>2, <1>9 DEF WriteSample
<1>11. CASE ~PartIsOver(d.seg.part)
  <2>1. w = e
    BY <1>9, <1>11
  <2> QED
    BY <1>3, <1>4, <1>5, <1>6, <1>8, <1>10, <2>1
<1>12. CASE PartIsOver(d.seg.part)
  <2>1. w = WritePart(e, None)
    BY <1>9, <1>12
  <2>2. Flushed(e, w)
    BY <1>3, <1>6, <1>7, <1>8, <2>1, WritePartMakes
  <2>3. FilesFit(w.store, w.seg)
    BY <1>3, <1>7, <2>1, WritePartStays DEF Stays
  <2>4. \A t : Own(w, t) = IF e.seg.file = "removed" THEN {} ELSE Own(e, t)
    BY <1>3, <1>7, <1>8, <2>2, <2>3, FlushedOwn
  <2>5. /\ LastsFits(w) /\ (JoinFits(e) => JoinFits(w))
        /\ \A y : GoesOn(e, y) => GoesOn(w, y)
    BY <1>3, <1>6, <1>7, <1>8, <2>2, <2>3, FlushedFits
  <2>6. /\ w \in Disks /\ w.ok /\ Same(w.seg, e.seg) /\ w.seg.dts = e.seg.dts
        /\ w.seg.end = e.seg.end
        /\ w.seg.file = IF e.seg.file = None THEN "open" ELSE e.seg.file
    BY <2>2 DEF Flushed
  <2>7. w.seg.file # "closed" /\ (d.seg.file = "removed" => w.seg.file = "removed")
    BY <1>6, <2>6, NoneAssumption
  <2>8. Same(w.seg, d.seg) /\ w.seg.dts = d.seg.dts
    BY <1>6, <2>6 DEF Same
  <2>9. \A t : IF d.seg.file = "removed" THEN Own(w, t) \subseteq Own(d, t)
               ELSE Own(w, t) = Own(d, t)
    BY <1>4, <1>6, <2>4
  <2> QED
    BY <1>3, <1>5, <1>10, <2>5, <2>6, <2>7, <2>8, <2>9
<1> QED
  BY <1>11, <1>12

LEMMA AfterSample ==
  ASSUME NEW w \in Disks, w.ok, LastsFits(w), NEW x \in Timed, Until(x) <= w.seg.end,
         NEW c, c = AppendSample(w, x)
  PROVE  /\ c \in Disks /\ Alike(w, c) /\ c.seg.end = w.seg.end /\ LastsFits(c)
         /\ \/ ~c.ok /\ c.seg.part = w.seg.part /\ Len(c.seg.part) = MaxPartSize
            \/ c.ok /\ \A t : Own(c, t) = Own(w, t) \cup (IF x.track = t THEN {x} ELSE {})
<1>1. x \in Samples
  BY DEF Timed, Samples
<1>2. c \in Disks
  BY <1>1, AppendSampleStays DEF Stays
<1>3. CASE Len(w.seg.part) = MaxPartSize
  <2>1. c = [w EXCEPT !.ok = FALSE]
    BY <1>3 DEF AppendSample
  <2>2. c.store = w.store /\ c.seg = w.seg /\ c.ok = FALSE
    BY <2>1 DEF Disks
  <2>3. Alike(w, c)
    BY <2>2 DEF Alike, Same
  <2>4. \A t : Own(c, t) = Own(w, t)
    BY <2>2, <2>3, AlikeOwn
  <2>5. LastsFits(c)
    BY <2>2, <2>4 DEF LastsFits
  <2> QED
    BY <1>2, <1>3, <2>2, <2>3, <2>5
<1>4. CASE Len(w.seg.part) # MaxPartSize
  <2>1. c = [w EXCEPT !.seg.part = Append(@, x)]
    BY <1>4 DEF AppendSample
  <2>2. /\ c.store = w.store /\ c.ok /\ Same(c.seg, w.seg) /\ c.seg.dts = w.seg.dts
        /\ c.seg.file = w.seg.file /\ c.seg.end = w.seg.end
        /\ c.seg.part = Append(w.seg.part, x)
    BY <2>1 DEF Disks, Segments, Same
  <2>3. Alike(w, c)
    BY <2>2 DEF Alike
  <2>4. PICK p : p = w.seg.part /\ p \in Seq(Samples)
    BY DEF Disks, Segments
  <2>5. ASSUME NEW t PROVE Own(c, t) = Own(w, t) \cup (IF x.track = t THEN {x} ELSE {})
    <3>1. In(Append(p, x), t) = In(p, t) \cup (IF x.track = t THEN {x} ELSE {})
      BY <1>1, <2>4, InAppend
    <3>2. FileOn(c) = FileOn(w)
      BY <2>3, AlikeOwn
    <3> QED
      BY <2>2, <2>4, <3>1, <3>2 DEF Own
  <2>6. LastsFits(c)
    BY <2>2, <2>5 DEF LastsFits, Same
  <2> QED
    BY <1>2, <2>2, <2>3, <2>5, <2>6
<1> QED
  BY <1>3, <1>4

LEMMA OwnIsTimed ==
  ASSUME NEW d, TimesFit(d), NEW t \in Tracks, NEW s \in Own(d, t)
  PROVE  s \in Timed
<1>1. s \in In(d.seg.part, t) \/ \E f \in d.store : s \in Held(f, t)
  BY DEF Own, FileOn
<1> QED
  BY <1>1 DEF TimesFit, FilesTimed

LEMMA OwnIsFresh ==
  ASSUME NEW d, NEW t, NEW n, Fresh(d, t, n), NEW s \in Own(d, t)
  PROVE  s.n < n
<1>1. s \in In(d.seg.part, t) \/ \E f \in d.store : s \in Held(f, t)
  BY DEF Own, FileOn
<1> QED
  BY <1>1 DEF Fresh, FilesFresh

\* A sample is written.
LEMMA WriteSampleFits ==
  ASSUME NEW d \in Disks, FilesFit(d.store, d.seg), TimesFit(d), LastsFits(d), d.ok,
         d.seg.file # "closed", NEW x \in Timed, NEW c, c = WriteSample(d, x, None),
         Fresh(d, x.track, x.n)
  PROVE  /\ LastsFits(c) /\ c.seg.file # "closed"
         /\ EndIsTrue(d) \/ d.seg.file = "removed" =>
              \/ EndIsTrue(c) \/ c.seg.file = "removed"
              \/ ~c.ok /\ Len(c.seg.part) = MaxPartSize
         /\ JoinFits(d) /\ (x.track # Video \/ \E v : GoesOn(d, v) /\ v.n = x.n /\ v.sync = x.sync) =>
              JoinFits(c)
         /\ c.ok => \A y : \/ x.track # Video /\ GoesOn(d, y)
                           \/ /\ x.track = Video /\ x.dts >= d.seg.dts
                              /\ y # None /\ y.n = x.n + 1 /\ y.dts \in Int /\ y.dts >= x.dts
                           => GoesOn(c, y)
<1>1. PICK w \in Disks :
           /\ c = AppendSample(w, x) /\ w.ok /\ LastsFits(w) /\ w.seg.file # "closed"
           /\ Until(x) <= w.seg.end /\ w.seg.end \in {d.seg.end, Until(x)}
           /\ Same(w.seg, d.seg) /\ w.seg.dts = d.seg.dts
           /\ d.seg.file = "removed" => w.seg.file = "removed"
           /\ \A t : IF d.seg.file = "removed" THEN Own(w, t) \subseteq Own(d, t)
                     ELSE Own(w, t) = Own(d, t)
           /\ JoinFits(d) => JoinFits(w)
           /\ \A y : GoesOn(d, y) => GoesOn(w, y)
  BY BeforeSample
<1>2. /\ c \in Disks /\ Alike(w, c) /\ c.seg.end = w.seg.end /\ LastsFits(c)
      /\ \/ ~c.ok /\ c.seg.part = w.seg.part /\ Len(c.seg.part) = MaxPartSize
         \/ c.ok /\ \A t : Own(c, t) = Own(w, t) \cup (IF x.track = t THEN {x} ELSE {})
  BY <1>1, AfterSample
<1>3. /\ c.store = w.store /\ c.seg.file = w.seg.file /\ c.seg.dts = d.seg.dts
      /\ Same(c.seg, w.seg)
  BY <1>1, <1>2 DEF Alike
<1>4. x.track \in Tracks /\ x.n \in Nat /\ x.dts \in Int /\ Video \in Tracks
  BY DEF Timed, Tracks
<1>5. \A t \in Tracks : \A r \in Own(w, t) : r \in Own(d, t) /\ r.n \in Nat
  <2>1. \A t \in Tracks : \A r \in Own(d, t) : r.n \in Nat
    BY OwnIsTimed DEF Timed
  <2> QED
    BY <1>1, <2>1
<1>6. \A r \in Own(w, x.track) : r.n < x.n
  BY <1>4, <1>5, OwnIsFresh
<1>7. ASSUME EndIsTrue(d) \/ d.seg.file = "removed"
      PROVE  \/ EndIsTrue(c) \/ c.seg.file = "removed"
             \/ ~c.ok /\ Len(c.seg.part) = MaxPartSize
  <2>1. CASE d.seg.file = "removed"
    BY <1>1, <1>3, <2>1
  <2>2. CASE ~c.ok
    BY <1>2, <2>2
  <2>3. CASE d.seg.file # "removed" /\ c.ok
    <3>1. \A t : Own(c, t) = Own(d, t) \cup (IF x.track = t THEN {x} ELSE {})
      BY <1>1, <1>2, <2>3
    <3>2. x \in Own(c, x.track)
      BY <3>1
    <3> QED
      BY <1>1, <1>2, <1>3, <1>4, <1>7, <2>3, <3>1, <3>2 DEF EndIsTrue
  <2> QED
    BY <2>1, <2>2, <2>3
<1>8. /\ LastsFits(c) /\ c.seg.file # "closed" /\ (JoinFits(d) => JoinFits(w))
      /\ \A y : GoesOn(d, y) => GoesOn(w, y)
  BY <1>1, <1>2, <1>3
<1>9. CASE ~c.ok
  <2>1. Own(c, Video) = Own(w, Video)
    BY <1>2, <1>9, AlikeOwn
  <2>2. JoinFits(w) => JoinFits(c)
    BY <1>2, <2>1, AlikeFits
  <2> QED
    BY <1>7, <1>8, <1>9, <2>2
<1>10. CASE c.ok /\ x.track # Video
  <2>1. Own(c, Video) = Own(w, Video)
    <3>1. Own(c, Video) = Own(w, Video) \cup (IF x.track = Video THEN {x} ELSE {})
      BY <1>2, <1>10
    <3> QED
      BY <1>10, <3>1
  <2>2. (JoinFits(w) => JoinFits(c)) /\ \A y : GoesOn(w, y) => GoesOn(c, y)
    BY <1>2, <2>1, AlikeFits
  <2> QED
    BY <1>7, <1>8, <1>10, <2>2
<1>11. CASE c.ok /\ x.track = Video
  <2>1. Own(c, Video) = Own(w, Video) \cup {x}
    BY <1>2, <1>11
  <2>2. ASSUME JoinFits(d), NEW v, GoesOn(d, v), v.n = x.n, v.sync = x.sync PROVE JoinFits(c)
    <3>1. JoinFits(w) /\ GoesOn(w, v)
      BY <1>1, <2>2
    <3>2. ASSUME NEW f \in w.store, Follows(f, w.seg), w.seg.file # "removed",
                 NEW p \in Held(f, Video), NEW s \in Own(c, Video),
                 IsLast(p, Held(f, Video)), IsFirst(s, Own(c, Video))
          PROVE  s.sync /\ s.n = p.n + 1
      <4>1. CASE Own(w, Video) = {}
        BY <2>1, <2>2, <3>1, <3>2, <4>1 DEF GoesOn
      <4>2. CASE Own(w, Video) # {}
        <5>1. PICK r : r \in Own(w, Video)
          BY <4>2
        <5>2. r.n \in Nat /\ r.n < x.n /\ s.n <= r.n
          BY <1>4, <1>5, <1>6, <1>11, <2>1, <3>2, <5>1 DEF IsFirst
        <5>3. s \in Own(w, Video)
          BY <1>4, <2>1, <5>2
        <5>4. IsFirst(s, Own(w, Video))
          BY <2>1, <3>2 DEF IsFirst
        <5> QED
          BY <3>1, <3>2, <5>3, <5>4 DEF JoinFits, Joined
      <4> QED
        BY <4>1, <4>2
    <3>3. \A f \in c.store : Follows(f, c.seg) => f \in w.store /\ Follows(f, w.seg)
      BY <1>3 DEF Follows, Same
    <3>4. \A f \in c.store : Same(f, c.seg) \/ Earlier(f, c.seg)
      BY <1>3, <3>1 DEF JoinFits, Same, Earlier
    <3> QED
      BY <1>3, <3>1, <3>2, <3>3, <3>4 DEF JoinFits, Joined
  <2>3. ASSUME NEW y, y # None, y.n = x.n + 1, y.dts \in Int, y.dts >= x.dts, x.dts >= d.seg.dts
        PROVE  GoesOn(c, y)
    <3>1. ASSUME NEW p \in Own(c, Video), IsLast(p, Own(c, Video)) PROVE p.n = x.n
      <4>1. x.n <= p.n
        BY <2>1, <3>1 DEF IsLast
      <4>2. p = x \/ (p.n \in Nat /\ p.n < x.n)
        BY <1>4, <1>5, <1>6, <1>11, <2>1
      <4> QED
        BY <1>4, <4>1, <4>2
    <3>2. d.seg.dts \in Int
      BY DEF Disks, Segments
    <3>3. y.dts >= c.seg.dts
      BY <1>3, <1>4, <2>3, <3>2
    <3>4. Own(c, Video) # {}
      BY <2>1
    <3> QED
      BY <2>3, <3>1, <3>3, <3>4 DEF GoesOn
  <2> QED
    BY <1>7, <1>8, <1>11, <2>2, <2>3
<1> QED
  BY <1>9, <1>10, <1>11

\* A segment is closed: its file has its end, and holds what it held.
LEMMA CloseSegmentFits ==
  ASSUME NEW d \in Disks, FilesFit(d.store, d.seg), TimesFit(d), LastsFits(d), d.ok,
         d.seg.file # "closed", case.format = "fmp4", NEW c, c = CloseSegment(d, None),
         EndIsTrue(d) \/ d.seg.file = "removed" \/ Len(d.seg.part) = MaxPartSize
  PROVE  /\ c.ok /\ FilesLast(c.store)
         /\ JoinFits(d) => /\ FilesJoined(c.store)
                           /\ \A f \in c.store : Same(f, d.seg) \/ Earlier(f, d.seg)
         /\ \A f \in c.store : Same(f, d.seg) => Held(f, Video) = Own(d, Video)
<1>1. PICK w : w = IF d.seg.part = <<>> THEN d ELSE WritePart(d, None)
  OBVIOUS
<1>2. c = CloseFile(w, {None, "closed"})
  BY <1>1 DEF CloseSegment
<1>3. Stays(d, w) /\ w \in Disks /\ Kept(d, w)
  BY <1>1, StaysItself, WritePartStays, KeptItself, WritePartKeeps DEF Stays
<1>4. FilesFit(w.store, w.seg) /\ TimesFit(w) /\ Same(w.seg, d.seg) /\ w.seg.dts = d.seg.dts
  BY <1>3 DEF Stays, Kept
<1>5. /\ w.ok /\ LastsFits(w) /\ w.seg.part = <<>> /\ w.seg.file # "closed"
      /\ JoinFits(d) => JoinFits(w)
      /\ \A t : Own(w, t) = Own(d, t) \/ w.seg.file = "removed"
      /\ \A f \in FileOn(w) : Len(Last(f.parts)) < MaxPartSize => EndIsTrue(w)
  <2>1. CASE d.seg.part = <<>>
    <3>1. w = d /\ Len(d.seg.part) # MaxPartSize
      BY <1>1, <2>1, RecordingsAssumption
    <3>2. \A f \in FileOn(d) : EndIsTrue(d)
      BY <3>1 DEF FileOn
    <3> QED
      BY <2>1, <3>1, <3>2
  <2>2. CASE d.seg.part # <<>>
    <3>1. Flushed(d, w)
      BY <1>1, <2>2, WritePartMakes
    <3>2. /\ LastsFits(w) /\ (JoinFits(d) => JoinFits(w))
          /\ d.seg.file # "removed" /\ EndIsTrue(d) => EndIsTrue(w)
      BY <1>4, <3>1, FlushedFits
    <3>3. \A t : Own(w, t) = IF d.seg.file = "removed" THEN {} ELSE Own(d, t)
      BY <1>4, <3>1, FlushedOwn
    <3>4. /\ w.ok /\ w.seg.part = <<>> /\ w.seg.start = d.seg.start
          /\ w.seg.file = IF d.seg.file = None THEN "open" ELSE d.seg.file
      BY <3>1 DEF Flushed, Same
    <3>5. w.seg.file # "closed" /\ (d.seg.file = "removed" <=> w.seg.file = "removed")
      BY <3>4, NoneAssumption
    <3>6. ASSUME NEW f \in FileOn(w), Len(Last(f.parts)) < MaxPartSize PROVE EndIsTrue(w)
      <4>1. d.seg.file # "removed" /\ f \in w.store /\ f.start = d.seg.start
        BY <3>4, <3>5 DEF FileOn
      <4>2. PICK g \in w.store : g.start = d.seg.start /\ Last(g.parts) = d.seg.part
        BY <3>1, <4>1 DEF Flushed
      <4>3. f = g
        BY <1>4, <4>1, <4>2 DEF FilesFit
      <4>4. Len(d.seg.part) # MaxPartSize
        <5>1. Len(d.seg.part) < MaxPartSize /\ Len(d.seg.part) \in Nat
          BY <3>6, <4>2, <4>3 DEF Disks, Segments
        <5> QED
          BY <5>1, RecordingsAssumption
      <4> QED
        BY <3>2, <4>1, <4>4
    <3> QED
      BY <3>2, <3>3, <3>4, <3>5, <3>6
  <2> QED
    BY <2>1, <2>2
<1>6. ASSUME NEW t, NEW f \in FileOn(w) PROVE Held(f, t) = Own(w, t)
  <2>1. Own(w, t) = In(w.seg.part, t) \cup Held(f, t)
    BY <1>3, <1>4, OwnIs
  <2>2. In(w.seg.part, t) = {}
    BY <1>5, NothingIn
  <2> QED
    BY <2>1, <2>2
<1>7. ASSUME NEW f \in FileOn(w), NEW g, Same(g, f), g.dts = f.dts, g.header = f.header,
             g.duration = w.seg.end - w.seg.dts, g.parts = f.parts
      PROVE  g.header /\ DurationFits(g) /\ \A t : Held(g, t) = Held(f, t)
  <2>1. f \in w.store /\ Same(f, w.seg) /\ f.dts = w.seg.dts /\ f.header
    BY <1>4, <1>5 DEF FileOn, FilesFit, TimesFit, LastsFits, FilesLast
  <2>2. \A t : Held(g, t) = Own(w, t)
    BY <1>6, <1>7, SamePlaces
  <2>3. \A t \in Tracks : \A s \in Own(w, t) :
          s.dts \in Int /\ s.duration \in Int /\ Until(s) = s.dts + s.duration
    BY <1>4, OwnIsTimed DEF Timed, Until
  <2>4. w.seg.end \in Int /\ w.seg.dts \in Int
    BY <1>3 DEF Disks, Segments
  <2>5. \A t \in Tracks : \A s \in Own(w, t) :
          /\ EndIn(g, s) <= g.duration
          /\ Until(s) = w.seg.end => EndIn(g, s) = g.duration
    BY <1>5, <1>7, <2>1, <2>3, <2>4 DEF EndIn, LastsFits
  <2>6. ASSUME g.duration # 0, Len(Last(g.parts)) < MaxPartSize
        PROVE  \E t \in Tracks : \E s \in Held(g, t) : EndIn(g, s) = g.duration
    <3>1. EndIsTrue(w) /\ w.seg.end # w.seg.dts
      BY <1>5, <1>7, <2>4, <2>6
    <3> QED
      BY <2>2, <2>5, <3>1 DEF EndIsTrue
  <2>7. DurationFits(g)
    BY <2>2, <2>5, <2>6 DEF DurationFits
  <2> QED
    BY <1>7, <2>1, <2>7, SamePlaces
<1>8. ASSUME NEW g \in c.store
      PROVE  /\ g.header /\ DurationFits(g)
             /\ \E f \in w.store : Same(g, f) /\ \A t : Held(g, t) = Held(f, t)
  <2>1. CASE g \in w.store
    <3>1. g.header /\ (g \in w.store => DurationFits(g))
      BY <1>5, <2>1 DEF LastsFits, FilesLast
    <3> QED
      BY <2>1, <3>1 DEF Same
  <2>2. CASE g \notin w.store
    <3>1. g \in WithDuration(w, w.seg.end - w.seg.dts)
      <4>1. c # w
        BY <2>2
      <4>2. c = [seg |-> [w.seg EXCEPT !.file = "closed"],
                 store |-> IF case.format = "mpegts" THEN w.store
                           ELSE WithDuration(w, w.seg.end - w.seg.dts),
                 hooks |-> Append(w.hooks, <<"complete", w.seg.stream, w.seg.number>>),
                 ok |-> w.ok]
        BY <1>2, <1>3, <4>1, CloseFileEffect
      <4> QED
        BY <4>2
    <3>2. PICK f \in FileOn(w) :
            /\ Same(g, f) /\ g.dts = f.dts /\ g.header = f.header
            /\ g.duration = w.seg.end - w.seg.dts /\ g.parts = f.parts
      BY <1>3, <2>2, <3>1, WithDurationFiles
    <3>3. f \in w.store
      BY DEF FileOn
    <3> QED
      BY <1>7, <3>2, <3>3
  <2> QED
    BY <2>1, <2>2
<1>9. c.ok
  BY <1>2, <1>3, <1>5, CloseFileEffect
<1>10. ASSUME JoinFits(d)
       PROVE  FilesJoined(c.store) /\ \A f \in c.store : Same(f, d.seg) \/ Earlier(f, d.seg)
  <2>1. JoinFits(w)
    BY <1>5, <1>10
  <2>2. ASSUME NEW f \in c.store, NEW g \in c.store, Follows(f, g)
        PROVE  Joined(Held(f, Video), Held(g, Video))
    <3>1. PICK e \in w.store : Same(f, e) /\ Held(f, Video) = Held(e, Video)
      BY <1>8
    <3>2. PICK h \in w.store : Same(g, h) /\ Held(g, Video) = Held(h, Video)
      BY <1>8
    <3>3. Follows(e, h)
      BY <2>2, <3>1, <3>2 DEF Follows, Same
    <3> QED
      BY <2>1, <3>1, <3>2, <3>3 DEF JoinFits, FilesJoined
  <2>3. ASSUME NEW f \in c.store PROVE Same(f, d.seg) \/ Earlier(f, d.seg)
    <3>1. PICK e \in w.store : Same(f, e)
      BY <1>8
    <3>2. Same(e, w.seg) \/ Earlier(e, w.seg)
      BY <2>1 DEF JoinFits
    <3> QED
      BY <1>4, <3>1, <3>2 DEF Same, Earlier
  <2> QED
    BY <2>2, <2>3 DEF FilesJoined
<1>11. ASSUME NEW f \in c.store, Same(f, d.seg) PROVE Held(f, Video) = Own(d, Video)
  <2>1. PICK e \in w.store : Same(f, e) /\ Held(f, Video) = Held(e, Video)
    BY <1>8
  <2>2. Same(e, w.seg)
    BY <1>4, <1>11, <2>1 DEF Same
  <2>3. w.seg.file \notin {None, "removed"}
    BY <1>5, <2>2, NoneAssumption DEF LastsFits
  <2>4. e \in FileOn(w)
    BY <2>2, <2>3 DEF FileOn, Same
  <2> QED
    BY <1>5, <1>6, <2>1, <2>3, <2>4
<1> QED
  BY <1>8, <1>9, <1>10, <1>11 DEF FilesLast

\* A segment begins.
LEMMA NewSegmentKept ==
  ASSUME NEW d, d.seg.part = <<>>, d.seg.file = None, d.seg.end = d.seg.dts,
         d.seg \in Segments, \A f \in d.store : f \in Files /\ Older(f, d.seg)
  PROVE  /\ FilesOrdered(d.store) => OrderFits(d)
         /\ FilesTimed(d.store) => TimesFit(d)
         /\ \A t, n : FilesFresh(d.store, t, n) => Fresh(d, t, n)
         /\ FilesLast(d.store) => LastsFits(d) /\ EndIsTrue(d)
         /\ FilesJoined(d.store) => JoinFits(d)
         /\ \A w : (\A f \in d.store : Follows(f, d.seg) =>
                      \A p \in Held(f, Video) : IsLast(p, Held(f, Video)) =>
                        w # None /\ w.sync /\ w.n = p.n + 1 /\ w.dts >= d.seg.dts)
                   => GoesOn(d, w)
<1>1. \A f \in d.store : ~Same(f, d.seg) /\ Earlier(f, d.seg)
  BY DEF Same, Earlier, Older, Files, Segments
<1>2. FileOn(d) = {}
  BY DEF FileOn
<1>3. \A t : In(d.seg.part, t) = {} /\ Own(d, t) = {}
  BY <1>2, NothingIn DEF Own
<1>4. FilesOrdered(d.store) => OrderFits(d)
  BY <1>3 DEF OrderFits, Ordered, Below
<1>5. FilesTimed(d.store) => TimesFit(d)
  BY <1>1, <1>3 DEF TimesFit
<1>6. \A t, n : FilesFresh(d.store, t, n) => Fresh(d, t, n)
  BY <1>3 DEF Fresh
<1>7. FilesLast(d.store) => LastsFits(d) /\ EndIsTrue(d)
  BY <1>1, <1>3, NoneAssumption DEF LastsFits, EndIsTrue
<1>8. FilesJoined(d.store) => JoinFits(d)
  BY <1>1, <1>3 DEF JoinFits, Joined
<1>9. ASSUME NEW w, \A f \in d.store : Follows(f, d.seg) =>
                      \A p \in Held(f, Video) : IsLast(p, Held(f, Video)) =>
                        w # None /\ w.sync /\ w.n = p.n + 1 /\ w.dts >= d.seg.dts
      PROVE  GoesOn(d, w)
  BY <1>3, <1>9 DEF GoesOn
<1> QED
  BY <1>4, <1>5, <1>6, <1>7, <1>8, <1>9

-----------------------------------------------------------------------------
(* The state.                                                              *)

OrderInv ==
  /\ FilesOrdered(store) /\ \A t \in Tracks : FilesFresh(store, t, received[t] + 1)
  /\ seg # None => \A d \in {Disk(seg)} :
       OrderFits(d) /\ \A t \in Tracks : Fresh(d, t, received[t] + 1)

TimesInv ==
  case.format = "fmp4" =>
    /\ FilesTimed(store)
    /\ seg # None => \A d \in {Disk(seg)} : TimesFit(d)
    /\ \A t \in Tracks : next[t] # None =>
         /\ next[t].n = received[t] /\ FilesFresh(store, t, next[t].n)
         /\ seg # None => \A d \in {Disk(seg)} : Fresh(d, t, next[t].n)

\* While nothing fails; a sample is refused before the recorder stops.
Faultless == case.format = "fmp4" /\ faults = 0
LastInv ==
  Faultless =>
    /\ \A t \in Tracks : next[t] # None => next[t].dts = next[t].ntp + offset[t]
    /\ FilesLast(store)
    /\ seg # None => \A d \in {Disk(seg)} :
         /\ LastsFits(d) /\ d.seg.file # "closed"
         /\ \/ EndIsTrue(d) \/ d.seg.file = "removed"
            \/ recorder # "running" /\ Len(d.seg.part) = MaxPartSize

JoinInv ==
  Faultless /\ VideoIsNotLate =>
    /\ FilesJoined(store)
    /\ seg # None => \A d \in {Disk(seg)} :
         JoinFits(d) /\ (recorder = "running" => GoesOn(d, next[Video]))
    /\ seg = None => \A f \in store :
         f.stream <= stream /\ (recorder = "running" => f.stream < stream)

KeptInv == OrderInv /\ TimesInv /\ LastInv /\ JoinInv

\* What an operation finds in a record of the disk.
LEMMA SameFits ==
  ASSUME NEW d, NEW e, e.seg = d.seg, e.store = d.store
  PROVE  /\ OrderFits(d) => OrderFits(e)
         /\ TimesFit(d) => TimesFit(e)
         /\ \A t, n : Fresh(d, t, n) => Fresh(e, t, n)
         /\ LastsFits(d) => LastsFits(e)
         /\ EndIsTrue(d) => EndIsTrue(e)
         /\ JoinFits(d) => JoinFits(e)
         /\ \A w : GoesOn(d, w) => GoesOn(e, w)
<1>1. FileOn(e) = FileOn(d)
  BY DEF FileOn
<1>2. \A t : Own(e, t) = Own(d, t)
  BY <1>1 DEF Own
<1>3. /\ OrderFits(d) => OrderFits(e)
      /\ TimesFit(d) => TimesFit(e)
      /\ \A t, n : Fresh(d, t, n) => Fresh(e, t, n)
  BY DEF OrderFits, TimesFit, Fresh
<1>4. LastsFits(d) => LastsFits(e)
  BY <1>2 DEF LastsFits
<1>5. EndIsTrue(d) => EndIsTrue(e)
  BY <1>2 DEF EndIsTrue
<1>6. JoinFits(d) => JoinFits(e)
  BY <1>2 DEF JoinFits
<1>7. \A w : GoesOn(d, w) => GoesOn(e, w)
  BY <1>2 DEF GoesOn
<1> QED
  BY <1>3, <1>4, <1>5, <1>6, <1>7

LEMMA HeldIsSample ==
  ASSUME NEW f \in Files, NEW t, NEW s \in Held(f, t) PROVE s \in Samples
<1>1. PICK i \in DOMAIN f.parts : \E j \in DOMAIN f.parts[i] : s = f.parts[i][j]
  BY HeldPlace
<1>2. f.parts \in Seq(Seq(Samples))
  BY DEF Files
<1> QED
  BY <1>1, <1>2

LEMMA FreshMore ==
  ASSUME NEW d, d.store \subseteq Files, d.seg \in Segments, NEW t, NEW n \in Int,
         NEW m \in Int, n <= m
  PROVE  Fresh(d, t, n) => Fresh(d, t, m)
<1>1. \A f \in d.store : \A s \in Held(f, t) : s.n \in Nat
  BY HeldIsSample DEF Samples
<1>2. ASSUME NEW s \in In(d.seg.part, t) PROVE s.n \in Nat
  <2>1. d.seg.part \in Seq(Samples)
    BY DEF Segments
  <2>2. s \in Samples
    BY <2>1, InIs
  <2> QED
    BY <2>2 DEF Samples
<1> QED
  BY <1>1, <1>2 DEF Fresh, FilesFresh

\* The segment to which the sample that waits goes, which may be a new one.
LEMMA StartKept ==
  ASSUME RecInv, KeptInv, case.format = "fmp4", recorder = "running",
         NEW t \in Tracks, next[t] # None, NEW start, NEW d, d = Disk(start),
         start = IF seg # None THEN seg ELSE NewSegment(next[t].dts, next[t].ntp, number)
  PROVE  /\ d \in Disks /\ d.ok /\ FilesFit(d.store, d.seg) /\ d.seg = start /\ d.store = store
         /\ OrderFits(d) /\ TimesFit(d)
         /\ \A u \in Tracks : Fresh(d, u, received[u] + 1) /\ (next[u] # None => Fresh(d, u, next[u].n))
         /\ Faultless => /\ LastsFits(d) /\ d.seg.file # "closed"
                         /\ EndIsTrue(d) \/ d.seg.file = "removed"
         /\ Faultless /\ VideoIsNotLate => JoinFits(d) /\ GoesOn(d, next[Video])
<1>1. d.seg = start /\ d.store = store /\ d.ok
  BY DEF Disk
<1>2. CASE seg # None
  <2>1. start = seg /\ d \in {Disk(seg)}
    BY <1>2
  <2>2. SegmentFits(seg) /\ FilesFit(store, seg) /\ RecTypes
    BY <1>2 DEF RecInv, StoreFits
  <2>3. d \in Disks
    BY <2>1, <2>2, DiskIs DEF SegmentFits
  <2>4. OrderFits(d) /\ \A u \in Tracks : Fresh(d, u, received[u] + 1)
    BY <1>2, <2>1 DEF KeptInv, OrderInv
  <2>5. TimesFit(d) /\ \A u \in Tracks : next[u] # None => Fresh(d, u, next[u].n)
    BY <1>2, <2>1 DEF KeptInv, TimesInv
  <2>6. Faultless => /\ LastsFits(d) /\ d.seg.file # "closed"
                     /\ EndIsTrue(d) \/ d.seg.file = "removed"
    BY <1>2, <2>1 DEF KeptInv, LastInv
  <2>7. Faultless /\ VideoIsNotLate => JoinFits(d) /\ GoesOn(d, next[Video])
    BY <1>2, <2>1 DEF KeptInv, JoinInv
  <2> QED
    BY <1>1, <2>1, <2>2, <2>3, <2>4, <2>5, <2>6, <2>7
<1>3. CASE seg = None
  <2>1. /\ next[t] \in Waiting /\ next[t].ntp <= clock
        /\ \E p \in Offsets : next[t].ntp + p <= next[t].dts
    BY DEF RecInv, NextFits, WaitFits
  <2>2. next[t].ntp \in Nat /\ next[t].dts \in Int /\ number \in Nat /\ RecTypes
    BY <2>1 DEF Waiting, RecInv, RecTypes
  <2>3. /\ SegmentFits(start) /\ start.start = next[t].ntp /\ start.part = <<>>
        /\ start.file = None /\ start.stream = stream
    BY <1>3, <2>1, <2>2, NewSegmentFits
  <2>4. start.end = start.dts
    BY <1>3 DEF NewSegment
  <2>5. \A f \in store : f \in Files /\ Older(f, start)
    BY <1>3, <2>2, <2>3 DEF RecInv, StoreFits, IsPast, RecTypes, Older
  <2>6. FilesFit(store, start)
    BY <2>3, <2>5, NewFilesFit DEF RecInv, StoreFits
  <2>7. d \in Disks
    BY <2>2, <2>3, DiskIs DEF SegmentFits
  <2>8. FilesOrdered(d.store) /\ \A u \in Tracks : FilesFresh(d.store, u, received[u] + 1)
    BY <1>1 DEF KeptInv, OrderInv
  <2>9. FilesTimed(d.store) /\ \A u \in Tracks : next[u] # None => FilesFresh(d.store, u, next[u].n)
    BY <1>1 DEF KeptInv, TimesInv
  <2>10. Faultless => FilesLast(d.store)
    BY <1>1 DEF KeptInv, LastInv
  <2>11. Faultless /\ VideoIsNotLate => FilesJoined(d.store) /\ \A f \in d.store : f.stream < stream
    BY <1>1, <1>3 DEF KeptInv, JoinInv
  <2>12. /\ d.seg.part = <<>> /\ d.seg.file = None /\ d.seg.end = d.seg.dts
         /\ d.seg \in Segments /\ \A f \in d.store : f \in Files /\ Older(f, d.seg)
    BY <1>1, <2>3, <2>4, <2>5 DEF SegmentFits
  <2>13. OrderFits(d) /\ TimesFit(d)
    BY <2>8, <2>9, <2>12, NewSegmentKept
  <2>14. \A u \in Tracks : Fresh(d, u, received[u] + 1) /\ (next[u] # None => Fresh(d, u, next[u].n))
    BY <2>8, <2>9, <2>12, NewSegmentKept
  <2>15. Faultless => LastsFits(d) /\ EndIsTrue(d) /\ d.seg.file # "closed"
    BY <2>10, <2>12, NewSegmentKept, NoneAssumption
  <2>16. ASSUME Faultless, VideoIsNotLate PROVE JoinFits(d) /\ GoesOn(d, next[Video])
    <3>1. \A f \in d.store : f.stream \in Nat /\ f.stream < d.seg.stream /\ d.seg.stream \in Nat
      BY <1>1, <2>3, <2>7, <2>11, <2>16 DEF Disks, Files, Segments
    <3>2. \A f \in d.store : ~Follows(f, d.seg)
      BY <3>1 DEF Follows
    <3> QED
      BY <2>11, <2>12, <2>16, <3>2, NewSegmentKept
  <2> QED
    BY <1>1, <2>6, <2>7, <2>13, <2>14, <2>15, <2>16
<1> QED
  BY <1>2, <1>3

-----------------------------------------------------------------------------
(* A sample of fMP4 is kept.                                               *)

\* What arrives.
Arrives(t, x) ==
  /\ x \in Waiting /\ x # None /\ x.n = received[t] + 1 /\ x.ntp = clock
  /\ next' = [next EXCEPT ![t] = x]
  /\ next[t] = None => x.dts = clock + offset[t]
  /\ next[t] # None => /\ next[t] \in Waiting /\ x.dts >= next[t].dts
                       /\ x.dts \in {clock + offset[t], next[t].dts}
                       /\ x.dts >= clock + offset[t]

\* What becomes of the one that has waited for it: the segment that it goes to, the
\* disk when it has been written, and when a segment that ends has been closed.
Goes(t, x, start, sample, d, c, fault) ==
  /\ next[t] # None /\ next[t].dts >= start.dts
  /\ start = IF seg # None THEN seg ELSE NewSegment(next[t].dts, next[t].ntp, number)
  /\ sample = [track |-> t, n |-> next[t].n, sync |-> next[t].sync, dts |-> next[t].dts,
               duration |-> x.dts - next[t].dts]
  /\ d = WriteSample(Disk(start), sample, fault)
  /\ c = IF d.ok /\ EndsSegment(t, x, start) THEN CloseSegment(d, fault) ELSE d
  /\ store' = c.store /\ (recorder' = "running" => c.ok)
  /\ IF c.ok /\ EndsSegment(t, x, start)
     THEN \E y \in NextSegmentStarts({w \in {next'[u] : u \in Tracks} : w # None}) :
            seg' = NewSegment(y.dts, y.ntp, IF seg = None THEN number + 1 ELSE number)
     ELSE seg' = c.seg /\ (c.ok \/ recorder' = "failed")

LEMMA FMP4Cases ==
  ASSUME RecInv, case.format = "fmp4", recorder = "running",
         NEW t \in Tracks, NEW sync \in BOOLEAN, next[t] # None => next[t].ntp < clock,
         NEW fault, WriteFMP4(t, clock, clock + offset[t], sync, fault)
  PROVE  \E x : /\ Arrives(t, x)
                /\ \/ /\ UNCHANGED <<seg, store>>
                      /\ \/ recorder' = "failed" \/ next[t] = None
                         \/ seg # None /\ next[t].dts < seg.dts
                   \/ \E start, sample, d, c : Goes(t, x, start, sample, d, c, fault)
<1> DEFINE prev == next[t]
           dts == clock + offset[t]
           x == [track |-> t, n |-> received[t] + 1, ntp |-> clock, sync |-> sync,
                 dts |-> IF prev = None THEN dts ELSE MaxOf({dts, prev.dts})]
           sample == [track |-> t, n |-> prev.n, sync |-> prev.sync, dts |-> prev.dts,
                      duration |-> x.dts - prev.dts]
           waiting == {y \in {next'[u] : u \in Tracks} : y # None}
           first == IF seg = None THEN number + 1 ELSE number
           start == IF seg # None THEN seg ELSE NewSegment(prev.dts, prev.ntp, number)
           writes(current) ==
             \E d \in {WriteSample(Disk(current), sample, fault)},
                over \in {EndsSegment(t, x, current)} :
             \E c \in {IF d.ok /\ over THEN CloseSegment(d, fault) ELSE d} :
               /\ store' = c.store /\ hooks' = c.hooks
               /\ recorder' = IF c.ok THEN "running" ELSE "failed"
               /\ IF c.ok /\ over
                  THEN /\ number' = first + 1
                       /\ \E y \in NextSegmentStarts(waiting) :
                            seg' = NewSegment(y.dts, y.ntp, first)
                  ELSE seg' = c.seg /\ number' = first
<1>1. /\ next' = [next EXCEPT ![t] = x]
      /\ IF prev = None
         THEN UNCHANGED <<started, number, seg, store, hooks, recorder>>
         ELSE IF Drifts(t, prev.ntp, prev.dts)
         THEN recorder' = "failed" /\ UNCHANGED <<started, number, seg, store, hooks>>
         ELSE /\ started' = IF started[t] # None THEN started
                            ELSE [started EXCEPT ![t] = prev.dts - prev.ntp]
              /\ \E current \in {start} :
                 IF prev.dts < current.dts
                 THEN UNCHANGED <<number, seg, store, hooks, recorder>>
                 ELSE writes(current)
  BY DEF WriteFMP4
<1>2. prev = next[t] /\ dts = clock + offset[t]
  OBVIOUS
<1>3. x = [track |-> t, n |-> received[t] + 1, ntp |-> clock, sync |-> sync,
           dts |-> IF prev = None THEN dts ELSE MaxOf({dts, prev.dts})]
  OBVIOUS
<1>4. sample = [track |-> t, n |-> prev.n, sync |-> prev.sync, dts |-> prev.dts,
                duration |-> x.dts - prev.dts]
  OBVIOUS
<1>5. start = IF seg # None THEN seg ELSE NewSegment(prev.dts, prev.ntp, number)
  OBVIOUS
<1>6. waiting = {y \in {next'[u] : u \in Tracks} : y # None} /\ first = IF seg = None THEN number + 1 ELSE number
  OBVIOUS
<1> HIDE DEF prev, dts, x, sample, waiting, first, start
<1>7. clock \in Nat /\ offset[t] \in Int /\ received[t] \in Nat /\ dts \in Int
  <2>1. clock \in Nat /\ received[t] \in Nat /\ offset \in [Tracks -> Offsets]
    BY TypesAre DEF RecInv, RecTypes
  <2>2. offset[t] \in Int
    BY <2>1, OffsetsAreInt
  <2> QED
    BY <1>2, <2>1, <2>2
<1>8. prev # None => prev \in Waiting
  BY <1>2 DEF RecInv, NextFits, WaitFits
<1>9. Arrives(t, x)
  <2>1. CASE prev = None
    <3>1. x.dts = dts /\ x.n = received[t] + 1 /\ x.ntp = clock /\ x \in Waiting
      BY <1>3, <1>7, <2>1 DEF Waiting
    <3> QED
      BY <1>1, <1>2, <2>1, <3>1, NoneAssumption DEF Arrives
  <2>2. CASE prev # None
    <3>1. prev.dts \in Int
      BY <1>8, <2>2 DEF Waiting
    <3>2. PICK m : m = MaxOf({dts, prev.dts})
      OBVIOUS
    <3>3. m \in {dts, prev.dts} /\ dts <= m /\ prev.dts <= m
      BY <1>7, <3>1, <3>2, MaxOfTwo
    <3>4. x.dts = m /\ x.n = received[t] + 1 /\ x.ntp = clock
      BY <1>3, <2>2, <3>2
    <3>5. x \in Waiting
      BY <1>3, <1>7, <2>2, <3>1, <3>2, <3>3 DEF Waiting
    <3>6. x.dts >= dts /\ x.dts >= prev.dts /\ x.dts \in {dts, prev.dts}
      BY <1>7, <3>1, <3>3, <3>4
    <3> QED
      BY <1>1, <1>2, <1>8, <2>2, <3>4, <3>5, <3>6, NoneAssumption DEF Arrives
  <2> QED
    BY <2>1, <2>2
<1>10. CASE prev = None
  <2>1. UNCHANGED <<seg, store>>
    BY <1>1, <1>10
  <2> QED
    BY <1>2, <1>9, <1>10, <2>1
<1>11. CASE prev # None /\ Drifts(t, prev.ntp, prev.dts)
  <2>1. UNCHANGED <<seg, store>> /\ recorder' = "failed"
    BY <1>1, <1>11
  <2> QED
    BY <1>9, <2>1
<1>12. CASE prev # None /\ ~Drifts(t, prev.ntp, prev.dts)
  <2>1. IF prev.dts < start.dts
        THEN UNCHANGED <<number, seg, store, hooks, recorder>>
        ELSE writes(start)
    <3> HIDE DEF writes
    <3> QED
      BY <1>1, <1>12
  <2>2. prev.dts \in Int /\ prev.ntp \in Nat
    BY <1>8, <1>12 DEF Waiting
  <2>3. start.dts \in Int /\ (seg = None => start.dts = prev.dts)
    <3>1. CASE seg # None
      BY <1>5, <3>1 DEF RecInv, StoreFits, SegmentFits, Segments
    <3>2. CASE seg = None
      BY <1>5, <2>2, <3>2 DEF NewSegment
    <3> QED
      BY <3>1, <3>2
  <2>4. CASE prev.dts < start.dts
    <3>1. UNCHANGED <<seg, store>>
      BY <2>1, <2>4
    <3>2. seg # None /\ prev.dts < seg.dts
      BY <1>5, <2>2, <2>3, <2>4
    <3> QED
      BY <1>2, <1>9, <3>1, <3>2
  <2>5. CASE ~(prev.dts < start.dts)
    <3>1. PICK d, over, c :
            /\ d = WriteSample(Disk(start), sample, fault) /\ over = EndsSegment(t, x, start)
            /\ c = IF d.ok /\ over THEN CloseSegment(d, fault) ELSE d
            /\ store' = c.store /\ hooks' = c.hooks
            /\ recorder' = IF c.ok THEN "running" ELSE "failed"
            /\ IF c.ok /\ over
               THEN /\ number' = first + 1
                    /\ \E y \in NextSegmentStarts(waiting) :
                         seg' = NewSegment(y.dts, y.ntp, first)
               ELSE seg' = c.seg /\ number' = first
      BY <2>1, <2>5
    <3>2. next[t].dts >= start.dts
      BY <1>2, <2>2, <2>3, <2>5
    <3>3. c = IF d.ok /\ EndsSegment(t, x, start) THEN CloseSegment(d, fault) ELSE d
      BY <3>1
    <3>4. /\ start = IF seg # None THEN seg ELSE NewSegment(next[t].dts, next[t].ntp, number)
          /\ sample = [track |-> t, n |-> next[t].n, sync |-> next[t].sync, dts |-> next[t].dts,
                       duration |-> x.dts - next[t].dts]
      BY <1>2, <1>4, <1>5
    <3>5. IF c.ok /\ EndsSegment(t, x, start)
          THEN \E y \in NextSegmentStarts({w \in {next'[u] : u \in Tracks} : w # None}) :
                 seg' = NewSegment(y.dts, y.ntp, IF seg = None THEN number + 1 ELSE number)
          ELSE seg' = c.seg /\ (c.ok \/ recorder' = "failed")
      BY <1>6, <3>1
    <3>6. store' = c.store /\ (recorder' = "running" => c.ok) /\ next[t] # None
          /\ d = WriteSample(Disk(start), sample, fault)
      BY <1>2, <1>12, <3>1
    <3>7. Goes(t, x, start, sample, d, c, fault)
      BY <3>2, <3>3, <3>4, <3>5, <3>6 DEF Goes
    <3> QED
      BY <1>9, <3>7
  <2> QED
    BY <2>4, <2>5
<1> QED
  BY <1>10, <1>11, <1>12

\* The disk of the next state.
LEMMA DiskNext ==
  \A d \in {Disk(seg)}' : d.seg = seg' /\ d.store = store'
BY DEF Disk

\* The order is that of the case at hand.
LEMMA OrderNext ==
  ASSUME case' = case, FilesOrdered(store'),
         \A t \in Tracks : FilesFresh(store', t, received'[t] + 1),
         seg' # None => \A d \in {Disk(seg)}' :
           OrderFits(d) /\ \A t \in Tracks : Fresh(d, t, received'[t] + 1)
  PROVE  OrderInv'
<1>1. \A files : FilesOrdered(files) => FilesOrdered(files)'
  BY DEF FilesOrdered, LongSegments, SegmentDuration
<1>2. \A d : OrderFits(d) => OrderFits(d)'
  BY <1>1 DEF OrderFits
<1>3. FilesOrdered(store)'
  BY DEF FilesOrdered, LongSegments, SegmentDuration
<1> QED
  BY <1>2, <1>3 DEF OrderInv

\* The order is kept where the files and the segment are.
LEMMA OrderStays ==
  ASSUME RecInv, OrderInv, UNCHANGED <<seg, store, case>>,
         \A t \in Tracks : received'[t] \in Nat /\ received[t] <= received'[t]
  PROVE  OrderInv'
<1>1. /\ store \subseteq Files /\ (seg # None => seg \in Segments)
      /\ \A t \in Tracks : received[t] \in Nat
  BY TypesAre DEF RecInv, RecTypes, StoreFits, SegmentFits
<1>2. \A t \in Tracks : /\ received[t] + 1 \in Int /\ received'[t] + 1 \in Int
                        /\ received[t] + 1 <= received'[t] + 1
  BY <1>1
<1>3. ASSUME NEW t \in Tracks PROVE FilesFresh(store, t, received'[t] + 1)
  <2>1. ASSUME NEW f \in store, NEW s \in Held(f, t) PROVE s.n < received'[t] + 1
    <3>1. s.n < received[t] + 1
      BY DEF OrderInv, FilesFresh
    <3>2. s.n \in Nat
      BY <1>1, HeldIsSample DEF Samples
    <3> QED
      BY <1>1, <1>2, <3>1, <3>2
  <2> QED
    BY <2>1 DEF FilesFresh
<1>4. ASSUME seg # None, NEW e \in {Disk(seg)}'
      PROVE  OrderFits(e) /\ \A t \in Tracks : Fresh(e, t, received'[t] + 1)
  <2>1. PICK d : d \in {Disk(seg)}
    OBVIOUS
  <2>2. d.seg = seg /\ d.store = store
    BY <2>1 DEF Disk
  <2>3. e.seg = d.seg /\ e.store = d.store
    BY <2>2, DiskNext
  <2>4. OrderFits(d) /\ \A t \in Tracks : Fresh(d, t, received[t] + 1)
    BY <1>4, <2>1 DEF OrderInv
  <2>5. OrderFits(e) /\ \A t \in Tracks : Fresh(e, t, received[t] + 1)
    BY <2>3, <2>4, SameFits
  <2>6. e.store \subseteq Files /\ e.seg \in Segments
    BY <1>1, <1>4, <2>2, <2>3
  <2> QED
    BY <1>2, <2>5, <2>6, FreshMore
<1>5. FilesOrdered(store)
  BY DEF OrderInv
<1> QED
  BY <1>3, <1>4, <1>5, OrderNext

LEMMA TimesStay ==
  ASSUME RecInv, OrderInv, TimesInv, UNCHANGED <<seg, store, case>>,
         \A t \in Tracks : \/ next'[t] = None
                           \/ next'[t] = next[t] /\ received'[t] = received[t]
                           \/ next'[t].n = received'[t] /\ received'[t] = received[t] + 1
  PROVE  TimesInv'
<1> SUFFICES ASSUME case.format = "fmp4" PROVE TimesInv'
  BY DEF TimesInv
<1>1. PICK d : d \in {Disk(seg)}
  OBVIOUS
<1>2. d.seg = seg /\ d.store = store /\ \A e \in {Disk(seg)}' : e.seg = d.seg /\ e.store = d.store
  BY <1>1, DiskNext DEF Disk
<1>3. ASSUME seg # None, NEW e \in {Disk(seg)}' PROVE TimesFit(e)
  <2>1. TimesFit(d)
    BY <1>1, <1>3 DEF TimesInv
  <2> QED
    BY <1>2, <1>3, <2>1, SameFits
<1>4. ASSUME NEW t \in Tracks, next'[t] # None
      PROVE  /\ next'[t].n = received'[t] /\ FilesFresh(store, t, next'[t].n)
             /\ seg # None => \A e \in {Disk(seg)}' : Fresh(e, t, next'[t].n)
  <2>1. FilesFresh(store, t, next'[t].n) /\ (seg # None => Fresh(d, t, next'[t].n))
    BY <1>1, <1>4 DEF TimesInv, OrderInv
  <2>2. next'[t].n = received'[t]
    BY <1>4 DEF TimesInv
  <2> QED
    BY <1>2, <2>1, <2>2, SameFits
<1> QED
  BY <1>3, <1>4 DEF TimesInv

LEMMA LastStays ==
  ASSUME LastInv, UNCHANGED <<seg, store>>, Faultless' => Faultless,
         seg # None /\ recorder' = "running" => recorder = "running",
         Faultless' => \A t \in Tracks : next'[t] # None => next'[t].dts = next'[t].ntp + offset'[t]
  PROVE  LastInv'
<1> SUFFICES ASSUME Faultless' PROVE LastInv'
  BY DEF LastInv
<1>1. PICK d : d \in {Disk(seg)}
  OBVIOUS
<1>2. \A e \in {Disk(seg)}' : e.seg = d.seg /\ e.store = d.store
  BY <1>1, DiskNext DEF Disk
<1>3. ASSUME seg # None, NEW e \in {Disk(seg)}'
      PROVE  /\ LastsFits(e) /\ e.seg.file # "closed"
             /\ \/ EndIsTrue(e) \/ e.seg.file = "removed"
                \/ recorder' # "running" /\ Len(e.seg.part) = MaxPartSize
  <2>1. /\ LastsFits(d) /\ d.seg.file # "closed"
        /\ \/ EndIsTrue(d) \/ d.seg.file = "removed"
           \/ recorder # "running" /\ Len(d.seg.part) = MaxPartSize
    BY <1>1, <1>3 DEF LastInv
  <2>2. LastsFits(e) /\ (EndIsTrue(d) => EndIsTrue(e)) /\ e.seg = d.seg
    BY <1>2, <1>3, <2>1, SameFits
  <2> QED
    BY <1>3, <2>1, <2>2
<1>4. FilesLast(store)
  BY DEF LastInv
<1> QED
  BY <1>3, <1>4 DEF LastInv

LEMMA JoinStays ==
  ASSUME JoinInv, UNCHANGED <<seg, store>>,
         Faultless' /\ VideoIsNotLate' => Faultless /\ VideoIsNotLate,
         seg # None /\ recorder' = "running" =>
           /\ recorder = "running"
           /\ \A d \in {Disk(seg)} : GoesOn(d, next[Video]) => GoesOn(d, next'[Video]),
         Faultless /\ VideoIsNotLate /\ seg = None =>
           \A f \in store : f.stream <= stream' /\ (recorder' = "running" => f.stream < stream')
  PROVE  JoinInv'
<1> SUFFICES ASSUME Faultless', VideoIsNotLate' PROVE JoinInv'
  BY DEF JoinInv
<1>1. PICK d : d \in {Disk(seg)}
  OBVIOUS
<1>2. \A e \in {Disk(seg)}' : e.seg = d.seg /\ e.store = d.store
  BY <1>1, DiskNext DEF Disk
<1>3. ASSUME seg # None, NEW e \in {Disk(seg)}'
      PROVE  JoinFits(e) /\ (recorder' = "running" => GoesOn(e, next'[Video]))
  <2>1. JoinFits(d) /\ (recorder' = "running" => GoesOn(d, next'[Video]))
    BY <1>1, <1>3 DEF JoinInv
  <2> QED
    BY <1>2, <1>3, <2>1, SameFits
<1>4. FilesJoined(store)
  BY DEF JoinInv
<1> QED
  BY <1>3, <1>4 DEF JoinInv

\* The time stamp of a sample follows the clock while nothing fails.
LEMMA ArrivalLasts ==
  ASSUME RecInv, LastInv, NEW t \in Tracks, NEW x, Arrives(t, x), offset' = offset, Faultless,
         next[t] # None => next[t].ntp < clock
  PROVE  /\ \A u \in Tracks : next'[u] # None => next'[u].dts = next'[u].ntp + offset'[u]
         /\ x.dts = clock + offset[t] /\ next'[t] = x
         /\ \A u \in Tracks \ {t} : next'[u] = next[u]
<1>1. clock \in Nat /\ \A u \in Tracks : offset[u] \in Int
  <2>1. clock \in Nat /\ offset \in [Tracks -> Offsets]
    BY TypesAre DEF RecInv, RecTypes
  <2>2. \A u \in Tracks : offset[u] \in Offsets
    BY <2>1
  <2> QED
    BY <2>1, <2>2, OffsetsAreInt
<1>2. next'[t] = x /\ \A u \in Tracks \ {t} : next'[u] = next[u]
  BY DEF Arrives, RecInv, NextFits
<1>3. x.dts = clock + offset[t]
  <2>1. CASE next[t] = None
    BY <2>1 DEF Arrives
  <2>2. CASE next[t] # None
    <3>1. next[t].dts = next[t].ntp + offset[t] /\ next[t].ntp \in Nat
      BY <2>2 DEF LastInv, Arrives, Waiting
    <3>2. /\ x.dts \in {clock + offset[t], next[t].dts} /\ x.dts >= clock + offset[t]
      BY <2>2 DEF Arrives
    <3> QED
      BY <1>1, <2>2, <3>1, <3>2
  <2> QED
    BY <2>1, <2>2
<1>4. \A u \in Tracks : next[u] # None => next[u].dts = next[u].ntp + offset[u]
  BY DEF LastInv
<1> QED
  BY <1>2, <1>3, <1>4 DEF Arrives

LEMMA QuietKept ==
  ASSUME RecInv, KeptInv, recorder = "running", NEW t \in Tracks,
         NEW x, Arrives(t, x), received' = [received EXCEPT ![t] = @ + 1],
         next[t] # None => next[t].ntp < clock,
         UNCHANGED <<case, offset, stream, seg, store>>, faults' = 0 => faults = 0,
         \/ recorder' = "failed" \/ next[t] = None
         \/ seg # None /\ next[t].dts < seg.dts
  PROVE  KeptInv'
<1>1. /\ \A u \in Tracks : received[u] \in Nat /\ DOMAIN received = Tracks
      /\ DOMAIN next = Tracks /\ Video \in Tracks
  BY TypesAre DEF RecInv, RecTypes, NextFits, Tracks
<1>2. /\ received'[t] = received[t] + 1 /\ \A u \in Tracks \ {t} : received'[u] = received[u]
      /\ next'[t] = x /\ \A u \in Tracks \ {t} : next'[u] = next[u]
  BY <1>1 DEF Arrives
<1>3. x.n = received[t] + 1
  BY DEF Arrives
<1>4. OrderInv'
  <2>1. \A u \in Tracks : received'[u] \in Nat /\ received[u] <= received'[u]
    BY <1>1, <1>2
  <2> QED
    BY <2>1, OrderStays DEF KeptInv
<1>5. TimesInv'
  <2>1. \A u \in Tracks : \/ next'[u] = None
                          \/ next'[u] = next[u] /\ received'[u] = received[u]
                          \/ next'[u].n = received'[u] /\ received'[u] = received[u] + 1
    BY <1>2, <1>3
  <2> QED
    BY <2>1, TimesStay DEF KeptInv
<1>6. Faultless' => Faultless
  BY DEF Faultless
<1>7. VideoIsNotLate' <=> VideoIsNotLate
  BY DEF VideoIsNotLate
<1>8. LastInv'
  <2>1. Faultless' => \A u \in Tracks : next'[u] # None => next'[u].dts = next'[u].ntp + offset'[u]
    BY <1>6, ArrivalLasts DEF KeptInv
  <2> QED
    BY <1>6, <2>1, LastStays DEF KeptInv
<1>9. JoinInv'
  <2>1. ASSUME seg # None, recorder' = "running", NEW d \in {Disk(seg)}, GoesOn(d, next[Video])
        PROVE  GoesOn(d, next'[Video])
    <3>1. CASE t # Video
      BY <1>1, <1>2, <2>1, <3>1
    <3>2. CASE t = Video
      <4>1. next[Video] = None \/ ~(next[Video].dts >= seg.dts)
        <5>1. CASE next[t] # None /\ next[t].dts < seg.dts
          <6>1. next[t].dts \in Int /\ seg.dts \in Int
            BY <2>1, <5>1 DEF Arrives, Waiting, RecInv, StoreFits,
               SegmentFits, Segments
          <6> QED
            BY <3>2, <5>1, <6>1
        <5> QED
          BY <2>1, <3>2, <5>1
      <4>2. d.seg = seg
        BY <2>1 DEF Disk
      <4> QED
        BY <2>1, <4>1, <4>2 DEF GoesOn
    <3> QED
      BY <3>1, <3>2
  <2>2. Faultless /\ VideoIsNotLate /\ seg = None =>
          \A f \in store : f.stream <= stream' /\ (recorder' = "running" => f.stream < stream')
    BY DEF KeptInv, JoinInv
  <2> QED
    BY <1>6, <1>7, <2>1, <2>2, JoinStays DEF KeptInv
<1> QED
  BY <1>4, <1>5, <1>8, <1>9 DEF KeptInv

\* The disk when the sample has been written and the segment, if it ends, closed.
LEMMA GoesFits ==
  ASSUME RecInv, KeptInv, case.format = "fmp4", recorder = "running", NEW t \in Tracks,
         NEW x, Arrives(t, x), received' = [received EXCEPT ![t] = @ + 1],
         NEW fault \in Faults \cup {None}, NEW start, NEW sample, NEW d, NEW c,
         Goes(t, x, start, sample, d, c, fault)
  PROVE  /\ d \in Disks /\ FilesFit(d.store, d.seg) /\ TimesFit(d)
         /\ c \in Disks /\ FilesFit(c.store, c.seg) /\ Same(c.seg, start) /\ c.seg.dts = start.dts
         /\ OrderFits(c) /\ TimesFit(c) /\ sample \in Timed
         /\ \A u \in Tracks : Fresh(c, u, received'[u] + 1)
         /\ \A u \in Tracks : next'[u] # None => Fresh(c, u, next'[u].n) /\ next'[u].n = received'[u]
<1>1. PICK b : b = Disk(start)
  OBVIOUS
<1>2. /\ b \in Disks /\ b.ok /\ FilesFit(b.store, b.seg) /\ b.seg = start /\ b.store = store
      /\ OrderFits(b) /\ TimesFit(b)
      /\ \A u \in Tracks : Fresh(b, u, received[u] + 1) /\ (next[u] # None => Fresh(b, u, next[u].n))
  BY <1>1, StartKept DEF Goes
<1>3. /\ \A u \in Tracks : received[u] \in Nat /\ DOMAIN received = Tracks /\ DOMAIN next = Tracks
  BY TypesAre DEF RecInv, RecTypes, NextFits
<1>4. /\ received'[t] = received[t] + 1 /\ \A u \in Tracks \ {t} : received'[u] = received[u]
      /\ x.n = received[t] + 1 /\ next'[t] = x /\ \A u \in Tracks \ {t} : next'[u] = next[u]
  BY <1>3 DEF Arrives
<1>5. /\ next[t] \in Waiting /\ next[t] # None /\ next[t].n = received[t] /\ x \in Waiting
      /\ next[t].dts >= start.dts
  BY DEF Arrives, Goes, KeptInv, TimesInv
<1>6. /\ sample \in Timed /\ sample.track = t /\ sample.n = received[t]
      /\ sample.dts = next[t].dts /\ sample.dts + sample.duration \in Int
  BY <1>5 DEF Goes, Waiting, Timed
<1>7. sample \in Samples
  BY <1>6 DEF Timed, Samples
<1>8. d = WriteSample(b, sample, fault)
  BY <1>1 DEF Goes
<1>9. Stays(b, d) /\ d \in Disks /\ Adds(b, d, sample)
  BY <1>2, <1>6, <1>7, <1>8, WriteSampleStays, WriteSampleAdds DEF Stays
<1>10. FilesFit(d.store, d.seg) /\ Same(d.seg, start) /\ d.seg.dts = start.dts
  BY <1>2, <1>9 DEF Stays
<1>11. Fresh(b, t, received[t])
  BY <1>2, <1>5
<1>12. OrderFits(d)
  BY <1>2, <1>6, <1>9, <1>11 DEF Adds
<1>13. TimesFit(d)
  BY <1>2, <1>5, <1>6, <1>9 DEF Adds
<1>14. \A u \in Tracks, n \in Nat : Fresh(b, u, n) /\ (u = t => received[t] < n) => Fresh(d, u, n)
  BY <1>2, <1>6, <1>9 DEF Adds
<1>15. Stays(d, c) /\ Kept(d, c)
  <2>1. CASE c = d
    BY <1>9, <2>1, StaysItself, KeptItself
  <2>2. CASE c = CloseSegment(d, fault)
    BY <1>9, <2>2, CloseSegmentStays, CloseSegmentKeeps
  <2> QED
    BY <2>1, <2>2 DEF Goes
<1>16. c \in Disks /\ FilesFit(c.store, c.seg) /\ Same(c.seg, start) /\ c.seg.dts = start.dts
  BY <1>10, <1>15 DEF Stays, Same
<1>17. OrderFits(c) /\ TimesFit(c) /\ \A u \in Tracks, n \in Nat : Fresh(d, u, n) => Fresh(c, u, n)
  BY <1>10, <1>12, <1>13, <1>15 DEF Kept
<1>18. \A u \in Tracks, n \in Nat : Fresh(b, u, n) /\ (u = t => received[t] < n) => Fresh(c, u, n)
  BY <1>14, <1>17
<1>19. Fresh(c, t, received[t] + 1)
  BY <1>2, <1>3, <1>18
<1>20. Fresh(c, t, received[t] + 2)
  <2>1. c.store \subseteq Files /\ c.seg \in Segments
    BY <1>16 DEF Disks
  <2>2. received[t] + 1 \in Int /\ received[t] + 2 \in Int /\ received[t] + 1 <= received[t] + 2
    BY <1>3
  <2> QED
    BY <1>19, <2>1, <2>2, FreshMore
<1>21. ASSUME NEW u \in Tracks PROVE Fresh(c, u, received'[u] + 1)
  <2>1. CASE u = t
    <3>1. received'[u] + 1 = received[t] + 2
      BY <1>3, <1>4, <2>1
    <3> QED
      BY <1>20, <2>1, <3>1
  <2>2. CASE u # t
    <3>1. received'[u] = received[u] /\ received[u] + 1 \in Nat
      BY <1>3, <1>4, <2>2
    <3> QED
      BY <1>2, <1>18, <2>2, <3>1
  <2> QED
    BY <2>1, <2>2
<1>22. ASSUME NEW u \in Tracks, next'[u] # None
       PROVE  Fresh(c, u, next'[u].n) /\ next'[u].n = received'[u]
  <2>1. CASE u = t
    <3>1. next'[u].n = received[t] + 1 /\ received'[u] = received[t] + 1
      BY <1>4, <2>1
    <3> QED
      BY <1>19, <2>1, <3>1
  <2>2. CASE u # t
    <3>1. next'[u] = next[u] /\ received'[u] = received[u] /\ next[u].n = received[u]
      BY <1>4, <1>22, <2>2 DEF KeptInv, TimesInv
    <3> QED
      BY <1>2, <1>3, <1>18, <1>22, <2>2, <3>1
  <2> QED
    BY <2>1, <2>2
<1> QED
  BY <1>6, <1>9, <1>10, <1>13, <1>16, <1>17, <1>21, <1>22

\* The one that begins after it, if the segment ends.
LEMMA GoesNext ==
  ASSUME RecInv, KeptInv, RecInv', case.format = "fmp4", recorder = "running", NEW t \in Tracks,
         NEW x, Arrives(t, x), received' = [received EXCEPT ![t] = @ + 1],
         UNCHANGED <<clock, case, offset, stream>>,
         NEW fault \in Faults \cup {None}, NEW start, NEW sample, NEW d, NEW c,
         Goes(t, x, start, sample, d, c, fault), c.ok, EndsSegment(t, x, start)
  PROVE  \E y : /\ y \in NextSegmentStarts({w \in {next'[u] : u \in Tracks} : w # None})
                /\ seg' \in Segments /\ seg'.part = <<>> /\ seg'.file = None
                /\ seg'.end = seg'.dts /\ seg'.dts = y.dts
                /\ seg'.stream = start.stream /\ start.number < seg'.number
                /\ \A f \in c.store : f \in Files /\ Older(f, seg')
<1>1. PICK b : b = Disk(start)
  OBVIOUS
<1>2. b \in Disks /\ FilesFit(b.store, b.seg) /\ b.seg = start /\ b.store = store
  BY <1>1, StartKept DEF Goes
<1>3. SegmentFits(start) /\ start.number < (IF seg = None THEN number + 1 ELSE number)
  <2>1. CASE seg # None
    BY <2>1 DEF Goes, RecInv, StoreFits
  <2>2. CASE seg = None
    <3>1. /\ next[t] \in Waiting /\ next[t].ntp <= clock
          /\ \E p \in Offsets : next[t].ntp + p <= next[t].dts
      BY DEF Goes, RecInv, NextFits, WaitFits
    <3>2. next[t].ntp \in Nat /\ next[t].dts \in Int /\ number \in Nat /\ RecTypes
      BY <3>1 DEF Waiting, RecInv, RecTypes
    <3>3. start = NewSegment(next[t].dts, next[t].ntp, number)
      BY <2>2 DEF Goes
    <3>4. SegmentFits(start) /\ start.number = number
      BY <3>1, <3>2, <3>3, NewSegmentFits
    <3> QED
      BY <2>2, <3>2, <3>4
  <2> QED
    BY <2>1, <2>2
<1>4. PICK waiting : waiting = {w \in {next'[u] : u \in Tracks} : w # None}
  OBVIOUS
<1>18. PICK n : n = IF seg = None THEN number + 1 ELSE number
  OBVIOUS
<1>19. PICK y \in NextSegmentStarts(waiting) : seg' = NewSegment(y.dts, y.ntp, n)
  BY <1>4, <1>18 DEF Goes
<1>5. seg' = NewSegment(y.dts, y.ntp, n) /\ n = IF seg = None THEN number + 1 ELSE number
  BY <1>18, <1>19
<1>7. \A u \in Tracks : next'[u] = None \/
        (/\ next'[u] \in Waiting /\ next'[u].ntp <= clock
         /\ \E o \in Offsets : next'[u].dts <= next'[u].ntp + o + DriftTolerance)
  BY DEF RecInv, NextFits, WaitFits
<1>10. \E u \in Tracks : y = next'[u] /\ y # None
  BY <1>4 DEF NextSegmentStarts
<1>11. y.ntp \in Nat /\ y.dts \in Int
  BY <1>7, <1>10 DEF Waiting
<1>12. /\ seg'.part = <<>> /\ seg'.file = None /\ seg'.dts = y.dts /\ seg'.end = y.dts
       /\ seg'.start = y.ntp /\ seg'.stream = stream /\ seg'.number = n
  BY <1>5 DEF NewSegment
<1>13. seg' # None
  <2>1. NewSegment(y.dts, y.ntp, n) \in Segments
    <3>1. <<>> \in Seq(Samples) /\ stream \in Nat /\ n \in Nat
      BY <1>5, OffsetsAreInt, RecordingsAssumption DEF RecInv, RecTypes
    <3> QED
      BY <1>11, <3>1 DEF NewSegment, Segments
  <2> QED
    BY <1>5, <2>1, NoneAssumption
<1>14. seg' \in Segments
  BY <1>13 DEF RecInv, StoreFits, SegmentFits
<1>15. /\ c \in Disks /\ FilesFit(c.store, c.seg) /\ Same(c.seg, start)
  BY GoesFits
<1>17. start.stream = stream /\ start.number < n /\ start \in Segments /\ n \in Nat
  BY <1>3, <1>5 DEF SegmentFits, RecInv, RecTypes
<1>16. ASSUME NEW f \in c.store PROVE f \in Files /\ Older(f, seg')
  <2>1. f \in Files /\ f.stream \in Nat /\ f.number \in Nat
    BY <1>15 DEF Disks, Files
  <2>2. ~Same(f, seg')
    BY <1>12, <1>15, <1>17, <2>1 DEF FilesFit, Older, Same, Segments
  <2>3. FilesFit(store, seg)' /\ f \in store'
    BY <1>13 DEF RecInv, StoreFits, Goes
  <2>4. Older(f, seg)' \/ Same(f, seg')
    BY <2>3 DEF FilesFit
  <2>5. Older(f, seg)' => Older(f, seg')
    BY DEF Older, LongSegments, SegmentDuration
  <2> QED
    BY <2>1, <2>2, <2>4, <2>5
<1>20. y \in NextSegmentStarts({w \in {next'[u] : u \in Tracks} : w # None})
  BY Zenon, <1>4, <1>19
<1>21. /\ seg' \in Segments /\ seg'.part = <<>> /\ seg'.file = None
       /\ seg'.end = seg'.dts /\ seg'.dts = y.dts
       /\ seg'.stream = start.stream /\ start.number < seg'.number
  BY <1>12, <1>14, <1>17
<1>22. \A f \in c.store : f \in Files /\ Older(f, seg')
  BY <1>16
<1> QED
  BY Zenon, <1>20, <1>21, <1>22

\* What nothing that fails leaves of the disk then.
LEMMA GoesLasts ==
  ASSUME RecInv, KeptInv, case.format = "fmp4", recorder = "running", NEW t \in Tracks,
         NEW x, Arrives(t, x), received' = [received EXCEPT ![t] = @ + 1],
         next[t] # None => next[t].ntp < clock, offset' = offset,
         Faultless, NEW start, NEW sample, NEW d, NEW c,
         Goes(t, x, start, sample, d, c, None)
  PROVE  /\ FilesLast(c.store)
         /\ c = d => /\ LastsFits(c) /\ c.seg.file # "closed"
                     /\ \/ EndIsTrue(c) \/ c.seg.file = "removed"
                        \/ ~c.ok /\ Len(c.seg.part) = MaxPartSize
         /\ d.ok => /\ LastsFits(d) /\ d.seg.file # "closed"
                    /\ EndIsTrue(d) \/ d.seg.file = "removed"
         /\ d.ok /\ EndsSegment(t, x, start) => c.ok
         /\ ~(d.ok /\ EndsSegment(t, x, start)) => c = d
         /\ d.ok \/ c = d
         /\ VideoIsNotLate => JoinFits(d) /\ (d.ok => GoesOn(d, next'[Video]))
<1>1. PICK b : b = Disk(start)
  OBVIOUS
<1>2. /\ b \in Disks /\ b.ok /\ FilesFit(b.store, b.seg) /\ b.seg = start
      /\ TimesFit(b) /\ LastsFits(b) /\ b.seg.file # "closed"
      /\ EndIsTrue(b) \/ b.seg.file = "removed"
      /\ VideoIsNotLate => JoinFits(b) /\ GoesOn(b, next[Video])
      /\ next[t] # None => Fresh(b, t, next[t].n)
  BY <1>1, StartKept DEF Goes
<1>3. d \in Disks /\ FilesFit(d.store, d.seg) /\ TimesFit(d) /\ sample \in Timed
  BY GoesFits
<1>4. /\ sample.track = t /\ sample.n = next[t].n /\ sample.sync = next[t].sync
      /\ sample.dts = next[t].dts /\ next[t] # None /\ next[t].n = received[t]
      /\ next[t].dts >= start.dts
  BY DEF Goes, KeptInv, TimesInv
<1>5. d = WriteSample(b, sample, None)
  BY <1>1 DEF Goes
<1>6. /\ LastsFits(d) /\ d.seg.file # "closed"
      /\ EndIsTrue(b) \/ b.seg.file = "removed" =>
              \/ EndIsTrue(d) \/ d.seg.file = "removed"
              \/ ~d.ok /\ Len(d.seg.part) = MaxPartSize
      /\ JoinFits(b) /\ (t # Video \/ \E v : GoesOn(b, v) /\ v.n = sample.n /\ v.sync = sample.sync) =>
              JoinFits(d)
      /\ d.ok => \A y : \/ t # Video /\ GoesOn(b, y)
                        \/ /\ t = Video /\ sample.dts >= start.dts
                           /\ y # None /\ y.n = sample.n + 1 /\ y.dts \in Int /\ y.dts >= sample.dts
                        => GoesOn(d, y)
  <2>1. Fresh(b, sample.track, sample.n)
    BY <1>2, <1>4
  <2> QED
    BY <1>2, <1>3, <1>4, <1>5, <2>1, WriteSampleFits
<1>7. \/ EndIsTrue(d) \/ d.seg.file = "removed"
      \/ ~d.ok /\ Len(d.seg.part) = MaxPartSize
  BY <1>2, <1>6
<1>8. ASSUME VideoIsNotLate PROVE JoinFits(d) /\ (d.ok => GoesOn(d, next'[Video]))
  <2>1. CASE t = Video
    <3>1. next'[Video] = x /\ x # None /\ x.n = sample.n + 1 /\ x.dts \in Int /\ x.dts >= sample.dts
      BY <1>4, <2>1 DEF Arrives, RecInv, NextFits, Waiting
    <3> QED
      BY <1>2, <1>4, <1>6, <1>8, <2>1, <3>1
  <2>2. CASE t # Video
    <3>1. next'[Video] = next[Video]
      BY <2>2 DEF Arrives, RecInv, NextFits, Tracks
    <3> QED
      BY <1>2, <1>6, <1>8, <2>2, <3>1
  <2> QED
    BY <2>1, <2>2
<1>9. CASE ~(d.ok /\ EndsSegment(t, x, start))
  <2>1. c = d
    BY <1>9 DEF Goes
  <2>2. FilesLast(c.store)
    BY <1>6, <2>1 DEF LastsFits
  <2> QED
    BY <1>6, <1>7, <1>8, <1>9, <2>1, <2>2
<1>10. CASE d.ok /\ EndsSegment(t, x, start)
  <2>1. c = CloseSegment(d, None)
    BY <1>10 DEF Goes
  <2>2. c.ok /\ FilesLast(c.store)
    BY <1>3, <1>6, <1>7, <1>10, <2>1, CloseSegmentFits
  <2> QED
    BY <1>6, <1>7, <1>8, <1>10, <2>2
<1> QED
  BY <1>9, <1>10

\* The new segment of the video begins with the key frame that ends the one before,
\* if no track is too far ahead of it.
LEMMA NextBegins ==
  ASSUME RecInv', NEW x, x = next'[Video], x # None, x.ntp = clock', VideoIsNotLate', Faultless',
         \A u \in Tracks : next'[u] # None => next'[u].dts = next'[u].ntp + offset'[u],
         NEW y \in NextSegmentStarts({w \in {next'[u] : u \in Tracks} : w # None})
  PROVE  x.dts >= y.dts
<1>1. PICK waiting : waiting = {w \in {next'[u] : u \in Tracks} : w # None}
  OBVIOUS
<1>2. \A u \in Tracks : offset'[u] \in Int /\ clock' \in Nat
  <2>1. clock' \in 0..MaxTime /\ offset' \in [Tracks -> Offsets]
    BY DEF RecInv, RecTypes
  <2>2. \A u \in Tracks : offset'[u] \in Offsets
    BY <2>1
  <2>3. clock' \in Nat
    BY <2>1, OffsetsAreInt
  <2> QED
    BY <2>2, <2>3, OffsetsAreInt
<1>3. \A u \in Tracks : next'[u] # None => next'[u] \in Waiting /\ next'[u].ntp <= clock'
  <2>1. case'.format = "fmp4"
    BY DEF Faultless
  <2> QED
    BY <2>1 DEF RecInv, NextFits, WaitFits
<1>4. Video \in Tracks /\ Audio \in Tracks /\ Tracks = {Video, Audio}
  BY DEF Tracks
<1>5. x \in waiting /\ x.dts \in Int /\ x.dts = clock' + offset'[Video]
  BY <1>1, <1>3, <1>4 DEF Waiting
<1>6. \A w \in waiting : w.dts \in Int /\ w.dts <= x.dts + MaxBasetime
  <2>1. ASSUME NEW u \in Tracks, next'[u] # None
        PROVE  next'[u].dts \in Int /\ next'[u].dts <= x.dts + MaxBasetime
    <3>1. /\ next'[u].dts = next'[u].ntp + offset'[u] /\ next'[u].ntp \in Nat
          /\ next'[u].ntp <= clock' /\ next'[u].dts \in Int
      BY <1>3, <2>1 DEF Waiting
    <3>2. offset'[u] - offset'[Video] <= MaxBasetime
      BY DEF VideoIsNotLate
    <3> QED
      BY <1>2, <1>4, <1>5, <3>1, <3>2, OffsetsAreInt
  <2> QED
    BY <1>1, <2>1
<1>7. PICK newest : newest = MaxOf({w.dts : w \in waiting})
  OBVIOUS
<1>8. newest \in {w.dts : w \in waiting}
  <2>1. PICK z : z \in waiting /\ waiting = {x, z}
    <3>1. CASE next'[Audio] = None
      <4>1. waiting = {x, x}
        BY <1>1, <1>4, <3>1
      <4> QED
        BY <1>5, <4>1
    <3>2. CASE next'[Audio] # None
      <4>1. waiting = {x, next'[Audio]}
        BY <1>1, <1>4, <3>2
      <4> QED
        BY <4>1
    <3> QED
      BY <3>1, <3>2
  <2>2. {w.dts : w \in waiting} = {x.dts, z.dts}
    BY <2>1
  <2>3. x.dts \in Int /\ z.dts \in Int
    BY <1>5, <1>6, <2>1
  <2>4. MaxOf({x.dts, z.dts}) \in {x.dts, z.dts}
    BY <2>3, MaxOfTwo
  <2> QED
    BY <1>7, <2>2, <2>4
<1>9. newest - x.dts <= MaxBasetime
  <2>1. newest \in Int /\ newest <= x.dts + MaxBasetime
    BY <1>6, <1>8
  <2> QED
    BY <1>5, <2>1, OffsetsAreInt
<1>10. y \in NextSegmentStarts(waiting)
  BY <1>1
<1>11. \A w \in waiting : newest - w.dts <= MaxBasetime => y.dts <= w.dts
  BY <1>7, <1>10 DEF NextSegmentStarts
<1> QED
  BY <1>5, <1>6, <1>9, <1>10, <1>11 DEF NextSegmentStarts

LEMMA GoesKept ==
  ASSUME RecInv, KeptInv, RecInv', case.format = "fmp4", recorder = "running", NEW t \in Tracks,
         NEW x, Arrives(t, x), received' = [received EXCEPT ![t] = @ + 1],
         next[t] # None => next[t].ntp < clock, UNCHANGED <<clock, case, offset, stream>>,
         NEW fault \in Faults \cup {None}, faults' = 0 => faults = 0 /\ fault = None,
         NEW start, NEW sample, NEW d, NEW c, Goes(t, x, start, sample, d, c, fault)
  PROVE  KeptInv'
<1>1. /\ d \in Disks /\ FilesFit(d.store, d.seg) /\ TimesFit(d)
      /\ c \in Disks /\ FilesFit(c.store, c.seg) /\ Same(c.seg, start) /\ c.seg.dts = start.dts
      /\ OrderFits(c) /\ TimesFit(c) /\ sample \in Timed
      /\ \A u \in Tracks : Fresh(c, u, received'[u] + 1)
      /\ \A u \in Tracks : next'[u] # None => Fresh(c, u, next'[u].n) /\ next'[u].n = received'[u]
  BY GoesFits
<1>2. store' = c.store
  BY DEF Goes
<1>3. ASSUME Faultless'
      PROVE  /\ Faultless /\ fault = None
             /\ FilesLast(c.store)
             /\ c = d => /\ LastsFits(c) /\ c.seg.file # "closed"
                         /\ \/ EndIsTrue(c) \/ c.seg.file = "removed"
                            \/ ~c.ok /\ Len(c.seg.part) = MaxPartSize
             /\ d.ok => /\ LastsFits(d) /\ d.seg.file # "closed"
                        /\ EndIsTrue(d) \/ d.seg.file = "removed"
             /\ d.ok /\ EndsSegment(t, x, start) => c.ok
             /\ ~(d.ok /\ EndsSegment(t, x, start)) => c = d
             /\ d.ok \/ c = d
             /\ VideoIsNotLate => JoinFits(d) /\ (d.ok => GoesOn(d, next'[Video]))
             /\ \A u \in Tracks : next'[u] # None => next'[u].dts = next'[u].ntp + offset'[u]
  <2>1. Faultless /\ fault = None
    BY <1>3 DEF Faultless
  <2>2. Goes(t, x, start, sample, d, c, None)
    BY <2>1
  <2>3. \A u \in Tracks : next'[u] # None => next'[u].dts = next'[u].ntp + offset'[u]
    BY <2>1, ArrivalLasts DEF KeptInv
  <2>4. offset' = offset
    OBVIOUS
  <2>5. /\ FilesLast(c.store)
        /\ c = d => /\ LastsFits(c) /\ c.seg.file # "closed"
                    /\ \/ EndIsTrue(c) \/ c.seg.file = "removed"
                       \/ ~c.ok /\ Len(c.seg.part) = MaxPartSize
        /\ d.ok => /\ LastsFits(d) /\ d.seg.file # "closed"
                   /\ EndIsTrue(d) \/ d.seg.file = "removed"
        /\ d.ok /\ EndsSegment(t, x, start) => c.ok
        /\ ~(d.ok /\ EndsSegment(t, x, start)) => c = d
        /\ d.ok \/ c = d
        /\ VideoIsNotLate => JoinFits(d) /\ (d.ok => GoesOn(d, next'[Video]))
    BY <2>1, <2>2, <2>4, GoesLasts
  <2> QED
    BY <2>1, <2>3, <2>5
<1>4. PICK b : b \in {Disk(seg)}'
  OBVIOUS
<1>5. \A e \in {Disk(seg)}' : e = b
  BY <1>4
<1>6. b.seg = seg' /\ b.store = c.store
  BY <1>2, <1>4, DiskNext
<1>7. VideoIsNotLate' <=> VideoIsNotLate
  BY DEF VideoIsNotLate
<1>8. CASE ~(c.ok /\ EndsSegment(t, x, start))
  <2>1. seg' = c.seg /\ (c.ok \/ recorder' = "failed") /\ (recorder' = "running" => c.ok)
    BY <1>8 DEF Goes
  <2>2. seg' # None
    BY <1>1, <2>1, NoneAssumption DEF Disks
  <2>3. b.seg = c.seg /\ b.store = c.store
    BY <1>6, <2>1
  <2>4. OrderInv'
    <3>1. FilesOrdered(c.store) /\ \A u \in Tracks : FilesFresh(c.store, u, received'[u] + 1)
      BY <1>1 DEF OrderFits, Fresh
    <3>2. OrderFits(b) /\ \A u \in Tracks : Fresh(b, u, received'[u] + 1)
      BY <1>1, <2>3, SameFits
    <3> QED
      BY <1>2, <1>5, <3>1, <3>2, OrderNext
  <2>5. TimesInv'
    <3>1. FilesTimed(c.store) /\ \A u \in Tracks : next'[u] # None => FilesFresh(c.store, u, next'[u].n)
      BY <1>1 DEF TimesFit, Fresh
    <3>2. TimesFit(b) /\ \A u \in Tracks : next'[u] # None => Fresh(b, u, next'[u].n)
      BY <1>1, <2>3, SameFits
    <3> QED
      BY <1>1, <1>2, <1>5, <3>1, <3>2 DEF TimesInv
  <2>6. ASSUME Faultless' PROVE c = d
    BY <1>3, <1>8, <2>6
  <2>7. LastInv'
    <3> SUFFICES ASSUME Faultless' PROVE LastInv'
      BY DEF LastInv
    <3>1. /\ LastsFits(c) /\ c.seg.file # "closed"
          /\ \/ EndIsTrue(c) \/ c.seg.file = "removed"
             \/ recorder' # "running" /\ Len(c.seg.part) = MaxPartSize
      BY <1>3, <2>1, <2>6
    <3>2. LastsFits(b) /\ (EndIsTrue(c) => EndIsTrue(b))
      BY <2>3, <3>1, SameFits
    <3> QED
      BY <1>2, <1>3, <1>5, <2>3, <3>1, <3>2 DEF LastInv
  <2>8. JoinInv'
    <3> SUFFICES ASSUME Faultless', VideoIsNotLate' PROVE JoinInv'
      BY DEF JoinInv
    <3>1. JoinFits(c) /\ (recorder' = "running" => GoesOn(c, next'[Video]))
      BY <1>3, <1>7, <2>1, <2>6
    <3>2. JoinFits(b) /\ (recorder' = "running" => GoesOn(b, next'[Video]))
      BY <2>3, <3>1, SameFits
    <3>3. FilesJoined(c.store)
      BY <3>1 DEF JoinFits
    <3> QED
      BY <1>2, <1>5, <2>2, <3>2, <3>3 DEF JoinInv
  <2> QED
    BY <2>4, <2>5, <2>7, <2>8 DEF KeptInv
<1>9. CASE c.ok /\ EndsSegment(t, x, start)
  <2>1. PICK y : /\ y \in NextSegmentStarts({w \in {next'[u] : u \in Tracks} : w # None})
                 /\ seg' \in Segments /\ seg'.part = <<>> /\ seg'.file = None
                 /\ seg'.end = seg'.dts /\ seg'.dts = y.dts
                 /\ seg'.stream = start.stream /\ start.number < seg'.number
                 /\ \A f \in c.store : f \in Files /\ Older(f, seg')
    BY <1>9, GoesNext
  <2>2. /\ b.seg.part = <<>> /\ b.seg.file = None /\ b.seg.end = b.seg.dts
        /\ b.seg \in Segments /\ \A f \in b.store : f \in Files /\ Older(f, b.seg)
    BY <1>6, <2>1
  <2>3. /\ FilesOrdered(b.store) => OrderFits(b)
        /\ FilesTimed(b.store) => TimesFit(b)
        /\ \A u, n : FilesFresh(b.store, u, n) => Fresh(b, u, n)
        /\ FilesLast(b.store) => LastsFits(b) /\ EndIsTrue(b)
        /\ FilesJoined(b.store) => JoinFits(b)
        /\ \A w : (\A f \in b.store : Follows(f, b.seg) =>
                      \A p \in Held(f, Video) : IsLast(p, Held(f, Video)) =>
                        w # None /\ w.sync /\ w.n = p.n + 1 /\ w.dts >= b.seg.dts)
                   => GoesOn(b, w)
    BY <2>2, NewSegmentKept
  <2>4. OrderInv'
    <3>1. FilesOrdered(c.store) /\ \A u \in Tracks : FilesFresh(c.store, u, received'[u] + 1)
      BY <1>1 DEF OrderFits, Fresh
    <3>2. OrderFits(b) /\ \A u \in Tracks : Fresh(b, u, received'[u] + 1)
      BY <1>6, <2>3, <3>1
    <3> QED
      BY <1>2, <1>5, <3>1, <3>2, OrderNext
  <2>5. TimesInv'
    <3>1. FilesTimed(c.store) /\ \A u \in Tracks : next'[u] # None => FilesFresh(c.store, u, next'[u].n)
      BY <1>1 DEF TimesFit, Fresh
    <3>2. TimesFit(b) /\ \A u \in Tracks : next'[u] # None => Fresh(b, u, next'[u].n)
      BY <1>6, <2>3, <3>1
    <3> QED
      BY <1>1, <1>2, <1>5, <3>1, <3>2 DEF TimesInv
  <2>6. LastInv'
    <3> SUFFICES ASSUME Faultless' PROVE LastInv'
      BY DEF LastInv
    <3>1. FilesLast(c.store) /\ LastsFits(b) /\ EndIsTrue(b) /\ b.seg.file # "closed"
      BY <1>3, <1>6, <2>2, <2>3, NoneAssumption
    <3> QED
      BY <1>2, <1>3, <1>5, <3>1 DEF LastInv
  <2>7. JoinInv'
    <3> SUFFICES ASSUME Faultless', VideoIsNotLate' PROVE JoinInv'
      BY DEF JoinInv
    <3>1. /\ d.ok /\ c = CloseSegment(d, None) /\ fault = None /\ Faultless
      BY Zenon, <1>3, <1>9 DEF Goes
    <3>2. /\ FilesJoined(c.store)
          /\ \A f \in c.store : Same(f, d.seg) \/ Earlier(f, d.seg)
          /\ \A f \in c.store : Same(f, d.seg) => Held(f, Video) = Own(d, Video)
      <4>1. /\ LastsFits(d) /\ d.seg.file # "closed" /\ JoinFits(d)
            /\ EndIsTrue(d) \/ d.seg.file = "removed"
        BY <1>3, <1>7, <3>1
      <4> QED
        BY <1>1, <3>1, <4>1, CloseSegmentFits
    <3>3. Same(d.seg, start)
      <4>1. Same(c.seg, d.seg)
        BY <1>1, <3>1, CloseSegmentStays DEF Stays
      <4> QED
        BY <1>1, <4>1 DEF Same
    <3>4. start.stream \in Nat /\ start.number \in Nat /\ seg'.number \in Nat
      BY <1>1, <2>1, <3>3 DEF Same, Disks, Segments
    <3>6. JoinFits(b)
      BY <1>6, <2>3, <3>2
    <3>7. ASSUME NEW f \in b.store, Follows(f, b.seg), NEW p \in Held(f, Video),
                 IsLast(p, Held(f, Video))
          PROVE  /\ next'[Video] # None /\ next'[Video].sync /\ next'[Video].n = p.n + 1
                 /\ next'[Video].dts >= b.seg.dts
      <4>1. f \in c.store /\ f.stream = start.stream /\ seg'.number = f.number + 1 /\ f.number \in Nat
        BY <1>1, <1>6, <2>1, <3>7 DEF Follows, Disks, Files
      <4>2. Same(f, d.seg)
        <5>1. Same(f, d.seg) \/ (f.stream < start.stream \/ (f.stream = start.stream /\ f.number < start.number))
          BY <3>2, <3>3, <4>1 DEF Same, Earlier
        <5> QED
          BY <2>1, <3>4, <4>1, <5>1
      <4>3. Held(f, Video) = Own(d, Video)
        BY <3>2, <4>1, <4>2
      <4>4. next'[Video] # None /\ next'[Video].n = p.n + 1
        BY <1>3, <1>7, <3>1, <3>7, <4>3 DEF GoesOn
      <4>5. t = Video
        <5>1. t # Video => next'[Video] = next[Video]
          BY DEF Arrives, RecInv, NextFits, Tracks
        <5> QED
          BY <1>9, <4>4, <5>1 DEF EndsSegment, HasVideo
      <4>6. next'[Video] = x /\ x.sync /\ x.ntp = clock'
        BY <1>9, <4>5 DEF EndsSegment, Arrives, RecInv, NextFits
      <4>7. x.dts >= y.dts
        BY <1>3, <2>1, <4>4, <4>6, NextBegins
      <4> QED
        BY <1>6, <2>1, <4>4, <4>6, <4>7
    <3>8. GoesOn(b, next'[Video])
      BY <2>3, <3>7
    <3>9. seg' # None
      BY <2>1, NoneAssumption
    <3> QED
      BY <1>2, <1>5, <3>2, <3>6, <3>8, <3>9 DEF JoinInv
  <2> QED
    BY <2>4, <2>5, <2>6, <2>7 DEF KeptInv
<1> QED
  BY <1>8, <1>9

-----------------------------------------------------------------------------
(* A sample of MPEG-TS is kept: only its order is known.                   *)

\* The same files and part, or without it.
LEMMA PartLess ==
  ASSUME NEW d, NEW e, e.store = d.store, e.seg.part \in {d.seg.part, <<>>}
  PROVE  /\ OrderFits(d) => OrderFits(e)
         /\ \A t, n : Fresh(d, t, n) => Fresh(e, t, n)
<1>1. CASE e.seg.part = d.seg.part
  BY <1>1 DEF OrderFits, Fresh
<1>2. CASE e.seg.part = <<>>
  <2>1. \A t : In(e.seg.part, t) = {}
    BY <1>2, NothingIn
  <2>2. Ordered(e.seg.part)
    BY <1>2 DEF Ordered
  <2>3. OrderFits(d) => OrderFits(e)
    BY <2>1, <2>2 DEF OrderFits, Below
  <2> QED
    BY <2>1, <2>3 DEF Fresh
<1> QED
  BY <1>1, <1>2

\* The same files, and one more sample.
LEMMA PartMore ==
  ASSUME NEW d, NEW e, e.store = d.store, NEW x \in Samples, NEW p \in Seq(Samples),
         d.seg.part = p, e.seg.part = Append(p, x), OrderFits(d), Fresh(d, x.track, x.n)
  PROVE  /\ OrderFits(e)
         /\ \A t, n : Fresh(d, t, n) /\ (t = x.track => x.n < n) => Fresh(e, t, n)
<1>1. \A t : In(e.seg.part, t) = In(p, t) \cup (IF x.track = t THEN {x} ELSE {})
  BY InAppend
<1>2. Ordered(e.seg.part)
  BY OrderedAppend DEF OrderFits, Fresh
<1>3. \A f \in e.store, t \in Tracks : Below(Held(f, t), In(e.seg.part, t))
  BY <1>1 DEF OrderFits, Fresh, FilesFresh, Below
<1>4. OrderFits(e)
  BY <1>2, <1>3 DEF OrderFits
<1>5. \A t, n : Fresh(d, t, n) /\ (t = x.track => x.n < n) => Fresh(e, t, n)
  BY <1>1 DEF Fresh
<1> QED
  BY <1>4, <1>5

LEMMA TSKeeps ==
  ASSUME RecInv, KeptInv, RecInv', case.format = "mpegts", recorder = "running", NEW t \in Tracks,
         NEW dts, dts = clock + offset[t], NEW sync \in BOOLEAN,
         NEW fault \in Faults \cup {None}, WriteTS(t, clock, dts, sync, fault),
         received' = [received EXCEPT ![t] = @ + 1], UNCHANGED <<clock, case, offset, stream>>
  PROVE  KeptInv'
<1> DEFINE sample == [track |-> t, n |-> received[t] + 1]
           Over(s) == /\ seg # None /\ (t = Video \/ ~HasVideo) /\ sync
                      /\ dts - s.dts >= SegmentDuration
           Flush(s) == IF Over(s) THEN CloseSegment([Disk(s) EXCEPT !.seg.end = dts], fault)
                       ELSE IF seg # None /\ dts - s.flushed >= PartDuration
                       THEN WritePart(Disk([s EXCEPT !.flushed = dts]), fault)
                       ELSE Disk(s)
           With(s) == [s EXCEPT !.end = dts, !.part = Append(@, sample)]
           Add(d)  == IF Len(d.seg.part) > MaxPartSize THEN WritePart(d, fault) ELSE d
           start == IF seg = None THEN NewSegment(dts, clock, number) ELSE seg
<1>1. /\ next' = [next EXCEPT ![t] = [n |-> 0, ntp |-> clock]]
      /\ IF Drifts(t, clock, dts)
         THEN recorder' = "failed" /\ UNCHANGED <<started, number, seg, store, hooks>>
         ELSE /\ started' = IF started[t] # None THEN started
                            ELSE [started EXCEPT ![t] = dts - clock]
              /\ \E current \in {start} :
                 \E d \in {Flush(current)} :
                   /\ number' = IF d.ok /\ (Over(current) \/ seg = None)
                                THEN number + 1 ELSE number
                   /\ \E w \in {IF ~d.ok THEN d
                                ELSE Add([d EXCEPT !.seg =
                                   With(IF Over(current) THEN NewSegment(dts, clock, number)
                                        ELSE @)])} :
                        /\ store' = w.store /\ hooks' = w.hooks
                        /\ recorder' = IF w.ok THEN "running" ELSE "failed"
                        /\ seg' = IF w.ok THEN w.seg ELSE [w.seg EXCEPT !.part = <<>>]
  BY Zenon DEF WriteTS
<1>2. sample = [track |-> t, n |-> received[t] + 1]
  OBVIOUS
<1>3. start = IF seg = None THEN NewSegment(dts, clock, number) ELSE seg
  OBVIOUS
<1>4. Over(start) => seg # None
  OBVIOUS
<1>5. \A s : Flush(s) = IF Over(s) THEN CloseSegment([Disk(s) EXCEPT !.seg.end = dts], fault)
                        ELSE IF seg # None /\ dts - s.flushed >= PartDuration
                        THEN WritePart(Disk([s EXCEPT !.flushed = dts]), fault)
                        ELSE Disk(s)
  OBVIOUS
<1>6. \A s : With(s) = [s EXCEPT !.end = dts, !.part = Append(@, sample)]
  OBVIOUS
<1>7. \A d : Add(d) = IF Len(d.seg.part) > MaxPartSize THEN WritePart(d, fault) ELSE d
  OBVIOUS
<1> HIDE DEF sample, Over, Flush, With, Add, start
<1>8. /\ clock \in Nat /\ offset[t] \in Offsets /\ dts \in Int /\ DOMAIN received = Tracks
      /\ \A u \in Tracks : received[u] \in Nat
      /\ number \in Nat /\ stream \in Nat /\ store \subseteq Files /\ RecTypes
  <2>1. clock \in Nat /\ offset \in [Tracks -> Offsets] /\ \A u \in Tracks : received[u] \in Nat
    BY TypesAre DEF RecInv, RecTypes
  <2>2. offset[t] \in Offsets
    BY <2>1
  <2>3. offset[t] \in Int
    BY <2>2, OffsetsAreInt
  <2>6. RecTypes
    BY DEF RecInv
  <2>7. number \in Nat /\ stream \in 0..MaxStreams /\ store \subseteq Files /\ DOMAIN received = Tracks
    BY <2>6 DEF RecTypes
  <2>4. stream \in Nat
    BY <2>7, RecordingsAssumption
  <2>5. dts \in Int
    BY <2>1, <2>3
  <2> QED
    BY <2>1, <2>2, <2>4, <2>5, <2>6, <2>7
<1>9. sample \in Samples /\ sample.track = t /\ sample.n = received[t] + 1
  BY <1>2, <1>8 DEF Samples
<1>10. received'[t] = received[t] + 1 /\ \A u \in Tracks \ {t} : received'[u] = received[u]
  BY <1>8
<1>11. TimesInv' /\ LastInv' /\ JoinInv'
  <2>1. case'.format # "fmp4"
    OBVIOUS
  <2> QED
    BY <2>1 DEF TimesInv, LastInv, JoinInv, Faultless
<1>12. CASE Drifts(t, clock, dts)
  <2>1. UNCHANGED <<seg, store>>
    BY <1>1, <1>12
  <2>2. \A u \in Tracks : received'[u] \in Nat /\ received[u] <= received'[u]
    BY <1>8, <1>10
  <2> QED
    BY <1>11, <2>1, <2>2, OrderStays DEF KeptInv
<1>13. CASE ~Drifts(t, clock, dts)
  <2>14. \E d \in {Flush(start)} :
           \E w \in {IF ~d.ok THEN d
                      ELSE Add([d EXCEPT !.seg =
                         With(IF Over(start) THEN NewSegment(dts, clock, number) ELSE @)])} :
             /\ store' = w.store
             /\ seg' = IF w.ok THEN w.seg ELSE [w.seg EXCEPT !.part = <<>>]
    BY Zenon, <1>1, <1>13
  <2>1. PICK d, w :
          /\ d = Flush(start)
          /\ w = IF ~d.ok THEN d
                 ELSE Add([d EXCEPT !.seg = With(IF Over(start) THEN NewSegment(dts, clock, number)
                                                 ELSE @)])
          /\ store' = w.store
          /\ seg' = IF w.ok THEN w.seg ELSE [w.seg EXCEPT !.part = <<>>]
    BY Zenon, <2>14
  <2>2. PICK new : new = NewSegment(dts, clock, number)
    OBVIOUS
  <2>3. SegmentFits(new) /\ new.start = clock /\ new.part = <<>> /\ new \in Segments
    <3>1. PICK y : y = [ntp |-> clock, dts |-> dts]
      OBVIOUS
    <3>2. y.ntp = clock /\ y.dts = dts /\ \E p \in Offsets : y.ntp + p <= y.dts
      <4>1. clock + offset[t] <= dts
        BY <1>8
      <4> QED
        BY <1>8, <3>1, <4>1
    <3>3. /\ SegmentFits(NewSegment(y.dts, y.ntp, number))
          /\ NewSegment(y.dts, y.ntp, number).start = y.ntp
          /\ NewSegment(y.dts, y.ntp, number).part = <<>>
      BY <1>8, <3>2, NewSegmentFits
    <3> QED
      BY <2>2, <3>2, <3>3 DEF SegmentFits
  <2>4. SegmentFits(start) /\ FilesFit(store, start) /\ start \in Segments
    <3>1. CASE seg # None
      BY <1>3, <3>1 DEF RecInv, StoreFits, SegmentFits
    <3>2. CASE seg = None
      <4>1. FilesFit(store, start)
        <5>1. start.stream = stream /\ start.file = None
          BY <1>3, <3>2 DEF NewSegment
        <5> QED
          BY <1>3, <2>2, <2>3, <3>2, <5>1, FirstFits
      <4> QED
        BY <1>3, <2>2, <2>3, <3>2, <4>1
    <3> QED
      BY <3>1, <3>2
  <2>5. PICK s \in Segments :
          /\ Same(s, start) /\ s.dts = start.dts /\ s.part = start.part /\ s.file = start.file
          /\ d \in {Disk(s), WritePart(Disk(s), fault), CloseSegment(Disk(s), fault)}
    <3>1. CASE Over(start)
      <4>1. PICK s : s = [start EXCEPT !.end = dts]
        OBVIOUS
      <4>2. /\ s \in Segments /\ Same(s, start) /\ s.dts = start.dts
            /\ s.part = start.part /\ s.file = start.file
        BY <1>8, <2>4, <4>1 DEF Segments, Same
      <4>3. [Disk(start) EXCEPT !.seg.end = dts] = Disk(s)
        <5>1. PICK b : b = [Disk(start) EXCEPT !.seg.end = dts]
          OBVIOUS
        <5>2. Disk(start).seg = start
          BY <1>8, <2>4, DiskIs
        <5>3. b = [Disk(start) EXCEPT !.seg = s]
          BY <4>1, <5>1, <5>2
        <5>4. b = Disk(s)
          BY <5>3 DEF Disk
        <5> QED
          BY <5>1, <5>4
      <4>4. d = CloseSegment(Disk(s), fault)
        BY <1>5, <2>1, <3>1, <4>3
      <4> QED
        BY <4>2, <4>4
    <3>2. CASE ~Over(start) /\ seg # None /\ dts - start.flushed >= PartDuration
      <4>1. PICK s : s = [start EXCEPT !.flushed = dts]
        OBVIOUS
      <4>2. /\ s \in Segments /\ Same(s, start) /\ s.dts = start.dts
            /\ s.part = start.part /\ s.file = start.file
        BY <1>8, <2>4, <4>1 DEF Segments, Same
      <4>3. d = WritePart(Disk(s), fault)
        BY <1>5, <2>1, <3>2, <4>1
      <4> QED
        BY <4>2, <4>3
    <3>3. CASE ~Over(start) /\ ~(seg # None /\ dts - start.flushed >= PartDuration)
      <4>1. d = Disk(start)
        BY <1>5, <2>1, <3>3
      <4> QED
        BY <2>4, <4>1 DEF Same
    <3> QED
      BY <3>1, <3>2, <3>3
  <2>6. PICK b : b = Disk(s) /\ b \in Disks /\ b.seg = s /\ b.store = store
    BY <1>8, DiskIs
  <2>7. FilesFit(b.store, b.seg)
    BY <2>4, <2>5, <2>6 DEF FilesFit, Same, Older
  <2>8. OrderFits(b) /\ \A u \in Tracks : Fresh(b, u, received[u] + 1)
    <3>1. FilesOrdered(store) /\ \A u \in Tracks : FilesFresh(store, u, received[u] + 1)
      BY DEF KeptInv, OrderInv
    <3>2. CASE seg # None
      <4>1. PICK g : g \in {Disk(seg)}
        OBVIOUS
      <4>2. OrderFits(g) /\ \A u \in Tracks : Fresh(g, u, received[u] + 1)
        BY <3>2, <4>1 DEF KeptInv, OrderInv
      <4>3. g.store = b.store /\ b.seg.part \in {g.seg.part, <<>>}
        BY <1>3, <2>5, <2>6, <3>2, <4>1 DEF Disk
      <4> QED
        BY <4>2, <4>3, PartLess
    <3>3. CASE seg = None
      <4>1. b.seg.part = <<>> /\ b.store = store
        BY <1>3, <2>2, <2>3, <2>5, <2>6, <3>3
      <4>2. \A u : In(b.seg.part, u) = {}
        BY <4>1, NothingIn
      <4> QED
        BY <3>1, <4>1, <4>2 DEF OrderFits, Ordered, Below, Fresh
    <3> QED
      BY <3>2, <3>3
  <2>9. Stays(b, d) /\ Kept(b, d)
    BY <2>5, <2>6, StaysItself, KeptItself, WritePartStays, WritePartKeeps, CloseSegmentStays,
       CloseSegmentKeeps
  <2>10. /\ d \in Disks /\ FilesFit(d.store, d.seg) /\ OrderFits(d)
         /\ \A u \in Tracks : Fresh(d, u, received[u] + 1)
    <3>1. \A u \in Tracks : received[u] + 1 \in Nat
      BY <1>8
    <3> QED
      BY <2>5, <2>6, <2>7, <2>8, <2>9, <3>1 DEF Stays, Kept, Same
  \* What is written in the end, of that or of the next segment.
  <2>12. /\ w \in Disks /\ OrderFits(w)
         /\ \A u \in Tracks : Fresh(w, u, received'[u] + 1)
    <3>1. CASE ~d.ok
      <4>1. w = d
        BY <2>1, <3>1
      <4>2. d.store \subseteq Files /\ d.seg \in Segments
        BY <2>10 DEF Disks
      <4>3. ASSUME NEW u \in Tracks PROVE Fresh(w, u, received'[u] + 1)
        <5>1. /\ received[u] + 1 \in Int /\ received'[u] + 1 \in Int
              /\ received[u] + 1 <= received'[u] + 1
          BY <1>8, <1>10
        <5> QED
          BY <2>10, <4>1, <4>2, <5>1, FreshMore
      <4> QED
        BY <2>10, <4>1, <4>3
    <3>2. CASE d.ok
      <4>1. PICK base : base = IF Over(start) THEN new ELSE d.seg
        OBVIOUS
      <4>2. /\ base \in Segments /\ base.part \in {d.seg.part, <<>>}
            /\ Over(start) => base.part = <<>>
            /\ ~Over(start) => FilesFit(d.store, base)
        BY <2>3, <2>10, <4>1 DEF Disks
      <4>3. PICK h : h = [d EXCEPT !.seg = base]
        OBVIOUS
      <4>4. h.store = d.store /\ h.seg = base
        BY <2>10, <4>3 DEF Disks
      <4>5. OrderFits(h) /\ \A u \in Tracks : Fresh(h, u, received[u] + 1)
        BY <2>10, <4>2, <4>4, PartLess
      <4>6. PICK p : p = base.part
        OBVIOUS
      <4>7. p \in Seq(Samples) /\ h.seg.part = p
        BY <4>2, <4>4, <4>6 DEF Segments
      <4>8. PICK r : r = With(base)
        OBVIOUS
      <4>9. r \in Segments /\ Same(r, base) /\ r.part = Append(p, sample)
        <5>1. Append(p, sample) \in Seq(Samples)
          BY <1>9, <4>7
        <5>2. r = [base EXCEPT !.end = dts, !.part = Append(p, sample)]
          BY <1>6, <4>6, <4>8
        <5> QED
          BY <1>8, <4>2, <5>1, <5>2 DEF Segments, Same
      <4>10. PICK e : e = [d EXCEPT !.seg = r]
        OBVIOUS
      <4>11. e \in Disks /\ e.seg = r /\ e.store = d.store
        BY <2>10, <4>9, <4>10 DEF Disks
      <4>13. /\ OrderFits(e)
             /\ \A u, n : Fresh(h, u, n) /\ (u = sample.track => sample.n < n) => Fresh(e, u, n)
        <5>1. Fresh(h, sample.track, sample.n)
          BY <1>9, <4>5
        <5>2. e.store = h.store /\ e.seg.part = Append(p, sample)
          BY <4>4, <4>9, <4>11
        <5> QED
          BY <1>9, <4>5, <4>7, <5>1, <5>2, PartMore
      <4>14. ASSUME NEW u \in Tracks PROVE Fresh(e, u, received'[u] + 1)
        <5>1. CASE u # t
          BY <1>9, <1>10, <4>5, <4>13, <5>1
        <5>2. CASE u = t
          <6>1. h.store \subseteq Files /\ h.seg \in Segments
            BY <2>10, <4>2, <4>4 DEF Disks
          <6>2. /\ received[t] + 1 \in Int /\ received[t] + 2 \in Int
                /\ received[t] + 1 <= received[t] + 2 /\ received[t] + 1 < received[t] + 2
            BY <1>8
          <6>3. Fresh(h, t, received[t] + 2)
            BY <4>5, <6>1, <6>2, FreshMore
          <6>4. Fresh(e, t, received[t] + 2)
            BY <1>9, <4>13, <6>2, <6>3
          <6>5. received'[t] + 1 = received[t] + 2
            BY <1>8, <1>10
          <6> QED
            BY <5>2, <6>4, <6>5
        <5> QED
          BY <5>1, <5>2
      <4>15. w = Add(e)
        BY <2>1, <2>2, <3>2, <4>1, <4>8, <4>10
      <4>16. CASE Over(start)
        <5>1. e.seg.part = Append(p, sample) /\ p = <<>>
          BY <4>2, <4>6, <4>9, <4>11, <4>16
        <5>2. Len(e.seg.part) = 1
          BY <1>9, <4>7, <5>1
        <5>3. ~(Len(e.seg.part) > MaxPartSize)
          <6>1. MaxPartSize \in Nat \ {0}
            BY RecordingsAssumption
          <6> QED
            BY <5>2, <6>1
        <5>4. w = e
          BY <1>7, <4>15, <5>3
        <5> QED
          BY <4>11, <4>13, <4>14, <5>4
      <4>17. CASE ~Over(start)
        <5>1. e.seg.file = d.seg.file /\ Same(e.seg, d.seg)
          <6>1. base = d.seg
            BY <4>1, <4>17
          <6>2. r = [base EXCEPT !.end = dts, !.part = Append(base.part, sample)]
            BY <1>6, <4>8
          <6>3. r.file = base.file
            BY <4>2, <6>2 DEF Segments
          <6> QED
            BY <4>9, <4>11, <6>1, <6>3
        <5>2. FilesFit(e.store, e.seg)
          BY <2>10, <4>11, <5>1 DEF FilesFit, Same, Older
        <5>3. Stays(e, w) /\ Kept(e, w)
          BY <1>7, <4>11, <4>15, StaysItself, KeptItself, WritePartStays, WritePartKeeps
        <5>4. \A u \in Tracks : received'[u] + 1 \in Nat
          BY <1>8, <1>10
        <5> QED
          BY <4>13, <4>14, <5>2, <5>3, <5>4 DEF Stays, Kept
      <4> QED
        BY <4>16, <4>17
    <3> QED
      BY <3>1, <3>2
  <2>13. OrderInv'
    <3>1. seg'.part \in {w.seg.part, <<>>}
      <4>1. CASE w.ok
        BY <2>1, <4>1
      <4>2. CASE ~w.ok
        <5>1. seg' = [w.seg EXCEPT !.part = <<>>] /\ w.seg \in Segments
          BY <2>1, <2>12, <4>2 DEF Disks
        <5>2. seg'.part = <<>>
          BY <5>1 DEF Segments
        <5> QED
          BY <5>2
      <4> QED
        BY <4>1, <4>2
    <3>2. \A g \in {Disk(seg)}' : g.seg = seg' /\ g.store = w.store
      BY <2>1, DiskNext
    <3>3. \A g \in {Disk(seg)}' : OrderFits(g) /\ \A u \in Tracks : Fresh(g, u, received'[u] + 1)
      BY <2>12, <3>1, <3>2, PartLess
    <3>4. FilesOrdered(w.store) /\ \A u \in Tracks : FilesFresh(w.store, u, received'[u] + 1)
      BY <2>12 DEF OrderFits, Fresh
    <3> QED
      BY <2>1, <3>3, <3>4, OrderNext
  <2> QED
    BY <1>11, <2>13 DEF KeptInv
<1> QED
  BY Zenon, <1>12, <1>13

-----------------------------------------------------------------------------
(* The steps.                                                              *)

LEMMA ReceiveKept ==
  ASSUME RecInv, KeptInv, RecInv', NEW t \in Tracks, Receive(t)
  PROVE  KeptInv'
<1>1. PICK dts : dts = clock + offset[t]
  OBVIOUS
<1>2. /\ recorder = "running"
      /\ next[t] # None => next[t].ntp < clock
      /\ received' = [received EXCEPT ![t] = @ + 1]
      /\ UNCHANGED <<clock, case, offset, stream>>
  BY DEF Receive
<1>3. PICK sync \in BOOLEAN, fault \in Faults \cup {None} :
        /\ \/ case.format = "fmp4" /\ WriteFMP4(t, clock, dts, sync, fault)
           \/ case.format = "mpegts" /\ WriteTS(t, clock, dts, sync, fault)
        /\ IF fault = None THEN UNCHANGED faults
           ELSE faults' = faults + 1 /\ recorder' = "failed"
  <2>1. (IF t = Video THEN VideoSyncs ELSE AudioSyncs) \subseteq BOOLEAN
    BY DEF VideoSyncs, AudioSyncs
  <2>2. ({None} \cup IF faults < case.faults THEN Faults ELSE {}) \subseteq Faults \cup {None}
    OBVIOUS
  <2>3. PICK sync \in IF t = Video THEN VideoSyncs ELSE AudioSyncs,
             fault \in {None} \cup IF faults < case.faults THEN Faults ELSE {} :
          /\ \/ case.format = "fmp4" /\ WriteFMP4(t, clock, dts, sync, fault)
             \/ /\ case.format = "mpegts" /\ fault # "header"
                /\ WriteTS(t, clock, dts, sync, fault)
          /\ IF fault = None THEN UNCHANGED faults
             ELSE faults' = faults + 1 /\ recorder' = "failed"
    BY <1>1 DEF Receive
  <2>4. sync \in BOOLEAN /\ fault \in Faults \cup {None}
    BY <2>1, <2>2
  <2> QED
    BY <2>3, <2>4
<1>4. faults' = 0 => faults = 0 /\ fault = None
  BY <1>3, TypesAre
<1>5. CASE case.format = "fmp4" /\ WriteFMP4(t, clock, dts, sync, fault)
  <2>1. WriteFMP4(t, clock, clock + offset[t], sync, fault)
    BY <1>1, <1>5
  <2>2. PICK x : /\ Arrives(t, x)
                 /\ \/ /\ UNCHANGED <<seg, store>>
                       /\ \/ recorder' = "failed" \/ next[t] = None
                          \/ seg # None /\ next[t].dts < seg.dts
                    \/ \E start, sample, d, c : Goes(t, x, start, sample, d, c, fault)
    BY <1>2, <1>5, <2>1, FMP4Cases
  <2>3. CASE /\ UNCHANGED <<seg, store>>
             /\ \/ recorder' = "failed" \/ next[t] = None
                \/ seg # None /\ next[t].dts < seg.dts
    BY <1>2, <1>4, <2>2, <2>3, QuietKept
  <2>4. CASE \E start, sample, d, c : Goes(t, x, start, sample, d, c, fault)
    <3>1. PICK start, sample, d, c : Goes(t, x, start, sample, d, c, fault)
      BY <2>4
    <3> QED
      BY <1>2, <1>4, <1>5, <2>2, <3>1, GoesKept
  <2> QED
    BY <2>2, <2>3, <2>4
<1>6. CASE case.format = "mpegts" /\ WriteTS(t, clock, dts, sync, fault)
  BY <1>1, <1>2, <1>6, TSKeeps
<1> QED
  BY <1>3, <1>5, <1>6

\* The end of an instance.
LEMMA EndsKept ==
  ASSUME RecInv, KeptInv, NoInstance, recorder' \in {"off", "pausing"},
         CloseFormat \/ (UNCHANGED store /\ faults' # 0), faults' = 0 => faults = 0,
         UNCHANGED <<case, offset, stream, received>>
  PROVE  KeptInv'
<1>1. seg' = None /\ \A t \in Tracks : next'[t] = None
  BY DEF NoInstance
<1>2. \A t \in Tracks : received[t] + 1 \in Nat
  BY TypesAre
<1>3. /\ FilesOrdered(store') /\ \A t \in Tracks : FilesFresh(store', t, received[t] + 1)
      /\ case.format = "fmp4" => FilesTimed(store')
      /\ Faultless' => FilesLast(store')
      /\ Faultless' /\ VideoIsNotLate => FilesJoined(store') /\ \A f \in store' : f.stream <= stream
  <2>1. CASE UNCHANGED store /\ (seg = None \/ faults' # 0)
    <3>1. /\ FilesOrdered(store) /\ \A t \in Tracks : FilesFresh(store, t, received[t] + 1)
      BY DEF KeptInv, OrderInv
    <3>2. case.format = "fmp4" => FilesTimed(store)
      BY DEF KeptInv, TimesInv
    <3>3. Faultless' => FilesLast(store) /\ Faultless
      BY DEF KeptInv, LastInv, Faultless
    <3>4. Faultless' /\ VideoIsNotLate => FilesJoined(store) /\ \A f \in store : f.stream <= stream
      BY <2>1, <3>3 DEF KeptInv, JoinInv, Faultless
    <3> QED
      BY <2>1, <3>1, <3>2, <3>3, <3>4
  <2>2. CASE CloseFormat /\ seg # None
    <3>1. PICK d : d \in {Disk(seg)}
      OBVIOUS
    <3>2. PICK c : c = CloseSegment(d, None)
      OBVIOUS
    <3>3. store' = c.store
      BY <2>2, <3>1, <3>2 DEF CloseFormat
    <3>4. SegmentFits(seg) /\ FilesFit(store, seg) /\ RecTypes
      BY <2>2 DEF RecInv, StoreFits
    <3>5. d \in Disks /\ d.seg = seg /\ d.store = store /\ d.ok
      BY <3>1, <3>4, DiskIs DEF SegmentFits
    <3>6. FilesFit(d.store, d.seg)
      BY <3>4, <3>5
    <3>7. OrderFits(d) /\ \A t \in Tracks : Fresh(d, t, received[t] + 1)
      BY <2>2, <3>1 DEF KeptInv, OrderInv
    <3>8. case.format = "fmp4" => TimesFit(d)
      BY <2>2, <3>1 DEF KeptInv, TimesInv
    <3>9. Kept(d, c)
      BY <3>2, <3>5, CloseSegmentKeeps
    <3>10. /\ OrderFits(c) /\ \A t \in Tracks : Fresh(c, t, received[t] + 1)
           /\ case.format = "fmp4" => TimesFit(c)
      BY <1>2, <3>6, <3>7, <3>8, <3>9 DEF Kept
    <3>11. /\ FilesOrdered(store') /\ \A t \in Tracks : FilesFresh(store', t, received[t] + 1)
           /\ case.format = "fmp4" => FilesTimed(store')
      BY <3>3, <3>10 DEF OrderFits, Fresh, TimesFit
    <3>12. ASSUME Faultless' PROVE FilesLast(store')
      <4>1. Faultless
        BY <3>12 DEF Faultless
      <4>2. /\ LastsFits(d) /\ d.seg.file # "closed"
            /\ EndIsTrue(d) \/ d.seg.file = "removed" \/ Len(d.seg.part) = MaxPartSize
        BY <2>2, <3>1, <4>1 DEF KeptInv, LastInv
      <4> QED
        BY <3>2, <3>3, <3>5, <3>6, <3>8, <4>1, <4>2, CloseSegmentFits DEF
           Faultless
    <3>13. ASSUME Faultless', VideoIsNotLate
           PROVE  FilesJoined(store') /\ \A f \in store' : f.stream <= stream
      <4>1. Faultless
        BY <3>13 DEF Faultless
      <4>2. /\ LastsFits(d) /\ d.seg.file # "closed"
            /\ EndIsTrue(d) \/ d.seg.file = "removed" \/ Len(d.seg.part) = MaxPartSize
        BY <2>2, <3>1, <4>1 DEF KeptInv, LastInv
      <4>3. JoinFits(d)
        BY <2>2, <3>1, <3>13, <4>1 DEF KeptInv, JoinInv
      <4>4. FilesJoined(c.store) /\ \A f \in c.store : Same(f, d.seg) \/ Earlier(f, d.seg)
        BY <3>2, <3>5, <3>6, <3>8, <4>1, <4>2, <4>3, CloseSegmentFits DEF
           Faultless
      <4>5. d.seg.stream = stream /\ stream \in Nat
        BY <3>4, <3>5 DEF SegmentFits, Segments
      <4>6. c \in Disks
        BY <3>2, <3>5, CloseSegmentStays DEF Stays
      <4>7. \A f \in c.store : f.stream \in Nat
        BY <4>6 DEF Disks, Files
      <4> QED
        BY <3>3, <4>4, <4>5, <4>7 DEF Same, Earlier
    <3> QED
      BY <3>11, <3>12, <3>13
  <2>3. CASE CloseFormat /\ seg = None
    <3>1. UNCHANGED store
      BY <2>3 DEF CloseFormat
    <3> QED
      BY <2>1, <2>3, <3>1
  <2> QED
    BY <2>1, <2>2, <2>3
<1>4. OrderInv'
  BY <1>1, <1>3, OrderNext
<1>5. TimesInv'
  BY <1>1, <1>3 DEF TimesInv
<1>6. LastInv'
  BY <1>1, <1>3 DEF LastInv, Faultless
<1>7. JoinInv'
  <2>1. VideoIsNotLate' => VideoIsNotLate
    BY DEF VideoIsNotLate
  <2> QED
    BY <1>1, <1>3, <2>1 DEF JoinInv, Faultless
<1> QED
  BY <1>4, <1>5, <1>6, <1>7 DEF KeptInv

\* Files go, the one that is being written too.
LEMMA LessFits ==
  ASSUME NEW d, NEW e, e.store \subseteq d.store, Same(e.seg, d.seg),
         e.seg.dts = d.seg.dts, e.seg.part = d.seg.part
  PROVE  /\ OrderFits(d) => OrderFits(e)
         /\ TimesFit(d) => TimesFit(e)
         /\ \A t, n : Fresh(d, t, n) => Fresh(e, t, n)
<1>1. OrderFits(d) => OrderFits(e)
  BY DEF OrderFits, FilesOrdered
<1>2. TimesFit(d) => TimesFit(e)
  BY DEF TimesFit, FilesTimed, Same
<1>3. \A t, n : Fresh(d, t, n) => Fresh(e, t, n)
  BY DEF Fresh, FilesFresh
<1> QED
  BY <1>1, <1>2, <1>3

LEMMA LessLast ==
  ASSUME NEW d, NEW e, e.store \subseteq d.store, Same(e.seg, d.seg),
         e.seg.dts = d.seg.dts, e.seg.part = d.seg.part, e.seg.end = d.seg.end,
         FilesFit(d.store, d.seg), OrderFits(d), d.seg.part \in Seq(Samples), d.store \subseteq Files,
         \/ e.seg.file = d.seg.file /\ FileOn(e) = FileOn(d)
         \/ e.seg.file = "removed" /\ (\A f \in e.store : f.start # e.seg.start) /\ d.seg.file = "open"
  PROVE  /\ LastsFits(d) => LastsFits(e)
         /\ EndIsTrue(d) => EndIsTrue(e) \/ e.seg.file = "removed"
         /\ JoinFits(d) => JoinFits(e)
         /\ \A w : GoesOn(d, w) => GoesOn(e, w)
<1>1. CASE e.seg.file = d.seg.file /\ FileOn(e) = FileOn(d)
  <2>1. \A t : Own(e, t) = Own(d, t)
    BY <1>1 DEF Own
  <2>2. LastsFits(d) => LastsFits(e)
    <3> SUFFICES ASSUME LastsFits(d) PROVE LastsFits(e)
      OBVIOUS
    <3>1. FilesLast(e.store)
      BY DEF LastsFits, FilesLast
    <3>2. e.seg.file = "open" => \E f \in e.store : Same(f, e.seg)
      <4>1. SUFFICES ASSUME e.seg.file = "open" PROVE \E f \in e.store : Same(f, e.seg)
        OBVIOUS
      <4>2. PICK f \in d.store : Same(f, d.seg)
        BY <1>1, <4>1 DEF LastsFits
      <4>3. f \in FileOn(d)
        BY <1>1, <4>1, <4>2, NoneAssumption DEF FileOn, Same
      <4> QED
        BY <1>1, <4>2, <4>3 DEF FileOn, Same
    <3>3. \A f \in e.store : Same(f, e.seg) =>
            e.seg.file \in {"open", "closed"} /\ (e.seg.file = "open" => f.duration = 0)
      BY <1>1 DEF LastsFits, Same
    <3>4. \A t \in Tracks : \A s \in Own(e, t) : Until(s) <= e.seg.end
      BY <2>1 DEF LastsFits
    <3> QED
      BY <3>1, <3>2, <3>3, <3>4 DEF LastsFits
  <2>3. EndIsTrue(d) => EndIsTrue(e)
    BY <2>1 DEF EndIsTrue
  <2>4. JoinFits(d) => JoinFits(e)
    BY <1>1, <2>1 DEF JoinFits, FilesJoined, Same, Earlier, Follows
  <2>5. \A w : GoesOn(d, w) => GoesOn(e, w)
    BY <1>1, <2>1 DEF GoesOn, Same, Follows
  <2> QED
    BY <2>2, <2>3, <2>4, <2>5
<1>2. CASE e.seg.file = "removed" /\ (\A f \in e.store : f.start # e.seg.start) /\ d.seg.file = "open"
  <2>1. \A t : Own(e, t) = In(d.seg.part, t) /\ Own(e, t) \subseteq Own(d, t)
    BY <1>2 DEF Own, FileOn
  <2>2. LastsFits(d) => LastsFits(e)
    BY <1>2, <2>1 DEF LastsFits, FilesLast, Same
  <2>3. JoinFits(d) => JoinFits(e)
    BY <1>2 DEF JoinFits, FilesJoined, Same, Earlier
  \* What remains is after what has gone.
  <2>4. ASSUME NEW w, GoesOn(d, w) PROVE GoesOn(e, w)
    <3>1. ASSUME NEW p \in Own(e, Video), IsLast(p, Own(e, Video))
          PROVE  w # None /\ w.n = p.n + 1 /\ w.dts >= e.seg.dts
      <4>1. p \in Own(d, Video) /\ p \in In(d.seg.part, Video) /\ p \in Samples
        BY <2>1, <3>1, InIs
      <4>2. ASSUME NEW r \in Own(d, Video) PROVE r.n <= p.n
        <5>1. CASE r \in In(d.seg.part, Video)
          BY <2>1, <3>1, <5>1 DEF IsLast
        <5>2. CASE r \notin In(d.seg.part, Video)
          <6>1. PICK f \in d.store : r \in Held(f, Video)
            BY <4>2, <5>2 DEF Own, FileOn
          <6>2. r.n < p.n
            BY <4>1, <6>1 DEF OrderFits, Below, Tracks
          <6>3. r.n \in Nat /\ p.n \in Nat
            BY <4>1, <6>1, HeldIsSample DEF Samples
          <6> QED
            BY <6>2, <6>3
        <5> QED
          BY <5>1, <5>2
      <4>3. IsLast(p, Own(d, Video))
        BY <4>2 DEF IsLast
      <4> QED
        BY <2>4, <4>1, <4>3 DEF GoesOn
    <3> QED
      BY <1>2, <3>1 DEF GoesOn
  <2> QED
    BY <1>2, <2>2, <2>3, <2>4
<1> QED
  BY <1>1, <1>2

LEMMA UnlinkKept ==
  ASSUME RecInv, KeptInv, NEW files, files \subseteq store, Unlink(files),
         faults' = 0 => faults = 0
  PROVE  KeptInv'
<1>1. /\ store' = store \ files
      /\ seg' = IF seg # None /\ seg.file = "open" /\ (\E f \in files : f.start = seg.start)
                THEN [seg EXCEPT !.file = "removed"] ELSE seg
      /\ UNCHANGED <<clock, case, offset, recorder, stream, received, started, next,
                     number, hooks>>
  BY DEF Unlink
<1>2. /\ store' \subseteq store
      /\ Faultless' => Faultless
      /\ VideoIsNotLate' => VideoIsNotLate
  BY <1>1 DEF Faultless, VideoIsNotLate
<1>3. /\ FilesOrdered(store') /\ \A t \in Tracks : FilesFresh(store', t, received[t] + 1)
      /\ case.format = "fmp4" =>
           /\ FilesTimed(store')
           /\ \A t \in Tracks : next[t] # None => next[t].n = received[t] /\ FilesFresh(store', t, next[t].n)
      /\ Faultless => /\ FilesLast(store')
                      /\ \A t \in Tracks : next[t] # None => next[t].dts = next[t].ntp + offset[t]
      /\ Faultless /\ VideoIsNotLate => FilesJoined(store')
  <2>1. FilesOrdered(store') /\ \A t \in Tracks : FilesFresh(store', t, received[t] + 1)
    BY <1>2 DEF KeptInv, OrderInv, FilesOrdered, FilesFresh
  <2>2. case.format = "fmp4" =>
           /\ FilesTimed(store')
           /\ \A t \in Tracks : next[t] # None => next[t].n = received[t] /\ FilesFresh(store', t, next[t].n)
    BY <1>2 DEF KeptInv, TimesInv, FilesTimed, FilesFresh
  <2>3. Faultless => /\ FilesLast(store')
                     /\ \A t \in Tracks : next[t] # None => next[t].dts = next[t].ntp + offset[t]
    BY <1>2 DEF KeptInv, LastInv, FilesLast
  <2>4. Faultless /\ VideoIsNotLate => FilesJoined(store')
    BY <1>2 DEF KeptInv, JoinInv, FilesJoined
  <2> QED
    BY <2>1, <2>2, <2>3, <2>4
<1>4. CASE seg = None
  <2>1. seg' = None
    BY <1>1, <1>4
  <2>2. Faultless /\ VideoIsNotLate =>
          \A f \in store' : f.stream <= stream /\ (recorder = "running" => f.stream < stream)
    BY <1>2, <1>4 DEF KeptInv, JoinInv
  <2>3. OrderInv' /\ TimesInv'
    <3>1. OrderInv'
      BY <1>1, <1>3, <2>1, OrderNext
    <3>2. TimesInv'
      BY <1>1, <1>3, <2>1 DEF TimesInv
    <3> QED
      BY <3>1, <3>2
  <2>4. LastInv' /\ JoinInv'
    BY <1>1, <1>2, <1>3, <2>1, <2>2 DEF LastInv, JoinInv
  <2> QED
    BY <2>3, <2>4 DEF KeptInv
<1>5. CASE seg # None
  <2>1. SegmentFits(seg) /\ FilesFit(store, seg) /\ RecTypes /\ seg \in Segments
    BY <1>5 DEF RecInv, StoreFits, SegmentFits
  <2>2. PICK d : d \in {Disk(seg)}
    OBVIOUS
  <2>3. d \in Disks /\ d.seg = seg /\ d.store = store
    BY <2>1, <2>2, DiskIs
  <2>4. PICK z : z = seg'
    OBVIOUS
  <2>5. /\ Same(z, seg) /\ z.dts = seg.dts /\ z.part = seg.part /\ z.end = seg.end
        /\ \/ z.file = seg.file /\ ~(seg.file = "open" /\ \E f \in files : f.start = seg.start)
           \/ z.file = "removed" /\ seg.file = "open" /\ \E f \in files : f.start = seg.start
    BY <1>1, <1>5, <2>1, <2>4 DEF Segments, Same
  <2>6. seg' # None
    BY <1>1, <1>5, <2>1, NoneAssumption DEF Segments
  <2>7. \A e \in {Disk(seg)}' : e.seg = z /\ e.store = store'
    BY <2>4, DiskNext
  <2>8. OrderFits(d) /\ \A t \in Tracks : Fresh(d, t, received[t] + 1)
    BY <1>5, <2>2 DEF KeptInv, OrderInv
  <2>9. ASSUME NEW e \in {Disk(seg)}'
        PROVE  /\ OrderFits(e) /\ \A t \in Tracks : Fresh(e, t, received[t] + 1)
               /\ case.format = "fmp4" => TimesFit(e) /\ \A t \in Tracks : next[t] # None => Fresh(e, t, next[t].n)
               /\ Faultless => /\ LastsFits(e) /\ e.seg.file # "closed"
                               /\ \/ EndIsTrue(e) \/ e.seg.file = "removed"
                                  \/ recorder # "running" /\ Len(e.seg.part) = MaxPartSize
               /\ Faultless /\ VideoIsNotLate =>
                    JoinFits(e) /\ (recorder = "running" => GoesOn(e, next[Video]))
    <3>1. e.seg = z /\ e.store = store'
      BY <2>7
    <3>2. /\ e.store \subseteq d.store /\ Same(e.seg, d.seg) /\ e.seg.dts = d.seg.dts
          /\ e.seg.part = d.seg.part /\ e.seg.end = d.seg.end
      BY <1>2, <2>3, <2>5, <3>1
    <3>3. OrderFits(e) /\ \A t \in Tracks : Fresh(e, t, received[t] + 1)
      BY <2>8, <3>2, LessFits
    <3>4. ASSUME case.format = "fmp4"
          PROVE  TimesFit(e) /\ \A t \in Tracks : next[t] # None => Fresh(e, t, next[t].n)
      <4>1. TimesFit(d) /\ \A t \in Tracks : next[t] # None => Fresh(d, t, next[t].n)
        BY <1>5, <2>2, <3>4 DEF KeptInv, TimesInv
      <4> QED
        BY <3>2, <4>1, LessFits
    <3>5. ASSUME Faultless
          PROVE  /\ LastsFits(d) /\ d.seg.file # "closed"
                 /\ \/ EndIsTrue(d) \/ d.seg.file = "removed"
                    \/ recorder # "running" /\ Len(d.seg.part) = MaxPartSize
      BY <1>5, <2>2, <3>5 DEF KeptInv, LastInv
    <3>6. ASSUME Faultless
          PROVE  \/ e.seg.file = d.seg.file /\ FileOn(e) = FileOn(d)
                 \/ /\ e.seg.file = "removed" /\ d.seg.file = "open"
                    /\ \A f \in e.store : f.start # e.seg.start
      <4>1. CASE z.file = "removed" /\ seg.file = "open" /\ \E f \in files : f.start = seg.start
        <5>1. PICK f \in files : f.start = seg.start
          BY <4>1
        <5>3. \A h \in e.store : h.start # e.seg.start
          <6>1. SUFFICES ASSUME NEW h \in e.store, h.start = e.seg.start PROVE FALSE
            OBVIOUS
          <6>2. h \in store /\ h \notin files /\ h.start = seg.start
            BY <1>1, <2>5, <3>1, <6>1 DEF Same
          <6>3. f \in store /\ f.start = h.start
            BY <5>1, <6>2
          <6>4. f = h
            BY <2>1, <6>2, <6>3 DEF FilesFit
          <6> QED
            BY <5>1, <6>2, <6>4
        <5> QED
          BY <2>3, <3>1, <4>1, <5>3
      <4>2. CASE z.file = seg.file /\ ~(seg.file = "open" /\ \E f \in files : f.start = seg.start)
        <5>2. FileOn(e) = FileOn(d)
          <6>1. FileOn(e) = {f \in store' : f.start = z.start /\ z.file \notin {None, "removed"}}
            BY <3>1 DEF FileOn
          <6>2. FileOn(d) = {f \in store : f.start = seg.start /\ seg.file \notin {None, "removed"}}
            BY <2>3 DEF FileOn
          <6>3. seg.file # "closed" /\ z.start = seg.start
            BY <2>3, <2>5, <3>5, <3>6 DEF Same
          <6>4. seg.file \in {None, "removed"} \/ seg.file = "open"
            BY <2>1, <6>3 DEF Segments
          <6> QED
            BY <1>1, <4>2, <6>1, <6>2, <6>3, <6>4
        <5> QED
          BY <2>3, <3>1, <4>2, <5>2
      <4> QED
        BY <2>5, <4>1, <4>2
    <3>7. d.seg.part \in Seq(Samples) /\ d.store \subseteq Files /\ FilesFit(d.store, d.seg)
      BY <2>1, <2>3 DEF Segments, Disks
    <3>8. ASSUME Faultless
          PROVE  /\ LastsFits(e) /\ e.seg.file # "closed"
                 /\ \/ EndIsTrue(e) \/ e.seg.file = "removed"
                    \/ recorder # "running" /\ Len(e.seg.part) = MaxPartSize
      <4>1. LastsFits(e) /\ (EndIsTrue(d) => EndIsTrue(e) \/ e.seg.file = "removed")
        BY <2>8, <3>2, <3>5, <3>6, <3>7, <3>8, LessLast
      <4>2. e.seg.file # "closed" /\ (d.seg.file = "removed" => e.seg.file = "removed")
        BY <3>5, <3>6, <3>8
      <4> QED
        BY <3>2, <3>5, <3>8, <4>1, <4>2
    <3>9. ASSUME Faultless, VideoIsNotLate
          PROVE  JoinFits(e) /\ (recorder = "running" => GoesOn(e, next[Video]))
      <4>1. JoinFits(d) /\ (recorder = "running" => GoesOn(d, next[Video]))
        BY <1>5, <2>2, <3>9 DEF KeptInv, JoinInv
      <4> QED
        BY <2>8, <3>2, <3>5, <3>6, <3>7, <3>9, <4>1, LessLast
    <3> QED
      BY <3>3, <3>4, <3>8, <3>9
  <2>10. OrderInv'
    BY <1>1, <1>3, <2>9, OrderNext
  <2>11. TimesInv'
    BY <1>1, <1>3, <2>9 DEF TimesInv
  <2>12. LastInv'
    BY <1>1, <1>2, <1>3, <2>9 DEF LastInv
  <2>13. JoinInv'
    BY <1>1, <1>2, <1>3, <2>6, <2>9 DEF JoinInv
  <2> QED
    BY <2>10, <2>11, <2>12, <2>13 DEF KeptInv
<1> QED
  BY <1>4, <1>5

\* Nothing but the clock, the recorder and the faults changes.
LEMMA IdleKept ==
  ASSUME RecInv, KeptInv, UNCHANGED <<case, store, received, next, seg>>,
         Faultless' => Faultless /\ UNCHANGED offset,
         \/ UNCHANGED stream /\ (recorder' = "running" => recorder = "running")
         \/ seg = None /\ stream' = stream + 1
  PROVE  KeptInv'
<1>1. \A t \in Tracks : received[t] \in Nat
  BY TypesAre
<1>2. OrderInv'
  BY <1>1, OrderStays DEF KeptInv
<1>3. TimesInv'
  BY TimesStay DEF KeptInv
<1>4. LastInv'
  <2>1. Faultless' => \A t \in Tracks : next'[t] # None => next'[t].dts = next'[t].ntp + offset'[t]
    BY DEF KeptInv, LastInv
  <2> QED
    BY <2>1, LastStays DEF KeptInv
<1>5. JoinInv'
  <2>1. Faultless' /\ VideoIsNotLate' => Faultless /\ VideoIsNotLate
    BY DEF VideoIsNotLate
  <2>2. ASSUME Faultless, VideoIsNotLate, seg = None, NEW f \in store
        PROVE  f.stream <= stream' /\ (recorder' = "running" => f.stream < stream')
    <3>1. f.stream <= stream /\ (recorder = "running" => f.stream < stream)
      BY <2>2 DEF KeptInv, JoinInv
    <3>2. f.stream \in Nat /\ stream \in Nat
      BY RecordingsAssumption DEF RecInv, RecTypes, Files
    <3> QED
      BY <3>1, <3>2
  <2> QED
    BY <2>1, <2>2, JoinStays DEF KeptInv
<1> QED
  BY <1>2, <1>3, <1>4, <1>5 DEF KeptInv

LEMMA KeptInit == ASSUME Init PROVE KeptInv
<1>1. store = {} /\ seg = None /\ \A t \in Tracks : next[t] = None
  BY DEF Init
<1>2. OrderInv
  BY <1>1 DEF OrderInv, FilesOrdered, FilesFresh
<1>3. TimesInv
  BY <1>1 DEF TimesInv, FilesTimed
<1>4. LastInv
  BY <1>1 DEF LastInv, FilesLast
<1>5. JoinInv
  BY <1>1 DEF JoinInv, FilesJoined
<1> QED
  BY <1>2, <1>3, <1>4, <1>5 DEF KeptInv

LEMMA KeptStep ==
  ASSUME RecInv, KeptInv, RecInv', [Next]_vars
  PROVE  KeptInv'
<1>1. faults \in Nat
  BY TypesAre
<1>2. ASSUME NEW t \in Tracks, Receive(t) PROVE KeptInv'
  BY <1>2, ReceiveKept
<1>3. ASSUME NEW t \in Tracks, Jump(t) PROVE KeptInv'
  <2>1. faults' = faults + 1 /\ UNCHANGED <<case, store, recorder, stream, received, next, seg>>
    BY <1>3 DEF Jump, writing
  <2> QED
    BY <1>1, <2>1, IdleKept DEF Faultless
<1>4. CASE ReaderFails
  <2>1. /\ faults' = faults + 1 /\ recorder' = "failed"
        /\ UNCHANGED <<case, store, stream, received, next, seg>>
    BY <1>4 DEF ReaderFails, writing
  <2> QED
    BY <1>1, <2>1, IdleKept DEF Faultless
<1>5. CASE InstanceEnds
  BY <1>5, EndsKept DEF InstanceEnds
<1>6. CASE Initialize
  <2>1. /\ recorder \in {"off", "pausing"} /\ stream' = stream + 1
        /\ UNCHANGED <<case, offset, store, received, next, seg, faults>>
    BY <1>6 DEF Initialize
  <2>2. seg = None
    BY <2>1 DEF RecInv, RecTypes
  <2> QED
    BY <2>1, <2>2, IdleKept DEF Faultless
<1>7. CASE Close
  BY <1>7, EndsKept DEF Close
<1>8. CASE Crash
  <2>1. faults' = faults + 1 /\ recorder' = "off" /\ NoInstance
        /\ UNCHANGED <<case, offset, store, stream, received>>
    BY <1>8 DEF Crash
  <2> QED
    BY <1>1, <2>1, EndsKept
<1>9. CASE Clean
  BY <1>9, UnlinkKept DEF Clean, Expired
<1>10. CASE DeleteSegment
  <2>1. faults' = faults + 1 /\ \E f \in store : Unlink({f})
    BY <1>10 DEF DeleteSegment
  <2> QED
    BY <1>1, <2>1, UnlinkKept
<1>11. CASE Tick
  <2>1. UNCHANGED <<case, offset, store, recorder, stream, received, next, seg, faults>>
    BY <1>11 DEF Tick, writing
  <2> QED
    BY <2>1, IdleKept DEF Faultless
<1>12. CASE UNCHANGED vars
  <2>1. UNCHANGED <<case, offset, store, recorder, stream, received, next, seg, faults>>
    BY <1>12 DEF vars, writing
  <2> QED
    BY <2>1, IdleKept DEF Faultless
<1> QED
  BY <1>2, <1>3, <1>4, <1>5, <1>6, <1>7, <1>8, <1>9, <1>10, <1>11, <1>12 DEF
     Next

-----------------------------------------------------------------------------
(* What the runs check.                                                    *)

LEMMA SamplesAre ==
  ASSUME RecInv, KeptInv
  PROVE  SamplesAreKept
<1>1. ASSUME NEW f \in store, NEW t \in Tracks
      PROVE  /\ \A g \in store : Earlier(f, g) =>
                  /\ \A s \in Held(f, t), r \in Held(g, t) : s.n < r.n
                  /\ LongSegments => f.start < g.start
             /\ \A i, k \in DOMAIN f.parts :
                  \A j \in DOMAIN f.parts[i], l \in DOMAIN f.parts[k] :
                    /\ f.parts[i][j].track = t /\ f.parts[k][l].track = t
                    /\ i < k \/ (i = k /\ j < l)
                    => f.parts[i][j].n < f.parts[k][l].n
             /\ case.format = "fmp4" => \A s \in Held(f, t) : s.dts >= f.dts
  <2>1. /\ FileOrdered(f)
        /\ \A g \in store : Earlier(f, g) =>
             (LongSegments => f.start < g.start) /\ Below(Held(f, t), Held(g, t))
    BY DEF KeptInv, OrderInv, FilesOrdered
  <2>2. case.format = "fmp4" => \A s \in Held(f, t) : s.dts >= f.dts
    BY DEF KeptInv, TimesInv, FilesTimed
  <2>3. \A g \in store : Earlier(f, g) =>
          /\ \A s \in Held(f, t), r \in Held(g, t) : s.n < r.n
          /\ LongSegments => f.start < g.start
    BY <2>1 DEF Below
  <2>4. \A i, k \in DOMAIN f.parts :
          \A j \in DOMAIN f.parts[i], l \in DOMAIN f.parts[k] :
            /\ f.parts[i][j].track = t /\ f.parts[k][l].track = t
            /\ i < k \/ (i = k /\ j < l)
            => f.parts[i][j].n < f.parts[k][l].n
    BY <2>1 DEF FileOrdered
  <2> QED
    BY <2>2, <2>3, <2>4
<1>2. case.format = "fmp4" /\ faults = 0 /\ VideoIsNotLate =>
        \A f, g \in store : Follows(f, g) =>
          \A p \in Held(f, Video), s \in Held(g, Video) :
            IsLast(p, Held(f, Video)) /\ IsFirst(s, Held(g, Video)) =>
              s.sync /\ s.n = p.n + 1
  BY DEF KeptInv, JoinInv, Faultless, FilesJoined, Joined
<1> QED
  BY <1>1, <1>2 DEF SamplesAreKept

\* Finitely many numbers, and zero, have a greatest one.
LEMMA GreatestIs ==
  ASSUME NEW n \in Nat, NEW e, \A i \in 1..n : e[i] \in Int
  PROVE  \E m \in {0} \cup {e[i] : i \in 1..n} : 0 <= m /\ \A i \in 1..n : e[i] <= m
<1> DEFINE Bounded(k) == \E m \in {0} \cup {e[i] : i \in 1..k} : 0 <= m /\ \A i \in 1..k : e[i] <= m
           Bad == {k \in Nat : k <= n /\ ~Bounded(k)}
<1>1. CASE Bad = {}
  <2>1. n \notin Bad
    BY <1>1
  <2>2. Bounded(n)
    <3> HIDE DEF Bounded
    <3> QED
      BY <2>1
  <2> QED
    BY <2>2
<1>2. CASE Bad # {}
  <2>1. IsWellFoundedOn(OpToRel(<, Nat), Nat)
    BY NatLessThanWellFounded
  <2>2. PICK k \in Bad : \A j \in Bad : ~(<<j, k>> \in OpToRel(<, Nat))
    <3>1. Bad \subseteq Nat
      OBVIOUS
    <3> HIDE DEF Bad
    <3> QED
      BY <1>2, <2>1, <3>1, WFMin
  <2>3. \A j \in Bad : ~(j < k)
    BY <2>2 DEF OpToRel
  <2>4. k \in Nat /\ k <= n /\ ~Bounded(k)
    BY <2>2
  <2>5. k # 0
    <3>1. Bounded(0)
      OBVIOUS
    <3> HIDE DEF Bounded
    <3> QED
      BY <2>4, <3>1
  <2>6. k - 1 \in Nat /\ k - 1 <= n /\ k - 1 < k
    BY <2>4, <2>5
  <2>7. Bounded(k - 1)
    <3> HIDE DEF Bounded
    <3> QED
      BY <2>3, <2>6
  <2>8. PICK m \in {0} \cup {e[i] : i \in 1..(k - 1)} : 0 <= m /\ \A i \in 1..(k - 1) : e[i] <= m
    BY <2>7
  <2>9. \A i \in 1..k : i \in 1..(k - 1) \/ i = k
    BY <2>4
  <2>10. e[k] \in Int /\ k \in 1..k /\ \A i \in 1..(k - 1) : i \in 1..k /\ e[i] \in Int
    BY <2>4, <2>5
  <2>11. m \in Int
    BY <2>8, <2>10
  <2>12. Bounded(k)
    <3>1. CASE e[k] <= m
      <4>1. m \in {0} \cup {e[i] : i \in 1..k}
        BY <2>8, <2>10
      <4>2. \A i \in 1..k : e[i] <= m
        BY <2>8, <2>9, <3>1
      <4> QED
        BY <2>8, <4>1, <4>2
    <3>2. CASE ~(e[k] <= m)
      <4>1. e[k] \in {0} \cup {e[i] : i \in 1..k} /\ 0 <= e[k] /\ m <= e[k]
        BY <2>8, <2>10, <2>11, <3>2
      <4>2. \A i \in 1..k : e[i] <= e[k]
        BY <2>8, <2>9, <2>10, <2>11, <4>1
      <4> QED
        BY <4>1, <4>2
    <3> QED
      BY <3>1, <3>2
  <2> QED
    BY <2>4, <2>12
<1> QED
  BY <1>1, <1>2

LEMMA FromParts ==
  ASSUME NEW f \in Files, f.parts # <<>>, \A t \in Tracks : \A s \in Held(f, t) : s \in Timed
  PROVE  \/ DurationFromParts(f) = 0
         \/ \E t \in Tracks : \E s \in Held(f, t) : EndIn(f, s) = DurationFromParts(f)
<1>1. PICK p : p = Last(f.parts)
  OBVIOUS
<1>2. f.parts \in Seq(Seq(Samples)) /\ f.dts \in Int
  BY DEF Files
<1>3. Len(f.parts) \in DOMAIN f.parts /\ p = f.parts[Len(f.parts)]
  BY <1>1, <1>2 DEF Last
<1>4. p \in Seq(Samples) /\ Len(p) \in Nat /\ DOMAIN p = 1..Len(p)
  BY <1>2, <1>3
<1>5. \A i \in DOMAIN p : p[i].track \in Tracks /\ p[i] \in Held(f, p[i].track)
  <2>1. ASSUME NEW i \in DOMAIN p PROVE p[i].track \in Tracks /\ p[i] \in Held(f, p[i].track)
    <3>1. p[i] \in Samples
      BY <1>4
    <3>2. p[i] \in Held(f, p[i].track)
      BY <1>3, PlaceHeld
    <3> QED
      BY <3>1, <3>2 DEF Samples
  <2> QED
    BY <2>1
<1>6. \A i \in DOMAIN p : EndIn(f, p[i]) \in Int
  BY <1>2, <1>5 DEF Timed, EndIn
<1>7. PICK e : e = [i \in 1..Len(p) |-> EndIn(f, p[i])]
  OBVIOUS
<1>8. \A i \in 1..Len(p) : e[i] = EndIn(f, p[i]) /\ e[i] \in Int
  BY <1>4, <1>6, <1>7
<1>9. PICK m \in {0} \cup {e[i] : i \in 1..Len(p)} : 0 <= m /\ \A i \in 1..Len(p) : e[i] <= m
  BY <1>4, <1>8, GreatestIs
<1>10. PICK S : S = {0} \cup {EndIn(f, p[i]) : i \in DOMAIN p}
  OBVIOUS
<1>11. m \in S /\ \A y \in S : y <= m
  BY <1>4, <1>8, <1>9, <1>10
<1>12. MaxOf(S) \in S
  BY <1>11 DEF MaxOf
<1>13. DurationFromParts(f) = MaxOf(S)
  BY <1>1, <1>10 DEF DurationFromParts
<1> QED
  BY <1>5, <1>10, <1>12, <1>13

LEMMA DurationsAre ==
  ASSUME RecInv, KeptInv
  PROVE  DurationsAreTrue
<1> SUFFICES ASSUME case.format = "fmp4", faults = 0, NEW f \in store, NEW samples,
                    samples = UNION {Held(f, t) : t \in Tracks}
             PROVE  /\ f.header
                    /\ f.duration # 0 =>
                         /\ \A s \in samples : EndIn(f, s) <= f.duration
                         /\ Len(Last(f.parts)) < MaxPartSize =>
                              \E s \in samples : EndIn(f, s) = f.duration
                    /\ f.duration = 0 /\ ~Unreadable(f) =>
                         Duration(f) = 0 \/ \E s \in samples : EndIn(f, s) = Duration(f)
  BY DEF DurationsAreTrue
<1>1. f.header /\ DurationFits(f)
  BY DEF KeptInv, LastInv, Faultless, FilesLast
<1>2. \A t \in Tracks : Held(f, t) \subseteq samples
  OBVIOUS
<1>3. \A s \in samples : \E t \in Tracks : s \in Held(f, t)
  OBVIOUS
<1>4. f.duration # 0 =>
        /\ \A s \in samples : EndIn(f, s) <= f.duration
        /\ Len(Last(f.parts)) < MaxPartSize => \E s \in samples : EndIn(f, s) = f.duration
  BY <1>1, <1>2, <1>3 DEF DurationFits
<1>5. ASSUME f.duration = 0, ~Unreadable(f)
      PROVE  Duration(f) = 0 \/ \E s \in samples : EndIn(f, s) = Duration(f)
  <2>1. f.parts # <<>> /\ f \in Files
    BY <1>5 DEF Unreadable, RecInv, RecTypes
  <2>2. \A t \in Tracks : \A s \in Held(f, t) : s \in Timed
    BY DEF KeptInv, TimesInv, FilesTimed
  <2>3. Duration(f) = DurationFromParts(f)
    BY <1>5 DEF Duration
  <2> QED
    BY <1>2, <2>1, <2>2, <2>3, FromParts
<1> QED
  BY <1>1, <1>4, <1>5

-----------------------------------------------------------------------------
(* The theorems.                                                           *)

(* Every variable of the recorder, the disk and the clocks keeps its type, *)
(* for both formats, any bounds and any number of faults; no two files of  *)
(* the store have one name.                                                *)
THEOREM RecordingsTypeCorrect == Spec => []TypeOK
<1>1. Init => RecInv
  BY RecInit
<1>2. RecInv /\ [Next]_vars => RecInv'
  BY RecStep
<1>3. RecInv => TypeOK
  BY RecImplies
<1> QED
  BY <1>1, <1>2, <1>3, PTL DEF Spec

(* A segment that is on disk stays there, whatever the recorder, a new     *)
(* stream, a restart or a pause do, unless it is as old as the cleaner     *)
(* removes, or the API deletes a segment in this step: what appends to a   *)
(* file or writes its header does not lose it, and no new segment takes    *)
(* the name of an older one.  Nothing is assumed of how long a segment is; *)
(* one that is shorter than what the tracks may be apart takes the name,   *)
(* and the place, of an earlier one of the same instance.                  *)
THEOREM SegmentsAreKept == Spec => SegmentsStay
<1>1. Init => RecInv
  BY RecInit
<1>2. RecInv /\ [Next]_vars => RecInv'
  BY RecStep
<1>3. RecInv /\ [Next]_vars =>
        [\A f \in store :
           \/ \E g \in store' : /\ g.start = f.start /\ g.stream = f.stream
                                /\ \/ g.number = f.number
                                   \/ g.number > f.number /\ ~LongSegments
           \/ case.deleteAfter # 0 /\ f.start + case.deleteAfter <= clock
           \/ faults' > faults]_vars
  BY RecStep DEF StepKeeps, Takes
<1> QED
  BY <1>1, <1>2, <1>3, PTL DEF Spec, SegmentsStay

(* runOnRecordSegmentComplete is called at most once for a segment, after  *)
(* runOnRecordSegmentCreate; while nothing fails and nobody deletes, each  *)
(* is called exactly once, whatever ends the segment: the next one, the    *)
(* end of the stream, or that of the recorder.                             *)
THEOREM HooksAreCalled == Spec => []HooksAgree
<1>1. Init => RecInv
  BY RecInit
<1>2. RecInv /\ [Next]_vars => RecInv'
  BY RecStep
<1>3. RecInv => HooksAgree
  BY RecAgrees
<1> QED
  BY <1>1, <1>2, <1>3, PTL DEF Spec

(* No sample is in two places of the recordings and those of a track are   *)
(* in order, whatever fails, is deleted or starts again; with fMP4 none is *)
(* before its segment; and without a fault the video of a segment goes on, *)
(* with a key frame, where that of the segment before has stopped.         *)
THEOREM SamplesCorrect == Spec => []SamplesAreKept
<1>1. Init => RecInv /\ KeptInv
  BY RecInit, KeptInit
<1>2. RecInv /\ KeptInv /\ [Next]_vars => RecInv' /\ KeptInv'
  BY RecStep, KeptStep
<1>3. RecInv /\ KeptInv => SamplesAreKept
  BY SamplesAre
<1> QED
  BY <1>1, <1>2, <1>3, PTL DEF Spec

(* While nothing fails, every file has its header, and the duration there, *)
(* or the one that is made up for a file that is not finished, is the end  *)
(* of one of its samples and of no earlier one than the others.            *)
THEOREM DurationsCorrect == Spec => []DurationsAreTrue
<1>1. Init => RecInv /\ KeptInv
  BY RecInit, KeptInit
<1>2. RecInv /\ KeptInv /\ [Next]_vars => RecInv' /\ KeptInv'
  BY RecStep, KeptStep
<1>3. RecInv /\ KeptInv => DurationsAreTrue
  BY DurationsAre
<1> QED
  BY <1>1, <1>2, <1>3, PTL DEF Spec

-----------------------------------------------------------------------------
(***************************************************************************)
(* What the stream carries to its viewers (Relay).                         *)
(***************************************************************************)

-----------------------------------------------------------------------------
(* Sequence numbers and timestamps wrap.                                   *)

LEMMA WrapRange ==
  ASSUME Width \in Nat \ {0}, NEW a \in Nat PROVE R!Wrap(a) \in 0..(Width - 1)
BY DEF R!Wrap

LEMMA WrapQuotient ==
  ASSUME Width \in Nat \ {0}, NEW a \in Nat
  PROVE  \E q \in Nat : a = Width * q + R!Wrap(a)
<1>1. a = Width * (a \div Width) + R!Wrap(a)
  BY DEF R!Wrap
<1>2. a \div Width \in Nat
  OBVIOUS
<1> QED
  BY <1>1, <1>2

LEMMA WrapUnique ==
  ASSUME Width \in Nat \ {0}, NEW a \in Nat, NEW q \in Nat, NEW r \in 0..(Width - 1),
         a = Width * q + r
  PROVE  R!Wrap(a) = r
<1>1. PICK p \in Nat : a = Width * p + R!Wrap(a)
  BY WrapQuotient
<1>2. R!Wrap(a) \in 0..(Width - 1)
  BY WrapRange
<1>3. Width * p + R!Wrap(a) = Width * q + r
  BY <1>1
<1>4. ASSUME NEW s \in Nat, NEW t \in Nat, s < t
      PROVE  Width * t >= Width * s + Width /\ Width * s \in Nat /\ Width * t \in Nat
  <2>1. t - s - 1 \in Nat /\ t = s + 1 + (t - s - 1)
    BY <1>4
  <2>2. PICK d \in Nat : t = s + 1 + d
    BY <2>1
  <2>3. Width * t = Width * s + Width + Width * d
    BY <2>2
  <2>4. Width * d \in Nat /\ Width * s \in Nat /\ Width * t \in Nat
    OBVIOUS
  <2> QED
    BY <2>3, <2>4
<1>5. CASE p < q
  BY <1>2, <1>3, <1>4, <1>5
<1>6. CASE q < p
  BY <1>2, <1>3, <1>4, <1>6
<1>7. CASE p = q
  <2>1. Width * p \in Nat /\ R!Wrap(a) \in Nat
    BY <1>2
  <2> QED
    BY <1>3, <1>7, <2>1
<1> QED
  BY <1>5, <1>6, <1>7

\* Wrapping before an addition changes nothing.
LEMMA WrapPlus ==
  ASSUME Width \in Nat \ {0}, NEW a \in Nat, NEW b \in Nat
  PROVE  R!Wrap(R!Wrap(a) + b) = R!Wrap(a + b)
<1>1. PICK r \in 0..(Width - 1) : r = R!Wrap(a)
  BY WrapRange
<1>2. PICK q \in Nat : a = Width * q + r
  BY <1>1, WrapQuotient
<1>3. r + b \in Nat
  OBVIOUS
<1>4. PICK s \in 0..(Width - 1) : s = R!Wrap(r + b)
  BY <1>3, WrapRange
<1>5. PICK p \in Nat : r + b = Width * p + s
  BY <1>3, <1>4, WrapQuotient
<1>6. a + b = Width * (q + p) + s
  <2>1. Width * (q + p) = Width * q + Width * p
    OBVIOUS
  <2>2. Width * q \in Nat /\ Width * p \in Nat
    OBVIOUS
  <2> QED
    BY <1>2, <1>5, <2>1, <2>2
<1>7. R!Wrap(a + b) = s
  <2>1. a + b \in Nat /\ q + p \in Nat
    OBVIOUS
  <2> QED
    BY <1>6, <2>1, WrapUnique
<1> QED
  BY <1>1, <1>4, <1>7

\* The offset of the timestamps of the publisher is the one of the server.
LEMMA WrapOffset ==
  ASSUME Width \in Nat \ {0}, NEW n \in Nat
  PROVE  R!Wrap(R!Wrap(Width - 1 + n) + Width - R!Wrap(n)) = Width - 1
<1>1. PICK r \in 0..(Width - 1) : r = R!Wrap(n)
  BY WrapRange
<1>2. PICK q \in Nat : n = Width * q + r
  BY <1>1, WrapQuotient
<1>0. Width - 1 + n \in Nat
  OBVIOUS
<1>3. PICK s \in 0..(Width - 1) : s = R!Wrap(Width - 1 + n)
  BY <1>0, WrapRange
<1>5. CASE r = 0
  <2>1. Width - 1 + n = Width * q + (Width - 1)
    BY <1>2, <1>5
  <2>2. s = Width - 1
    <3>1. Width - 1 \in 0..(Width - 1)
      OBVIOUS
    <3> QED
      BY <1>0, <1>3, <2>1, <3>1, WrapUnique
  <2>3. s + Width - r = Width * 1 + (Width - 1) /\ s + Width - r \in Nat
    BY <1>5, <2>2
  <2>4. Width - 1 \in 0..(Width - 1) /\ 1 \in Nat
    OBVIOUS
  <2>5. R!Wrap(s + Width - r) = Width - 1
    BY <2>3, <2>4, WrapUnique
  <2> QED
    BY <1>1, <1>3, <2>5
<1>6. CASE r # 0
  <2>1. Width - 1 + n = Width * (q + 1) + (r - 1)
    BY <1>2
  <2>2. s = r - 1
    <3>1. r - 1 \in 0..(Width - 1) /\ q + 1 \in Nat
      BY <1>6
    <3> QED
      BY <1>0, <1>3, <2>1, <3>1, WrapUnique
  <2>3. s + Width - r = Width * 0 + (Width - 1) /\ s + Width - r \in Nat
    BY <1>6, <2>2
  <2>4. Width - 1 \in 0..(Width - 1) /\ 0 \in Nat
    OBVIOUS
  <2>5. R!Wrap(s + Width - r) = Width - 1
    BY <2>3, <2>4, WrapUnique
  <2> QED
    BY <1>1, <1>3, <2>5
<1> QED
  BY <1>5, <1>6

-----------------------------------------------------------------------------
(* The invariant.                                                          *)

\* What the publisher sends: the sets of a frame are newer than those that have
\* arrived.
UnitFits(u) ==
  /\ u \in R!Units
  /\ \A k \in R!Sets : u.sets[k] = 0 \/ u.sets[k] \in arrived[k]..MaxVersion
  /\ ~R!WithSets => u.sets = R!Absent /\ u.slice = "idr"

\* The format has the newest sets that arrived, and no viewer has newer ones.
FormatFits ==
  /\ format \in R!Versions /\ arrived = format /\ held \in R!Versions
  /\ \A k \in R!Sets : held[k] <= arrived[k]
  /\ ~R!WithSets => format = R!Absent

FlightFits ==
  /\ frame \in 0..MaxFrames /\ nextSeq \in 0..(Width - 1)
  /\ inFlight # None => UnitFits(inFlight) /\ inFlight.n = frame /\ frame > 0
  /\ ~R!SendsPackets => inFlight = None

ViewerFits ==
  /\ viewer \in {"out", "refused", "ready", "in", "failed"}
  /\ viewer \in {"ready", "in"} => R!Offered # {}
  /\ frames # <<>> => viewer = "in" /\ R!First \in R!Offered

\* The two frames of the log are in order, no complete frame is between them or
\* after them, and a key frame has what it needs.
FramesFit ==
  /\ frames \in Seq(R!Shown) /\ Len(frames) <= 2 /\ complete \subseteq 1..frame
  /\ \A i \in DOMAIN frames : frames[i].n <= frame
  /\ Len(frames) = 2 => frames[1].n <= frames[2].n
  /\ \A i \in DOMAIN frames :
       frames[i].slice = "idr" /\ (\A k \in R!Sets : frames[i].current[k] # 0) =>
         frames[i].held = frames[i].current
  /\ R!Waits /\ Len(frames) = 1 => frames[1].slice = "idr"
  /\ frames # <<>> => \A m \in complete :
       frames[1].n < m => \E i \in DOMAIN frames : frames[i].n = m

\* The number that the next packet for the RTSP viewer will have.
NextNumber == IF encoder = None THEN nextSeq ELSE encoder.seq

EncoderFits ==
  /\ encoder # None => encoder \in R!Encoders /\ encoder.offset = Width - 1
  /\ ~R!SendsPackets => encoder # None

\* The number that the next packet will have follows that of the last one.
PacketsFit ==
  packets # None =>
    /\ packets \in Seq(R!Entries) /\ Len(packets) <= 2
    /\ \A i \in DOMAIN packets :
         packets[i] # R!Gap =>
           packets[i].n <= frame /\ packets[i].ts = R!Wrap(Width - 1 + packets[i].n)
    /\ packets # <<>> /\ packets[Len(packets)] # R!Gap =>
         NextNumber = R!Wrap(packets[Len(packets)].last + 1)
    /\ Len(packets) = 2 /\ packets[1] # R!Gap /\ packets[2] # R!Gap =>
         /\ packets[2].first = R!Wrap(packets[1].last + 1)
         /\ packets[2].n >= packets[1].n

RelayInv ==
  /\ FormatFits /\ FlightFits /\ ViewerFits /\ FramesFit /\ EncoderFits /\ PacketsFit

-----------------------------------------------------------------------------
(* Operators.                                                              *)

\* The log keeps the last two entries.
LEMMA LogKeepsTwo ==
  ASSUME NEW S, NEW log \in Seq(S), Len(log) <= 2, NEW entry \in S
  PROVE  /\ R!Log(log, entry) \in Seq(S) /\ Len(R!Log(log, entry)) \in 1..2
         /\ R!Log(log, entry)[Len(R!Log(log, entry))] = entry
         /\ Len(log) = 0 => Len(R!Log(log, entry)) = 1
         /\ Len(log) > 0 => /\ Len(R!Log(log, entry)) = 2
                            /\ R!Log(log, entry)[1] = log[Len(log)]
<1>1. CASE Len(log) < 2
  <2>1. R!Log(log, entry) = Append(log, entry)
    BY <1>1 DEF R!Log
  <2> QED
    BY <1>1, <2>1
<1>2. CASE Len(log) = 2
  <2>1. R!Log(log, entry) = <<log[2], entry>>
    BY <1>2 DEF R!Log
  <2>2. log[2] \in S
    BY <1>2
  <2> QED
    BY <1>2, <2>1, <2>2
<1>3. Len(log) < 2 \/ Len(log) = 2
  <2>1. PICK n \in Nat : n = Len(log)
    OBVIOUS
  <2>2. n <= 2
    BY <2>1
  <2>3. n < 2 \/ n = 2
    BY <2>2
  <2> QED
    BY <2>1, <2>3
<1> QED
  BY <1>1, <1>2, <1>3, Zenon

\* What FramesFit says of the types.
LEMMA FrameTypes ==
  ASSUME FramesFit
  PROVE  /\ frames \in Seq(R!Shown) /\ Len(frames) \in 0..2 /\ DOMAIN frames = 1..Len(frames)
         /\ (frames = <<>> <=> Len(frames) = 0)
         /\ \A i \in DOMAIN frames : frames[i] \in R!Shown /\ frames[i].n \in Nat
<1>1. frames \in Seq(R!Shown) /\ Len(frames) <= 2
  BY DEF FramesFit
<1>2. Len(frames) \in Nat /\ DOMAIN frames = 1..Len(frames)
  BY <1>1
<1>3. \A i \in DOMAIN frames : frames[i] \in R!Shown
  BY <1>1, <1>2
<1>4. \A i \in DOMAIN frames : frames[i].n \in Nat
  BY <1>3 DEF R!Shown
<1>5. frames = <<>> <=> Len(frames) = 0
  BY <1>1
<1> QED
  BY <1>1, <1>2, <1>3, <1>4, <1>5

\* newFormatUpdater: the format goes on having the newest sets.
LEMMA UpdateKeepsNewest ==
  ASSUME FormatFits, NEW u, UnitFits(u)
  PROVE  LET known == IF R!WithSets THEN R!UpdateFormat(format, u) ELSE format
         IN  /\ known \in R!Versions /\ R!Newest(arrived, u.sets) = known
             /\ \A k \in R!Sets : arrived[k] <= known[k]
             /\ ~R!WithSets => known = R!Absent
<1> DEFINE known == IF R!WithSets THEN R!UpdateFormat(format, u) ELSE format
<1>1. u.sets \in [R!Sets -> Nat] /\ format \in [R!Sets -> 0..MaxVersion] /\ arrived = format
      /\ MaxVersion \in Nat
  BY MediaAssumption DEF UnitFits, R!Units, FormatFits, R!Versions
<1>2. CASE R!WithSets
  <2>1. known = [k \in R!Sets |-> IF u.sets[k] # 0 THEN u.sets[k] ELSE format[k]]
    BY <1>2 DEF R!UpdateFormat
  <2>2. \A k \in R!Sets : known[k] \in 0..MaxVersion /\ arrived[k] <= known[k]
           /\ known[k] = IF arrived[k] > u.sets[k] THEN arrived[k] ELSE u.sets[k]
    BY <1>1, <2>1 DEF UnitFits
  <2>3. R!Newest(arrived, u.sets) = known
    BY <2>1, <2>2 DEF R!Newest
  <2> QED
    BY <1>2, <2>1, <2>2, <2>3 DEF R!Versions
<1>3. CASE ~R!WithSets
  <2>1. known = R!Absent /\ u.sets = R!Absent /\ arrived = R!Absent
    BY <1>1, <1>3 DEF FormatFits, UnitFits
  <2>2. R!Newest(arrived, u.sets) = known
    BY <2>1 DEF R!Newest, R!Absent
  <2>3. \A k \in R!Sets : arrived[k] <= known[k]
    BY <2>1 DEF R!Absent
  <2>4. known \in R!Versions
    BY <1>1, <2>1 DEF R!Absent, R!Versions
  <2> QED
    BY <1>3, <2>1, <2>2, <2>3, <2>4
<1> QED
  BY <1>2, <1>3

\* newUnitRemuxer: what it gives the viewers.
LEMMA RemuxFits ==
  ASSUME NEW u, UnitFits(u), NEW known \in R!Versions,
         ~R!WithSets => known = R!Absent
  PROVE  /\ R!Remux(known, u) = None <=> R!WithSets /\ u.slice = "none"
         /\ R!Remux(known, u) # None =>
              /\ R!Remux(known, u) \in R!Units /\ R!Remux(known, u).n = u.n
              /\ R!Remux(known, u).slice = u.slice
              /\ R!Remux(known, u).sets \in {known, R!Absent}
              /\ u.slice = "idr" /\ (\A k \in R!Sets : known[k] # 0) =>
                   R!Remux(known, u).sets = known
<1>0. u \in R!Units /\ u # None /\ known \in [R!Sets -> Nat] /\ R!Absent \in [R!Sets -> Nat]
  BY MediaAssumption DEF UnitFits, R!Versions, R!Absent
<1>1. CASE ~R!WithSets
  BY <1>0, <1>1 DEF R!Remux, UnitFits
<1>2. CASE R!WithSets /\ u.slice = "none"
  BY <1>2 DEF R!Remux
<1>3. CASE R!WithSets /\ u.slice # "none"
  <2>1. PICK sets \in {known, R!Absent} :
          /\ R!Remux(known, u) = [u EXCEPT !.sets = sets]
          /\ u.slice = "idr" /\ (\A k \in R!Sets : known[k] # 0) => sets = known
    BY <1>3 DEF R!Remux
  <2>2. [u EXCEPT !.sets = sets] \in R!Units /\ [u EXCEPT !.sets = sets].n = u.n
        /\ [u EXCEPT !.sets = sets].slice = u.slice /\ [u EXCEPT !.sets = sets].sets = sets
    BY <1>0 DEF R!Units
  <2>3. R!Remux(known, u) # None
    BY <2>1, <2>2, MediaAssumption
  <2> QED
    BY <1>3, <2>1, <2>2, <2>3
<1> QED
  BY <1>1, <1>2, <1>3

-----------------------------------------------------------------------------
(* The RTMP viewer.                                                        *)

\* A frame that arrives as a whole.
LEMMA ArrivalKeeps ==
  ASSUME FormatFits, ViewerFits, FramesFit,
         NEW u, UnitFits(u), NEW known, NEW payload,
         known = IF R!WithSets THEN R!UpdateFormat(format, u) ELSE format,
         payload = R!Remux(known, u), format' = known, R!Arrives(u), R!SendRTMP(payload),
         relayed' = relayed, frame \in Nat, frame' = u.n, u.n >= frame, u.n > 0
  PROVE  FormatFits' /\ ViewerFits' /\ FramesFit'
<1>1. /\ known \in R!Versions /\ arrived' = known /\ \A k \in R!Sets : arrived[k] <= known[k]
      /\ ~R!WithSets => known = R!Absent
  BY UpdateKeepsNewest DEF R!Arrives
<1>2. /\ payload = None <=> R!WithSets /\ u.slice = "none"
      /\ payload # None =>
           /\ payload \in R!Units /\ payload.n = u.n /\ payload.slice = u.slice
           /\ payload.sets \in {known, R!Absent}
           /\ u.slice = "idr" /\ (\A k \in R!Sets : known[k] # 0) => payload.sets = known
  BY <1>1, RemuxFits
<1>3. complete' = IF u.slice = "none" THEN complete ELSE complete \cup {u.n}
  BY DEF R!Arrives
<1>4. /\ R!Offered' = R!Offered /\ R!First' = R!First /\ (R!WithSets <=> R!WithSets') /\ (R!Waits <=> R!Waits')
  BY DEF R!Offered, R!WithSets, R!Waits, R!Codec, R!Medias, R!First
<1>5. held \in R!Versions /\ (\A k \in R!Sets : held[k] <= arrived[k]) /\ arrived \in R!Versions
  BY DEF FormatFits
<1>6. u.n \in Nat /\ u \in R!Units
  BY DEF UnitFits, R!Units
<1>7. ~R!WithSets => u.slice = "idr"
  BY DEF UnitFits
<1>8. complete' \subseteq 1..u.n
  <2>1. complete \subseteq 1..frame
    BY DEF FramesFit
  <2>2. \A m \in complete : m \in 1..u.n
    BY <1>6, <2>1
  <2>3. u.n \in 1..u.n
    BY <1>6
  <2> QED
    BY <1>3, <2>2, <2>3
<1>9. CASE viewer' = "in" /\ held' = R!Newest(held, payload.sets) /\ payload # None
           /\ frames' = R!Log(frames, [n |-> payload.n, slice |-> payload.slice,
                                     held |-> held', current |-> arrived'])
           /\ viewer = "in" /\ R!First \in R!Offered
           /\ (R!Waits /\ frames = <<>> => payload.slice = "idr")
  <2>1. \A k \in R!Sets : payload.sets[k] \in 0..known[k] /\ known[k] \in 0..MaxVersion
    BY <1>1, <1>2, <1>9 DEF R!Versions, R!Absent
  <2>2. MaxVersion \in Nat
    BY MediaAssumption
  <2>3. held' = [k \in R!Sets |-> IF held[k] > payload.sets[k]
                                  THEN held[k] ELSE payload.sets[k]]
    BY <1>9 DEF R!Newest
  <2>4. \A k \in R!Sets : held'[k] \in 0..known[k] /\ held[k] \in 0..known[k]
    BY <1>1, <1>5, <2>1, <2>2, <2>3 DEF R!Versions
  <2>5. held' \in R!Versions
    BY <2>1, <2>2, <2>3, <2>4 DEF R!Versions
  <2>6. FormatFits'
    BY <1>1, <1>4, <2>4, <2>5 DEF FormatFits
  <2>7. payload.sets = known => held' = known
    <3>1. ASSUME payload.sets = known, NEW k \in R!Sets
          PROVE  (IF held[k] > payload.sets[k] THEN held[k] ELSE payload.sets[k]) = known[k]
      BY <2>1, <2>2, <2>4, <3>1
    <3>2. known = [k \in R!Sets |-> known[k]]
      BY <1>1 DEF R!Versions
    <3> QED
      BY <2>3, <3>1, <3>2
  <2>8. PICK e : e = [n |-> payload.n, slice |-> payload.slice, held |-> held',
                      current |-> arrived']
    OBVIOUS
  <2>9. /\ e.n = u.n /\ e.slice = u.slice /\ e.held = held' /\ e.current = known
        /\ e \in R!Shown
    <3>1. held' \in [R!Sets -> Nat] /\ arrived' \in [R!Sets -> Nat]
      BY <1>1, <2>2, <2>5 DEF R!Versions
    <3> QED
      BY <1>1, <1>2, <1>6, <1>9, <2>8, <3>1 DEF R!Shown, R!Units
  <2>10. u.slice = "idr" /\ (\A k \in R!Sets : known[k] # 0) => held' = known
    BY <1>2, <1>9, <2>7
  <2>11. /\ frames' \in Seq(R!Shown) /\ Len(frames') \in 1..2 /\ frames'[Len(frames')] = e
         /\ Len(frames) = 0 => Len(frames') = 1
         /\ Len(frames) > 0 => Len(frames') = 2 /\ frames'[1] = frames[Len(frames)]
    BY <1>9, <2>8, <2>9, LogKeepsTwo DEF FramesFit
  <2>12. ViewerFits'
    BY <1>4, <1>9 DEF ViewerFits
  <2>13. complete' = complete \cup {u.n}
    BY <1>2, <1>3, <1>7, <1>9
  <2>14. FramesFit'
    <3>0. frames \in Seq(R!Shown) /\ Len(frames) \in 0..2
      BY FrameTypes
    <3>1. CASE Len(frames) = 0
      <4>1. Len(frames') = 1 /\ frames'[1] = e /\ DOMAIN frames' = {1} /\ frames = <<>>
        <5>1. Len(frames') = 1 /\ frames'[1] = e
          BY <2>11, <3>1
        <5>2. DOMAIN frames' = 1..Len(frames')
          BY <2>11
        <5> QED
          BY <3>1, <5>1, <5>2, FrameTypes
      <4>2. ASSUME NEW m \in complete' PROVE ~(frames'[1].n < m)
        BY <1>6, <1>8, <2>9, <4>1
      <4> QED
        <5>1. \A i \in DOMAIN frames' : frames'[i] = e
          BY <4>1
        <5>2. /\ \A i \in DOMAIN frames' : frames'[i].n <= u.n
              /\ \A i \in DOMAIN frames' :
                   frames'[i].slice = "idr" /\ (\A k \in R!Sets : frames'[i].current[k] # 0) =>
                     frames'[i].held = frames'[i].current
          BY <1>6, <2>9, <2>10, <5>1
        <5>3. R!Waits' /\ Len(frames') = 1 => frames'[1].slice = "idr"
          BY <1>2, <1>4, <1>9, <2>9, <4>1
        <5> QED
          BY <1>8, <2>11, <4>1, <4>2, <5>2, <5>3 DEF FramesFit
    <3>2. CASE Len(frames) > 0
      <4>1. PICK b : b = frames[Len(frames)]
        OBVIOUS
      <4>2. /\ Len(frames') = 2 /\ frames'[1] = b /\ frames'[2] = e /\ DOMAIN frames' = {1, 2}
            /\ b \in R!Shown /\ b.n <= frame /\ frames # <<>>
        <5>1. Len(frames) \in DOMAIN frames
          BY <3>2, FrameTypes
        <5>2. b \in R!Shown /\ frames # <<>>
          BY <3>2, <4>1, <5>1, FrameTypes
        <5>3. b.n <= frame
          BY <4>1, <5>1 DEF FramesFit
        <5>4. Len(frames') = 2 /\ frames'[1] = b /\ frames'[2] = e
          BY <2>11, <3>2, <4>1
        <5>5. DOMAIN frames' = 1..Len(frames')
          BY <2>11
        <5> QED
          BY <5>2, <5>3, <5>4, <5>5
      <4>3. b.n \in Nat /\ b.n <= u.n
        BY <1>6, <4>2 DEF R!Shown
      <4>4. b.slice = "idr" /\ (\A k \in R!Sets : b.current[k] # 0) => b.held = b.current
        BY <3>0, <3>2, <4>1 DEF FramesFit
      <4>5. ASSUME NEW m \in complete, b.n < m PROVE FALSE
        <5>1. \A i \in DOMAIN frames : frames[i].n \in Nat /\ frames[i].n <= b.n
          <6>1. Len(frames) = 2 => frames[1].n <= frames[2].n
            BY DEF FramesFit
          <6> QED
            BY <3>2, <4>1, <6>1, FrameTypes
        <5>2. frames[1].n < m /\ m \in Nat
          BY <3>0, <3>2, <4>3, <4>5, <5>1 DEF FramesFit
        <5>3. PICK i \in DOMAIN frames : frames[i].n = m
          BY <4>2, <5>2 DEF FramesFit
        <5> QED
          BY <4>3, <4>5, <5>1, <5>2, <5>3
      <4>6. \A m \in complete' : b.n < m => m = e.n
        BY <2>9, <2>13, <4>5
      <4> QED
        BY <1>6, <1>8, <2>9, <2>10, <2>11, <4>2, <4>3, <4>4, <4>6 DEF FramesFit
    <3> QED
      BY <3>0, <3>1, <3>2
  <2> QED
    BY <2>6, <2>12, <2>14
<1>10. CASE UNCHANGED <<frames, held>> /\ (frames # <<>> => u.slice = "none")
            /\ (viewer' = viewer \/ (viewer' = "failed" /\ frames = <<>>))
  <2>1. FormatFits'
    <3>1. \A k \in R!Sets : held[k] \in Nat /\ arrived[k] \in Nat /\ known[k] \in Nat
      BY <1>1, <1>5, MediaAssumption DEF R!Versions
    <3> QED
      BY <1>1, <1>4, <1>5, <1>10, <3>1 DEF FormatFits
  <2>2. ViewerFits'
    BY <1>4, <1>10 DEF ViewerFits
  <2>3. \A i \in DOMAIN frames : frames[i].n \in Nat /\ frames[i].n <= u.n
    BY <1>6, FrameTypes DEF FramesFit
  <2>4. FramesFit'
    BY <1>3, <1>4, <1>8, <1>10, <2>3 DEF FramesFit
  <2> QED
    BY <2>1, <2>2, <2>4
<1>11. CASE \/ viewer # "in" \/ R!First \notin R!Offered \/ payload = None
            \/ R!Waits /\ frames = <<>> /\ payload.slice # "idr"
  <2>1. UNCHANGED <<viewer, frames, held>>
    BY <1>11 DEF R!SendRTMP
  <2>2. frames # <<>> => u.slice = "none"
    BY <1>2, <1>11 DEF ViewerFits
  <2> QED
    BY <1>10, <2>1, <2>2
<1>12. CASE ~(\/ viewer # "in" \/ R!First \notin R!Offered \/ payload = None
              \/ R!Waits /\ frames = <<>> /\ payload.slice # "idr")
  <2>1. CASE R!Waits /\ frames = <<>> /\ payload.sets["sps"] = 0
    <3>1. viewer' = "failed" /\ UNCHANGED <<frames, held>>
      BY <1>12, <2>1 DEF R!SendRTMP
    <3> QED
      BY <1>10, <2>1, <3>1
  <2>2. CASE ~(R!Waits /\ frames = <<>> /\ payload.sets["sps"] = 0)
    <3>1. /\ held' = R!Newest(held, payload.sets)
          /\ frames' = R!Log(frames, [n |-> payload.n, slice |-> payload.slice,
                                    held |-> held', current |-> arrived'])
          /\ viewer' = viewer
      BY <1>12, <2>2 DEF R!SendRTMP
    <3> QED
      BY <1>9, <1>12, <3>1
  <2> QED
    BY <2>1, <2>2
<1> QED
  BY <1>11, <1>12

\* Nothing arrives as a whole.
LEMMA NoArrivalKeeps ==
  ASSUME FormatFits, ViewerFits, FramesFit, frame \in Nat, frame' \in Nat, frame' >= frame,
         UNCHANGED <<relayed, format, arrived, complete, viewer, frames, held>>
  PROVE  FormatFits' /\ ViewerFits' /\ FramesFit'
<1>1. /\ R!Offered' = R!Offered /\ R!First' = R!First /\ (R!WithSets <=> R!WithSets') /\ (R!Waits <=> R!Waits')
  BY DEF R!Offered, R!WithSets, R!Waits, R!Codec, R!Medias, R!First
<1>2. FormatFits' /\ ViewerFits'
  BY <1>1 DEF FormatFits, ViewerFits
<1>3. \A i \in DOMAIN frames : frames[i].n \in Nat
  BY FrameTypes
<1>4. \A i \in DOMAIN frames : frames[i].n <= frame'
  BY <1>3 DEF FramesFit
<1>5. complete \subseteq 1..frame'
  BY DEF FramesFit
<1>6. /\ frames \in Seq(R!Shown) /\ Len(frames) <= 2
      /\ Len(frames) = 2 => frames[1].n <= frames[2].n
      /\ \A i \in DOMAIN frames :
           frames[i].slice = "idr" /\ (\A k \in R!Sets : frames[i].current[k] # 0) =>
             frames[i].held = frames[i].current
      /\ frames # <<>> => \A m \in complete :
           frames[1].n < m => \E i \in DOMAIN frames : frames[i].n = m
  BY Zenon DEF FramesFit
<1>7. R!Waits' /\ Len(frames) = 1 => frames[1].slice = "idr"
  BY <1>1 DEF FramesFit
<1>8. frames' = frames /\ complete' = complete
  OBVIOUS
<1>9. FramesFit'
  BY Zenon, <1>4, <1>5, <1>6, <1>7, <1>8 DEF FramesFit
<1> QED
  BY <1>2, <1>9

-----------------------------------------------------------------------------
(* The RTSP viewer.                                                        *)

\* What PacketsFit says of the types.
LEMMA PacketTypes ==
  ASSUME PacketsFit, packets # None
  PROVE  /\ packets \in Seq(R!Entries) /\ Len(packets) \in 0..2 /\ DOMAIN packets = 1..Len(packets)
         /\ (packets = <<>> <=> Len(packets) = 0)
         /\ \A i \in DOMAIN packets : packets[i] \in R!Entries /\ packets[i].n \in Nat
<1>1. packets \in Seq(R!Entries) /\ Len(packets) <= 2
  BY DEF PacketsFit
<1>2. Len(packets) \in Nat /\ DOMAIN packets = 1..Len(packets)
  BY <1>1
<1>3. \A i \in DOMAIN packets : packets[i] \in R!Entries
  BY <1>1, <1>2
<1>4. \A i \in DOMAIN packets : packets[i].n \in Nat
  BY <1>3 DEF R!Entries
<1>5. packets = <<>> <=> Len(packets) = 0
  BY <1>1
<1> QED
  BY <1>1, <1>2, <1>3, <1>4, <1>5

\* Nothing is sent, and the next number stays.
LEMMA NoSendKeeps ==
  ASSUME PacketsFit, packets' = packets, NextNumber' = NextNumber \/ packets = <<>>,
         frame \in Nat, frame' \in Nat, frame' >= frame
  PROVE  PacketsFit'
<1> SUFFICES ASSUME packets # None PROVE PacketsFit'
  BY DEF PacketsFit
<1>1. \A i \in DOMAIN packets : packets[i].n \in Nat
  BY PacketTypes
<1>2. \A i \in DOMAIN packets : packets[i] # R!Gap => packets[i].n <= frame'
  BY <1>1 DEF PacketsFit
<1> QED
  BY <1>2 DEF PacketsFit

\* An entry is added to the log.
LEMMA EntryKeeps ==
  ASSUME PacketsFit, packets # None, NEW e \in R!Entries,
         packets' = R!Log(packets, e), frame \in Nat, frame' \in Nat, frame' >= frame,
         e # R!Gap => /\ e.n = frame' /\ e.ts = R!Wrap(Width - 1 + e.n)
                    /\ e.first = NextNumber /\ NextNumber' = R!Wrap(e.last + 1)
  PROVE  PacketsFit'
<1>1. /\ packets' \in Seq(R!Entries) /\ Len(packets') \in 1..2 /\ packets'[Len(packets')] = e
      /\ Len(packets) = 0 => Len(packets') = 1
      /\ Len(packets) > 0 => Len(packets') = 2 /\ packets'[1] = packets[Len(packets)]
  BY PacketTypes, LogKeepsTwo
<1>2. DOMAIN packets' = 1..Len(packets')
  BY <1>1
<1>3. e # R!Gap => e.n <= frame'
  OBVIOUS
<1>4. CASE Len(packets) = 0
  <2>1. Len(packets') = 1 /\ packets'[1] = e
    BY <1>1, <1>4
  <2>2. \A i \in DOMAIN packets' : packets'[i] = e
    BY <1>2, <2>1
  <2> QED
    BY <1>1, <1>3, <2>1, <2>2 DEF PacketsFit
<1>5. CASE Len(packets) > 0
  <2>1. PICK b : b = packets[Len(packets)]
    OBVIOUS
  <2>2. Len(packets) \in DOMAIN packets /\ packets # <<>>
    BY <1>5, PacketTypes
  <2>3. b.n \in Nat
    BY <2>1, <2>2, PacketTypes
  <2>4. b # R!Gap => /\ b.n <= frame /\ b.ts = R!Wrap(Width - 1 + b.n)
                   /\ NextNumber = R!Wrap(b.last + 1)
    BY <2>1, <2>2 DEF PacketsFit
  <2>5. Len(packets') = 2 /\ packets'[1] = b /\ packets'[2] = e
    BY <1>1, <1>5, <2>1
  <2>6. \A i \in DOMAIN packets' : packets'[i] = b \/ packets'[i] = e
    BY <1>2, <2>5
  <2>7. b # R!Gap => b.n <= frame' /\ b.ts = R!Wrap(Width - 1 + b.n)
    BY <2>3, <2>4
  <2>8. \A i \in DOMAIN packets' : packets'[i] # R!Gap =>
           packets'[i].n <= frame' /\ packets'[i].ts = R!Wrap(Width - 1 + packets'[i].n)
    BY <1>3, <2>6, <2>7
  <2>9. b # R!Gap /\ e # R!Gap => e.first = R!Wrap(b.last + 1) /\ e.n >= b.n
    BY <2>3, <2>4
  <2> QED
    BY <1>1, <2>5, <2>8, <2>9 DEF PacketsFit
<1>6. Len(packets) \in 0..2
  BY PacketTypes
<1> QED
  BY <1>4, <1>5, <1>6

\* Packets are sent with the next number.
LEMMA SendKeeps ==
  ASSUME PacketsFit, NEW u \in R!Units, NEW count \in {1, 2},
         NEW first \in Nat, first = NextNumber, NEW shift \in Nat,
         R!Wrap(shift + u.n) = R!Wrap(Width - 1 + u.n),
         R!SendRTSP(R!Packets(first, count, u, shift)), NextNumber' = R!Wrap(first + count),
         frame \in Nat, frame' = u.n, u.n >= frame
  PROVE  PacketsFit'
<1>1. PICK e : e = R!Packets(first, count, u, shift)
  OBVIOUS
<1>2. u.n \in Nat /\ Width \in Nat \ {0}
  BY MediaAssumption DEF R!Units
<1>3. PICK last : last = R!Wrap(first + count - 1)
  OBVIOUS
<1>4. first + count - 1 \in Nat /\ first + count - 1 + 1 = first + count
  OBVIOUS
<1>5. last \in Nat /\ R!Wrap(last + 1) = R!Wrap(first + count)
  <2>1. last \in 0..(Width - 1)
    BY <1>2, <1>3, <1>4, WrapRange
  <2>2. PICK a \in Nat : a = first + count - 1
    BY <1>4
  <2>3. R!Wrap(R!Wrap(a) + 1) = R!Wrap(a + 1)
    BY <1>2, WrapPlus
  <2>4. a + 1 = first + count
    BY <1>4, <2>2
  <2> QED
    BY <1>2, <1>3, <2>1, <2>2, <2>3, <2>4
<1>6. R!Wrap(shift + u.n) \in Nat
  <2>1. shift + u.n \in Nat
    BY <1>2
  <2> QED
    BY <1>2, <2>1, WrapRange
<1>7. e = [first |-> first, last |-> last, n |-> u.n, ts |-> R!Wrap(shift + u.n), count |-> count]
  BY <1>1, <1>3 DEF R!Packets
<1>8. /\ e \in R!Entries /\ e.n = u.n /\ e.ts = R!Wrap(Width - 1 + e.n) /\ e.first = first
      /\ e.last = last
  BY <1>2, <1>5, <1>6, <1>7 DEF R!Entries
<1>9. e # None
  BY <1>8, MediaAssumption
<1>10. CASE packets = None
  BY <1>1, <1>10 DEF R!SendRTSP, PacketsFit
<1>11. CASE packets # None
  <2>1. packets' = R!Log(packets, e)
    BY <1>1, <1>9, <1>11 DEF R!SendRTSP
  <2> QED
    BY <1>2, <1>5, <1>8, <1>11, <2>1, EntryKeeps
<1> QED
  BY <1>10, <1>11

\* A packet of the publisher is missing.
LEMMA SkipKeeps ==
  ASSUME PacketsFit, R!SkipRTSP, frame \in Nat, frame' \in Nat, frame' >= frame
  PROVE  PacketsFit'
<1>1. R!Gap \in R!Entries
  BY DEF R!Gap, R!Entries
<1>2. CASE packets = None \/ packets = <<>>
  <2>1. packets' = packets
    BY <1>2 DEF R!SkipRTSP
  <2> QED
    BY <1>2, <2>1, NoSendKeeps DEF PacketsFit
<1>3. CASE packets # None /\ packets # <<>> /\ R!Last(packets) = R!Gap
  <2>1. packets' = packets /\ packets[Len(packets)] = R!Gap
    BY <1>3 DEF R!SkipRTSP, R!Last
  <2>2. \A i \in DOMAIN packets : packets[i].n \in Nat
    BY <1>3, PacketTypes
  <2>3. \A i \in DOMAIN packets : packets[i] # R!Gap => packets[i].n <= frame'
    BY <1>3, <2>2 DEF PacketsFit
  <2> QED
    BY <1>3, <2>1, <2>3 DEF PacketsFit
<1>4. CASE packets # None /\ packets # <<>> /\ R!Last(packets) # R!Gap
  <2>1. packets' = R!Log(packets, R!Gap)
    BY <1>4 DEF R!SkipRTSP
  <2> QED
    BY <1>1, <1>4, <2>1, EntryKeeps
<1> QED
  BY <1>2, <1>3, <1>4

-----------------------------------------------------------------------------
(* The steps.                                                              *)

\* What the publisher may send next.
LEMMA NextUnitFits ==
  ASSUME FormatFits, FlightFits, NEW u \in R!NextUnits
  PROVE  UnitFits(u) /\ u.n = frame + 1
<1>1. frame \in Nat /\ MaxVersion \in Nat \ {0} /\ arrived \in [R!Sets -> 0..MaxVersion]
  BY MediaAssumption DEF FormatFits, FlightFits, R!Versions
<1>2. CASE R!WithSets
  <2>1. PICK kind \in ({"idr", "none"} \X R!Renewals) \cup ({"idr", "nonidr"} \X {{}}) :
          u = [n |-> frame + 1, slice |-> kind[1], sets |-> R!Renewed(kind[2])]
    BY <1>2 DEF R!NextUnits
  <2>2. kind[1] \in {"idr", "nonidr", "none"}
    OBVIOUS
  <2>3. PICK sets : sets = R!Renewed(kind[2])
    OBVIOUS
  <2>4. /\ sets \in [R!Sets -> Nat]
        /\ \A k \in R!Sets : sets[k] = 0 \/ sets[k] \in arrived[k]..MaxVersion
    BY <1>1, <2>3 DEF R!Renewed
  <2>5. u = [n |-> frame + 1, slice |-> kind[1], sets |-> sets]
    BY <2>1, <2>3
  <2> QED
    BY <1>1, <1>2, <2>2, <2>4, <2>5 DEF UnitFits, R!Units
<1>3. CASE ~R!WithSets
  <2>1. u = [n |-> frame + 1, slice |-> "idr", sets |-> R!Absent]
    BY <1>3 DEF R!NextUnits
  <2>2. R!Absent \in [R!Sets -> Nat] /\ \A k \in R!Sets : R!Absent[k] = 0
    BY DEF R!Absent
  <2> QED
    BY <1>1, <1>3, <2>1, <2>2 DEF UnitFits, R!Units
<1> QED
  BY <1>2, <1>3

\* A whole frame of a publisher that does not send packets.
LEMMA FrameKeeps == ASSUME RelayInv, R!SendFrame PROVE RelayInv'
<1>1. PICK u \in R!NextUnits : R!WriteFrame(u)
  BY DEF R!SendFrame
<1>2. /\ ~R!SendsPackets /\ frame < MaxFrames /\ frame' = frame + 1
      /\ UNCHANGED <<relayed, inFlight, nextSeq, lost, ntpStat>>
  BY DEF R!SendFrame
<1>3. FormatFits /\ FlightFits /\ ViewerFits /\ FramesFit /\ EncoderFits /\ PacketsFit
  BY DEF RelayInv
<1>4. UnitFits(u) /\ u.n = frame + 1 /\ u \in R!Units
  BY <1>1, <1>3, NextUnitFits DEF UnitFits
<1>5. /\ frame \in Nat /\ frame' = u.n /\ u.n >= frame /\ u.n > 0 /\ frame' \in Nat
      /\ frame' \in 0..MaxFrames
  BY <1>2, <1>3, <1>4, MediaAssumption DEF FlightFits
<1>6. PICK known : known = IF R!WithSets THEN R!UpdateFormat(format, u) ELSE format
  OBVIOUS
<1>7. PICK payload \in {R!Remux(known, u)}, count \in {1, 2} :
        /\ format' = known
        /\ R!Arrives(u)
        /\ R!SendRTMP(payload)
        /\ IF payload = None \/ R!Codec = "FLAC"
           THEN R!SendRTSP(None) /\ UNCHANGED encoder
           ELSE /\ R!SendRTSP(R!Packets(encoder.seq, count, u, encoder.offset))
                /\ encoder' = [encoder EXCEPT !.seq = R!Wrap(@ + count)]
  BY <1>1, <1>6, Zenon DEF R!WriteFrame
<1>8. FormatFits' /\ ViewerFits' /\ FramesFit'
  BY <1>2, <1>3, <1>4, <1>5, <1>6, <1>7, ArrivalKeeps
<1>9. inFlight' = None
  BY <1>2, <1>3 DEF FlightFits
<1>10. FlightFits'
  BY <1>2, <1>3, <1>5, <1>9 DEF FlightFits
<1>11. encoder \in R!Encoders /\ encoder # None /\ encoder.offset = Width - 1
       /\ NextNumber = encoder.seq /\ encoder.seq \in Nat /\ Width \in Nat \ {0}
  BY <1>2, <1>3, MediaAssumption DEF EncoderFits, NextNumber, R!Encoders
<1>12. R!SendsPackets' = R!SendsPackets
  BY <1>2 DEF R!SendsPackets
<1>13. CASE payload = None \/ R!Codec = "FLAC"
  <2>1. packets' = packets /\ encoder' = encoder
    BY <1>7, <1>13 DEF R!SendRTSP
  <2>2. EncoderFits'
    BY <1>3, <1>12, <2>1 DEF EncoderFits
  <2>3. NextNumber' = NextNumber
    BY <1>2, <2>1 DEF NextNumber
  <2>4. PacketsFit'
    BY <1>3, <1>5, <2>1, <2>3, NoSendKeeps
  <2> QED
    BY <1>8, <1>10, <2>2, <2>4 DEF RelayInv
<1>14. CASE ~(payload = None \/ R!Codec = "FLAC")
  <2>1. /\ R!SendRTSP(R!Packets(encoder.seq, count, u, encoder.offset))
        /\ encoder' = [encoder EXCEPT !.seq = R!Wrap(@ + count)]
    BY <1>7, <1>14
  <2>2. R!Wrap(encoder.seq + count) \in Nat
    <3>1. encoder.seq + count \in Nat
      BY <1>11
    <3> QED
      BY <1>11, <3>1, WrapRange
  <2>3. /\ encoder' \in R!Encoders /\ encoder'.offset = Width - 1
        /\ encoder'.seq = R!Wrap(encoder.seq + count)
    BY <1>11, <2>1, <2>2 DEF R!Encoders
  <2>4. encoder' # None
    BY <2>3, MediaAssumption
  <2>5. EncoderFits'
    BY <2>3, <2>4 DEF EncoderFits
  <2>6. NextNumber' = R!Wrap(encoder.seq + count)
    BY <2>3, <2>4 DEF NextNumber
  <2>7. Width - 1 \in Nat
    BY <1>11
  <2>8. PacketsFit'
    BY <1>3, <1>4, <1>5, <1>11, <2>1, <2>6, <2>7, SendKeeps
  <2> QED
    BY <1>8, <1>10, <2>5, <2>8 DEF RelayInv
<1> QED
  BY <1>13, <1>14

\* A packet that is written to the stream.
LEMMA PacketKeeps ==
  ASSUME RelayInv, R!SendsPackets, NEW u, UnitFits(u), NEW p,
         p.unit = u, p.seq = nextSeq, p.ts = R!Wrap(Width - 1 + u.n),
         p.part \in {"whole", "first", "last"}, p.big \in BOOLEAN,
         R!WritePacket(p), relayed' = relayed, frame' = u.n, u.n >= frame, u.n > 0,
         nextSeq' = R!Wrap(nextSeq + 1)
  PROVE  /\ FormatFits' /\ ViewerFits' /\ FramesFit' /\ EncoderFits' /\ PacketsFit'
         /\ p.part = "first" => arrived' = arrived
<1>1. FormatFits /\ FlightFits /\ ViewerFits /\ FramesFit /\ EncoderFits /\ PacketsFit
  BY DEF RelayInv
<1>2. /\ frame \in Nat /\ u \in R!Units /\ u.n \in Nat /\ frame' \in Nat /\ nextSeq \in Nat
      /\ Width \in Nat \ {0}
  BY <1>1, MediaAssumption DEF FlightFits, UnitFits, R!Units
<1>3. PICK decoded, enc, count :
        /\ decoded = R!Decode(p) /\ enc = R!EncoderFor(p)
        /\ count = IF p.big \/ p.part # "whole" THEN 2 ELSE 1
        /\ IF decoded.error \/ (p.big /\ R!Codec \notin R!Encodable)
           THEN R!SkipRTSP /\ UNCHANGED <<format, arrived, complete, encoder,
                                           viewer, frames, held>>
           ELSE IF decoded.payload = None
           THEN /\ encoder' = enc
                /\ R!SendRTSP(IF enc = None THEN
                                 R!Packets(p.seq, 1, p.unit, p.ts + Width - R!Wrap(p.unit.n))
                            ELSE None)
                /\ UNCHANGED <<format, arrived, complete, viewer, frames, held>>
           ELSE \E known \in {IF R!WithSets THEN R!UpdateFormat(format, p.unit) ELSE format} :
                \E payload \in {R!Remux(known, p.unit)} :
                  /\ format' = known
                  /\ R!Arrives(p.unit)
                  /\ R!SendRTMP(payload)
                  /\ IF enc = None
                     THEN /\ R!SendRTSP(R!Packets(p.seq, 1,
                                                  p.unit, p.ts + Width - R!Wrap(p.unit.n)))
                          /\ UNCHANGED encoder
                     ELSE IF payload = None
                     THEN R!SendRTSP(None) /\ encoder' = enc
                     ELSE /\ R!SendRTSP(R!Packets(enc.seq, count, p.unit, enc.offset))
                          /\ encoder' = [enc EXCEPT !.seq = R!Wrap(@ + count)]
  BY DEF R!WritePacket
<1>4. p.part = "first" => decoded.payload = None
  BY <1>3 DEF R!Decode
<1>5. PICK shift : shift = p.ts + Width - R!Wrap(u.n)
  OBVIOUS
<1>6. shift \in Nat /\ R!Wrap(shift) = Width - 1 /\ R!Wrap(shift + u.n) = R!Wrap(Width - 1 + u.n)
  <2>1. R!Wrap(u.n) \in 0..(Width - 1) /\ Width - 1 + u.n \in Nat
    BY <1>2, WrapRange
  <2>2. p.ts \in 0..(Width - 1)
    BY <1>2, <2>1, WrapRange
  <2>3. shift \in Nat
    BY <1>2, <1>5, <2>1, <2>2
  <2>4. R!Wrap(shift) = Width - 1
    BY <1>2, <1>5, WrapOffset
  <2>5. R!Wrap(R!Wrap(shift) + u.n) = R!Wrap(shift + u.n)
    BY <1>2, <2>3, WrapPlus
  <2> QED
    BY <2>3, <2>4, <2>5
<1>7. R!SendsPackets' = R!SendsPackets
  BY DEF R!SendsPackets
<1>8. /\ enc = None => encoder = None /\ NextNumber = nextSeq
      /\ enc # None => /\ enc \in R!Encoders /\ enc.offset = Width - 1
                       /\ enc.seq = NextNumber /\ enc.seq \in Nat
  <2>1. CASE encoder = None /\ p.big
    <3>1. enc = [seq |-> nextSeq, offset |-> Width - 1]
      BY <1>3, <1>5, <1>6, <2>1 DEF R!EncoderFor
    <3>2. enc \in R!Encoders /\ enc.offset = Width - 1 /\ enc.seq = nextSeq
      BY <1>2, <3>1 DEF R!Encoders
    <3>3. enc # None
      BY <3>2, MediaAssumption
    <3> QED
      BY <1>2, <2>1, <3>2, <3>3 DEF NextNumber
  <2>2. CASE ~(encoder = None /\ p.big)
    <3>1. enc = encoder
      BY <1>3, <2>2 DEF R!EncoderFor
    <3>2. encoder # None => encoder \in R!Encoders /\ encoder.offset = Width - 1
      BY <1>1 DEF EncoderFits
    <3>3. encoder # None => encoder.seq \in Nat
      BY <3>2 DEF R!Encoders
    <3> QED
      BY <3>1, <3>2, <3>3 DEF NextNumber
  <2> QED
    BY <2>1, <2>2
<1>9. ASSUME enc = None, encoder' = encoder,
             R!SendRTSP(R!Packets(p.seq, 1, p.unit, p.ts + Width - R!Wrap(p.unit.n)))
      PROVE  EncoderFits' /\ PacketsFit'
  <2>1. EncoderFits'
    BY <1>1, <1>7, <1>9 DEF EncoderFits
  <2>2. NextNumber' = R!Wrap(nextSeq + 1) /\ NextNumber = nextSeq
    BY <1>8, <1>9 DEF NextNumber
  <2>3. R!SendRTSP(R!Packets(nextSeq, 1, u, shift))
    BY <1>5, <1>9
  <2>4. PacketsFit'
    BY <1>1, <1>2, <1>6, <2>2, <2>3, SendKeeps
  <2> QED
    BY <2>1, <2>4
<1>10. ASSUME enc # None, encoder' = enc, R!SendRTSP(None) PROVE EncoderFits' /\ PacketsFit'
  <2>1. EncoderFits'
    BY <1>8, <1>10 DEF EncoderFits
  <2>2. NextNumber' = NextNumber /\ packets' = packets
    BY <1>8, <1>10 DEF NextNumber, R!SendRTSP
  <2> QED
    BY <1>1, <1>2, <2>1, <2>2, NoSendKeeps
<1>11. CASE decoded.error \/ (p.big /\ R!Codec \notin R!Encodable)
  <2>1. R!SkipRTSP /\ UNCHANGED <<format, arrived, complete, encoder,
                                           viewer, frames, held>>
    BY <1>3, <1>11
  <2>2. FormatFits' /\ ViewerFits' /\ FramesFit'
    BY <1>1, <1>2, <2>1, NoArrivalKeeps
  <2>3. EncoderFits'
    BY <1>1, <1>7, <2>1 DEF EncoderFits
  <2> QED
    BY <1>1, <1>2, <2>1, <2>2, <2>3, SkipKeeps
<1>12. CASE ~(decoded.error \/ (p.big /\ R!Codec \notin R!Encodable)) /\ decoded.payload = None
  <2>1. /\ encoder' = enc
        /\ R!SendRTSP(IF enc = None THEN
                         R!Packets(p.seq, 1, p.unit, p.ts + Width - R!Wrap(p.unit.n))
                    ELSE None)
        /\ UNCHANGED <<format, arrived, complete, viewer, frames, held>>
    BY <1>3, <1>12
  <2>2. FormatFits' /\ ViewerFits' /\ FramesFit'
    BY <1>1, <1>2, <2>1, NoArrivalKeeps
  <2>3. EncoderFits' /\ PacketsFit'
    BY <1>8, <1>9, <1>10, <2>1
  <2> QED
    BY <2>1, <2>2, <2>3
<1>13. CASE ~(decoded.error \/ (p.big /\ R!Codec \notin R!Encodable)) /\ decoded.payload # None
  <2>1. PICK known, payload :
          /\ known = IF R!WithSets THEN R!UpdateFormat(format, u) ELSE format
          /\ payload = R!Remux(known, u)
          /\ format' = known
          /\ R!Arrives(u)
          /\ R!SendRTMP(payload)
          /\ IF enc = None
             THEN /\ R!SendRTSP(R!Packets(p.seq, 1,
                                          p.unit, p.ts + Width - R!Wrap(p.unit.n)))
                  /\ UNCHANGED encoder
             ELSE IF payload = None
             THEN R!SendRTSP(None) /\ encoder' = enc
             ELSE /\ R!SendRTSP(R!Packets(enc.seq, count, u, enc.offset))
                  /\ encoder' = [enc EXCEPT !.seq = R!Wrap(@ + count)]
    BY <1>3, <1>13
  <2>2. FormatFits' /\ ViewerFits' /\ FramesFit'
    BY <1>1, <1>2, <2>1, ArrivalKeeps
  <2>3. CASE enc = None
    BY <1>4, <1>9, <1>13, <2>1, <2>2, <2>3
  <2>4. CASE enc # None /\ payload = None
    BY <1>4, <1>10, <1>13, <2>1, <2>2, <2>4
  <2>5. CASE enc # None /\ payload # None
    <3>1. /\ R!SendRTSP(R!Packets(enc.seq, count, u, enc.offset))
          /\ encoder' = [enc EXCEPT !.seq = R!Wrap(@ + count)] /\ count \in {1, 2}
      BY <1>3, <2>1, <2>5
    <3>2. R!Wrap(enc.seq + count) \in Nat
      <4>1. enc.seq + count \in Nat
        BY <1>8, <2>5, <3>1
      <4> QED
        BY <1>2, <4>1, WrapRange
    <3>3. /\ encoder' \in R!Encoders /\ encoder'.offset = Width - 1
          /\ encoder'.seq = R!Wrap(enc.seq + count)
      BY <1>8, <2>5, <3>1, <3>2 DEF R!Encoders
    <3>4. encoder' # None
      BY <3>3, MediaAssumption
    <3>5. EncoderFits'
      BY <3>3, <3>4 DEF EncoderFits
    <3>6. NextNumber' = R!Wrap(enc.seq + count)
      BY <3>3, <3>4 DEF NextNumber
    <3>7. Width - 1 \in Nat
      BY <1>2
    <3>8. PacketsFit'
      BY <1>1, <1>2, <1>8, <2>5, <3>1, <3>6, <3>7, SendKeeps
    <3> QED
      BY <1>4, <1>13, <2>2, <3>5, <3>8
  <2> QED
    BY <2>3, <2>4, <2>5
<1> QED
  BY <1>11, <1>12, <1>13

\* A packet of the publisher, that arrives or is lost.
LEMMA SendPacketKeeps == ASSUME RelayInv, R!SendPacket PROVE RelayInv'
<1>1. FormatFits /\ FlightFits /\ ViewerFits /\ FramesFit /\ EncoderFits /\ PacketsFit
  BY DEF RelayInv
<1>0. PICK u \in IF inFlight = None THEN R!NextUnits ELSE {inFlight},
           part \in IF inFlight = None THEN {"whole", "first"} ELSE {"last"},
           big \in BOOLEAN, dated \in BOOLEAN, arrives \in BOOLEAN :
       \E p \in {[seq |-> nextSeq, ts |-> R!Wrap(Width - 1 + u.n), unit |-> u,
                     part |-> part, big |-> big, dated |-> dated]} :
        /\ dated \/ ntpStat = "initial"
        /\ frame' = u.n
        /\ inFlight' = IF part = "first" THEN u ELSE None
        /\ nextSeq' = R!Wrap(nextSeq + 1)
        /\ IF arrives THEN R!OnPacketRTP(p) /\ UNCHANGED lost
           ELSE /\ lost < MaxLost /\ ~big /\ dated
                /\ lost' = lost + 1
                /\ R!SkipRTSP
                /\ UNCHANGED <<ntpStat, arrived, complete, format, buffer, encoder,
                               viewer, frames, held>>
  BY DEF R!SendPacket
<1>2. PICK p :
        /\ p = [seq |-> nextSeq, ts |-> R!Wrap(Width - 1 + u.n), unit |-> u,
                part |-> part, big |-> big, dated |-> dated]
        /\ dated \/ ntpStat = "initial"
        /\ frame' = u.n
        /\ inFlight' = IF part = "first" THEN u ELSE None
        /\ nextSeq' = R!Wrap(nextSeq + 1)
        /\ IF arrives THEN R!OnPacketRTP(p) /\ UNCHANGED lost
           ELSE /\ lost < MaxLost /\ ~big /\ dated
                /\ lost' = lost + 1
                /\ R!SkipRTSP
                /\ UNCHANGED <<ntpStat, arrived, complete, format, buffer, encoder,
                               viewer, frames, held>>
  BY <1>0
<1>3. R!SendsPackets /\ relayed' = relayed /\ (inFlight = None => frame < MaxFrames)
  BY DEF R!SendPacket
<1>4. /\ frame \in Nat /\ nextSeq \in Nat /\ Width \in Nat \ {0} /\ MaxFrames \in Nat
      /\ frame \in 0..MaxFrames
  BY <1>1, MediaAssumption DEF FlightFits
<1>5. UnitFits(u) /\ u.n >= frame /\ u.n > 0 /\ u.n \in 0..MaxFrames
  <2>1. CASE inFlight = None
    BY <1>1, <1>2, <1>3, <1>4, <2>1, NextUnitFits
  <2>2. CASE inFlight # None
    BY <1>1, <1>2, <1>4, <2>2 DEF FlightFits
  <2> QED
    BY <2>1, <2>2
<1>6. nextSeq' \in 0..(Width - 1)
  <2>1. nextSeq + 1 \in Nat
    BY <1>4
  <2> QED
    BY <1>2, <1>4, <2>1, WrapRange
<1>7. part \in {"whole", "first", "last"}
  BY <1>0
<1>8. R!SendsPackets' = R!SendsPackets /\ (R!WithSets <=> R!WithSets')
  BY <1>3 DEF R!SendsPackets, R!WithSets, R!Codec, R!Medias, R!First
<1>9. ASSUME part = "first" => arrived' = arrived PROVE FlightFits'
  <2>1. part = "first" => UnitFits(u)'
    BY <1>5, <1>8, <1>9 DEF UnitFits
  <2> QED
    BY <1>2, <1>3, <1>5, <1>6, <1>8, <2>1 DEF FlightFits
<1>10. ASSUME R!SkipRTSP,
              UNCHANGED <<arrived, complete, format, encoder, viewer, frames, held>>
       PROVE  RelayInv'
  <2>1. FormatFits' /\ ViewerFits' /\ FramesFit'
    BY <1>1, <1>2, <1>3, <1>4, <1>5, <1>10, NoArrivalKeeps
  <2>2. EncoderFits'
    BY <1>1, <1>8, <1>10 DEF EncoderFits
  <2>3. PacketsFit'
    BY <1>1, <1>2, <1>4, <1>5, <1>10, SkipKeeps
  <2> QED
    BY <1>9, <1>10, <2>1, <2>2, <2>3 DEF RelayInv
<1>11. CASE ~arrives
  BY <1>2, <1>10, <1>11
<1>12. CASE arrives /\ ~R!Stamped(p)
  BY <1>2, <1>10, <1>12 DEF R!OnPacketRTP
<1>13. CASE arrives /\ R!Stamped(p)
  <2>1. R!WritePacket(p)
    BY <1>2, <1>13 DEF R!OnPacketRTP
  <2>2. /\ p.unit = u /\ p.seq = nextSeq /\ p.ts = R!Wrap(Width - 1 + u.n)
        /\ p.part = part /\ p.big \in BOOLEAN
    BY <1>2
  <2>3. /\ FormatFits' /\ ViewerFits' /\ FramesFit' /\ EncoderFits' /\ PacketsFit'
        /\ p.part = "first" => arrived' = arrived
    BY <1>2, <1>3, <1>5, <1>7, <2>1, <2>2, PacketKeeps
  <2> QED
    BY <1>9, <2>2, <2>3 DEF RelayInv
<1> QED
  BY <1>11, <1>12, <1>13

\* A viewer joins.
LEMMA JoinKeeps ==
  ASSUME RelayInv, R!JoinRTSP \/ R!PrepareRTMP \/ R!AddReader PROVE RelayInv'
<1>1. FormatFits /\ FlightFits /\ ViewerFits /\ FramesFit /\ EncoderFits /\ PacketsFit
  BY DEF RelayInv
<1>2. UNCHANGED <<relayed, frame, inFlight, nextSeq, lost, ntpStat, arrived, complete,
                  format, buffer, encoder, frames>>
  BY DEF R!JoinRTSP, R!PrepareRTMP, R!AddReader
<1>3. /\ R!Offered' = R!Offered /\ R!First' = R!First /\ (R!WithSets <=> R!WithSets') /\ (R!Waits <=> R!Waits')
      /\ R!SendsPackets' = R!SendsPackets /\ NextNumber' = NextNumber
  BY <1>2 DEF R!Offered, R!WithSets, R!Waits, R!Codec, R!Medias, R!First,
     R!SendsPackets, NextNumber
<1>4. FlightFits'
  BY <1>1, <1>2, <1>3 DEF FlightFits, UnitFits
<1>5. FramesFit' /\ EncoderFits'
  BY <1>1, <1>2, <1>3 DEF FramesFit, EncoderFits
<1>6. FormatFits'
  <2>1. held' = held \/ held' = format
    BY DEF R!JoinRTSP, R!PrepareRTMP, R!AddReader
  <2>2. \A k \in R!Sets : format[k] \in Nat
    BY <1>1 DEF FormatFits, R!Versions
  <2> QED
    BY <1>1, <1>2, <1>3, <2>1, <2>2 DEF FormatFits
<1>7. ViewerFits'
  BY <1>1, <1>2, <1>3 DEF ViewerFits, R!JoinRTSP, R!PrepareRTMP, R!AddReader
<1>8. PacketsFit'
  <2>1. CASE R!JoinRTSP
    <3>1. packets' = <<>>
      BY <2>1 DEF R!JoinRTSP
    <3> QED
      BY <3>1 DEF PacketsFit
  <2>2. CASE packets' = packets
    BY <1>1, <1>2, <1>3, <2>2 DEF PacketsFit
  <2> QED
    BY <2>1, <2>2 DEF R!PrepareRTMP, R!AddReader
<1> QED
  BY <1>4, <1>5, <1>6, <1>7, <1>8 DEF RelayInv

\* The invariant holds at the start.
LEMMA RelayInit == ASSUME R!Init PROVE RelayInv
<1>0. Width - 1 \in 0..(Width - 1) /\ Width - 1 \in Nat /\ MaxVersion \in Nat \ {0}
      /\ MaxFrames \in Nat
  BY MediaAssumption
<1>1. FormatFits
  <2>1. R!Absent \in R!Versions /\ [k \in R!Sets |-> 1] \in R!Versions
    BY <1>0 DEF R!Absent, R!Versions
  <2>2. \A k \in R!Sets : R!Absent[k] = 0
    BY DEF R!Absent
  <2> QED
    BY <2>1, <2>2 DEF R!Init, FormatFits, R!Absent
<1>2. FlightFits
  BY <1>0 DEF R!Init, FlightFits
<1>3. ViewerFits
  BY DEF R!Init, ViewerFits
<1>4. FramesFit
  BY DEF R!Init, FramesFit
<1>5. EncoderFits
  <2>1. [seq |-> Width - 1, offset |-> Width - 1] \in R!Encoders
    BY <1>0 DEF R!Encoders
  <2>2. [seq |-> Width - 1, offset |-> Width - 1] # None
    BY <2>1, MediaAssumption
  <2> QED
    BY <2>1, <2>2 DEF R!Init, EncoderFits
<1>6. PacketsFit
  BY DEF R!Init, PacketsFit
<1> QED
  BY <1>1, <1>2, <1>3, <1>4, <1>5, <1>6 DEF RelayInv

\* Each step keeps it.
LEMMA RelayStep == ASSUME RelayInv, [R!Next]_(R!vars) PROVE RelayInv'
<1>1. CASE UNCHANGED R!vars
  BY <1>1 DEF R!vars, RelayInv, FormatFits, FlightFits, ViewerFits, FramesFit,
     EncoderFits, PacketsFit, UnitFits, NextNumber, R!WithSets, R!Waits,
     R!Codec, R!Medias, R!First, R!Offered, R!SendsPackets
<1> QED
  BY <1>1, FrameKeeps, SendPacketKeeps, JoinKeeps DEF R!Next

\* It says what the viewers are sent.
LEMMA RelayImplies == RelayInv => R!PacketsGoOn /\ R!FramesAreDecodable
<1> SUFFICES ASSUME RelayInv PROVE R!PacketsGoOn /\ R!FramesAreDecodable
  OBVIOUS
<1>1. FramesFit /\ PacketsFit
  BY DEF RelayInv
<1>2. ASSUME packets # None
      PROVE  /\ \A i \in DOMAIN packets :
                  packets[i] # R!Gap => packets[i].ts = R!Wrap(Width - 1 + packets[i].n)
             /\ Len(packets) = 2 /\ R!Gap \notin R!Range(packets) =>
                  /\ packets[2].first = R!Wrap(packets[1].last + 1)
                  /\ packets[2].n >= packets[1].n
  <2>1. DOMAIN packets = 1..Len(packets)
    BY <1>1, <1>2, PacketTypes
  <2>2. Len(packets) = 2 /\ R!Gap \notin R!Range(packets) =>
          packets[1] # R!Gap /\ packets[2] # R!Gap
    BY <2>1 DEF R!Range
  <2> QED
    BY <1>1, <1>2, <2>2 DEF PacketsFit
<1>3. R!PacketsGoOn
  BY <1>2 DEF R!PacketsGoOn
<1>4. ASSUME frames # <<>>, NEW m \in complete, frames[1].n < m
      PROVE  m \in {f.n : f \in R!Range(frames)}
  <2>1. PICK i \in DOMAIN frames : frames[i].n = m
    BY <1>1, <1>4 DEF FramesFit
  <2>2. frames[i] \in R!Range(frames)
    BY <2>1 DEF R!Range
  <2> QED
    BY <2>1, <2>2
<1>5. /\ \A i \in DOMAIN frames :
           frames[i].slice = "idr" /\ (\A k \in R!Sets : frames[i].current[k] # 0) =>
             frames[i].held = frames[i].current
      /\ R!Waits /\ Len(frames) = 1 => frames[1].slice = "idr"
  BY <1>1 DEF FramesFit
<1>6. R!FramesAreDecodable
  BY <1>4, <1>5 DEF R!FramesAreDecodable
<1> QED
  BY <1>3, <1>6

\* The rest of the types.
RelayTypes ==
  /\ relayed \in RelayCases /\ lost \in 0..MaxLost
  /\ ntpStat \in {"initial", "available", "replace"}

LEMMA RelayTypesInit == R!Init => RelayTypes
BY MediaAssumption DEF R!Init, RelayTypes

LEMMA RelayTypesStep == RelayTypes /\ [R!Next]_(R!vars) => RelayTypes'
<1> SUFFICES ASSUME RelayTypes, [R!Next]_(R!vars) PROVE RelayTypes'
  OBVIOUS
<1>1. CASE R!SendFrame
  BY <1>1 DEF R!SendFrame, RelayTypes
<1>2. CASE R!SendPacket
  <2>1. relayed' = relayed
    BY <1>2 DEF R!SendPacket
  <2>2. lost' = lost \/ (lost < MaxLost /\ lost' = lost + 1)
    BY <1>2 DEF R!SendPacket
  <2>3. ntpStat' = ntpStat \/ ntpStat' = "available"
    BY <1>2 DEF R!SendPacket, R!OnPacketRTP
  <2> QED
    BY <2>1, <2>2, <2>3, MediaAssumption DEF RelayTypes
<1>3. CASE R!JoinRTSP \/ R!PrepareRTMP \/ R!AddReader
  BY <1>3 DEF R!JoinRTSP, R!PrepareRTMP, R!AddReader, RelayTypes
<1>4. CASE UNCHANGED R!vars
  BY <1>4 DEF R!vars, RelayTypes
<1> QED
  BY <1>1, <1>2, <1>3, <1>4 DEF R!Next

LEMMA RelayTypesImply == RelayTypes /\ RelayInv => R!TypeOK
<1> SUFFICES ASSUME RelayTypes, RelayInv PROVE R!TypeOK
  OBVIOUS
<1>1. FormatFits /\ FlightFits /\ ViewerFits /\ FramesFit /\ EncoderFits /\ PacketsFit
  BY DEF RelayInv
<1>2. frame \in 0..MaxFrames /\ nextSeq \in 0..(Width - 1) /\ inFlight \in R!Units \cup {None}
  BY <1>1 DEF FlightFits, UnitFits
<1>3. {arrived, format, held} \subseteq R!Versions
  BY <1>1 DEF FormatFits
<1>4. encoder \in R!Encoders \cup {None}
  BY <1>1 DEF EncoderFits
<1>5. complete \subseteq 1..frame /\ frames \in Seq(R!Shown) /\ Len(frames) <= 2
  BY <1>1 DEF FramesFit
<1>6. packets # None => packets \in Seq(R!Entries) /\ Len(packets) <= 2
  BY <1>1 DEF PacketsFit
<1>7. viewer \in {"out", "refused", "ready", "in", "failed"}
  BY <1>1 DEF ViewerFits
<1> QED
  BY <1>2, <1>3, <1>4, <1>5, <1>6, <1>7 DEF RelayTypes, R!TypeOK

\* FromStream: what a viewer of RTMP is offered depends on the list of the client.
LEMMA OfferIs == RelayTypes /\ RelayInv => R!TracksAreOffered
<1> SUFFICES ASSUME RelayTypes, RelayInv PROVE R!TracksAreOffered
  OBVIOUS
<1>1. /\ relayed.source \in {"rtsp", "webrtc", "rtmp", "mpegts", "hls"}
      /\ relayed.tracks \in Seq([codec : R!Codecs, fits : BOOLEAN])
      /\ relayed.source = "rtmp" => \A i \in DOMAIN relayed.tracks : relayed.tracks[i].fits
  BY MediaAssumption DEF RelayTypes
<1>2. viewer = "in" => R!Offered # {}
  BY DEF RelayInv, ViewerFits
<1>3. /\ DOMAIN R!Medias \subseteq DOMAIN relayed.tracks
      /\ \A i \in DOMAIN R!Medias : R!Medias[i] = relayed.tracks[i]
  BY DEF R!Medias, R!ToStream
<1>4. ASSUME relayed.source = "rtmp", R!FourCCCodecs \subseteq relayed.fourCC
      PROVE  R!Offered = DOMAIN R!Medias
  <2>1. ASSUME NEW i \in DOMAIN R!Medias PROVE i \in R!Offered
    <3>1. R!Medias[i].fits
      BY <1>1, <1>3, <1>4
    <3>2. R!Medias[i].codec \in R!RTMPCodecs
      BY <1>4 DEF R!Medias, R!ToStream
    <3>3. CASE R!Medias[i].codec \in R!FourCCCodecs
      <4>1. R!Medias[i].codec \in R!FourCCCodecs \cap relayed.fourCC
        BY <1>4, <3>3
      <4> QED
        BY <4>1 DEF R!Offered, R!FromStream
    <3>4. CASE R!Medias[i].codec \notin R!FourCCCodecs
      <4>1. \E kind \in {R!LegacyVideo, R!LegacyAudio} : R!Medias[i].codec \in kind
        BY <3>2, <3>4 DEF R!RTMPCodecs, R!FourCCCodecs, R!LegacyVideo,
           R!LegacyAudio
      <4>2. relayed.fourCC # {}
        BY <1>4 DEF R!FourCCCodecs
      <4> QED
        BY <3>1, <4>1, <4>2 DEF R!Offered, R!FromStream
    <3> QED
      BY <3>3, <3>4
  <2> QED
    BY <2>1 DEF R!Offered, R!FromStream
<1>5. ASSUME relayed.fourCC = {}, NEW kind \in {R!LegacyVideo, R!LegacyAudio},
             NEW i \in R!Offered, NEW j \in R!Offered,
             {R!Medias[i].codec, R!Medias[j].codec} \subseteq kind
      PROVE  i = j
  <2>1. R!LegacyVideo \cap R!LegacyAudio = {}
    BY DEF R!LegacyVideo, R!LegacyAudio
  <2>2. ASSUME NEW k \in R!Offered, R!Medias[k].codec \in kind
        PROVE  /\ k \in Nat /\ k \in DOMAIN R!Medias /\ R!Medias[k].fits
               /\ ~\E l \in DOMAIN R!Medias : l < k /\ R!Medias[l].codec \in kind /\ R!Medias[l].fits
    <3>1. k \in DOMAIN R!Medias
      BY DEF R!Offered, R!FromStream
    <3>2. k \in Nat
      BY <1>1, <1>3, <3>1
    <3>3. \E m \in {R!LegacyVideo, R!LegacyAudio} :
            /\ R!Medias[k].codec \in m /\ R!Medias[k].fits
            /\ ~\E l \in DOMAIN R!Medias : l < k /\ R!Medias[l].codec \in m /\ R!Medias[l].fits
      BY <1>5 DEF R!Offered, R!FromStream
    <3> QED
      BY <1>5, <2>1, <2>2, <3>1, <3>2, <3>3
  <2>3. ~(i < j) /\ ~(j < i) /\ i \in Nat /\ j \in Nat
    BY <1>5, <2>2
  <2> QED
    BY <2>3
<1> QED
  BY <1>2, <1>4, <1>5 DEF R!TracksAreOffered

\* What the viewers are sent: a RTSP viewer sees one stream of packets, whose
\* numbers go on by one and whose timestamps are those of the frames, wherever the
\* server begins to make the packets itself; a RTMP viewer begins with a key
\* frame, misses no picture and has the newest parameter sets at every key frame,
\* and is offered every track that its client can take: for any tracks, any number
\* of frames, losses and versions, and any width of the numbers.
THEOREM RelayCorrect ==
  R!Spec => [](R!TypeOK /\ R!PacketsGoOn /\ R!FramesAreDecodable /\ R!TracksAreOffered)
<1>1. RelayTypes /\ RelayInv =>
        R!TypeOK /\ R!PacketsGoOn /\ R!FramesAreDecodable /\ R!TracksAreOffered
  BY RelayTypesImply, RelayImplies, OfferIs
<1> QED
  BY <1>1, RelayInit, RelayStep, RelayTypesInit, RelayTypesStep, PTL DEF R!Spec

-----------------------------------------------------------------------------
(***************************************************************************)
(* The recordings and the viewers of a stream (MCMedia).                   *)
(***************************************************************************)

MediaInv == RecInv /\ KeptInv /\ RelayTypes /\ RelayInv

LEMMA MediaInit == MCInit => MediaInv
<1>1. MCInit => Init /\ R!Init
  BY DEF MCInit, RecordingsIdle, RelayIdle
<1> QED
  BY <1>1, RecInit, KeptInit, RelayInit, RelayTypesInit DEF MediaInv

LEMMA MediaStep == MediaInv /\ [MCNext]_allVars => MediaInv'
<1>1. [MCNext]_allVars => [Next]_vars /\ [R!Next]_(R!vars)
  <2>1. UNCHANGED relayVars => UNCHANGED R!vars
    BY DEF relayVars, R!vars
  <2>2. UNCHANGED allVars => UNCHANGED vars /\ UNCHANGED relayVars
    BY DEF allVars
  <2> QED
    BY <2>1, <2>2 DEF MCNext
<1> QED
  BY <1>1, RecStep, KeptStep, RelayStep, RelayTypesStep DEF MediaInv

(* Types.                                                                  *)
THEOREM MediaTypeCorrect == MCSpec => []TypesOK
<1>1. MediaInv => TypesOK
  BY RecImplies, RelayTypesImply DEF MediaInv, TypesOK
<1> QED
  BY <1>1, MediaInit, MediaStep, PTL DEF MCSpec

(* What is recorded of a stream and what its viewers are sent are right,   *)
(* whatever fails: the samples on disk, the commands that are called and   *)
(* the durations, the packets, the pictures and the tracks that one gets.  *)
THEOREM MediaCorrect == MCSpec => []MediaAgrees
<1>1. RecInv /\ KeptInv => SamplesAreKept /\ HooksAgree /\ DurationsAreTrue
  BY SamplesAre, RecAgrees, DurationsAre
<1>2. RelayTypes /\ RelayInv => R!PacketsGoOn /\ R!FramesAreDecodable /\ R!TracksAreOffered
  BY RelayImplies, OfferIs
<1>3. MediaInv => MediaAgrees
  BY <1>1, <1>2 DEF MediaInv, MediaAgrees
<1> QED
  BY <1>3, MediaInit, MediaStep, PTL DEF MCSpec

=============================================================================
