---------------------------- MODULE StreamProofs ----------------------------
(* What holds of the readers of a stream for any tracks, readers, size of  *)
(* the queues and bounds, and of what the viewers behind them are sent.    *)
EXTENDS Stream, FiniteSetTheorems, TLAPS

(* The part of TypeOK that SilentOnceRemoved rests on. *)
ReaderTypes ==
  /\ session \in [Readers -> {"out", "in", "told", "removing"}]
  /\ worker \in [Readers -> {"off", "pulling", "calling", "returning", "done"}]

(* The mutex is held by the reader that is being removed, and by no other. *)
MutexIsHeld == \A r \in Readers : mutex = r <=> session[r] = "removing"

ReadersInv == ReaderTypes /\ MutexIsHeld /\ SilentOnceRemoved

LEMMA ReadersInit == Init => ReadersInv
<1> SUFFICES ASSUME Init PROVE ReadersInv
  OBVIOUS
<1>1. ReaderTypes
  BY DEF Init, ReaderTypes
<1>2. MutexIsHeld
  BY StreamAssumption DEF Init, MutexIsHeld
<1>3. SilentOnceRemoved
  BY DEF Init, SilentOnceRemoved
<1> QED
  BY <1>1, <1>2, <1>3 DEF ReadersInv

(* A worker moves only while its reader is registered, and Removed leaves  *)
(* it done.                                                                *)
LEMMA ReaderStepKeeps ==
  ASSUME ReadersInv, NEW r \in Readers, ReaderStep(r) PROVE ReadersInv'
<1> USE DEF ReadersInv, ReaderTypes, MutexIsHeld, SilentOnceRemoved
<1>1. CASE AddReader(r)
  <2>1. /\ session' = [session EXCEPT ![r] = "in"] /\ session[r] = "out"
        /\ worker' = [worker EXCEPT ![r] = "pulling"]
        /\ mutex' = mutex
    BY <1>1 DEF AddReader
  <2> QED
    BY <2>1
<1>2. CASE Pull(r)
  BY <1>2 DEF Pull
<1>3. CASE CallbackReturns(r)
  <2>1. PICK next \in {"pulling", "returning"} :
          worker' = [worker EXCEPT ![r] = next]
    BY <1>3 DEF CallbackReturns
  <2>2. session' = session /\ mutex' = mutex /\ worker[r] = "calling"
    BY <1>3 DEF CallbackReturns
  <2> QED
    BY <2>1, <2>2
<1>4. CASE PullTerminated(r)
  BY <1>4 DEF PullTerminated
<1>5. CASE ErrorReceived(r)
  BY <1>5 DEF ErrorReceived
<1>6. CASE RemoveReader(r)
  <2>1. /\ session' = [session EXCEPT ![r] = "removing"]
        /\ session[r] \in {"in", "told"}
        /\ mutex = Nobody /\ mutex' = r
        /\ worker' = worker
    BY <1>6 DEF RemoveReader, Free
  <2> QED
    BY <2>1, StreamAssumption
<1>7. CASE Removed(r)
  <2>1. /\ session' = [session EXCEPT ![r] = "out"]
        /\ worker' = [worker EXCEPT ![r] = "done"]
        /\ mutex = r /\ mutex' = Nobody
    BY <1>7 DEF Removed
  <2> QED
    BY <2>1, StreamAssumption
<1> QED
  BY <1>1, <1>2, <1>3, <1>4, <1>5, <1>6, <1>7 DEF ReaderStep

LEMMA ReadersInvStep == ReadersInv /\ [Next]_vars => ReadersInv'
<1> SUFFICES ASSUME ReadersInv, [Next]_vars PROVE ReadersInv'
  OBVIOUS
<1>1. ASSUME UNCHANGED <<session, worker, mutex>> PROVE ReadersInv'
  BY <1>1 DEF ReadersInv, ReaderTypes, MutexIsHeld, SilentOnceRemoved
<1>2. CASE \E r \in Readers : ReaderStep(r)
  BY <1>2, ReaderStepKeeps
<1>3. CASE PublisherStarts \/ OfflineStarts \/ Swap \/ Started \/ Close
  BY <1>1, <1>3 DEF PublisherStarts, OfflineStarts, Swap, Started, Close,
                    readerVars
<1>4. ASSUME NEW f \in Formats, Initialize2(f) PROVE ReadersInv'
  BY <1>1, <1>4 DEF Initialize2, readerVars
<1>5. ASSUME NEW r \in Readers, WalkOn(r) PROVE ReadersInv'
  BY <1>1, <1>5 DEF WalkOn
<1>6. CASE FeederStep
  <2>1. CASE OfflineEnds
    BY <1>1, <2>1 DEF OfflineEnds, readerVars
  <2>2. ASSUME NEW s \in SubStreams, PublisherLeaves(s) PROVE ReadersInv'
    BY <1>1, <2>2 DEF PublisherLeaves, readerVars
  <2>3. ASSUME NEW s \in SubStreams, NEW f \in Formats, WriteUnit(s, f)
        PROVE ReadersInv'
    BY <1>1, <2>3 DEF WriteUnit
  <2> QED
    BY <1>6, <2>1, <2>2, <2>3 DEF FeederStep
<1>7. CASE UNCHANGED vars
  BY <1>1, <1>7 DEF vars, readerVars
<1> QED
  BY <1>2, <1>3, <1>4, <1>5, <1>6, <1>7 DEF Next, PathStep, Dead

(* SilentOnceRemoved holds of every behaviour, with the exclusion that the *)
(* mutex gives to RemoveReader.                                            *)
THEOREM RemovalCorrect == Spec => [](SilentOnceRemoved /\ MutexIsHeld)
<1>1. ReadersInv => SilentOnceRemoved /\ MutexIsHeld
  BY DEF ReadersInv
<1> QED
  BY <1>1, ReadersInit, ReadersInvStep, PTL DEF Spec

-----------------------------------------------------------------------------
(* The changes of sub stream.                                              *)

Moving == path \in {"stopping", "swapping", "starting", "walking"}
Initializing == path \in {"starting", "walking"}

ChangeTypes ==
  /\ alwaysAvailable \in AlwaysAvailable
  /\ path \in {"idle", "stopping", "swapping", "starting", "walking",
               "closing", "closed"}
  /\ starting \in {"publisher", "offline"}
  /\ formatsLeft \subseteq Formats
  /\ subStream \in SubStreams
  /\ offline \in {"off", "playing", "ending"}
  /\ offlineSub \in SubStreams
  /\ publishers \subseteq SubStreams

(* What each moment of a change implies for the offline segment, for the   *)
(* tracks that initialize2 has still to see and for who may write to the   *)
(* new sub stream: nobody, until Initialize has returned.                  *)
ChangePhases ==
  /\ offline = "playing" => path = "idle" /\ offlineSub = subStream
  /\ offline = "ending" <=> path \in {"stopping", "closing"}
  /\ alwaysAvailable /\ path = "idle" /\ starting = "offline" =>
       offline = "playing"
  /\ path \in {"stopping", "swapping"} =>
       subStream < MaxSubStreams /\ (alwaysAvailable \/ subStream = 0)
  /\ Moving /\ starting = "offline" => alwaysAvailable
  /\ ~Initializing => formatsLeft = {}
  /\ Initializing => subStream \notin publishers /\ subStream # 0
  /\ \A s \in publishers : s # 0 /\ s <= subStream
  /\ alwaysAvailable => subStream # 0
  /\ ~alwaysAvailable => subStream <= 1 /\ offline = "off"
  /\ path = "walking" => alwaysAvailable /\ "video" \in Formats \ formatsLeft

ChangeInv == ChangeTypes /\ ChangePhases

LEMMA ChangeInit == Init => ChangeInv
BY StreamAssumption DEF Init, ChangeInv, ChangeTypes, ChangePhases, Moving,
                        Initializing, SubStreams

LEMMA PathStepChange ==
  ASSUME ChangeInv, PathStep PROVE ChangeInv'
<1> USE StreamAssumption DEF ChangeInv, ChangeTypes, ChangePhases, Moving,
                             Initializing, SubStreams
<1>1. CASE PublisherStarts
  BY <1>1 DEF PublisherStarts
<1>2. CASE OfflineStarts
  BY <1>2 DEF OfflineStarts, feedVars
<1>3. CASE Swap
  BY <1>3 DEF Swap, feedVars
<1>4. CASE Started
  <2>1. /\ path = "starting" /\ path' = "idle" /\ formatsLeft = {}
        /\ UNCHANGED <<alwaysAvailable, starting, formatsLeft, subStream>>
    BY <1>4 DEF Started
  <2>2. CASE starting = "publisher"
    <3>1. publishers' = publishers \cup {subStream}
          /\ offline' = offline /\ offlineSub' = offlineSub
      BY <1>4, <2>2 DEF Started
    <3>2. ChangeTypes'
      BY <2>1, <3>1
    <3> QED
      BY <2>1, <2>2, <3>1, <3>2
  <2>3. CASE starting # "publisher"
    <3>1. offline' = "playing" /\ offlineSub' = subStream
          /\ publishers' = publishers
      BY <1>4, <2>3 DEF Started
    <3>2. ChangeTypes'
      BY <2>1, <3>1
    <3> QED
      BY <2>1, <2>3, <3>1, <3>2
  <2> QED
    BY <2>2, <2>3
<1>5. CASE Close
  BY <1>5 DEF Close
<1>6. ASSUME NEW f \in Formats, Initialize2(f) PROVE ChangeInv'
  <2>1. /\ path = "starting" /\ formatsLeft' = formatsLeft \ {f}
        /\ path' = "starting" \/ (path' = "walking" /\ alwaysAvailable /\ f = "video")
        /\ UNCHANGED <<alwaysAvailable, starting, subStream, feedVars>>
    BY <1>6 DEF Initialize2
  <2> QED
    BY <2>1 DEF feedVars
<1>7. ASSUME NEW r \in Readers, WalkOn(r) PROVE ChangeInv'
  BY <1>7 DEF WalkOn, feedVars
<1> QED
  BY <1>1, <1>2, <1>3, <1>4, <1>5, <1>6, <1>7 DEF PathStep

(* Readers and publishers that come and go at most end the walk. *)
LEMMA ChangeRests ==
  ASSUME ChangeInv,
         UNCHANGED <<alwaysAvailable, starting, formatsLeft, subStream, feedVars>>,
         path' = path \/ (path = "walking" /\ path' = "starting")
  PROVE  ChangeInv'
BY DEF ChangeInv, ChangeTypes, ChangePhases, Moving, Initializing, feedVars

LEMMA MapChangesPath ==
  ASSUME NEW added, NEW removed, MapChanges(added, removed)
  PROVE  path' = path \/ (path = "walking" /\ path' = "starting")
BY DEF MapChanges

LEMMA ChangeInvStep == ChangeInv /\ [Next]_vars => ChangeInv'
<1> SUFFICES ASSUME ChangeInv, [Next]_vars PROVE ChangeInv'
  OBVIOUS
<1>1. CASE PathStep
  BY <1>1, PathStepChange
<1>2. CASE OfflineEnds
  BY <1>2 DEF OfflineEnds, ChangeInv, ChangeTypes, ChangePhases, Moving,
              Initializing
<1>3. ASSUME NEW s \in SubStreams, PublisherLeaves(s) PROVE ChangeInv'
  BY <1>3 DEF PublisherLeaves, pathVars, ChangeInv, ChangeTypes, ChangePhases,
              Moving, Initializing
<1>4. ASSUME NEW s \in SubStreams, NEW f \in Formats, WriteUnit(s, f)
      PROVE  ChangeInv'
  BY <1>4, ChangeRests DEF WriteUnit, pathVars
<1>5. ASSUME NEW r \in Readers, ReaderStep(r) PROVE ChangeInv'
  <2>1. CASE AddReader(r)
    BY <2>1, ChangeRests, MapChangesPath DEF AddReader
  <2>2. CASE Removed(r)
    BY <2>2, ChangeRests, MapChangesPath DEF Removed
  <2>3. CASE Pull(r) \/ CallbackReturns(r) \/ PullTerminated(r)
    BY <2>3, ChangeRests DEF Pull, CallbackReturns, PullTerminated, pathVars
  <2>4. CASE ErrorReceived(r) \/ RemoveReader(r)
    BY <2>4, ChangeRests DEF ErrorReceived, RemoveReader, pathVars
  <2> QED
    BY <1>5, <2>1, <2>2, <2>3, <2>4 DEF ReaderStep
<1>6. CASE UNCHANGED vars
  BY <1>6, ChangeRests DEF vars, pathVars
<1> QED
  BY <1>1, <1>2, <1>3, <1>4, <1>5, <1>6 DEF Next, FeederStep, Dead

-----------------------------------------------------------------------------
(* Units in the hands of a reader.                                         *)

(* A unit of an earlier sub stream comes before, and is not of later. *)
Follows(a, b) == a.sub <= b.sub /\ (a.sub < b.sub => a.pts <= b.pts)

(* What is in the queue of a reader, and the unit that it has taken. *)
Got(r) == {queue[r][i] : i \in 1..Len(queue[r])} \cup ({handled[r]} \ {NoUnit})

InOrder(r) ==
  /\ \A i, j \in 1..Len(queue[r]) : i < j => Follows(queue[r][i], queue[r][j])
  /\ handled[r] # NoUnit =>
       \A i \in 1..Len(queue[r]) : Follows(handled[r], queue[r][i])

ReaderDataTypes ==
  /\ queue \in [Readers -> Seq([sub : Nat, pts : Nat])]
  /\ handled \in [Readers -> [sub : Nat, pts : Nat]]

(* A unit that follows all that a reader has got goes to the end. *)
LEMMA PushKeepsOrder ==
  ASSUME ReaderDataTypes, NEW r \in Readers, NEW unit \in [sub : Nat, pts : Nat],
         InOrder(r), \A u \in Got(r) : Follows(u, unit),
         queue'[r] = Push(queue[r], unit), handled'[r] = handled[r]
  PROVE  InOrder(r)' /\ Got(r)' \subseteq Got(r) \cup {unit}
<1> DEFINE q == queue[r]
<1>1. q \in Seq([sub : Nat, pts : Nat])
  BY DEF ReaderDataTypes
<1>2. CASE Len(q) < QueueSize
  <2>1. queue'[r] = Append(q, unit)
    BY <1>2 DEF Push
  <2> HIDE DEF q
  <2>2. /\ Len(Append(q, unit)) = Len(q) + 1
        /\ Append(q, unit)[Len(q) + 1] = unit
        /\ \A i \in 1..Len(q) : Append(q, unit)[i] = q[i]
        /\ Len(q) \in Nat
    BY <1>1
  <2> USE DEF q
  <2>3. \A i \in 1..Len(q) : Follows(q[i], unit)
    BY DEF Got
  <2>4. handled[r] # NoUnit => Follows(handled[r], unit)
    BY DEF Got
  <2>5. \A i \in 1..Len(queue'[r]) : i \in 1..Len(q) \/ i = Len(q) + 1
    BY <2>1, <2>2
  <2>6. \A i, j \in 1..Len(queue'[r]) :
          i < j => Follows(queue'[r][i], queue'[r][j])
    BY <2>1, <2>2, <2>3, <2>5 DEF InOrder
  <2>7. handled[r] # NoUnit =>
          \A i \in 1..Len(queue'[r]) : Follows(handled[r], queue'[r][i])
    BY <2>1, <2>2, <2>4, <2>5 DEF InOrder
  <2>8. Got(r)' \subseteq Got(r) \cup {unit}
    BY <2>1, <2>2, <2>5 DEF Got
  <2> QED
    BY <2>6, <2>7, <2>8 DEF InOrder
<1>3. CASE ~(Len(q) < QueueSize)
  BY <1>3 DEF Push, InOrder, Got
<1> QED
  BY <1>2, <1>3

(* The first unit of the queue is the next that is taken. *)
LEMMA PullKeepsOrder ==
  ASSUME ReaderDataTypes, NEW r \in Readers, InOrder(r), queue[r] # <<>>,
         queue'[r] = Tail(queue[r]), handled'[r] = Head(queue[r])
  PROVE  InOrder(r)' /\ Got(r)' \subseteq Got(r)
<1> DEFINE q == queue[r]
<1>1. q \in Seq([sub : Nat, pts : Nat]) /\ q # <<>>
  BY DEF ReaderDataTypes
<1> HIDE DEF q
<1>2. /\ Len(q) \in Nat /\ Len(q) > 0
      /\ Len(Tail(q)) = Len(q) - 1
      /\ \A i \in 1..Len(Tail(q)) : Tail(q)[i] = q[i + 1]
      /\ Head(q) = q[1]
  BY <1>1
<1> USE DEF q
<1>3. \A i \in 1..Len(queue'[r]) :
        /\ i + 1 \in 1..Len(q) /\ queue'[r][i] = q[i + 1]
        /\ 1 \in 1..Len(q) /\ 1 < i + 1
  BY <1>2
<1>4. \A i, j \in 1..Len(queue'[r]) :
        i < j => Follows(queue'[r][i], queue'[r][j])
  <2> SUFFICES ASSUME NEW i \in 1..Len(queue'[r]), NEW j \in 1..Len(queue'[r]),
                      i < j
               PROVE  Follows(queue'[r][i], queue'[r][j])
    OBVIOUS
  <2>1. i + 1 \in 1..Len(q) /\ j + 1 \in 1..Len(q) /\ i + 1 < j + 1
    BY <1>2, <1>3
  <2>2. Follows(q[i + 1], q[j + 1])
    BY <2>1 DEF InOrder
  <2> QED
    BY <1>3, <2>2
<1>5. \A i \in 1..Len(queue'[r]) : Follows(handled'[r], queue'[r][i])
  BY <1>2, <1>3 DEF InOrder
<1>6. Got(r)' \subseteq Got(r)
  BY <1>2, <1>3 DEF Got
<1> QED
  BY <1>4, <1>5, <1>6 DEF InOrder

-----------------------------------------------------------------------------
(* One stream out of many sub streams.                                     *)

DataTypes ==
  /\ ReaderDataTypes
  /\ lastPTS \in Nat
  /\ ptsOffset \in [Formats -> Nat]
  /\ firstTimeReceived \in BOOLEAN

(* A unit that a reader has got is of the present sub stream or of an      *)
(* earlier one, not later than the last timestamp and, when its sub stream *)
(* is over, not later than the beginning of any track that initialize2 has *)
(* seen since.                                                             *)
Placed(unit) ==
  /\ unit.sub # 0 /\ unit.sub <= subStream
  /\ alwaysAvailable =>
       /\ firstTimeReceived
       /\ unit.pts <= lastPTS
       /\ unit.sub < subStream =>
            \A f \in Formats \ formatsLeft : unit.pts <= ptsOffset[f]

GotInOrder(r) == InOrder(r) /\ \A unit \in Got(r) : Placed(unit)

ConcatInv ==
  /\ DataTypes
  /\ path = "walking" => ptsOffset["video"] <= lastPTS /\ firstTimeReceived
  /\ \A r \in Registered : GotInOrder(r)

LEMMA ConcatInit == Init => ConcatInv
<1> SUFFICES ASSUME Init PROVE ConcatInv
  OBVIOUS
<1>1. DataTypes
  <2>1. queue \in [Readers -> Seq([sub : Nat, pts : Nat])]
    BY DEF Init
  <2>2. handled \in [Readers -> [sub : Nat, pts : Nat]]
    BY DEF Init, NoUnit
  <2>3. lastPTS \in Nat /\ ptsOffset \in [Formats -> Nat]
    BY DEF Init
  <2>4. firstTimeReceived \in BOOLEAN
    BY StreamAssumption DEF Init
  <2> QED
    BY <2>1, <2>2, <2>3, <2>4 DEF DataTypes, ReaderDataTypes
<1> QED
  BY <1>1 DEF Init, ConcatInv, Registered

(* What has been got stays in place as long as the sub stream is the same, *)
(* the last timestamp does not go back and no new track has been seen.     *)
LEMMA PlacedStays ==
  ASSUME alwaysAvailable' = alwaysAvailable,
         subStream' = subStream, formatsLeft' = formatsLeft,
         ptsOffset' = ptsOffset,
         firstTimeReceived => firstTimeReceived',
         lastPTS \in Nat, lastPTS' \in Nat, lastPTS <= lastPTS',
         NEW unit \in [sub : Nat, pts : Nat], Placed(unit)
  PROVE  Placed(unit)'
<1>1. unit.sub # 0 /\ unit.sub <= subStream'
  BY DEF Placed
<1>2. ASSUME alwaysAvailable'
      PROVE  /\ firstTimeReceived'
             /\ unit.pts <= lastPTS'
             /\ unit.sub < subStream' =>
                  \A f \in (Formats \ formatsLeft)' : unit.pts <= ptsOffset'[f]
  <2>1. alwaysAvailable
    BY <1>2
  <2>2. firstTimeReceived'
    BY <2>1 DEF Placed
  <2>3. unit.pts \in Nat /\ unit.pts <= lastPTS
    BY <2>1 DEF Placed
  <2>4. unit.pts <= lastPTS'
    BY <2>3
  <2> QED
    BY <2>1, <2>2, <2>4 DEF Placed
<1> QED
  BY <1>1, <1>2 DEF Placed

LEMMA GotType ==
  ASSUME ReaderDataTypes, NEW r \in Readers
  PROVE  Got(r) \subseteq [sub : Nat, pts : Nat]
<1>1. queue[r] \in Seq([sub : Nat, pts : Nat])
      /\ handled[r] \in [sub : Nat, pts : Nat]
  BY DEF ReaderDataTypes
<1> DEFINE q == queue[r]
           Unit == [sub : Nat, pts : Nat]
<1>2. \A i \in 1..Len(q) : q[i] \in Unit
  <2>1. q \in Seq(Unit)
    BY <1>1
  <2> HIDE DEF q, Unit
  <2> QED
    BY <2>1
<1> QED
  BY <1>1, <1>2 DEF Got

(* A unit of the present sub stream, that is not earlier than the          *)
(* beginning of a track, comes after all that has been got.                *)
LEMMA UnitFollows ==
  ASSUME ChangeInv, ConcatInv, NEW unit \in [sub : Nat, pts : Nat],
         unit.sub = subStream,
         alwaysAvailable =>
           \E f \in Formats \ formatsLeft : ptsOffset[f] <= unit.pts,
         NEW r \in Registered
  PROVE  \A u \in Got(r) : Follows(u, unit)
<1> SUFFICES ASSUME NEW u \in Got(r) PROVE Follows(u, unit)
  OBVIOUS
<1>1. u \in [sub : Nat, pts : Nat] /\ Placed(u) /\ subStream \in Nat
  BY GotType, StreamAssumption
     DEF ConcatInv, DataTypes, GotInOrder, Registered, ChangeInv, ChangeTypes,
         SubStreams
<1>2. CASE alwaysAvailable
  <2>1. PICK f \in Formats \ formatsLeft : ptsOffset[f] <= unit.pts
    BY <1>2
  <2>2. ptsOffset[f] \in Nat
    BY DEF ConcatInv, DataTypes
  <2>3. u.sub < subStream => u.pts <= ptsOffset[f]
    BY <1>1, <1>2 DEF Placed
  <2> QED
    BY <1>1, <2>1, <2>2, <2>3 DEF Placed, Follows
<1>3. CASE ~alwaysAvailable
  <2>1. subStream <= 1
    BY <1>3 DEF ChangeInv, ChangePhases
  <2> QED
    BY <1>1, <2>1 DEF Placed, Follows
<1> QED
  BY <1>2, <1>3

(* A unit that follows is pushed to some of the readers.                   *)
LEMMA PushKeepsConcat ==
  ASSUME ConcatInv, NEW some \in SUBSET Readers,
         NEW unit \in [sub : Nat, pts : Nat],
         PushTo(some, unit), Placed(unit)',
         \A r \in Registered : \A u \in Got(r) : Follows(u, unit),
         \A u \in [sub : Nat, pts : Nat] : Placed(u) => Placed(u)',
         UNCHANGED <<session, handled>>
  PROVE  /\ \A r \in Registered' : GotInOrder(r)'
         /\ ReaderDataTypes'
<1>1. Registered' = Registered
  BY DEF Registered
<1>2. \A r \in Readers : queue'[r] = IF r \in some THEN Push(queue[r], unit) ELSE queue[r]
  BY DEF PushTo
<1>3. ReaderDataTypes
  BY DEF ConcatInv, DataTypes
<1>4. ASSUME NEW r \in Registered PROVE GotInOrder(r)'
  <2>0. r \in Readers /\ GotInOrder(r)
    BY DEF Registered, ConcatInv
  <2>1. InOrder(r)' /\ Got(r)' \subseteq Got(r) \cup {unit}
    <3>1. CASE r \in some
      BY <1>2, <1>3, <2>0, <3>1, PushKeepsOrder DEF GotInOrder
    <3>2. CASE r \notin some
      <4>1. queue'[r] = queue[r] /\ handled'[r] = handled[r]
        BY <1>2, <2>0, <3>2
      <4> QED
        BY <2>0, <4>1 DEF GotInOrder, InOrder, Got
    <3> QED
      BY <3>1, <3>2
  <2>2. \A u \in Got(r)' : Placed(u)'
    BY <1>3, <2>0, <2>1, GotType DEF GotInOrder
  <2> QED
    BY <2>1, <2>2 DEF GotInOrder
<1>5. ReaderDataTypes'
  <2>1. \A r \in Readers : Push(queue[r], unit) \in Seq([sub : Nat, pts : Nat])
    <3> SUFFICES ASSUME NEW r \in Readers
                 PROVE  Push(queue[r], unit) \in Seq([sub : Nat, pts : Nat])
      OBVIOUS
    <3>1. queue[r] \in Seq([sub : Nat, pts : Nat])
      BY <1>3 DEF ReaderDataTypes
    <3>2. Append(queue[r], unit) \in Seq([sub : Nat, pts : Nat])
      BY <3>1
    <3> QED
      BY <3>1, <3>2 DEF Push
  <2>2. queue' \in [Readers -> Seq([sub : Nat, pts : Nat])]
    BY <1>3, <2>1 DEF PushTo, ReaderDataTypes
  <2> QED
    BY <1>3, <2>2 DEF ReaderDataTypes
<1> QED
  BY <1>1, <1>4, <1>5

-----------------------------------------------------------------------------
(* The steps of the path, the feeders and the readers.                     *)

(* What the readers hold is left alone. *)
LEMMA HeldRests ==
  ASSUME ConcatInv, UNCHANGED <<session, queue, handled>>,
         \A u \in [sub : Nat, pts : Nat] : Placed(u) => Placed(u)'
  PROVE  ReaderDataTypes' /\ \A r \in Registered' : GotInOrder(r)'
<1>1. ReaderDataTypes
  BY DEF ConcatInv, DataTypes
<1>2. ReaderDataTypes'
  BY <1>1 DEF ReaderDataTypes
<1>3. ASSUME NEW r \in Registered' PROVE GotInOrder(r)'
  <2>1. r \in Registered /\ r \in Readers
    BY <1>3 DEF Registered
  <2>2. Got(r)' = Got(r) /\ InOrder(r)' = InOrder(r)
    BY DEF Got, InOrder
  <2> QED
    BY <1>1, <2>1, <2>2, GotType DEF ConcatInv, GotInOrder
<1> QED
  BY <1>2, <1>3

(* A change of sub stream makes the units that have been got units of an   *)
(* earlier one, before any track has been seen.                            *)
LEMMA SwapConcat ==
  ASSUME ChangeInv, ConcatInv, Swap PROVE ConcatInv'
<1>1. /\ subStream' = subStream + 1 /\ formatsLeft' = Formats /\ path' = "starting"
      /\ UNCHANGED <<alwaysAvailable, timeVars, readerVars>>
  BY DEF Swap
<1>2. subStream \in Nat
  BY StreamAssumption DEF ChangeInv, ChangeTypes, SubStreams
<1>3. ASSUME NEW u \in [sub : Nat, pts : Nat], Placed(u) PROVE Placed(u)'
  <2>1. u.sub # 0 /\ u.sub <= subStream'
    BY <1>1, <1>2, <1>3 DEF Placed
  <2>2. ASSUME alwaysAvailable' PROVE firstTimeReceived' /\ u.pts <= lastPTS'
    BY <1>1, <1>3, <2>2 DEF Placed, timeVars
  <2>3. (Formats \ formatsLeft)' = {}
    BY <1>1
  <2> QED
    BY <2>1, <2>2, <2>3 DEF Placed
<1>4. ReaderDataTypes' /\ \A r \in Registered' : GotInOrder(r)'
  BY <1>1, <1>3, HeldRests DEF readerVars
<1> QED
  BY <1>1, <1>4 DEF ConcatInv, DataTypes, timeVars

(* initialize2 of a track makes it begin after all that has been got. *)
LEMMA Initialize2Concat ==
  ASSUME ChangeInv, ConcatInv, NEW f \in Formats, Initialize2(f)
  PROVE  ConcatInv'
<1> DEFINE shifts == alwaysAvailable /\ firstTimeReceived
<1>1. /\ f \in formatsLeft /\ formatsLeft' = formatsLeft \ {f}
      /\ UNCHANGED <<alwaysAvailable, starting, subStream, feedVars, readerVars>>
  BY DEF Initialize2
<1>2. DataTypes
  BY DEF ConcatInv
<1>3. /\ ptsOffset' \in [Formats -> Nat]
      /\ \A g \in Formats \ {f} : ptsOffset'[g] = ptsOffset[g]
      /\ shifts => lastPTS <= ptsOffset'[f]
  <2>1. CASE shifts
    <3>1. PICK elapsed \in {0, 1} :
            ptsOffset' = [ptsOffset EXCEPT ![f] = lastPTS + elapsed]
      BY <2>1 DEF Initialize2
    <3> QED
      BY <1>2, <3>1 DEF DataTypes
  <2>2. CASE ~shifts
    <3>1. ptsOffset' = ptsOffset
      BY <2>2 DEF Initialize2
    <3> QED
      BY <1>2, <2>2, <3>1 DEF DataTypes
  <2> QED
    BY <2>1, <2>2
<1>4. /\ lastPTS' \in Nat /\ lastPTS <= lastPTS'
      /\ firstTimeReceived' \in BOOLEAN
      /\ firstTimeReceived => firstTimeReceived'
      /\ path' = "walking" =>
           ptsOffset'["video"] <= lastPTS' /\ firstTimeReceived'
  <2>1. CASE alwaysAvailable /\ f = "video"
    <3>1. firstTimeReceived' = TRUE
          /\ lastPTS' = IF ptsOffset'[f] > lastPTS THEN ptsOffset'[f] ELSE lastPTS
      BY <2>1 DEF Initialize2, UpdateLastTime
    <3>2. ptsOffset'[f] \in Nat /\ lastPTS \in Nat
      BY <1>2, <1>3 DEF DataTypes
    <3> QED
      BY <2>1, <3>1, <3>2
  <2>2. CASE ~(alwaysAvailable /\ f = "video")
    <3>1. lastPTS' = lastPTS /\ firstTimeReceived' = firstTimeReceived
          /\ path' = path /\ path = "starting"
      BY <2>2 DEF Initialize2
    <3> QED
      BY <1>2, <3>1 DEF DataTypes
  <2> QED
    BY <2>1, <2>2
<1>5. ASSUME NEW u \in [sub : Nat, pts : Nat], Placed(u) PROVE Placed(u)'
  <2>1. u.sub # 0 /\ u.sub <= subStream'
    BY <1>1, <1>5 DEF Placed
  <2>2. ASSUME alwaysAvailable'
        PROVE  /\ firstTimeReceived' /\ u.pts <= lastPTS'
               /\ u.sub < subStream' =>
                    \A g \in (Formats \ formatsLeft)' : u.pts <= ptsOffset'[g]
    <3>1. alwaysAvailable
      BY <1>1, <2>2
    <3>2. firstTimeReceived /\ u.pts <= lastPTS
      BY <1>5, <3>1 DEF Placed
    <3>3. u.pts <= lastPTS'
      BY <1>2, <1>4, <3>2 DEF DataTypes
    <3>4. u.pts <= ptsOffset'[f]
      BY <1>2, <1>3, <3>1, <3>2 DEF DataTypes
    <3>5. ASSUME u.sub < subStream', NEW g \in (Formats \ formatsLeft)'
          PROVE  u.pts <= ptsOffset'[g]
      <4>1. CASE g = f
        BY <3>4, <4>1
      <4>2. CASE g # f
        <5>1. g \in Formats \ formatsLeft
          BY <1>1, <3>5, <4>2
        <5> QED
          BY <1>1, <1>3, <1>5, <3>1, <3>5, <4>2, <5>1 DEF Placed
      <4> QED
        BY <4>1, <4>2
    <3> QED
      BY <1>4, <3>2, <3>3, <3>5
  <2> QED
    BY <2>1, <2>2 DEF Placed
<1>6. ReaderDataTypes' /\ \A r \in Registered' : GotInOrder(r)'
  BY <1>1, <1>5, HeldRests DEF readerVars
<1> QED
  BY <1>3, <1>4, <1>6 DEF ConcatInv, DataTypes

(* The steps that leave the clock, the sub stream and the readers alone. *)
LEMMA ConcatRests ==
  ASSUME ConcatInv,
         UNCHANGED <<alwaysAvailable, subStream, formatsLeft, timeVars, session,
                     queue, handled>>,
         path' = "walking" => path = "walking"
  PROVE  ConcatInv'
<1>1. ASSUME NEW u \in [sub : Nat, pts : Nat], Placed(u) PROVE Placed(u)'
  BY <1>1, PlacedStays DEF ConcatInv, DataTypes, timeVars
<1>2. ReaderDataTypes' /\ \A r \in Registered' : GotInOrder(r)'
  BY <1>1, HeldRests
<1> QED
  BY <1>2 DEF ConcatInv, DataTypes, timeVars

(* The parameter sets come with the timestamp that video begins at. *)
LEMMA WalkOnConcat ==
  ASSUME ChangeInv, ConcatInv, NEW r \in Readers, WalkOn(r) PROVE ConcatInv'
<1>1. /\ path = "walking"
      /\ PushTo({r}, [sub |-> subStream, pts |-> ptsOffset["video"]])
      /\ path' = "starting" \/ path' = "walking"
      /\ UNCHANGED <<alwaysAvailable, formatsLeft, subStream, timeVars, session,
                     handled>>
  BY DEF WalkOn
<1>2. /\ alwaysAvailable /\ "video" \in Formats \ formatsLeft
      /\ subStream # 0 /\ subStream \in Nat
  BY <1>1, StreamAssumption
     DEF ChangeInv, ChangePhases, ChangeTypes, SubStreams, Initializing
<1>3. /\ ptsOffset["video"] \in Nat /\ ptsOffset["video"] <= lastPTS
      /\ firstTimeReceived /\ lastPTS \in Nat
  BY <1>1, <1>2 DEF ConcatInv, DataTypes
<1>4. PICK unit \in [sub : Nat, pts : Nat] :
        unit = [sub |-> subStream, pts |-> ptsOffset["video"]]
  BY <1>2, <1>3
<1>5. unit.sub = subStream /\ unit.pts = ptsOffset["video"] /\ PushTo({r}, unit)
  BY <1>1, <1>4
<1>6. Placed(unit)
  BY <1>2, <1>3, <1>5 DEF Placed
<1>7. \A u \in [sub : Nat, pts : Nat] : Placed(u) => Placed(u)'
  BY <1>1, <1>3, PlacedStays DEF timeVars
<1>8. Placed(unit)'
  BY <1>6, <1>7
<1>9. \A reader \in Registered : \A u \in Got(reader) : Follows(u, unit)
  BY <1>2, <1>3, <1>5, UnitFollows
<1>10. UNCHANGED <<session, handled>>
  BY <1>1
<1>11. /\ \A reader \in Registered' : GotInOrder(reader)'
       /\ ReaderDataTypes'
  BY <1>5, <1>7, <1>8, <1>9, <1>10, PushKeepsConcat
<1> QED
  BY <1>1, <1>3, <1>11 DEF ConcatInv, DataTypes, timeVars

(* Who may write to the present sub stream: its publisher, once Initialize *)
(* has returned, or the offline segment.                                   *)
LEMMA FeedingStarted ==
  ASSUME ChangeInv, NEW s \in SubStreams, Feeding(s), Accepted(s)
  PROVE  s # 0 /\ ~Initializing /\ formatsLeft = {}
BY DEF ChangeInv, ChangePhases, ChangeTypes, Feeding, Accepted, Initializing

(* A unit that is written comes after the beginning of its track.          *)
LEMMA WriteUnitConcat ==
  ASSUME ChangeInv, ConcatInv, NEW s \in SubStreams, NEW f \in Formats,
         WriteUnit(s, f)
  PROVE  ConcatInv'
<1>1. PICK pts \in 0..MaxPTS :
        LET shifted == IF alwaysAvailable THEN pts + ptsOffset[f] ELSE pts
        IN  /\ PushTo(Registered, [sub |-> s, pts |-> shifted])
            /\ IF alwaysAvailable THEN UpdateLastTime(shifted)
               ELSE UNCHANGED <<lastPTS, firstTimeReceived>>
  BY DEF WriteUnit
<1> DEFINE shifted == IF alwaysAvailable THEN pts + ptsOffset[f] ELSE pts
<1>2. /\ s = subStream /\ s # 0 /\ s \in Nat /\ formatsLeft = {}
      /\ UNCHANGED <<alwaysAvailable, pathVars, feedVars, ptsOffset, session,
                     handled>>
  BY FeedingStarted, StreamAssumption DEF WriteUnit, Accepted, SubStreams
<1>3. pts \in Nat /\ ptsOffset[f] \in Nat /\ lastPTS \in Nat
      /\ firstTimeReceived \in BOOLEAN /\ ptsOffset \in [Formats -> Nat]
  BY StreamAssumption DEF ConcatInv, DataTypes
<1>4. shifted \in Nat /\ (alwaysAvailable => ptsOffset[f] <= shifted)
  BY <1>2, <1>3
<1>5. PICK unit \in [sub : Nat, pts : Nat] : unit = [sub |-> s, pts |-> shifted]
  BY <1>2, <1>4
<1>6. unit.sub = subStream /\ unit.pts = shifted
  BY <1>2, <1>5
<1>7. /\ lastPTS' \in Nat /\ lastPTS <= lastPTS'
      /\ firstTimeReceived' \in BOOLEAN
      /\ firstTimeReceived => firstTimeReceived'
      /\ alwaysAvailable => firstTimeReceived' /\ shifted <= lastPTS'
  <2>1. CASE alwaysAvailable
    <3>1. firstTimeReceived' = TRUE
          /\ lastPTS' = IF shifted > lastPTS THEN shifted ELSE lastPTS
      BY <1>1, <2>1 DEF UpdateLastTime
    <3> HIDE DEF shifted
    <3> QED
      BY <1>3, <1>4, <3>1
  <2>2. CASE ~alwaysAvailable
    <3>1. lastPTS' = lastPTS /\ firstTimeReceived' = firstTimeReceived
      BY <1>1, <2>2
    <3> QED
      BY <1>3, <2>2, <3>1
  <2> QED
    BY <2>1, <2>2
<1>8. PushTo(Registered, unit)
  BY <1>1, <1>5
<1> HIDE DEF shifted
<1>9. Placed(unit)'
  <2>1. unit.sub # 0 /\ unit.sub <= subStream' /\ ~(unit.sub < subStream')
    BY <1>2, <1>6 DEF pathVars
  <2>2. ASSUME alwaysAvailable'
        PROVE  /\ firstTimeReceived' /\ unit.pts <= lastPTS'
               /\ unit.sub < subStream' =>
                    \A g \in (Formats \ formatsLeft)' : unit.pts <= ptsOffset'[g]
    BY <1>2, <1>6, <1>7, <2>1, <2>2
  <2> QED
    BY <2>1, <2>2 DEF Placed
<1>10. \A u \in [sub : Nat, pts : Nat] : Placed(u) => Placed(u)'
  BY <1>2, <1>3, <1>7, PlacedStays DEF pathVars
<1>11. \A r \in Registered : \A u \in Got(r) : Follows(u, unit)
  <2>1. alwaysAvailable => \E g \in Formats \ formatsLeft : ptsOffset[g] <= unit.pts
    BY <1>2, <1>4, <1>6
  <2> QED
    BY <1>6, <2>1, UnitFollows
<1>12. Registered \in SUBSET Readers
  BY DEF Registered
<1>13. /\ \A r \in Registered' : GotInOrder(r)'
       /\ ReaderDataTypes'
  BY <1>2, <1>8, <1>9, <1>10, <1>11, <1>12, PushKeepsConcat
<1>14. path' = "walking" => path = "walking"
  BY <1>2 DEF pathVars
<1>15. path = "walking" => ptsOffset["video"] <= lastPTS /\ firstTimeReceived
                           /\ ptsOffset["video"] \in Nat
  BY DEF ConcatInv, DataTypes, ChangeInv, ChangePhases
<1>16. path' = "walking" => ptsOffset'["video"] <= lastPTS' /\ firstTimeReceived'
  BY <1>2, <1>3, <1>7, <1>14, <1>15
<1> QED
  BY <1>2, <1>3, <1>7, <1>13, <1>16 DEF ConcatInv, DataTypes

(* A reader begins with nothing, takes what is first in its queue, or      *)
(* leaves its queue alone.                                                 *)
LEMMA ReaderStepConcat ==
  ASSUME ReadersInv, ConcatInv, NEW r \in Readers, ReaderStep(r)
  PROVE  ConcatInv'
<1>1. /\ UNCHANGED <<alwaysAvailable, subStream, formatsLeft, timeVars>>
      /\ path' = "walking" => path = "walking"
  <2>1. CASE AddReader(r) \/ Removed(r)
    BY <2>1, MapChangesPath DEF AddReader, Removed
  <2>2. CASE Pull(r) \/ CallbackReturns(r) \/ PullTerminated(r)
    BY <2>2 DEF Pull, CallbackReturns, PullTerminated, pathVars
  <2>3. CASE ErrorReceived(r) \/ RemoveReader(r)
    BY <2>3 DEF ErrorReceived, RemoveReader, pathVars
  <2> QED
    BY <2>1, <2>2, <2>3 DEF ReaderStep
<1>2. ReaderDataTypes /\ DataTypes
  BY DEF ConcatInv, DataTypes
<1>3. \A u \in [sub : Nat, pts : Nat] : Placed(u) => Placed(u)'
  BY <1>1, <1>2, PlacedStays DEF DataTypes, timeVars
<1>4. /\ lastPTS' = lastPTS /\ ptsOffset' = ptsOffset
      /\ firstTimeReceived' = firstTimeReceived
  BY <1>1 DEF timeVars
<1>5. SUFFICES ReaderDataTypes' /\ \A reader \in Registered' : GotInOrder(reader)'
  BY <1>1, <1>2, <1>4 DEF ConcatInv, DataTypes
<1>6. CASE AddReader(r)
  <2>1. /\ session' = [session EXCEPT ![r] = "in"]
        /\ queue' = [queue EXCEPT ![r] = <<>>]
        /\ handled' = [handled EXCEPT ![r] = NoUnit]
    BY <1>6 DEF AddReader
  <2>2. queue' \in [Readers -> Seq([sub : Nat, pts : Nat])]
    BY <1>2, <2>1 DEF ReaderDataTypes
  <2>3. handled' \in [Readers -> [sub : Nat, pts : Nat]]
    BY <1>2, <2>1 DEF ReaderDataTypes, NoUnit
  <2>4. ASSUME NEW reader \in Registered' PROVE GotInOrder(reader)'
    <3>1. CASE reader = r
      <4>1. queue'[r] = <<>> /\ handled'[r] = NoUnit
        BY <1>2, <2>1 DEF ReaderDataTypes
      <4>2. 1..Len(queue'[r]) = {}
        BY <4>1
      <4>3. Got(r)' = {}
        BY <4>1, <4>2 DEF Got
      <4>4. InOrder(r)'
        BY <4>1, <4>2 DEF InOrder
      <4> QED
        BY <3>1, <4>3, <4>4 DEF GotInOrder
    <3>2. CASE reader # r
      <4>1. reader \in Registered /\ reader \in Readers
        BY <2>1, <2>4, <3>2 DEF Registered, ReadersInv, ReaderTypes
      <4>2. queue'[reader] = queue[reader] /\ handled'[reader] = handled[reader]
        BY <1>2, <2>1, <3>2, <4>1 DEF ReaderDataTypes
      <4>3. Got(reader)' = Got(reader) /\ InOrder(reader)' = InOrder(reader)
        BY <4>2 DEF Got, InOrder
      <4> QED
        BY <1>2, <1>3, <4>1, <4>3, GotType DEF ConcatInv, GotInOrder
    <3> QED
      BY <3>1, <3>2
  <2> QED
    BY <2>2, <2>3, <2>4 DEF ReaderDataTypes
<1>7. CASE Pull(r)
  <2>1. /\ queue[r] # <<>> /\ session' = session
        /\ handled' = [handled EXCEPT ![r] = Head(queue[r])]
        /\ queue' = [queue EXCEPT ![r] = Tail(queue[r])]
    BY <1>7 DEF Pull
  <2>2. queue[r] \in Seq([sub : Nat, pts : Nat])
    BY <1>2 DEF ReaderDataTypes
  <2>3. /\ Head(queue[r]) \in [sub : Nat, pts : Nat]
        /\ Tail(queue[r]) \in Seq([sub : Nat, pts : Nat])
    <3> DEFINE Unit == [sub : Nat, pts : Nat]
               q == queue[r]
    <3>1. q \in Seq(Unit) /\ q # <<>>
      BY <2>1, <2>2
    <3> HIDE DEF Unit, q
    <3>2. Head(q) \in Unit /\ Tail(q) \in Seq(Unit)
      BY <3>1
    <3> QED
      BY <3>2 DEF Unit, q
  <2>4. ReaderDataTypes'
    BY <1>2, <2>1, <2>3 DEF ReaderDataTypes
  <2>5. ASSUME NEW reader \in Registered' PROVE GotInOrder(reader)'
    <3>0. reader \in Registered /\ reader \in Readers /\ GotInOrder(reader)
      BY <2>1, <2>5 DEF Registered, ConcatInv
    <3>1. InOrder(reader)' /\ Got(reader)' \subseteq Got(reader)
      <4>1. CASE reader = r
        <5>1. queue'[r] = Tail(queue[r]) /\ handled'[r] = Head(queue[r])
          BY <1>2, <2>1 DEF ReaderDataTypes
        <5> QED
          BY <1>2, <2>1, <3>0, <4>1, <5>1, PullKeepsOrder DEF GotInOrder
      <4>2. CASE reader # r
        <5>1. queue'[reader] = queue[reader] /\ handled'[reader] = handled[reader]
          BY <1>2, <2>1, <3>0, <4>2 DEF ReaderDataTypes
        <5> QED
          BY <3>0, <5>1 DEF GotInOrder, InOrder, Got
      <4> QED
        BY <4>1, <4>2
    <3> QED
      BY <1>2, <1>3, <3>0, <3>1, GotType DEF GotInOrder
  <2> QED
    BY <2>4, <2>5
<1>8. ASSUME CallbackReturns(r) \/ PullTerminated(r) \/ ErrorReceived(r)
               \/ RemoveReader(r) \/ Removed(r)
      PROVE  ReaderDataTypes' /\ \A reader \in Registered' : GotInOrder(reader)'
  <2>1. UNCHANGED <<queue, handled>>
    BY <1>8 DEF CallbackReturns, PullTerminated, ErrorReceived, RemoveReader,
                Removed
  <2>2. Registered' \subseteq Registered
    <3>1. CASE CallbackReturns(r) \/ PullTerminated(r)
      BY <3>1 DEF CallbackReturns, PullTerminated, Registered
    <3>2. CASE ErrorReceived(r)
      BY <3>2 DEF ErrorReceived, Registered, ReadersInv, ReaderTypes
    <3>3. CASE RemoveReader(r)
      BY <3>3 DEF RemoveReader, Registered, ReadersInv, ReaderTypes
    <3>4. CASE Removed(r)
      BY <3>4 DEF Removed, Registered, ReadersInv, ReaderTypes
    <3> QED
      BY <1>8, <3>1, <3>2, <3>3, <3>4
  <2>3. ASSUME NEW reader \in Registered' PROVE GotInOrder(reader)'
    <3>1. reader \in Registered /\ reader \in Readers
      BY <2>2, <2>3 DEF Registered
    <3>2. Got(reader)' = Got(reader) /\ InOrder(reader)' = InOrder(reader)
      BY <2>1 DEF Got, InOrder
    <3> QED
      BY <1>2, <1>3, <3>1, <3>2, GotType DEF ConcatInv, GotInOrder
  <2> QED
    BY <1>2, <2>1, <2>3 DEF ReaderDataTypes
<1> QED
  BY <1>6, <1>7, <1>8 DEF ReaderStep

LEMMA ConcatInvStep ==
  ReadersInv /\ ChangeInv /\ ConcatInv /\ [Next]_vars => ConcatInv'
<1> SUFFICES ASSUME ReadersInv, ChangeInv, ConcatInv, [Next]_vars
             PROVE  ConcatInv'
  OBVIOUS
<1>1. CASE PathStep
  <2>1. CASE PublisherStarts \/ OfflineStarts
    BY <2>1, ConcatRests DEF PublisherStarts, OfflineStarts, readerVars
  <2>2. CASE Started \/ Close
    BY <2>2, ConcatRests DEF Started, Close, readerVars
  <2> QED
    BY <1>1, <2>1, <2>2, SwapConcat, Initialize2Concat, WalkOnConcat
       DEF PathStep
<1>2. CASE OfflineEnds
  BY <1>2, ConcatRests DEF OfflineEnds, readerVars
<1>3. ASSUME NEW s \in SubStreams, PublisherLeaves(s) PROVE ConcatInv'
  BY <1>3, ConcatRests DEF PublisherLeaves, pathVars, readerVars
<1>4. ASSUME NEW s \in SubStreams, NEW f \in Formats, WriteUnit(s, f)
      PROVE  ConcatInv'
  BY <1>4, WriteUnitConcat
<1>5. ASSUME NEW r \in Readers, ReaderStep(r) PROVE ConcatInv'
  BY <1>5, ReaderStepConcat
<1>6. CASE UNCHANGED vars
  BY <1>6, ConcatRests DEF vars, pathVars, readerVars
<1> QED
  BY <1>1, <1>2, <1>3, <1>4, <1>5, <1>6 DEF Next, FeederStep, Dead

(* What a reader has been given is the unit it has taken and its queue. *)
LEMMA OrderIsConcatenated ==
  ASSUME ReaderDataTypes, NEW r \in Readers, InOrder(r)
  PROVE  \A i, j \in DOMAIN Given(r) : i < j => Follows(Given(r)[i], Given(r)[j])
<1> DEFINE q == queue[r]
           h == handled[r]
           Unit == [sub : Nat, pts : Nat]
<1>1. q \in Seq(Unit) /\ h \in Unit
  BY DEF ReaderDataTypes
<1>2. \A i, j \in 1..Len(q) : i < j => Follows(q[i], q[j])
  BY DEF InOrder
<1>3. h # NoUnit => \A i \in 1..Len(q) : Follows(h, q[i])
  BY DEF InOrder
<1>4. Given(r) = IF h = NoUnit THEN q ELSE <<h>> \o q
  BY DEF Given
<1> HIDE DEF q, h, Unit
<1>5. DOMAIN q = 1..Len(q) /\ Len(q) \in Nat
  BY <1>1
<1>6. CASE h = NoUnit
  BY <1>2, <1>4, <1>5, <1>6
<1>7. CASE h # NoUnit
  <2> DEFINE g == <<h>> \o q
  <2>1. <<h>> \in Seq(Unit) /\ Len(<<h>>) = 1 /\ <<h>>[1] = h
    BY <1>1
  <2>2. /\ DOMAIN g = 1..(Len(q) + 1)
        /\ g[1] = h
        /\ \A i \in 1..Len(q) : g[i + 1] = q[i]
    BY <1>1, <1>5, <2>1
  <2> HIDE DEF g
  <2>3. ASSUME NEW i \in DOMAIN g, NEW j \in DOMAIN g, i < j
        PROVE  Follows(g[i], g[j])
    <3>1. j - 1 \in 1..Len(q) /\ g[j] = q[j - 1]
      <4>1. j - 1 \in 1..Len(q) /\ (j - 1) + 1 = j
        BY <1>5, <2>2, <2>3
      <4> QED
        BY <2>2, <4>1
    <3>2. CASE i = 1
      BY <1>3, <1>7, <2>2, <3>1, <3>2
    <3>3. CASE i # 1
      <4>1. i - 1 \in 1..Len(q) /\ (i - 1) + 1 = i /\ i - 1 < j - 1
        BY <1>5, <2>2, <2>3, <3>3
      <4>2. g[i] = q[i - 1]
        BY <2>2, <4>1
      <4> QED
        BY <1>2, <3>1, <4>1, <4>2
    <3> QED
      BY <3>2, <3>3
  <2>4. Given(r) = g
    BY <1>4, <1>7 DEF g
  <2> QED
    BY <2>3, <2>4
<1> QED
  BY <1>6, <1>7

(* IsContinuous holds of every behaviour: a reader sees the sub streams    *)
(* one after the other on one clock, whatever the tracks, the size of the  *)
(* queue, the number of publishers and the moments at which they replace   *)
(* each other, and the offline segment plays whenever no publisher does.   *)
THEOREM ContinuityCorrect == Spec => []IsContinuous
<1>1. ConcatInv => Concatenated
  <2> SUFFICES ASSUME ConcatInv, NEW r \in Registered
               PROVE  \A i, j \in DOMAIN Given(r) :
                        i < j => Follows(Given(r)[i], Given(r)[j])
    BY DEF Concatenated, Follows
  <2>1. ReaderDataTypes /\ r \in Readers /\ InOrder(r)
    BY DEF ConcatInv, DataTypes, GotInOrder, Registered
  <2> QED
    BY <2>1, OrderIsConcatenated
<1>2. ChangeInv => GapsAreFilled
  BY DEF ChangeInv, ChangeTypes, ChangePhases, GapsAreFilled
<1>3. ConcatInv /\ ChangeInv => IsContinuous
  BY <1>1, <1>2 DEF IsContinuous
<1> QED
  BY <1>3, ReadersInit, ReadersInvStep, ChangeInit, ChangeInvStep, ConcatInit,
     ConcatInvStep, PTL DEF Spec

-----------------------------------------------------------------------------
(* Types: how far the clock can get.                                       *)

\* the length of a sub stream, and where those that are over can end
Span == MaxPTS + Cardinality(Formats) + 1
Limit(s) == s * Span

LEMMA SpanType ==
  /\ Span \in Nat /\ MaxPTS < Span
  /\ Formats # {} => MaxPTS + 2 <= Span
<1>1. IsFiniteSet({"video", "audio"})
  <2>1. IsFiniteSet({} \cup {"video"})
    BY FS_EmptySet, FS_AddElement
  <2>2. IsFiniteSet(({} \cup {"video"}) \cup {"audio"})
    BY <2>1, FS_AddElement
  <2>3. {"video", "audio"} = ({} \cup {"video"}) \cup {"audio"}
    OBVIOUS
  <2> QED
    BY <2>2, <2>3
<1>2. IsFiniteSet(Formats)
  BY <1>1, FS_Subset, StreamAssumption
<1>3. Cardinality(Formats) \in Nat
  BY <1>2, FS_CardinalityType
<1>4. Cardinality(Formats) = 0 <=> Formats = {}
  BY <1>2, FS_EmptySet
<1> DEFINE number == Cardinality(Formats)
<1>5. MaxPTS \in Nat
  BY StreamAssumption
<1>6. Formats # {} => number # 0
  BY <1>4
<1> HIDE DEF number
<1>7. /\ MaxPTS + number + 1 \in Nat /\ MaxPTS < MaxPTS + number + 1
      /\ number # 0 => MaxPTS + 2 <= MaxPTS + number + 1
  BY <1>3, <1>5 DEF number
<1> QED
  BY <1>6, <1>7 DEF Span, number

LEMMA LimitGrows ==
  ASSUME NEW s \in Nat
  PROVE  /\ Limit(s) \in Nat
         /\ Limit(s + 1) = Limit(s) + Span
         /\ s <= MaxSubStreams => Limit(s) <= Limit(MaxSubStreams)
<1>1. Span \in Nat /\ MaxSubStreams \in Nat
  BY SpanType, StreamAssumption
<1> DEFINE span == Span
           last == MaxSubStreams
<1>2. span \in Nat /\ last \in Nat
  BY <1>1
<1> HIDE DEF span, last
<1>3. s * span \in Nat /\ (s + 1) * span = s * span + span
  BY <1>2
<1>4. ASSUME s <= last PROVE s * span <= last * span
  <2>1. PICK k \in Nat : last = s + k
    <3>1. last - s \in Nat /\ last = s + (last - s)
      BY <1>2, <1>4
    <3> QED
      BY <3>1
  <2>2. last * span = s * span + k * span /\ k * span \in Nat
    BY <1>2, <2>1
  <2> QED
    BY <1>3, <2>2
<1> QED
  BY <1>3, <1>4 DEF Limit, span, last

VideoSeen == IF "video" \in Formats \ formatsLeft THEN 1 ELSE 0

(* The last timestamp is within the limit of the present sub stream, and   *)
(* what initialize2 has still to shift is within that of the one before:   *)
(* only the parameter sets of video move the clock before a unit is        *)
(* written.                                                                *)
ClockInv ==
  /\ lastPTS <= Limit(subStream)
  /\ ~alwaysAvailable => lastPTS = 0 /\ \A f \in Formats : ptsOffset[f] = 0
  /\ alwaysAvailable /\ Initializing =>
       lastPTS <= Limit(subStream - 1) + VideoSeen
  /\ alwaysAvailable =>
       /\ \A f \in formatsLeft : ptsOffset[f] <= Limit(subStream - 1)
       /\ \A f \in Formats \ formatsLeft :
            ptsOffset[f] + MaxPTS <= Limit(subStream)

LEMMA ClockInit == Init => ClockInv
<1> SUFFICES ASSUME Init PROVE ClockInv
  OBVIOUS
<1>1. Limit(0) \in Nat /\ Limit(0 + 1) = Limit(0) + Span /\ Span \in Nat
      /\ MaxPTS < Span
  BY LimitGrows, SpanType
<1>2. Limit(1) \in Nat /\ MaxPTS <= Limit(1)
  BY <1>1, StreamAssumption
<1>3. lastPTS = 0 /\ ptsOffset = [f \in Formats |-> 0] /\ formatsLeft = {}
      /\ path = "idle"
  BY DEF Init
<1>4. CASE alwaysAvailable
  <2>1. subStream = 1
    BY <1>4 DEF Init
  <2> QED
    BY <1>2, <1>3, <1>4, <2>1, StreamAssumption DEF ClockInv, Initializing
<1>5. CASE ~alwaysAvailable
  <2>1. subStream = 0
    BY <1>5 DEF Init
  <2> QED
    BY <1>1, <1>3, <1>5, <2>1 DEF ClockInv
<1> QED
  BY <1>4, <1>5

LEMMA SwapClock ==
  ASSUME ChangeInv, DataTypes, ClockInv, Swap PROVE ClockInv'
<1>1. /\ subStream' = subStream + 1 /\ formatsLeft' = Formats /\ path' = "starting"
      /\ path = "swapping"
      /\ alwaysAvailable' = alwaysAvailable /\ lastPTS' = lastPTS
      /\ ptsOffset' = ptsOffset
  BY DEF Swap, timeVars
<1>2. subStream \in Nat /\ formatsLeft = {}
  BY <1>1, StreamAssumption
     DEF ChangeInv, ChangeTypes, ChangePhases, Initializing, SubStreams
<1>3. /\ Limit(subStream) \in Nat /\ Limit(subStream + 1) = Limit(subStream) + Span
      /\ Span \in Nat /\ MaxPTS \in Nat /\ subStream' - 1 = subStream
  BY <1>1, <1>2, LimitGrows, SpanType, StreamAssumption
<1>4. lastPTS \in Nat /\ lastPTS <= Limit(subStream)
  BY DEF DataTypes, ClockInv
<1>5. lastPTS' <= Limit(subStream')
  BY <1>1, <1>3, <1>4
<1>6. VideoSeen' = 0
  BY <1>1 DEF VideoSeen
<1>7. lastPTS' <= Limit(subStream' - 1) + VideoSeen'
  BY <1>1, <1>3, <1>4, <1>6
<1>8. ASSUME alwaysAvailable, NEW f \in Formats
      PROVE  ptsOffset'[f] <= Limit(subStream' - 1)
  <2>1. ptsOffset[f] \in Nat /\ ptsOffset[f] + MaxPTS <= Limit(subStream)
    BY <1>2, <1>8 DEF DataTypes, ClockInv
  <2> QED
    BY <1>1, <1>3, <2>1
<1> QED
  BY <1>1, <1>5, <1>7, <1>8 DEF ClockInv

LEMMA Initialize2Clock ==
  ASSUME ChangeInv, DataTypes, ClockInv, NEW f \in Formats, Initialize2(f)
  PROVE  ClockInv'
<1>1. /\ f \in formatsLeft /\ formatsLeft' = formatsLeft \ {f}
      /\ path = "starting" /\ alwaysAvailable' = alwaysAvailable
      /\ subStream' = subStream
  BY DEF Initialize2
<1>2. CASE ~alwaysAvailable
  <2>1. lastPTS' = lastPTS /\ ptsOffset' = ptsOffset
    BY <1>2 DEF Initialize2
  <2> QED
    BY <1>1, <1>2, <2>1 DEF ClockInv
<1>3. CASE alwaysAvailable
  <2> DEFINE before == Limit(subStream - 1)
  <2>1. subStream - 1 \in Nat /\ (subStream - 1) + 1 = subStream
    BY <1>1, StreamAssumption
       DEF ChangeInv, ChangeTypes, ChangePhases, Initializing, SubStreams
  <2>2. /\ before \in Nat /\ Limit(subStream) = before + Span
        /\ Span \in Nat /\ MaxPTS \in Nat /\ MaxPTS + 2 <= Span
    BY <2>1, LimitGrows, SpanType, StreamAssumption
  <2>3. lastPTS \in Nat /\ lastPTS <= before + VideoSeen /\ VideoSeen \in {0, 1}
    BY <1>1, <1>3 DEF DataTypes, ClockInv, Initializing, VideoSeen
  <2>4. ptsOffset[f] \in Nat /\ ptsOffset[f] <= before
    BY <1>1, <1>3 DEF DataTypes, ClockInv
  <2>5. /\ ptsOffset'[f] \in Nat
        /\ ptsOffset'[f] <= before + VideoSeen + 1
        /\ \A g \in Formats \ {f} : ptsOffset'[g] = ptsOffset[g]
    <3>1. CASE firstTimeReceived
      <4>1. PICK elapsed \in {0, 1} :
              ptsOffset' = [ptsOffset EXCEPT ![f] = lastPTS + elapsed]
        BY <1>3, <3>1 DEF Initialize2
      <4>2. ptsOffset'[f] = lastPTS + elapsed
        BY <4>1 DEF DataTypes
      <4> HIDE DEF before
      <4>3. ptsOffset'[f] \in Nat /\ ptsOffset'[f] <= before + VideoSeen + 1
        BY <2>2, <2>3, <4>2
      <4> QED
        BY <4>1, <4>3 DEF DataTypes
    <3>2. CASE ~firstTimeReceived
      <4>1. ptsOffset' = ptsOffset
        BY <3>2 DEF Initialize2
      <4> HIDE DEF before
      <4> QED
        BY <2>2, <2>3, <2>4, <4>1
    <3> QED
      BY <3>1, <3>2
  <2>6. f = "video" => VideoSeen = 0 /\ VideoSeen' = 1
    BY <1>1 DEF VideoSeen
  <2>7. f # "video" => VideoSeen' = VideoSeen
    BY <1>1 DEF VideoSeen
  <2>8. lastPTS' <= before + VideoSeen'
    <3>1. CASE f = "video"
      <4>1. lastPTS' = IF ptsOffset'[f] > lastPTS THEN ptsOffset'[f] ELSE lastPTS
        BY <1>3, <3>1 DEF Initialize2, UpdateLastTime
      <4> HIDE DEF before
      <4> QED
        BY <2>2, <2>3, <2>5, <2>6, <3>1, <4>1
    <3>2. CASE f # "video"
      <4>1. lastPTS' = lastPTS
        BY <3>2 DEF Initialize2
      <4> QED
        BY <2>3, <2>7, <3>2, <4>1
    <3> QED
      BY <3>1, <3>2
  <2>9. VideoSeen' \in {0, 1}
    BY DEF VideoSeen
  <2>10. lastPTS' \in Nat
    <3>1. CASE f = "video"
      BY <1>3, <2>3, <2>5, <3>1 DEF Initialize2, UpdateLastTime
    <3>2. CASE f # "video"
      BY <2>3, <3>2 DEF Initialize2
    <3> QED
      BY <3>1, <3>2
  <2> HIDE DEF before
  <2>11. lastPTS' <= Limit(subStream')
    <3>1. Limit(subStream') = before + Span
      BY <1>1, <2>2
    <3>2. PICK seen \in {0, 1} : VideoSeen' = seen
      BY <2>9
    <3>3. PICK last \in Nat : lastPTS' = last
      BY <2>10
    <3>4. last <= before + seen
      BY <2>8, <3>2, <3>3
    <3>5. last <= before + Span
      BY <2>2, <3>4
    <3> QED
      BY <3>1, <3>3, <3>5
  <2>12. ASSUME NEW g \in formatsLeft' PROVE ptsOffset'[g] <= before
    BY <1>1, <1>3, <2>5 DEF ClockInv, before, ChangeInv, ChangeTypes
  <2>13. ASSUME NEW g \in (Formats \ formatsLeft)'
         PROVE  ptsOffset'[g] + MaxPTS <= Limit(subStream')
    <3>1. CASE g = f
      BY <1>1, <2>2, <2>3, <2>5, <3>1
    <3>2. CASE g # f
      BY <1>1, <1>3, <2>5, <2>13, <3>2 DEF ClockInv
    <3> QED
      BY <3>1, <3>2
  <2> QED
    BY <1>1, <1>3, <2>8, <2>11, <2>12, <2>13 DEF ClockInv, before
<1> QED
  BY <1>2, <1>3

LEMMA WriteUnitClock ==
  ASSUME ChangeInv, DataTypes, ClockInv, NEW s \in SubStreams,
         NEW f \in Formats, WriteUnit(s, f)
  PROVE  ClockInv'
<1>1. /\ ~Initializing /\ formatsLeft = {}
      /\ UNCHANGED <<alwaysAvailable, pathVars, ptsOffset>>
  BY FeedingStarted DEF WriteUnit
<1>2. UNCHANGED <<path, formatsLeft, subStream>>
  BY <1>1 DEF pathVars
<1>3. subStream \in Nat /\ Limit(subStream) \in Nat
  BY LimitGrows, StreamAssumption DEF ChangeInv, ChangeTypes, SubStreams
<1>4. lastPTS' <= Limit(subStream)
  <2>1. CASE ~alwaysAvailable
    BY <2>1 DEF WriteUnit, ClockInv
  <2>2. CASE alwaysAvailable
    <3>1. PICK pts \in 0..MaxPTS :
            lastPTS' = IF pts + ptsOffset[f] > lastPTS THEN pts + ptsOffset[f]
                       ELSE lastPTS
      BY <2>2 DEF WriteUnit, UpdateLastTime
    <3>2. ptsOffset[f] \in Nat /\ ptsOffset[f] + MaxPTS <= Limit(subStream)
          /\ lastPTS <= Limit(subStream) /\ lastPTS \in Nat
      BY <1>1, <2>2 DEF ClockInv, DataTypes
    <3> QED
      BY <1>3, <3>1, <3>2, StreamAssumption
  <2> QED
    BY <2>1, <2>2
<1>5. ~alwaysAvailable => lastPTS' = lastPTS
  BY DEF WriteUnit
<1> QED
  BY <1>1, <1>2, <1>4, <1>5 DEF ClockInv, Initializing

LEMMA ClockRests ==
  ASSUME ClockInv,
         UNCHANGED <<alwaysAvailable, subStream, formatsLeft, timeVars>>,
         Initializing' => Initializing
  PROVE  ClockInv'
BY DEF ClockInv, timeVars, VideoSeen

LEMMA ClockInvStep ==
  ChangeInv /\ ConcatInv /\ ClockInv /\ [Next]_vars => ClockInv'
<1> SUFFICES ASSUME ChangeInv, DataTypes, ClockInv, [Next]_vars
             PROVE  ClockInv'
  BY DEF ConcatInv
<1>1. CASE PathStep
  <2>1. CASE PublisherStarts \/ OfflineStarts
    BY <2>1, ClockRests DEF PublisherStarts, OfflineStarts, Initializing
  <2>2. CASE Started \/ Close
    BY <2>2, ClockRests DEF Started, Close, Initializing
  <2>3. ASSUME NEW r \in Readers, WalkOn(r) PROVE ClockInv'
    BY <2>3, ClockRests DEF WalkOn, Initializing
  <2> QED
    BY <1>1, <2>1, <2>2, <2>3, SwapClock, Initialize2Clock DEF PathStep
<1>2. CASE OfflineEnds
  BY <1>2, ClockRests DEF OfflineEnds, Initializing
<1>3. ASSUME NEW s \in SubStreams, PublisherLeaves(s) PROVE ClockInv'
  BY <1>3, ClockRests DEF PublisherLeaves, pathVars, Initializing
<1>4. ASSUME NEW s \in SubStreams, NEW f \in Formats, WriteUnit(s, f)
      PROVE  ClockInv'
  BY <1>4, WriteUnitClock
<1>5. ASSUME NEW r \in Readers, ReaderStep(r) PROVE ClockInv'
  <2>1. CASE AddReader(r) \/ Removed(r)
    BY <2>1, ClockRests, MapChangesPath DEF AddReader, Removed, Initializing
  <2>2. CASE Pull(r) \/ CallbackReturns(r) \/ PullTerminated(r)
    BY <2>2, ClockRests DEF Pull, CallbackReturns, PullTerminated, pathVars,
                            Initializing
  <2>3. CASE ErrorReceived(r) \/ RemoveReader(r)
    BY <2>3, ClockRests DEF ErrorReceived, RemoveReader, pathVars, Initializing
  <2> QED
    BY <1>5, <2>1, <2>2, <2>3 DEF ReaderStep
<1>6. CASE UNCHANGED vars
  BY <1>6, ClockRests DEF vars, pathVars, Initializing
<1> QED
  BY <1>1, <1>2, <1>3, <1>4, <1>5, <1>6 DEF Next, FeederStep, Dead

(* What the timestamps of a stream are at any moment, and what is written. *)
LEMMA TimesType ==
  ASSUME ChangeInv, DataTypes, ClockInv
  PROVE  /\ lastPTS \in Times
         /\ ptsOffset \in [Formats -> Times]
         /\ \A pts \in 0..MaxPTS :
              /\ ~alwaysAvailable => pts \in Times
              /\ alwaysAvailable =>
                   \A f \in Formats \ formatsLeft : pts + ptsOffset[f] \in Times
<1> DEFINE end == Limit(MaxSubStreams)
<1>1. Times = 0..end
  BY DEF Times, Limit, Span
<1>2. subStream \in Nat /\ subStream <= MaxSubStreams /\ MaxPTS \in Nat
      /\ MaxSubStreams \in Nat /\ 1 <= MaxSubStreams
  BY StreamAssumption DEF ChangeInv, ChangeTypes, SubStreams
<1>3. /\ end \in Nat /\ Limit(subStream) \in Nat /\ Limit(subStream) <= end
  BY <1>2, LimitGrows
<1>4. MaxPTS <= end
  <2>1. Limit(0) \in Nat /\ Limit(0 + 1) = Limit(0) + Span /\ MaxPTS < Span
        /\ Span \in Nat /\ Limit(1) <= end /\ 0 + 1 = 1
    BY <1>2, LimitGrows, SpanType
  <2> HIDE DEF end
  <2> QED
    BY <1>2, <1>3, <2>1
<1>5. lastPTS \in Times
  <2>1. lastPTS \in Nat /\ lastPTS <= Limit(subStream)
    BY DEF DataTypes, ClockInv
  <2> HIDE DEF end
  <2> QED
    BY <1>1, <1>3, <2>1
<1>6. ASSUME alwaysAvailable, NEW f \in Formats \ formatsLeft
      PROVE  ptsOffset[f] \in Nat /\ ptsOffset[f] + MaxPTS <= end
  <2>1. ptsOffset[f] \in Nat /\ ptsOffset[f] + MaxPTS <= Limit(subStream)
    BY <1>6 DEF DataTypes, ClockInv
  <2> HIDE DEF end
  <2> QED
    BY <1>2, <1>3, <2>1
<1>7. ASSUME NEW f \in Formats PROVE ptsOffset[f] \in Times
  <2>1. ptsOffset[f] \in Nat
    BY DEF DataTypes
  <2>2. CASE ~alwaysAvailable
    <3>1. ptsOffset[f] = 0
      BY <2>2 DEF ClockInv
    <3> HIDE DEF end
    <3> QED
      BY <1>1, <1>3, <3>1
  <2>3. CASE alwaysAvailable /\ f \notin formatsLeft
    <3>1. ptsOffset[f] + MaxPTS <= end
      BY <1>6, <2>3
    <3> HIDE DEF end
    <3> QED
      BY <1>1, <1>2, <1>3, <2>1, <3>1
  <2>4. CASE alwaysAvailable /\ f \in formatsLeft
    <3>1. Initializing
      BY <2>4 DEF ChangeInv, ChangePhases
    <3>2. subStream - 1 \in Nat /\ subStream - 1 <= MaxSubStreams
      BY <1>2, <3>1 DEF ChangeInv, ChangePhases
    <3>3. Limit(subStream - 1) \in Nat /\ Limit(subStream - 1) <= end
      BY <3>2, LimitGrows
    <3>4. ptsOffset[f] <= Limit(subStream - 1)
      BY <2>4 DEF ClockInv
    <3> HIDE DEF end
    <3> QED
      BY <1>1, <1>3, <2>1, <3>3, <3>4
  <2> QED
    BY <2>2, <2>3, <2>4
<1>8. ptsOffset \in [Formats -> Times]
  BY <1>7 DEF DataTypes
<1>9. ASSUME NEW pts \in 0..MaxPTS
      PROVE  /\ pts \in Times
             /\ alwaysAvailable =>
                  \A f \in Formats \ formatsLeft : pts + ptsOffset[f] \in Times
  <2> HIDE DEF end
  <2>1. pts \in Times
    BY <1>1, <1>2, <1>3, <1>4
  <2>2. ASSUME alwaysAvailable, NEW f \in Formats \ formatsLeft
        PROVE  pts + ptsOffset[f] \in Times
    BY <1>1, <1>2, <1>3, <1>6, <2>2
  <2> QED
    BY <2>1, <2>2
<1> QED
  BY <1>5, <1>8, <1>9

(* The part of TypeOK that is left. *)
QueueTypes ==
  /\ walk \subseteq Readers
  /\ mutex \in Readers \cup {Nobody}
  /\ queue \in [Readers -> Seq(Units)]
  /\ \A r \in Readers : Len(queue[r]) <= QueueSize
  /\ handled \in [Readers -> Units]
  /\ crashed \in BOOLEAN

(* A full queue takes nothing. *)
LEMMA PushType ==
  ASSUME NEW q \in Seq(Units), Len(q) <= QueueSize, NEW unit \in Units
  PROVE  Push(q, unit) \in Seq(Units) /\ Len(Push(q, unit)) <= QueueSize
<1>1. Append(q, unit) \in Seq(Units) /\ Len(Append(q, unit)) = Len(q) + 1
      /\ Len(q) \in Nat /\ QueueSize \in Nat
  <2> HIDE DEF Units
  <2> QED
    BY StreamAssumption
<1> QED
  BY <1>1 DEF Push

LEMMA PushToType ==
  ASSUME QueueTypes, NEW some, NEW unit \in Units, PushTo(some, unit)
  PROVE  /\ queue' \in [Readers -> Seq(Units)]
         /\ \A r \in Readers : Len(queue'[r]) <= QueueSize
<1>1. \A r \in Readers : queue[r] \in Seq(Units) /\ Len(queue[r]) <= QueueSize
  BY DEF QueueTypes
<1>2. \A r \in Readers : /\ Push(queue[r], unit) \in Seq(Units)
                         /\ Len(Push(queue[r], unit)) <= QueueSize
  BY <1>1, PushType
<1>3. queue' = [r \in Readers |-> IF r \in some THEN Push(queue[r], unit)
                                  ELSE queue[r]]
  BY DEF PushTo
<1> QED
  BY <1>1, <1>2, <1>3

LEMMA QueueTypesRest ==
  ASSUME QueueTypes, UNCHANGED <<queue, handled, mutex, crashed>>,
         walk' \subseteq Readers
  PROVE  QueueTypes'
BY DEF QueueTypes

LEMMA ReaderStepType ==
  ASSUME QueueTypes, NEW r \in Readers, ReaderStep(r) PROVE QueueTypes'
<1>0. /\ walk \subseteq Readers /\ mutex \in Readers \cup {Nobody}
      /\ crashed \in BOOLEAN
      /\ queue \in [Readers -> Seq(Units)] /\ handled \in [Readers -> Units]
      /\ \A reader \in Readers : Len(queue[reader]) <= QueueSize
  BY DEF QueueTypes
<1>1. CASE AddReader(r)
  <2>1. walk' \subseteq Readers /\ crashed' \in BOOLEAN /\ mutex' = mutex
    BY <1>0, <1>1 DEF AddReader, MapChanges
  <2>2. NoUnit \in Units
    <3>1. 0 \in SubStreams
      BY StreamAssumption DEF SubStreams
    <3>2. 0 \in Times
      <4>1. Limit(MaxSubStreams) \in Nat
        BY LimitGrows, StreamAssumption
      <4> QED
        BY <4>1 DEF Times, Limit, Span
    <3> QED
      BY <3>1, <3>2 DEF NoUnit, Units
  <2>3. handled' \in [Readers -> Units]
    BY <1>0, <1>1, <2>2 DEF AddReader
  <2>4. queue' = [queue EXCEPT ![r] = <<>>]
    BY <1>1 DEF AddReader
  <2>5. queue' \in [Readers -> Seq(Units)]
    BY <1>0, <2>4
  <2>6. \A reader \in Readers : Len(queue'[reader]) <= QueueSize
    BY <1>0, <2>4, StreamAssumption
  <2> QED
    BY <1>0, <2>1, <2>3, <2>5, <2>6 DEF QueueTypes
<1>2. CASE Pull(r)
  <2>1. /\ queue[r] # <<>>
        /\ handled' = [handled EXCEPT ![r] = Head(queue[r])]
        /\ queue' = [queue EXCEPT ![r] = Tail(queue[r])]
        /\ UNCHANGED <<walk, mutex, crashed>>
    BY <1>2 DEF Pull, pathVars
  <2>2. /\ Head(queue[r]) \in Units /\ Tail(queue[r]) \in Seq(Units)
        /\ Len(Tail(queue[r])) <= QueueSize
    <3> DEFINE q == queue[r]
    <3>1. q \in Seq(Units) /\ q # <<>> /\ Len(q) <= QueueSize
          /\ QueueSize \in Nat
      BY <1>0, <2>1, StreamAssumption
    <3> HIDE DEF Units, q
    <3>2. /\ Head(q) \in Units /\ Tail(q) \in Seq(Units)
          /\ Len(Tail(q)) <= QueueSize
      BY <3>1
    <3> QED
      BY <3>2 DEF q
  <2>3. handled' \in [Readers -> Units] /\ queue' \in [Readers -> Seq(Units)]
    BY <1>0, <2>1, <2>2
  <2>4. \A reader \in Readers : Len(queue'[reader]) <= QueueSize
    BY <1>0, <2>1, <2>2
  <2> QED
    BY <1>0, <2>1, <2>3, <2>4 DEF QueueTypes
<1>3. CASE CallbackReturns(r) \/ PullTerminated(r) \/ ErrorReceived(r)
  BY <1>0, <1>3, QueueTypesRest DEF CallbackReturns, PullTerminated,
                                    ErrorReceived, pathVars
<1>4. CASE RemoveReader(r)
  BY <1>0, <1>4 DEF RemoveReader, pathVars, QueueTypes
<1>5. CASE Removed(r)
  <2>1. walk' \subseteq Readers /\ crashed' \in BOOLEAN
    BY <1>0, <1>5 DEF Removed, MapChanges
  <2> QED
    BY <1>0, <1>5, <2>1 DEF Removed, QueueTypes
<1> QED
  BY <1>1, <1>2, <1>3, <1>4, <1>5 DEF ReaderStep

LEMMA QueueTypesStep ==
  ChangeInv /\ ConcatInv /\ ClockInv /\ QueueTypes /\ [Next]_vars => QueueTypes'
<1> SUFFICES ASSUME ChangeInv, DataTypes, ClockInv, QueueTypes, [Next]_vars
             PROVE  QueueTypes'
  BY DEF ConcatInv
<1>0. walk \subseteq Readers
  BY DEF QueueTypes
<1>1. CASE PublisherStarts \/ OfflineStarts \/ Swap \/ Started \/ Close
  BY <1>0, <1>1, QueueTypesRest
     DEF PublisherStarts, OfflineStarts, Swap, Started, Close, readerVars
<1>2. ASSUME NEW f \in Formats, Initialize2(f) PROVE QueueTypes'
  <2>1. walk' \subseteq Readers
    BY <1>0, <1>2 DEF Initialize2, Registered
  <2> QED
    BY <1>2, <2>1, QueueTypesRest DEF Initialize2, readerVars
<1>3. ASSUME NEW r \in Readers, WalkOn(r) PROVE QueueTypes'
  <2>1. subStream \in SubStreams /\ "video" \in Formats
    BY <1>3 DEF WalkOn, ChangeInv, ChangeTypes, ChangePhases
  <2>2. ptsOffset["video"] \in Times
    BY <2>1, TimesType
  <2>3. [sub |-> subStream, pts |-> ptsOffset["video"]] \in Units
    BY <2>1, <2>2 DEF Units
  <2>4. /\ queue' \in [Readers -> Seq(Units)]
        /\ \A reader \in Readers : Len(queue'[reader]) <= QueueSize
    BY <1>3, <2>3, PushToType DEF WalkOn
  <2>5. walk' \subseteq Readers /\ UNCHANGED <<mutex, handled, crashed>>
    BY <1>0, <1>3 DEF WalkOn
  <2> QED
    BY <2>4, <2>5 DEF QueueTypes
<1>4. ASSUME NEW s \in SubStreams, NEW f \in Formats, WriteUnit(s, f)
      PROVE  QueueTypes'
  <2>1. PICK pts \in 0..MaxPTS :
          PushTo(Registered,
                 [sub |-> s,
                  pts |-> IF alwaysAvailable THEN pts + ptsOffset[f] ELSE pts])
    BY <1>4 DEF WriteUnit
  <2>2. f \in Formats \ formatsLeft
    BY <1>4, FeedingStarted DEF WriteUnit
  <2>3. (IF alwaysAvailable THEN pts + ptsOffset[f] ELSE pts) \in Times
    BY <2>2, TimesType
  <2>4. [sub |-> s,
         pts |-> IF alwaysAvailable THEN pts + ptsOffset[f] ELSE pts] \in Units
    BY <2>3 DEF Units
  <2>5. /\ queue' \in [Readers -> Seq(Units)]
        /\ \A reader \in Readers : Len(queue'[reader]) <= QueueSize
    BY <2>1, <2>4, PushToType
  <2>6. UNCHANGED <<walk, mutex, handled, crashed>>
    BY <1>4 DEF WriteUnit, pathVars
  <2> QED
    BY <2>5, <2>6 DEF QueueTypes
<1>5. CASE OfflineEnds
  BY <1>0, <1>5, QueueTypesRest DEF OfflineEnds, readerVars
<1>6. ASSUME NEW s \in SubStreams, PublisherLeaves(s) PROVE QueueTypes'
  BY <1>0, <1>6, QueueTypesRest DEF PublisherLeaves, pathVars, readerVars
<1>7. ASSUME NEW r \in Readers, ReaderStep(r) PROVE QueueTypes'
  BY <1>7, ReaderStepType
<1>8. CASE UNCHANGED vars
  BY <1>0, <1>8, QueueTypesRest DEF vars, pathVars, readerVars
<1> QED
  BY <1>1, <1>2, <1>3, <1>4, <1>5, <1>6, <1>7, <1>8
     DEF Next, PathStep, FeederStep, Dead

(* Every variable keeps its type, for any tracks, readers and bounds: no   *)
(* queue gets longer than its size, and the clock of an always-available   *)
(* stream grows by no more than a tick per change of hands on top of what  *)
(* is written.                                                             *)
THEOREM StreamTypeCorrect == Spec => []TypeOK
<1>1. Init => QueueTypes
  <2> SUFFICES ASSUME Init PROVE QueueTypes
    OBVIOUS
  <2>1. NoUnit \in Units
    <3>1. Limit(MaxSubStreams) \in Nat
      BY LimitGrows, StreamAssumption
    <3>2. 0 \in Times /\ 0 \in SubStreams
      BY <3>1, StreamAssumption DEF Times, Limit, Span, SubStreams
    <3> QED
      BY <3>2 DEF NoUnit, Units
  <2>2. handled \in [Readers -> Units]
    BY <2>1 DEF Init
  <2>3. queue = [r \in Readers |-> <<>>]
    BY DEF Init
  <2>4. queue \in [Readers -> Seq(Units)]
    BY <2>3
  <2>5. \A r \in Readers : Len(queue[r]) <= QueueSize
    BY <2>3, StreamAssumption
  <2> QED
    BY <2>2, <2>4, <2>5 DEF Init, QueueTypes
<1>2. ReadersInv /\ ChangeInv /\ ConcatInv /\ ClockInv /\ QueueTypes => TypeOK
  <2> SUFFICES ASSUME ReadersInv, ChangeInv, DataTypes, ClockInv, QueueTypes
               PROVE  TypeOK
    BY DEF ConcatInv
  <2>1. lastPTS \in Times /\ ptsOffset \in [Formats -> Times]
    BY TimesType
  <2>2. firstTimeReceived \in BOOLEAN
    BY DEF DataTypes
  <2>3. ReaderTypes /\ ChangeTypes
    BY DEF ReadersInv, ChangeInv
  <2> QED
    BY <2>1, <2>2, <2>3 DEF TypeOK, ReaderTypes, ChangeTypes, QueueTypes
<1> QED
  BY <1>1, <1>2, ReadersInit, ReadersInvStep, ChangeInit, ChangeInvStep,
     ConcatInit, ConcatInvStep, ClockInit, ClockInvStep, QueueTypesStep, PTL
     DEF Spec

=============================================================================
