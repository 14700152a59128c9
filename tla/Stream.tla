------------------------------ MODULE Stream ------------------------------
(***************************************************************************)
(* A stream (backend/core/internal/stream): sub streams that take turns in *)
(* writing to it, and readers with a queue each.                           *)
(*                                                                         *)
(* The mutex of the stream protects the readers and the choice of the sub  *)
(* stream: WriteUnit holds it for reading, AddReader, RemoveReader and the *)
(* change of sub stream for writing.  What SubStream.Initialize does after *)
(* the change, initialize2, it does without the mutex: it shifts the       *)
(* timestamps and, for video, writes the parameter sets to every reader.   *)
(*                                                                         *)
(* An always-available stream passes from the offline segment to a         *)
(* publisher and back; any other stream has one sub stream.  A unit is its *)
(* sub stream and its timestamp (PTS); the tracks share one clock.         *)
(***************************************************************************)
EXTENDS Naturals, Sequences, FiniteSets

CONSTANTS
  AlwaysAvailable,  \* the values of alwaysAvailable considered
  Formats,          \* the tracks, some of "video" and "audio"
  Readers,
  QueueSize,        \* WriteQueueSize
  MaxSubStreams,    \* bound: sub streams that are started
  MaxPTS,           \* bound: timestamps of a sub stream, before the shift
  Nobody

ASSUME StreamAssumption ==
  /\ AlwaysAvailable \subseteq BOOLEAN
  /\ Formats \subseteq {"video", "audio"}
  /\ QueueSize \in Nat \ {0} /\ MaxSubStreams \in Nat \ {0} /\ MaxPTS \in Nat
  /\ Nobody \notin Readers

VARIABLES
  alwaysAvailable,
  path,          \* the goroutine of the path, inside the stream
  starting,      \* whose sub stream SubStream.Initialize is working on
  formatsLeft,   \* the tracks that initialize2 has still to see
  walk,          \* the readers that its unlocked loop has still to see
  subStream,     \* Stream.subStream; 0: none
  offline,       \* the goroutines of the offline segment
  offlineSub,    \* their sub stream
  publishers,    \* sub streams whose publisher may still call WriteUnit
  ptsOffset,     \* of each track
  lastPTS,
  firstTimeReceived,
  mutex,         \* the reader whose RemoveReader holds the mutex
  session,       \* what the owner of each reader does
  worker,        \* the goroutine of each reader
  queue,         \* its ring buffer
  handled,       \* the unit it has taken last; sub 0: none
  crashed        \* "fatal error: concurrent map iteration and map write"

pathVars   == <<path, starting, formatsLeft, walk, subStream>>
feedVars   == <<offline, offlineSub, publishers>>
timeVars   == <<ptsOffset, lastPTS, firstTimeReceived>>
readerVars == <<mutex, session, worker, queue, handled>>
vars == <<alwaysAvailable, pathVars, feedVars, timeVars, readerVars, crashed>>

SubStreams == 0..MaxSubStreams
\* every change of sub stream shifts the timestamps by a tick at most
Times == 0..(MaxSubStreams * (MaxPTS + Cardinality(Formats) + 1))
Units == [sub : SubStreams, pts : Times]
NoUnit == [sub |-> 0, pts |-> 0]

TypeOK ==
  /\ alwaysAvailable \in AlwaysAvailable
  /\ path \in {"idle", "stopping", "swapping", "starting", "walking",
               "closing", "closed"}
  /\ starting \in {"publisher", "offline"}
  /\ formatsLeft \subseteq Formats
  /\ walk \subseteq Readers
  /\ subStream \in SubStreams
  /\ offline \in {"off", "playing", "ending"}
  /\ offlineSub \in SubStreams
  /\ publishers \subseteq SubStreams
  /\ ptsOffset \in [Formats -> Times]
  /\ lastPTS \in Times
  /\ firstTimeReceived \in BOOLEAN
  /\ mutex \in Readers \cup {Nobody}
  /\ session \in [Readers -> {"out", "in", "told", "removing"}]
  /\ worker \in [Readers -> {"off", "pulling", "calling", "returning", "done"}]
  /\ queue \in [Readers -> Seq(Units)]
  /\ \A r \in Readers : Len(queue[r]) <= QueueSize
  /\ handled \in [Readers -> Units]
  /\ crashed \in BOOLEAN

(* The readers in the maps onDatas. *)
Registered == {r \in Readers : session[r] # "out"}

Free == mutex = Nobody

-----------------------------------------------------------------------------
(* Units.                                                                  *)

(* push: a full queue discards the unit. *)
\* Faulty variant: the queue has no limit.
Push_Unbounded(q, unit) == Append(q, unit)

Push(q, unit) == IF Len(q) < QueueSize THEN Append(q, unit) ELSE q

PushTo(some, unit) ==
  queue' = [r \in Readers |-> IF r \in some THEN Push(queue[r], unit)
                              ELSE queue[r]]

(* updateLastTime *)
\* Faulty variant: the track that has written last decides.
UpdateLastTime_Last(pts) ==
  /\ firstTimeReceived' = TRUE
  /\ lastPTS' = pts

UpdateLastTime(pts) ==
  /\ firstTimeReceived' = TRUE
  /\ lastPTS' = IF pts > lastPTS THEN pts ELSE lastPTS

(* The sub stream whose units are not dropped. *)
Accepted(s) == subStream = s

(* The publisher of a sub stream keeps calling WriteUnit until its session *)
(* ends, replaced or not; so does the offline segment until it has ended.  *)
Feeding(s) == s \in publishers \/ (offline # "off" /\ offlineSub = s)

WriteUnit(s, f) ==
  /\ Free /\ Feeding(s) /\ Accepted(s)
  /\ \E pts \in 0..MaxPTS :
       LET shifted == IF alwaysAvailable THEN pts + ptsOffset[f] ELSE pts
       IN  /\ PushTo(Registered, [sub |-> s, pts |-> shifted])
           /\ IF alwaysAvailable THEN UpdateLastTime(shifted)
              ELSE UNCHANGED <<lastPTS, firstTimeReceived>>
  /\ UNCHANGED <<alwaysAvailable, pathVars, feedVars, ptsOffset, mutex,
                 session, worker, handled, crashed>>

-----------------------------------------------------------------------------
(* The path changes the sub stream.                                        *)

(* SubStream.Initialize of a publisher; the offline segment, if it plays,  *)
(* is waited for.                                                          *)
\* Faulty variant: it plays on.
PublisherStarts_KeepsOffline ==
  /\ path = "idle" /\ subStream < MaxSubStreams
  /\ alwaysAvailable \/ subStream = 0
  /\ starting' = "publisher"
  /\ path' = "swapping"
  /\ UNCHANGED <<alwaysAvailable, formatsLeft, walk, subStream, feedVars,
                 timeVars, readerVars, crashed>>

PublisherStarts ==
  /\ path = "idle" /\ subStream < MaxSubStreams
  /\ alwaysAvailable \/ subStream = 0
  /\ starting' = "publisher"
  /\ IF offline = "playing" THEN path' = "stopping" /\ offline' = "ending"
                            ELSE path' = "swapping" /\ UNCHANGED offline
  /\ UNCHANGED <<alwaysAvailable, formatsLeft, walk, subStream, offlineSub,
                 publishers, timeVars, readerVars, crashed>>

(* offlineSubStream.close: the last track has ended. *)
\* Faulty variant: nobody waits for the result.
OfflineEnds_Unnoticed ==
  /\ offline = "ending"
  /\ offline' = "off"
  /\ UNCHANGED <<alwaysAvailable, pathVars, offlineSub, publishers, timeVars,
                 readerVars, crashed>>

OfflineEnds ==
  /\ offline = "ending"
  /\ offline' = "off"
  /\ path' = IF path = "closing" THEN "closed" ELSE "swapping"
  /\ UNCHANGED <<alwaysAvailable, starting, formatsLeft, walk, subStream,
                 offlineSub, publishers, timeVars, readerVars, crashed>>

(* StartOfflineSubStream, when the publisher has gone. *)
OfflineStarts ==
  /\ path = "idle" /\ alwaysAvailable /\ offline = "off"
  /\ subStream < MaxSubStreams
  /\ starting' = "offline"
  /\ path' = "swapping"
  /\ UNCHANGED <<alwaysAvailable, formatsLeft, walk, subStream, feedVars,
                 timeVars, readerVars, crashed>>

(* Stream.subStream = ss *)
Swap ==
  /\ path = "swapping" /\ Free
  /\ subStream' = subStream + 1
  /\ formatsLeft' = Formats
  /\ path' = "starting"
  /\ UNCHANGED <<alwaysAvailable, starting, walk, feedVars, timeVars,
                 readerVars, crashed>>

(* initialize2 of a track: the timestamps go on from the last one, plus    *)
(* the time that has passed since; then the parameter sets are written.    *)
Initialize2(f) ==
  /\ path = "starting" /\ f \in formatsLeft
  /\ formatsLeft' = formatsLeft \ {f}
  /\ IF alwaysAvailable /\ firstTimeReceived
     THEN \E elapsed \in {0, 1} :
            ptsOffset' = [ptsOffset EXCEPT ![f] = lastPTS + elapsed]
     ELSE UNCHANGED ptsOffset
  /\ IF alwaysAvailable /\ f = "video"
     THEN /\ UpdateLastTime(ptsOffset'[f])
          /\ walk' = Registered
          /\ path' = IF walk' = {} THEN "starting" ELSE "walking"
     ELSE UNCHANGED <<lastPTS, firstTimeReceived, walk, path>>
  /\ UNCHANGED <<alwaysAvailable, starting, subStream, feedVars, readerVars,
                 crashed>>

(* One round of the loop over onDatas, without the mutex. *)
WalkOn(r) ==
  /\ path = "walking" /\ r \in walk
  /\ PushTo({r}, [sub |-> subStream, pts |-> ptsOffset["video"]])
  /\ walk' = walk \ {r}
  /\ path' = IF walk' = {} THEN "starting" ELSE "walking"
  /\ UNCHANGED <<alwaysAvailable, starting, formatsLeft, subStream, feedVars,
                 timeVars, mutex, session, worker, handled, crashed>>

(* Initialize returns: the publisher is given the sub stream, or the       *)
(* tracks of the offline segment are started.                              *)
Started ==
  /\ path = "starting" /\ formatsLeft = {}
  /\ path' = "idle"
  /\ IF starting = "publisher"
     THEN /\ publishers' = publishers \cup {subStream}
          /\ UNCHANGED <<offline, offlineSub>>
     ELSE /\ offline' = "playing" /\ offlineSub' = subStream
          /\ UNCHANGED publishers
  /\ UNCHANGED <<alwaysAvailable, starting, formatsLeft, walk, subStream,
                 timeVars, readerVars, crashed>>

PublisherLeaves(s) ==
  /\ s \in publishers
  /\ publishers' = publishers \ {s}
  /\ UNCHANGED <<alwaysAvailable, pathVars, offline, offlineSub, timeVars,
                 readerVars, crashed>>

Close ==
  /\ path = "idle"
  /\ IF offline = "playing" THEN path' = "closing" /\ offline' = "ending"
                            ELSE path' = "closed" /\ UNCHANGED offline
  /\ UNCHANGED <<alwaysAvailable, starting, formatsLeft, walk, subStream,
                 offlineSub, publishers, timeVars, readerVars, crashed>>

-----------------------------------------------------------------------------
(* Readers.                                                                *)

(* A change of onDatas while initialize2 walks through it: the runtime may *)
(* notice and stop the process; otherwise a reader that is added may be    *)
(* seen or not.                                                            *)
MapChanges(added, removed) ==
  IF path = "walking"
  THEN /\ crashed' \in BOOLEAN
       /\ walk' \in {walk \ removed, (walk \ removed) \cup added}
       /\ path' = IF walk' = {} THEN "starting" ELSE "walking"
  ELSE UNCHANGED <<crashed, walk, path>>

AddReader(r) ==
  /\ session[r] = "out" /\ Free
  /\ session' = [session EXCEPT ![r] = "in"]
  /\ worker' = [worker EXCEPT ![r] = "pulling"]
  /\ queue' = [queue EXCEPT ![r] = <<>>]
  /\ handled' = [handled EXCEPT ![r] = NoUnit]
  /\ MapChanges({r}, {})
  /\ UNCHANGED <<alwaysAvailable, starting, formatsLeft, subStream, feedVars,
                 timeVars, mutex>>

(* runInner: take a unit and call the callback of the reader. *)
Pull(r) ==
  /\ worker[r] = "pulling" /\ queue[r] # <<>>
  /\ worker' = [worker EXCEPT ![r] = "calling"]
  /\ handled' = [handled EXCEPT ![r] = Head(queue[r])]
  /\ queue' = [queue EXCEPT ![r] = Tail(queue[r])]
  /\ UNCHANGED <<alwaysAvailable, pathVars, feedVars, timeVars, mutex, session,
                 crashed>>

CallbackReturns(r) ==
  /\ worker[r] = "calling"
  /\ \E next \in {"pulling", "returning"} :
       worker' = [worker EXCEPT ![r] = next]
  /\ UNCHANGED <<alwaysAvailable, pathVars, feedVars, timeVars, mutex, session,
                 queue, handled, crashed>>

(* The buffer is closed; the units in it may be pulled or not. *)
PullTerminated(r) ==
  /\ worker[r] = "pulling" /\ session[r] = "removing"
  /\ worker' = [worker EXCEPT ![r] = "returning"]
  /\ UNCHANGED <<alwaysAvailable, pathVars, feedVars, timeVars, mutex, session,
                 queue, handled, crashed>>

(* The owner of the reader receives from Error(). *)
ErrorReceived(r) ==
  /\ session[r] = "in" /\ worker[r] = "returning"
  /\ session' = [session EXCEPT ![r] = "told"]
  /\ worker' = [worker EXCEPT ![r] = "done"]
  /\ UNCHANGED <<alwaysAvailable, pathVars, feedVars, timeVars, mutex, queue,
                 handled, crashed>>

(* RemoveReader: lock, close the buffer and wait for r.err ... *)
RemoveReader(r) ==
  /\ session[r] \in {"in", "told"} /\ Free
  /\ mutex' = r
  /\ session' = [session EXCEPT ![r] = "removing"]
  /\ UNCHANGED <<alwaysAvailable, pathVars, feedVars, timeVars, worker, queue,
                 handled, crashed>>

(* ... which is closed once it has been received from; then forget it. *)
\* Faulty variant: nobody waits.
Removed_NoWait(r) ==
  /\ mutex = r
  /\ mutex' = Nobody
  /\ session' = [session EXCEPT ![r] = "out"]
  /\ MapChanges({}, {r})
  /\ UNCHANGED <<alwaysAvailable, starting, formatsLeft, subStream, feedVars,
                 timeVars, worker, queue, handled>>

\* Faulty variant: the error is waited for although it was received before.
Removed_Again(r) ==
  /\ mutex = r /\ worker[r] = "returning"
  /\ mutex' = Nobody
  /\ session' = [session EXCEPT ![r] = "out"]
  /\ worker' = [worker EXCEPT ![r] = "done"]
  /\ MapChanges({}, {r})
  /\ UNCHANGED <<alwaysAvailable, starting, formatsLeft, subStream, feedVars,
                 timeVars, queue, handled>>

Removed(r) ==
  /\ mutex = r /\ worker[r] \in {"returning", "done"}
  /\ mutex' = Nobody
  /\ session' = [session EXCEPT ![r] = "out"]
  /\ worker' = [worker EXCEPT ![r] = "done"]
  /\ MapChanges({}, {r})
  /\ UNCHANGED <<alwaysAvailable, starting, formatsLeft, subStream, feedVars,
                 timeVars, queue, handled>>

-----------------------------------------------------------------------------
(* Initialize: an always-available stream begins with its offline segment. *)
Init ==
  /\ alwaysAvailable \in AlwaysAvailable
  /\ path = "idle" /\ starting = "offline"
  /\ formatsLeft = {} /\ walk = {}
  /\ subStream = IF alwaysAvailable THEN 1 ELSE 0
  /\ offline = IF alwaysAvailable THEN "playing" ELSE "off"
  /\ offlineSub = subStream
  /\ publishers = {}
  /\ ptsOffset = [f \in Formats |-> 0]
  /\ lastPTS = 0
  /\ firstTimeReceived = (alwaysAvailable /\ "video" \in Formats)
  /\ mutex = Nobody
  /\ session = [r \in Readers |-> "out"]
  /\ worker = [r \in Readers |-> "off"]
  /\ queue = [r \in Readers |-> <<>>]
  /\ handled = [r \in Readers |-> NoUnit]
  /\ crashed = FALSE

PathStep ==
  \/ PublisherStarts \/ OfflineStarts \/ Swap \/ Started \/ Close
  \/ \E f \in Formats : Initialize2(f)
  \/ \E r \in Readers : WalkOn(r)

FeederStep ==
  \/ OfflineEnds
  \/ \E s \in SubStreams : \/ PublisherLeaves(s)
                           \/ \E f \in Formats : WriteUnit(s, f)

ReaderStep(r) ==
  \/ AddReader(r) \/ Pull(r) \/ CallbackReturns(r) \/ PullTerminated(r)
  \/ ErrorReceived(r) \/ RemoveReader(r) \/ Removed(r)

Alive == ~crashed

Dead == crashed /\ UNCHANGED vars

Next ==
  \/ Alive /\ (PathStep \/ FeederStep \/ \E r \in Readers : ReaderStep(r))
  \/ Dead

Spec == Init /\ [][Next]_vars

(* Callbacks return, and so do the steps of the path and of the offline    *)
(* segment; the mutex lets a waiting writer in (sync.RWMutex does not      *)
(* starve) and the loop over the readers is finite, hence strong fairness  *)
(* of Swap and of the last round.                                          *)
Fairness ==
  /\ WF_vars(Alive /\ OfflineEnds)
  /\ SF_vars(Alive /\ Swap)
  /\ WF_vars(Alive /\ Started)
  /\ \A f \in Formats : WF_vars(Alive /\ Initialize2(f))
  /\ WF_vars(Alive /\ \E r \in Readers : WalkOn(r))
  /\ SF_vars(Alive /\ path' = "starting" /\ \E r \in Readers : WalkOn(r))
  /\ \A r \in Readers :
       /\ WF_vars(Alive /\ CallbackReturns(r))
       /\ SF_vars(Alive /\ PullTerminated(r))
       /\ WF_vars(Alive /\ Removed(r))

FairSpec == Spec /\ Fairness

-----------------------------------------------------------------------------
(* Safety.                                                                 *)

(* What a reader has been given since it was added, up to the last unit it *)
(* has taken, and what is still in its queue.                              *)
Given(r) == IF handled[r] = NoUnit THEN queue[r]
            ELSE <<handled[r]>> \o queue[r]

(* "The offline segment and online stream are concatenated": whoever feeds *)
(* the stream while it changes hands, a reader sees the sub streams one    *)
(* after the other, and their timestamps never go back from one to the     *)
(* next, on any track.                                                     *)
Concatenated ==
  \A r \in Registered :
    LET g == Given(r)
    IN  \A i, j \in DOMAIN g :
          i < j => /\ g[i].sub <= g[j].sub
                   /\ g[i].sub < g[j].sub => g[i].pts <= g[j].pts

(* Once RemoveReader has returned, the callback of the reader is not       *)
(* running and never runs again, so its owner may close what it writes to. *)
SilentOnceRemoved ==
  \A r \in Readers : session[r] = "out" => worker[r] \in {"off", "done"}

(* The offline segment plays into the sub stream that is heard, or is      *)
(* ending; and while no change is under way an always-available stream is  *)
(* never left to nobody: the segment plays unless a publisher has started. *)
GapsAreFilled ==
  /\ offline = "playing" => offlineSub = subStream
  /\ alwaysAvailable /\ path = "idle" /\ offline # "playing" =>
       offline = "off" /\ starting = "publisher"

(* A reader of an always-available stream sees one stream without gaps.    *)
IsContinuous == Concatenated /\ GapsAreFilled

-----------------------------------------------------------------------------
(* Liveness.                                                               *)

(* RemoveReader, that keeps the mutex while it waits for the reader, comes *)
(* back, whether the reader has failed before or not.                      *)
RemoveReturns ==
  \A r \in Readers : session[r] = "removing" ~> session[r] = "out" \/ crashed

(* A change of sub stream comes to its end: it waits for the offline       *)
(* segment, which waits for the mutex, which a reader may hold.            *)
SwitchCompletes == path = "stopping" ~> path = "idle" \/ crashed

(* Nobody waits for ever on the mutex of the stream.                       *)
NobodyWaits == RemoveReturns /\ SwitchCompletes
=============================================================================
