-------------------------------- MODULE Path --------------------------------
(***************************************************************************)
(* The event loop of one path of the media server                          *)
(* (backend/core/internal/core/path.go).                                   *)
(*                                                                         *)
(* A path is a single goroutine (runInner) that serves one event at a      *)
(* time: requests of readers and publishers, readiness of the static       *)
(* source, four timers, configuration reloads and the cancellation of its  *)
(* context.  Clients are goroutines of their own; each performs one        *)
(* blocking call at a time, so a request on its way to the path, or held   *)
(* by it, is a state of its client (readerState, publisherState).          *)
(*                                                                         *)
(* The path manager is seen through the three things it does to a path:    *)
(* it hands the path to a client (pendingRequests + 1), it takes the       *)
(* request of closePathIfIdle and decides on it, in two steps between      *)
(* which the path goes on, and it may cancel the context at any time.      *)
(*                                                                         *)
(* A configuration never has both an on-demand static source and an        *)
(* on-demand publisher (conf/path.go, validate), and neither option can be *)
(* hot reloaded, so the two copies of the on-demand state and of its two   *)
(* timers are one here: the copy the configuration selects.                *)
(***************************************************************************)
EXTENDS Naturals, Sequences, FiniteSets

CONSTANTS
  Readers,          \* reader sessions (they describe a path, then read it)
  Publishers,       \* publisher sessions
  Confs,            \* the path configurations considered
  DecoderErrors,    \* may a sub stream be refused on an ordinary path?
  MaxReadyCommands  \* bound on runOnReady commands left running

RecordFormats == {"off", "fmp4", "mpegts"}

Conf == [source: {"publisher", "static", "redirect"}, onDemand: BOOLEAN,
         alwaysAvailable: BOOLEAN, overridePublisher: BOOLEAN,
         regexp: BOOLEAN, maxReaders: Nat, record: RecordFormats]

(* What validate() lets through. *)
ValidConf(c) ==
  /\ c.source = "redirect" => ~c.onDemand
  /\ c.alwaysAvailable => ~c.regexp /\ ~c.onDemand
  /\ c.source = "static" /\ c.regexp => c.onDemand

ASSUME ConfsAssumption ==
  Confs \subseteq Conf /\ \A c \in Confs : ValidConf(c)

ASSUME ClientsAssumption ==
  /\ IsFiniteSet(Readers) /\ IsFiniteSet(Publishers)
  /\ {"nobody", "handler", "redirect", "offline"} \cap Publishers = {}

ASSUME BoundsAssumption ==
  DecoderErrors \in BOOLEAN /\ MaxReadyCommands \in Nat \ {0}

NoOne == "nobody"

VARIABLES
  conf,            \* pa.conf
  phase,           \* where the goroutine is: serving, in closePathIfIdle, gone
  ctx,             \* pa.ctx: open (the manager may be deciding), or cancelled
  pendingRequests, \* clients that were given the path and not yet served
  source,          \* pa.source
  available,       \* pa.stream # nil
  feeder,          \* whose sub stream feeds pa.stream
  recorder,        \* format of pa.recorder, "off" when it is nil
  readyCommands,   \* runOnReady commands running
  readers,         \* pa.readers
  describesOnHold, \* pa.describeRequestsOnHold
  readersOnHold,   \* pa.readerAddRequestsOnHold
  demand,          \* onDemandStaticSourceState / onDemandPublisherState
  readyTimer,      \* onDemand...ReadyTimer is armed
  closeTimer,      \* onDemand...CloseTimer is armed
  handler,         \* the static source handler and what its source achieved
  command,         \* pa.onUnDemandHook # nil: the runOnDemand command runs
  panicked,        \* a panic() or a nil call was reached
  readerState,     \* each reader session
  publisherState   \* each publisher session

streamVars == <<available, feeder, recorder, readyCommands>>
holdVars   == <<describesOnHold, readersOnHold>>
demandVars == <<demand, readyTimer, closeTimer>>
startVars  == <<handler, command, panicked>>
clientVars == <<readerState, publisherState>>
vars       == <<conf, phase, ctx, pendingRequests, source, readers, streamVars,
                holdVars, demandVars, startVars, clientVars>>

ReaderStates == {"idle", "describing", "describeHeld", "adding", "addHeld",
                 "reading", "closed", "leaving"}
PublisherStates == {"idle", "adding", "publishing", "closed", "leaving"}

HoldSet == {readersOnHold[i] : i \in 1..Len(readersOnHold)}

TypeOK ==
  /\ conf \in Confs
  /\ phase \in {"running", "asking", "destroyed"}
  /\ ctx \in {"open", "deciding", "idle", "terminated"}
  /\ pendingRequests \in Nat
  /\ source \in Publishers \cup {NoOne, "handler", "redirect"}
  /\ available \in BOOLEAN
  /\ feeder \in Publishers \cup {NoOne, "handler", "offline"}
  /\ recorder \in RecordFormats
  /\ readyCommands \in 0..MaxReadyCommands
  /\ readers \in SUBSET Readers
  /\ describesOnHold \in SUBSET Readers
  /\ readersOnHold \in Seq(Readers)
  /\ demand \in {"initial", "waitingReady", "ready", "closing"}
  /\ readyTimer \in BOOLEAN
  /\ closeTimer \in BOOLEAN
  /\ handler \in {"none", "stopped", "starting", "ready"}
  /\ command \in BOOLEAN
  /\ panicked \in BOOLEAN
  /\ readerState \in [Readers -> ReaderStates]
  /\ publisherState \in [Publishers -> PublisherStates]

-----------------------------------------------------------------------------
(* The context is not cancelled.  While the manager is "deciding" it has    *)
(* received closePathIfIdle and not yet read pendingRequests: it serves    *)
(* nobody else.                                                            *)
Open == ctx \in {"open", "deciding"}

HasStaticSource         == conf.source = "static"
HasOnDemandStaticSource == HasStaticSource /\ conf.onDemand
HasOnDemandPublisher    == conf.source = "publisher" /\ conf.onDemand

AllIdle ==
  /\ readerState = [r \in Readers |-> "idle"]
  /\ publisherState = [p \in Publishers |-> "idle"]

(* The client for which the manager has created the path. *)
OneClientOnItsWay ==
  \/ /\ \E r \in Readers, state \in {"describing", "adding"} :
          readerState = [q \in Readers |-> IF q = r THEN state ELSE "idle"]
     /\ publisherState = [p \in Publishers |-> "idle"]
  \/ /\ readerState = [r \in Readers |-> "idle"]
     /\ \E p \in Publishers :
          publisherState = [q \in Publishers |-> IF q = p THEN "adding" ELSE "idle"]

(* initialize() and the head of run(): an always available path starts on  *)
(* its offline sub stream, and a static source that is not on demand is    *)
(* started at once.  A path made by a regular expression is created for a  *)
(* client, which has it already; the others come from the configuration.   *)
Init ==
  /\ conf \in Confs
  /\ phase = "running"
  /\ ctx = "open"
  /\ source = CASE conf.source = "static"    -> "handler"
                [] conf.source = "redirect"  -> "redirect"
                [] conf.source = "publisher" -> NoOne
  /\ available = conf.alwaysAvailable
  /\ feeder = IF conf.alwaysAvailable THEN "offline" ELSE NoOne
  /\ recorder = IF conf.alwaysAvailable THEN conf.record ELSE "off"
  /\ readyCommands = IF conf.alwaysAvailable THEN 1 ELSE 0
  /\ readers = {}
  /\ describesOnHold = {}
  /\ readersOnHold = <<>>
  /\ demand = "initial"
  /\ readyTimer = FALSE
  /\ closeTimer = FALSE
  /\ handler = CASE ~HasStaticSource        -> "none"
                 [] HasOnDemandStaticSource -> "stopped"
                 [] OTHER                   -> "starting"
  /\ command = FALSE
  /\ panicked = FALSE
  /\ \/ ~conf.regexp /\ pendingRequests = 0 /\ AllIdle
     \/ conf.regexp /\ pendingRequests = 1 /\ OneClientOnItsWay

(* A path made by a regular expression is only kept while it is in use. *)
ShouldClose ==
  /\ conf.regexp
  /\ source = NoOne
  /\ readers = {}
  /\ describesOnHold = {}
  /\ readersOnHold = <<>>

(* The two ways an event ends: with or without the check of shouldClose.  *)
EndNoCheck == phase' = "running"
\* Faulty variant: the check is forgotten.
EndWithCheck_Forgotten == EndNoCheck
EndWithCheck == phase' = IF ShouldClose' THEN "asking" ELSE "running"

-----------------------------------------------------------------------------
(* Pieces shared by several handlers.                                      *)

(* Reader.Close on the sessions S: those not leaving already have to.  *)
\* Faulty variant: readers are dropped without being told.
AfterClose_Silent(S) == readerState
AfterClose(S) == [r \in Readers |->
  IF r \in S /\ readerState[r] = "reading" THEN "closed" ELSE readerState[r]]

(* The readers that addReaderPost admits from the hold queue, in order,    *)
(* when "base" are attached already.                                       *)
Admitted(base) ==
  LET room == IF conf.maxReaders = 0 THEN Len(readersOnHold)
              ELSE conf.maxReaders - Cardinality(base)
  IN  {readersOnHold[i] : i \in {j \in 1..Len(readersOnHold) : j <= room}}

(* consumeOnHoldRequests: held describes get the stream, held readers are  *)
(* attached or refused.  "base" are the readers attached before, "closed"  *)
(* those that the same step has closed.                                    *)
ConsumeOnHold(base, closed) ==
  /\ readers' = base \cup Admitted(base)
  /\ describesOnHold' = {}
  /\ readersOnHold' = <<>>
  /\ readerState' = [r \in Readers |->
       IF r \in Admitted(base) THEN "reading"
       ELSE IF r \in HoldSet \cup describesOnHold THEN "idle"
       ELSE AfterClose(closed)[r]]

(* Every held request is answered with an error. *)
\* Faulty variant: the queue is not emptied after the answers.
FailOnHold_Kept ==
  /\ describesOnHold' = {}
  /\ readersOnHold' = readersOnHold
  /\ readerState' = [r \in Readers |->
       IF r \in HoldSet \cup describesOnHold THEN "idle" ELSE readerState[r]]

FailOnHold ==
  /\ describesOnHold' = {}
  /\ readersOnHold' = <<>>
  /\ readerState' = [r \in Readers |->
       IF r \in HoldSet \cup describesOnHold THEN "idle" ELSE readerState[r]]

(* onDemand...ScheduleClose followed by the admission of "joined". *)
\* Faulty variant: the state changes and the timer is not started.
ScheduleClose_NoTimer(joined) ==
  /\ readyTimer' = FALSE
  /\ closeTimer' = FALSE
  /\ demand' = IF joined = {} THEN "closing" ELSE "ready"

ScheduleClose(joined) ==
  /\ readyTimer' = FALSE
  /\ closeTimer' = (joined = {})
  /\ demand' = IF joined = {} THEN "closing" ELSE "ready"

\* Faulty variant: the timer goes on.
StopCloseTimer_Missing == closeTimer' = closeTimer
StopCloseTimer == closeTimer' = (closeTimer /\ demand # "closing")

(* onDemandStaticSourceStop: Handler.Stop panics unless it is running. *)
\* Faulty variant: the state is not reset.
StaticSourceStop_KeepsState ==
  /\ demand' = demand
  /\ handler' = "stopped"
  /\ panicked' = (panicked \/ handler = "stopped")

StaticSourceStop ==
  /\ demand' = "initial"
  /\ handler' = "stopped"
  /\ panicked' = (panicked \/ handler = "stopped")

(* onDemandPublisherStop: it calls the hook without looking at it. *)
\* Faulty variant: the state is not reset.
PublisherStop_KeepsState ==
  /\ demand' = demand
  /\ command' = FALSE
  /\ panicked' = (panicked \/ ~command)

PublisherStop ==
  /\ demand' = "initial"
  /\ command' = FALSE
  /\ panicked' = (panicked \/ ~command)

(* setPathReady and setPathNotReady: the manager receives them, unless it   *)
(* is deciding; a path that is closed does not wait for it.                *)
ManagerIsTold == ctx # "deciding"

(* setAvailable on an ordinary path.  It looks at nothing that may be left *)
(* from an earlier stream.                                                 *)
SetAvailable ==
  /\ ManagerIsTold
  /\ readyCommands < MaxReadyCommands
  /\ available' = TRUE
  /\ readyCommands' = readyCommands + 1
  /\ recorder' = IF conf.record = "off" THEN recorder ELSE conf.record

(* setNotAvailable, but for the readers, which CloseReaders treats. *)
\* Faulty variant: the stream is not reset.
SetNotAvailable_KeepsStream ==
  /\ ManagerIsTold
  /\ available' = available
  /\ readyCommands' = IF readyCommands = 0 THEN 0 ELSE readyCommands - 1
  /\ recorder' = "off"

SetNotAvailable ==
  /\ ManagerIsTold
  /\ available' = FALSE
  /\ readyCommands' = IF readyCommands = 0 THEN 0 ELSE readyCommands - 1
  /\ recorder' = "off"

\* Faulty variant: closed readers stay in the map.
CloseReaders_KeepsMap ==
  /\ readers' = readers
  /\ readerState' = AfterClose(readers)

CloseReaders ==
  /\ readers' = {}
  /\ readerState' = AfterClose(readers)

(* SubStream.Initialize: an always available path refuses incompatible     *)
(* tracks, and any path refuses a track that has no RTP decoder.           *)
SubStreamMayFail == conf.alwaysAvailable \/ DecoderErrors

-----------------------------------------------------------------------------
(* The four timers.                                                        *)

StaticSourceReadyTimer ==
  /\ phase = "running" /\ HasOnDemandStaticSource /\ readyTimer
  /\ readyTimer' = FALSE
  /\ FailOnHold
  /\ StaticSourceStop
  /\ StopCloseTimer
  /\ UNCHANGED <<conf, ctx, pendingRequests, source, readers, command,
                 publisherState, streamVars>>
  /\ EndWithCheck

StaticSourceCloseTimer ==
  /\ phase = "running" /\ HasOnDemandStaticSource /\ closeTimer
  /\ closeTimer' = FALSE
  /\ SetNotAvailable
  /\ feeder' = NoOne
  /\ CloseReaders
  /\ StaticSourceStop
  /\ UNCHANGED <<conf, ctx, pendingRequests, source, readyTimer, command,
                 publisherState, holdVars>>
  /\ EndWithCheck

PublisherReadyTimer ==
  /\ phase = "running" /\ HasOnDemandPublisher /\ readyTimer
  /\ readyTimer' = FALSE
  /\ FailOnHold
  /\ PublisherStop
  /\ StopCloseTimer
  /\ UNCHANGED <<conf, ctx, pendingRequests, source, readers, handler,
                 publisherState, streamVars>>
  /\ EndWithCheck

PublisherCloseTimer ==
  /\ phase = "running" /\ HasOnDemandPublisher /\ closeTimer
  /\ closeTimer' = FALSE
  /\ PublisherStop
  /\ EndNoCheck
  /\ UNCHANGED <<conf, ctx, pendingRequests, source, readers, readyTimer,
                 handler, clientVars, streamVars, holdVars>>

-----------------------------------------------------------------------------
(* The static source.                                                      *)

(* doSourceStaticSetReady; "ok" tells whether the sub stream is accepted. *)
SourceStaticSetReady(ok) ==
  /\ phase = "running" /\ handler = "starting"
  /\ ok \/ SubStreamMayFail
  /\ IF conf.alwaysAvailable
     THEN UNCHANGED <<available, readyCommands, recorder>>
     ELSE SetAvailable
  /\ IF ok
     THEN /\ feeder' = "handler"
          /\ handler' = "ready"
          /\ IF HasOnDemandStaticSource
             THEN ScheduleClose(Admitted(readers))
             ELSE UNCHANGED demandVars
          /\ ConsumeOnHold(readers, {})
     ELSE /\ feeder' = IF conf.alwaysAvailable THEN feeder ELSE NoOne
          /\ UNCHANGED <<handler, readers, readerState, holdVars, demandVars>>
  /\ EndNoCheck
  /\ UNCHANGED <<conf, ctx, pendingRequests, source, command, panicked,
                 publisherState>>

(* doSourceStaticSetNotReady: the source has failed after being ready.  *)
SourceStaticSetNotReady ==
  /\ phase = "running" /\ handler = "ready"
  /\ IF conf.alwaysAvailable
     THEN /\ feeder' = "offline"
          /\ UNCHANGED <<available, readyCommands, recorder, readers,
                         readerState>>
     ELSE feeder' = NoOne /\ SetNotAvailable /\ CloseReaders
  /\ IF HasOnDemandStaticSource /\ demand # "initial"
     THEN StaticSourceStop /\ StopCloseTimer
     ELSE /\ handler' = "starting"
          /\ UNCHANGED <<demand, closeTimer, panicked>>
  /\ UNCHANGED <<conf, ctx, pendingRequests, source, readyTimer, command,
                 publisherState, holdVars>>
  /\ EndWithCheck

-----------------------------------------------------------------------------
(* Requests of readers.                                                    *)

(* onDemandStaticSourceStart / onDemandPublisherStart, the first time.  *)
\* Faulty variant: every request starts the source again.
StartOnDemand_Always ==
  /\ demand' = "waitingReady"
  /\ readyTimer' = TRUE
  /\ IF HasOnDemandStaticSource
     THEN /\ handler' = "starting"
          /\ panicked' = (panicked \/ handler # "stopped")
          /\ UNCHANGED command
     ELSE command' = TRUE /\ UNCHANGED <<handler, panicked>>

StartOnDemand ==
  IF demand # "initial"
  THEN UNCHANGED <<demand, readyTimer, startVars>>
  ELSE /\ demand' = "waitingReady"
       /\ readyTimer' = TRUE
       /\ IF HasOnDemandStaticSource
          THEN /\ handler' = "starting"
               /\ panicked' = (panicked \/ handler # "stopped")
               /\ UNCHANGED command
          ELSE /\ command' = TRUE
               /\ UNCHANGED <<handler, panicked>>

OnDemandPath == HasOnDemandStaticSource \/ HasOnDemandPublisher

(* doDescribe.  Whatever the answer says, the client is idle afterwards;   *)
(* it is held only when there is neither a redirect nor a stream and       *)
(* something can be started on demand.                                     *)
Describe(r) ==
  /\ phase = "running" /\ readerState[r] = "describing"
  /\ pendingRequests' = pendingRequests - 1
  /\ IF source # "redirect" /\ ~available /\ OnDemandPath
     THEN /\ StartOnDemand
          /\ describesOnHold' = describesOnHold \cup {r}
          /\ readerState' = [readerState EXCEPT ![r] = "describeHeld"]
     ELSE /\ readerState' = [readerState EXCEPT ![r] = "idle"]
          /\ UNCHANGED <<demand, readyTimer, describesOnHold, startVars>>
  /\ UNCHANGED <<conf, ctx, source, readers, readersOnHold, closeTimer,
                 publisherState, streamVars>>
  /\ EndWithCheck

(* addReaderPost for one reader. *)
AddReaderPost(r) ==
  IF r \notin readers /\ conf.maxReaders # 0
     /\ Cardinality(readers) >= conf.maxReaders
  THEN /\ readerState' = [readerState EXCEPT ![r] = "idle"]
       /\ UNCHANGED <<readers, demand, closeTimer>>
  ELSE /\ readers' = readers \cup {r}
       /\ readerState' = [readerState EXCEPT ![r] = "reading"]
       /\ IF OnDemandPath /\ demand = "closing"
          THEN demand' = "ready" /\ closeTimer' = FALSE
          ELSE UNCHANGED <<demand, closeTimer>>

AddReader(r) ==
  /\ phase = "running" /\ readerState[r] = "adding"
  /\ pendingRequests' = pendingRequests - 1
  /\ \/ /\ available
        /\ AddReaderPost(r)
        /\ UNCHANGED <<readyTimer, readersOnHold, startVars>>
     \/ /\ ~available /\ OnDemandPath
        /\ StartOnDemand
        /\ readersOnHold' = Append(readersOnHold, r)
        /\ readerState' = [readerState EXCEPT ![r] = "addHeld"]
        /\ UNCHANGED <<readers, closeTimer>>
     \/ /\ ~available /\ ~OnDemandPath
        /\ readerState' = [readerState EXCEPT ![r] = "idle"]
        /\ UNCHANGED <<readers, readersOnHold, demandVars, startVars>>
  /\ UNCHANGED <<conf, ctx, source, describesOnHold, publisherState,
                 streamVars>>
  /\ EndWithCheck

(* doRemoveReader: the last reader to leave starts the close timer. *)
RemoveReader(r) ==
  /\ phase = "running" /\ readerState[r] = "leaving"
  /\ readers' = readers \ {r}
  /\ readerState' = [readerState EXCEPT ![r] = "idle"]
  /\ IF readers' = {} /\ OnDemandPath /\ demand = "ready"
     THEN demand' = "closing" /\ closeTimer' = TRUE
     ELSE UNCHANGED <<demand, closeTimer>>
  /\ EndNoCheck
  /\ UNCHANGED <<conf, ctx, pendingRequests, source, readyTimer,
                 publisherState, streamVars, holdVars, startVars>>

-----------------------------------------------------------------------------
(* Requests of publishers.                                                 *)

(* doAddPublisher when the request is refused at once. *)
RejectPublisher(p) ==
  /\ phase = "running" /\ publisherState[p] = "adding"
  /\ \/ conf.source # "publisher"
     \/ source # NoOne /\ ~conf.overridePublisher
  /\ pendingRequests' = pendingRequests - 1
  /\ publisherState' = [publisherState EXCEPT ![p] = "idle"]
  /\ UNCHANGED <<conf, ctx, source, readers, readerState, streamVars,
                 holdVars, demandVars, startVars>>
  /\ EndWithCheck

(* doAddPublisher otherwise.  A previous publisher is closed and removed   *)
(* first (executeRemovePublisher), which on an ordinary path closes its    *)
(* readers and its stream before the new one is made.                      *)
AddPublisher(p, ok) ==
  LET replaced == {q \in Publishers : q = source}
      dropped  == IF replaced # {} /\ ~conf.alwaysAvailable
                  THEN readers ELSE {}
      kept     == readers \ dropped
  IN
  /\ phase = "running" /\ publisherState[p] = "adding"
  /\ conf.source = "publisher"
  /\ source = NoOne \/ conf.overridePublisher
  /\ ok \/ SubStreamMayFail
  /\ pendingRequests' = pendingRequests - 1
  /\ CASE conf.alwaysAvailable ->
            UNCHANGED <<available, readyCommands, recorder>>
       [] ~conf.alwaysAvailable /\ replaced = {} -> SetAvailable
       [] ~conf.alwaysAvailable /\ replaced # {} ->
            /\ ManagerIsTold
            /\ available' = TRUE
            /\ recorder' = conf.record
            /\ UNCHANGED readyCommands
  /\ publisherState' = [q \in Publishers |->
       IF q = p THEN IF ok THEN "publishing" ELSE "idle"
       ELSE IF q \in replaced /\ publisherState[q] = "publishing"
            THEN "closed" ELSE publisherState[q]]
  /\ IF ok
     THEN /\ source' = p
          /\ feeder' = p
          /\ IF HasOnDemandPublisher /\ demand # "initial"
             THEN ScheduleClose(Admitted(kept))
             ELSE UNCHANGED demandVars
          /\ ConsumeOnHold(kept, dropped)
     ELSE /\ source' = NoOne
          /\ feeder' = IF conf.alwaysAvailable THEN "offline" ELSE NoOne
          /\ readers' = kept
          /\ readerState' = AfterClose(dropped)
          /\ UNCHANGED <<holdVars, demandVars>>
  /\ UNCHANGED <<conf, ctx, startVars>>
  /\ EndWithCheck

(* executeRemovePublisher: an always available path goes on offline. *)
\* Faulty variant: the stream ends with its publisher in any case.
ExecuteRemovePublisher_Always ==
  /\ source' = NoOne
  /\ feeder' = NoOne /\ SetNotAvailable /\ CloseReaders

ExecuteRemovePublisher ==
  /\ source' = NoOne
  /\ IF conf.alwaysAvailable
     THEN /\ feeder' = "offline"
          /\ UNCHANGED <<available, recorder, readyCommands, readers,
                         readerState>>
     ELSE feeder' = NoOne /\ SetNotAvailable /\ CloseReaders

(* doRemovePublisher: only the publisher that is the source counts. *)
\* Faulty variant: any publisher that leaves ends the stream.
RemovePublisher_AnyAuthor(p) ==
  /\ phase = "running" /\ publisherState[p] = "leaving"
  /\ publisherState' = [publisherState EXCEPT ![p] = "idle"]
  /\ ExecuteRemovePublisher
  /\ UNCHANGED <<conf, ctx, pendingRequests, holdVars, demandVars, startVars>>
  /\ EndWithCheck

RemovePublisher(p) ==
  /\ phase = "running" /\ publisherState[p] = "leaving"
  /\ publisherState' = [publisherState EXCEPT ![p] = "idle"]
  /\ IF source # p
     THEN UNCHANGED <<source, readers, readerState, streamVars>>
     ELSE ExecuteRemovePublisher
  /\ UNCHANGED <<conf, ctx, pendingRequests, holdVars, demandVars, startVars>>
  /\ EndWithCheck

-----------------------------------------------------------------------------
(* Configuration reload and the end of the path.                           *)

(* pathConfCanBeUpdated: what may change without recreating the path. *)
HotReload(c) == c # conf /\ \E rx \in BOOLEAN, rec \in RecordFormats :
                  c = [conf EXCEPT !.regexp = rx, !.record = rec]

(* doReloadConf: a recorder with other parameters is replaced. *)
\* Faulty variant: the recorder in use is never replaced.
RecorderAfterReload_Kept(c) ==
  IF available /\ recorder = "off" THEN c.record ELSE recorder
RecorderAfterReload(c) ==
  LET kept == IF c.record # conf.record THEN "off" ELSE recorder
  IN  IF available /\ kept = "off" THEN c.record ELSE kept

ReloadConf(c) ==
  /\ phase = "running" /\ HotReload(c)
  /\ conf' = c
  /\ recorder' = RecorderAfterReload(c)
  /\ EndNoCheck
  /\ UNCHANGED <<ctx, pendingRequests, source, available, feeder,
                 readyCommands, readers, clientVars, holdVars, demandVars,
                 startVars>>

\* Faulty variant: an on-demand source is left running.
HandlerToStop_NotOnDemand == HasStaticSource /\ ~conf.onDemand
HandlerToStop == HasStaticSource /\ (~conf.onDemand \/ demand # "initial")

(* The tail of run(): answer what is held, close the stream, its readers   *)
(* and the source, end the on-demand command.                              *)
Destroy ==
  /\ phase = "running" /\ ~Open
  /\ phase' = "destroyed"
  /\ describesOnHold' = {}
  /\ readersOnHold' = <<>>
  /\ readers' = {}
  /\ readerState' = [r \in Readers |->
       IF r \in HoldSet \cup describesOnHold THEN "idle"
       ELSE AfterClose(IF available THEN readers ELSE {})[r]]
  /\ IF available THEN SetNotAvailable
     ELSE UNCHANGED <<available, recorder, readyCommands>>
  /\ feeder' = NoOne
  /\ handler' = IF HandlerToStop THEN "stopped" ELSE handler
  /\ panicked' = (panicked \/ (HandlerToStop /\ handler = "stopped"))
  /\ publisherState' = [p \in Publishers |->
       IF p = source /\ publisherState[p] = "publishing"
       THEN "closed" ELSE publisherState[p]]
  /\ command' = FALSE
  /\ readyTimer' = FALSE
  /\ closeTimer' = FALSE
  /\ UNCHANGED <<conf, ctx, pendingRequests, source, demand>>

-----------------------------------------------------------------------------
(* The path manager, as a path sees it.                                    *)

(* The manager receives closePathIfIdle: the path may go on.               *)
AnswerCloseIfIdle ==
  /\ phase = "asking" /\ ctx = "open"
  /\ phase' = "running"
  /\ ctx' = "deciding"
  /\ UNCHANGED <<conf, pendingRequests, source, readers, clientVars,
                 streamVars, holdVars, demandVars, startVars>>

(* The manager reads the counter, and closes the path or not.              *)
\* Faulty variant: clients on their way are not counted.
DecideCloseIfIdle_Uncounted ==
  /\ ctx = "deciding"
  /\ ctx' = "idle"
  /\ UNCHANGED <<conf, phase, pendingRequests, source, readers, clientVars,
                 streamVars, holdVars, demandVars, startVars>>

DecideCloseIfIdle ==
  /\ ctx = "deciding"
  /\ ctx' = IF pendingRequests = 0 THEN "idle" ELSE "open"
  /\ UNCHANGED <<conf, phase, pendingRequests, source, readers, clientVars,
                 streamVars, holdVars, demandVars, startVars>>

(* closePathIfIdle gives up since the path is being closed already. *)
AbandonCloseIfIdle ==
  /\ phase = "asking" /\ ~Open
  /\ phase' = "running"
  /\ UNCHANGED <<conf, ctx, pendingRequests, source, readers, clientVars,
                 streamVars, holdVars, demandVars, startVars>>

(* The path is removed or recreated by a new configuration, or the server  *)
(* shuts down.                                                             *)
Terminate ==
  /\ Open
  /\ ctx' = "terminated"
  /\ UNCHANGED <<conf, phase, pendingRequests, source, readers, clientVars,
                 streamVars, holdVars, demandVars, startVars>>

-----------------------------------------------------------------------------
(* The clients.                                                            *)

OnlyReader(r, state) ==
  /\ readerState' = [readerState EXCEPT ![r] = state]
  /\ UNCHANGED <<conf, phase, ctx, source, readers, publisherState,
                 streamVars, holdVars, demandVars, startVars>>

OnlyPublisher(p, state) ==
  /\ publisherState' = [publisherState EXCEPT ![p] = state]
  /\ UNCHANGED <<conf, phase, ctx, source, readers, readerState, streamVars,
                 holdVars, demandVars, startVars>>

(* The manager gives the path to a client (Describe, AddReader and         *)
(* AddPublisher of the path manager).                                      *)
\* Faulty variant: the manager does not count the client.
ReaderGetsPath_Uncounted(r) ==
  /\ ctx = "open" /\ readerState[r] = "idle"
  /\ pendingRequests' = pendingRequests
  /\ \E state \in {"describing", "adding"} : OnlyReader(r, state)

ReaderGetsPath(r) ==
  /\ ctx = "open" /\ readerState[r] = "idle"
  /\ pendingRequests' = pendingRequests + 1
  /\ \E state \in {"describing", "adding"} : OnlyReader(r, state)

PublisherGetsPath(p) ==
  /\ ctx = "open" /\ publisherState[p] = "idle"
  /\ pendingRequests' = pendingRequests + 1
  /\ OnlyPublisher(p, "adding")

(* A client stops, by itself or because the path has closed it, and calls  *)
(* RemoveReader or RemovePublisher.                                        *)
ReaderLeaves(r) ==
  /\ readerState[r] \in {"reading", "closed"}
  /\ OnlyReader(r, "leaving")
  /\ UNCHANGED pendingRequests

PublisherLeaves(p) ==
  /\ publisherState[p] \in {"publishing", "closed"}
  /\ OnlyPublisher(p, "leaving")
  /\ UNCHANGED pendingRequests

(* A blocking call takes the branch of the cancelled context. *)
ReaderCallCancelled(r) ==
  /\ ~Open /\ readerState[r] \in {"describing", "adding", "leaving"}
  /\ OnlyReader(r, "idle")
  /\ UNCHANGED pendingRequests

PublisherCallCancelled(p) ==
  /\ ~Open /\ publisherState[p] \in {"adding", "leaving"}
  /\ OnlyPublisher(p, "idle")
  /\ UNCHANGED pendingRequests

-----------------------------------------------------------------------------
Timers == \/ StaticSourceReadyTimer \/ StaticSourceCloseTimer
          \/ PublisherReadyTimer    \/ PublisherCloseTimer

ReaderRequest(r) == Describe(r) \/ AddReader(r) \/ RemoveReader(r)

PublisherRequest(p) == \/ RejectPublisher(p)
                       \/ \E ok \in BOOLEAN : AddPublisher(p, ok)
                       \/ RemovePublisher(p)

(* Nothing is left to do once the path is gone and its clients know it. *)
Gone ==
  /\ phase = "destroyed"
  /\ \A r \in Readers : readerState[r] = "idle"
  /\ \A p \in Publishers : publisherState[p] = "idle"
  /\ UNCHANGED vars

Next ==
  \/ Timers
  \/ \E ok \in BOOLEAN : SourceStaticSetReady(ok)
  \/ SourceStaticSetNotReady
  \/ \E r \in Readers : \/ ReaderRequest(r) \/ ReaderGetsPath(r)
                        \/ ReaderLeaves(r)  \/ ReaderCallCancelled(r)
  \/ \E p \in Publishers : \/ PublisherRequest(p) \/ PublisherGetsPath(p)
                           \/ PublisherLeaves(p)  \/ PublisherCallCancelled(p)
  \/ \E c \in Confs : ReloadConf(c)
  \/ AnswerCloseIfIdle \/ DecideCloseIfIdle \/ AbandonCloseIfIdle
  \/ Terminate \/ Destroy
  \/ Gone

Spec == Init /\ [][Next]_vars

(* Go's select chooses uniformly among the events that are ready, so an    *)
(* event that is ready again and again is served at last (strong           *)
(* fairness); the manager and closed clients keep running.  Nothing makes  *)
(* a client arrive or leave by itself, a source become ready or fail, or   *)
(* the path be terminated.                                                 *)
LoopFairness ==
  /\ SF_vars(Timers) /\ SF_vars(Destroy)
  /\ \A r \in Readers : SF_vars(ReaderRequest(r))
  /\ \A p \in Publishers : SF_vars(PublisherRequest(p))

EnvironmentFairness ==
  /\ WF_vars(AnswerCloseIfIdle \/ AbandonCloseIfIdle \/ DecideCloseIfIdle)
  /\ \A r \in Readers :
       WF_vars(\/ readerState[r] = "closed" /\ ReaderLeaves(r)
               \/ ReaderCallCancelled(r))
  /\ \A p \in Publishers :
       WF_vars(\/ publisherState[p] = "closed" /\ PublisherLeaves(p)
               \/ PublisherCallCancelled(p))

FairSpec == Spec /\ LoopFairness /\ EnvironmentFairness

-----------------------------------------------------------------------------
(* Safety.                                                                 *)

Alive == phase # "destroyed"
Waiting(r) == readerState[r] \in {"describeHeld", "addHeld"}

ReaderCallers == {r \in Readers : readerState[r] \in {"describing", "adding"}}
PublisherCallers == {p \in Publishers : publisherState[p] = "adding"}

(* Every client that was given the path and has not been served yet is     *)
(* counted (pendingRequests), whatever else happens meanwhile: the answer  *)
(* to closePathIfIdle rests on it.                                         *)
CallersCounted ==
  Cardinality(ReaderCallers) + Cardinality(PublisherCallers) <= pendingRequests

(* No sequence of events reaches a panic("should not happen") of the       *)
(* handler, or calls the on-demand hook when there is none (path.go        *)
(* onDemandPublisherStop, staticsources/handler.go Start and Stop).        *)
NoPanic == ~panicked

(* Every client blocked on a response is in a hold list, once, and the     *)
(* lists hold nobody else: no answer is lost and none is sent twice, the   *)
(* teardown of the path included.                                          *)
NobodyForgotten ==
  /\ HoldSet = {r \in Readers : readerState[r] = "addHeld"}
  /\ describesOnHold = {r \in Readers : readerState[r] = "describeHeld"}
  /\ \A i, j \in 1..Len(readersOnHold) :
       readersOnHold[i] = readersOnHold[j] => i = j

(* The path and its readers agree on who is reading, whoever closed whom:  *)
(* a reader that believes it reads is in pa.readers, and pa.readers keeps  *)
(* no session that has been told to close (RemoveReader gives up once the  *)
(* context is cancelled, so this ends with the context).                   *)
ReadersAgree ==
  /\ \A r \in Readers : readerState[r] = "reading" => r \in readers
  /\ Open =>
       \A r \in readers : readerState[r] \in {"reading", "leaving"}

(* The same for publishers: a session that believes it publishes is the    *)
(* source, so a publisher that was overridden knows it.                    *)
PublishersAgree ==
  \A p \in Publishers : publisherState[p] = "publishing" => source = p

(* Nobody is attached to, or told to read, a stream that is not there, and *)
(* the stream is fed by the source.                                        *)
ReadersHaveFedStream ==
  Alive => /\ readers # {} => available
           /\ available <=> feeder # NoOne
           /\ source \in Publishers => feeder = source
           /\ feeder = "handler" <=> handler = "ready"

(* Each timer runs in exactly one on-demand state, and while the close     *)
(* timer runs nobody reads: a source is never stopped under a reader.      *)
TimersMatchDemand ==
  Alive => /\ readyTimer <=> demand = "waitingReady"
           /\ closeTimer <=> demand = "closing"
           /\ closeTimer => readers = {}

(* What was started on demand runs exactly while it is demanded.           *)
StartedIffDemanded ==
  Alive => /\ HasOnDemandStaticSource =>
                (handler \in {"starting", "ready"} <=> demand # "initial")
           /\ HasOnDemandPublisher => (command <=> demand # "initial")

(* What accompanies the stream is there exactly while the stream is: the   *)
(* recorder of the current configuration, for every order of reloads,      *)
(* arrivals and departures, and one runOnReady command.                    *)
CompanionsMatchStream ==
  Alive => /\ recorder = IF available THEN conf.record ELSE "off"
           /\ readyCommands = IF available THEN 1 ELSE 0

(* closePathIfIdle never closes a path under a client that reads or        *)
(* publishes, or is on its way to it: not even one that was given the path *)
(* and served between the question of the path and the decision of the     *)
(* manager, since a stream cannot begin without the manager (setPathReady).*)
IdleCloseHarmsNobody ==
  ctx = "idle" =>
    /\ \A r \in Readers :
         readerState[r] \notin {"reading", "describing", "adding"}
    /\ \A p \in Publishers : publisherState[p] \notin {"publishing", "adding"}

(* A path made by a regular expression does not outlive its last use: an   *)
(* idle one that is not being closed has a client on its way.  Some        *)
(* handlers do not check shouldClose; none of them needs to, as long as    *)
(* the path was a regular expression path when it was created.             *)
DynamicPathReleased ==
  phase = "running" /\ ctx = "open" /\ ShouldClose => pendingRequests > 0

(* Nothing survives the path: no reader, recorder, command or source.      *)
NothingSurvives ==
  phase = "destroyed" =>
    /\ readers = {} /\ ~available /\ readyCommands = 0 /\ recorder = "off"
    /\ ~command /\ handler \in {"none", "stopped"}
    /\ \A r \in Readers : readerState[r] # "reading" /\ ~Waiting(r)
    /\ \A p \in Publishers : publisherState[p] # "publishing"

(* What the runs check: the parts above by what they are about.            *)

(* The path and its clients agree on who asks, waits, reads and publishes, *)
(* and a path is never closed for being idle under any of them.            *)
ClientsAgree ==
  CallersCounted /\ NobodyForgotten /\ ReadersAgree /\ PublishersAgree
    /\ IdleCloseHarmsNobody

(* What was started on demand, its timers and the on-demand state agree,   *)
(* and nothing is started or stopped twice.                                *)
DemandAgrees == NoPanic /\ TimersMatchDemand /\ StartedIffDemanded

(* The stream, what feeds it and what accompanies it agree, and nothing of *)
(* them outlives its use.                                                  *)
StreamAgrees ==
  ReadersHaveFedStream /\ CompanionsMatchStream /\ DynamicPathReleased
    /\ NothingSurvives

-----------------------------------------------------------------------------
(* What a step may never do.                                               *)

(* When a stream is replaced or ends on an ordinary path, no reader of the *)
(* old one stays attached: it would read from a stream that is closed.     *)
ReadersFollowStream ==
  [][~conf.alwaysAvailable /\ feeder # NoOne /\ feeder' # feeder
       => readers \cap readers' = {}]_vars

(* An always available path goes down only when it is destroyed, and while *)
(* it is up a reader is removed only by its own request.                   *)
AlwaysAvailableKeepsReaders ==
  [][conf.alwaysAvailable /\ Alive'
       => /\ available'
          /\ \A r \in readers : readerState[r] = "reading" => r \in readers'
     ]_vars

(* Readers are kept with a stream that goes on, and only with such a one.  *)
ReadersAreKept == ReadersFollowStream /\ AlwaysAvailableKeepsReaders

-----------------------------------------------------------------------------
(* Liveness.                                                               *)

(* A client on hold for a static source is answered, at the latest when    *)
(* the timer of the start expires.  (One on hold for a publisher may not   *)
(* be: a publisher that leaves by itself in state "closing" leaves the     *)
(* state as it is, and the next client is held without a timer.)           *)
SourceHeldIsAnswered ==
  \A r \in Readers : Waiting(r) /\ HasStaticSource ~> ~Waiting(r)

(* What was started on demand is stopped when nobody reads, even if the    *)
(* stream went down by itself in the meantime: the close timer is never    *)
(* lost.                                                                   *)
DemandEnds ==
  demand # "initial" /\ readers = {}
    ~> demand = "initial" \/ readers # {} \/ phase = "destroyed"

(* Nobody is held for ever, nothing demanded by nobody runs for ever.      *)
EveryDemandEnds == SourceHeldIsAnswered /\ DemandEnds
=============================================================================
