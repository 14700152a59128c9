-------------------------------- MODULE App --------------------------------
(***************************************************************************)
(* The desktop application (app.go): the NDI outputs and the previews that *)
(* it keeps for the streams that the media server says are ready, the web  *)
(* clients that watch a preview (backend/preview/broadcaster.go), and the  *)
(* recordings by ffmpeg (backend/dvr/recorder.go).                         *)
(*                                                                         *)
(* The window and every web client ask for the telemetry each two seconds; *)
(* GetTelemetry asks the API of the media server, makes what is missing,   *)
(* one stream at a time under ndiMutex, and in the end closes what was not *)
(* in the answer.  Nothing orders two such queries.                        *)
(*                                                                         *)
(* An output is a broadcaster, an NDI encoder and a pipeline that decodes  *)
(* the stream into both.  One that nothing refers to is left out, although *)
(* its pipeline goes on until the stream ends (nothing calls Close), into  *)
(* an encoder that is closed and a broadcaster that is stopped.            *)
(***************************************************************************)
EXTENDS Naturals, Functions

CONSTANTS
  Names,       \* streams
  Shorts,      \* their names after the last slash
  ShortOfs,    \* the assignments considered
  Queries,     \* calls of GetTelemetry that may overlap
  Viewers,     \* requests for /api/frame and /api/stream
  MaxOutputs,  \* bound: outputs that something refers to
  Recorded,    \* the streams that are recorded
  MaxProcesses \* bound: ffmpeg processes at a time

ASSUME AppAssumption ==
  /\ ShortOfs \subseteq [Names -> Shorts] /\ Recorded \subseteq Names
  /\ MaxOutputs \in Nat /\ MaxProcesses \in Nat

VARIABLES
  shortOf,
  ndiIsInit,     \* the NDI library could be loaded, when the application began
  ready,         \* streams that the media server has
  query,         \* each query
  currentStreams,
  todo,          \* the streams of the answer that it has not looked at
  output,        \* each output
  activeNDI,     \* the output of each stream, 0 for none
  broadcasters,  \* the output that previews each short name
  viewer,        \* each viewer
  watches,       \* the output that it watches
  clients,       \* viewers registered with their broadcaster
  open,          \* viewers whose channel is open
  frame,         \* viewers with a frame in their channel
  processes,     \* the process that records each stream
  ffmpeg         \* each process

outputVars == <<output, activeNDI, broadcasters>>
queryVars  == <<query, currentStreams, todo>>
viewerVars == <<viewer, watches, clients, open, frame>>
dvrVars    == <<processes, ffmpeg>>
vars == <<shortOf, ndiIsInit, ready, outputVars, queryVars, viewerVars, dvrVars>>

Outputs == 1..MaxOutputs
Ref == Outputs \cup {0}
Processes == 1..MaxProcesses

OutputType == [stream: Names, pipeline: {"sleeping", "playing", "ended"}]
NoOutput == [pipeline |-> "none"]
Stopped == [pipeline |-> "stopped"]  \* stopChan is closed: it sends nothing

TypeOK ==
  /\ shortOf \in ShortOfs /\ ndiIsInit \in BOOLEAN /\ ready \subseteq Names
  /\ query \in [Queries -> {"asking", "listing", "cleaning"}]
  /\ currentStreams \in [Queries -> SUBSET Names]
  /\ todo \in [Queries -> SUBSET Names]
  /\ output \in [Outputs -> OutputType \cup {NoOutput, Stopped}]
  /\ activeNDI \in [Names -> Ref] /\ broadcasters \in [Shorts -> Ref]
  /\ viewer \in [Viewers -> {"away", "found", "watching", "leaving"}]
  /\ watches \in [Viewers -> Ref]
  /\ \A v \in Viewers : viewer[v] # "away" => watches[v] # 0
  /\ clients \subseteq Viewers /\ open \subseteq Viewers /\ frame \subseteq Viewers
  /\ processes \in [Recorded -> Processes \cup {0}]
  /\ ffmpeg \in [Processes -> {"off", "running", "exited", "interrupted"}]

Referred == Range(activeNDI) \cup Range(broadcasters) \cup Range(watches)
\* An output that is not referred to any more, for a new one.
Unused == CHOOSE b \in Outputs : b \notin Referred
ClientsOf(b) == {v \in clients : watches[v] = b}

-----------------------------------------------------------------------------
(* The media server.                                                       *)

Publish(n) ==
  /\ n \notin ready
  /\ ready' = ready \cup {n}
  /\ UNCHANGED <<shortOf, ndiIsInit, outputVars, queryVars, viewerVars,
                dvrVars>>

(* The server closes the readers of a stream that ends. *)
Unpublish(n) ==
  /\ n \in ready
  /\ ready' = ready \ {n}
  /\ output' = [b \in Outputs |->
       IF output[b].pipeline = "playing" /\ output[b].stream = n
       THEN [output[b] EXCEPT !.pipeline = "ended"] ELSE output[b]]
  /\ UNCHANGED <<shortOf, ndiIsInit, activeNDI, broadcasters, queryVars,
                viewerVars, dvrVars>>

-----------------------------------------------------------------------------
(* GetTelemetry.                                                           *)

Hears(q, streams) ==
  /\ query[q] = "asking"
  /\ query' = [query EXCEPT ![q] = IF streams = {} THEN "cleaning"
                                  ELSE "listing"]
  /\ currentStreams' = [currentStreams EXCEPT ![q] = streams]
  /\ todo' = [todo EXCEPT ![q] = streams]
  /\ UNCHANGED <<shortOf, ndiIsInit, ready, outputVars, viewerVars, dvrVars>>

(* A call of GetTelemetry gets the list from the API. *)
Answered(q) == Hears(q, ready)

(* The server does not answer within a second, or what it says is no list. *)
QueryFails(q) == ready # {} /\ Hears(q, {})

Goes(q, n) ==
  /\ query[q] = "listing" /\ n \in todo[q]
  /\ todo' = [todo EXCEPT ![q] = @ \ {n}]
  /\ query' = [query EXCEPT ![q] = IF todo[q] = {n} THEN "cleaning" ELSE @]

(* A stream has its output already, or there is no NDI, and then there are *)
(* neither outputs nor previews.                                           *)
Known(q, n) ==
  /\ Goes(q, n) /\ (ndiIsInit => activeNDI[n] # 0)
  /\ UNCHANGED <<shortOf, ndiIsInit, ready, outputVars, currentStreams,
                viewerVars, dvrVars>>

(* The broadcaster is made, and takes the place of the one that has the    *)
(* short name; it stays when the encoder cannot be made.                   *)
MakeOutput(q, n, b, ok) ==
  /\ Goes(q, n) /\ ndiIsInit /\ activeNDI[n] = 0
  /\ broadcasters' = [broadcasters EXCEPT ![shortOf[n]] = b]
  /\ activeNDI' = IF ok THEN [activeNDI EXCEPT ![n] = b] ELSE activeNDI
  /\ UNCHANGED <<shortOf, ndiIsInit, ready, currentStreams, viewerVars,
                dvrVars>>
  /\ output' = [b1 \in Outputs |->
       CASE b1 = b -> [stream |-> n,
                       pipeline |-> IF ok THEN "sleeping" ELSE "ended"]
         [] b1 \in Referred' \ {b} -> output[b1]
         [] OTHER -> NoOutput]

(* What this answer did not name is closed, with the preview of its short  *)
(* name.                                                                   *)
\* Faulty variant: the outputs stay.
Cleanup_Nothing(q) ==
  /\ query[q] = "cleaning"
  /\ query' = [query EXCEPT ![q] = "asking"]
  /\ currentStreams' = [currentStreams EXCEPT ![q] = {}]
  /\ UNCHANGED <<shortOf, ndiIsInit, ready, outputVars, todo, viewerVars,
                dvrVars>>

\* Faulty variant: the preview that is stopped stays in the map.
Cleanup_PreviewStays(q) ==
  LET gone  == {n \in Names : activeNDI[n] # 0 /\ n \notin currentStreams[q]}
      ended == {shortOf[n] : n \in gone}
  IN /\ query[q] = "cleaning"
     /\ query' = [query EXCEPT ![q] = "asking"]
     /\ currentStreams' = [currentStreams EXCEPT ![q] = {}]
     /\ activeNDI' = [n \in Names |-> IF n \in gone THEN 0 ELSE activeNDI[n]]
     /\ UNCHANGED <<shortOf, ndiIsInit, ready, broadcasters, todo, viewerVars,
                   dvrVars>>
     /\ output' = [b \in Outputs |->
          CASE b \notin Referred' -> NoOutput
            [] \E s \in ended : b = broadcasters[s] -> Stopped
            [] OTHER -> output[b]]

Cleanup(q) ==
  LET gone  == {n \in Names : activeNDI[n] # 0 /\ n \notin currentStreams[q]}
      ended == {shortOf[n] : n \in gone}
  IN /\ query[q] = "cleaning"
     /\ query' = [query EXCEPT ![q] = "asking"]
     /\ currentStreams' = [currentStreams EXCEPT ![q] = {}]
     /\ activeNDI' = [n \in Names |-> IF n \in gone THEN 0 ELSE activeNDI[n]]
     /\ broadcasters' = [s \in Shorts |-> IF s \in ended THEN 0
                                          ELSE broadcasters[s]]
     /\ UNCHANGED <<shortOf, ndiIsInit, ready, todo, viewerVars, dvrVars>>
     /\ output' = [b \in Outputs |->
          CASE b \notin Referred' -> NoOutput
            [] \E s \in ended : b = broadcasters[s] -> Stopped
            [] OTHER -> output[b]]

-----------------------------------------------------------------------------
(* Pipeline.Start, a second after the output was made; nothing retries it. *)

PipelineStarts(b, ok) ==
  /\ output[b].pipeline = "sleeping" /\ (ok => output[b].stream \in ready)
  /\ output' = [output EXCEPT ![b].pipeline = IF ok THEN "playing" ELSE "ended"]
  /\ UNCHANGED <<shortOf, ndiIsInit, ready, activeNDI, broadcasters,
                queryVars, viewerVars, dvrVars>>

(* A picture is kept only if somebody watches; worker() sends the last one *)
(* to every client that has room for it, until it is stopped.              *)
PushFrame(b) ==
  /\ output[b].pipeline = "playing"
  /\ ClientsOf(b) \ frame # {}
  /\ frame' = frame \cup ClientsOf(b)
  /\ UNCHANGED <<shortOf, ndiIsInit, ready, outputVars, queryVars, viewer,
                watches, clients, open, dvrVars>>

-----------------------------------------------------------------------------
(* A viewer looks the broadcaster up under ndiMutex, and uses it later.    *)

\* Faulty variant: it does not look whether there is one.
FindPreview_Unchecked(v, s) ==
  /\ viewer[v] = "away"
  /\ viewer' = [viewer EXCEPT ![v] = "found"]
  /\ watches' = [watches EXCEPT ![v] = broadcasters[s]]
  /\ UNCHANGED <<shortOf, ndiIsInit, ready, outputVars, queryVars, clients,
                open, frame, dvrVars>>

FindPreview(v, s) ==
  /\ viewer[v] = "away" /\ broadcasters[s] # 0
  /\ viewer' = [viewer EXCEPT ![v] = "found"]
  /\ watches' = [watches EXCEPT ![v] = broadcasters[s]]
  /\ UNCHANGED <<shortOf, ndiIsInit, ready, outputVars, queryVars, clients,
                open, frame, dvrVars>>

Subscribe(v) ==
  /\ viewer[v] = "found"
  /\ viewer' = [viewer EXCEPT ![v] = "watching"]
  /\ clients' = clients \cup {v} /\ open' = open \cup {v}
  /\ UNCHANGED <<shortOf, ndiIsInit, ready, outputVars, queryVars, watches,
                frame, dvrVars>>

TakeFrame(v) ==
  /\ viewer[v] = "watching" /\ v \in frame
  /\ frame' = frame \ {v}
  /\ UNCHANGED <<shortOf, ndiIsInit, ready, outputVars, queryVars, viewer,
                watches, clients, open, dvrVars>>

(* Unsubscribe: the client is forgotten under the mutex, and its channel   *)
(* closed after.                                                           *)
\* Faulty variant: the channel first.
Unsubscribe_CloseFirst(v) ==
  /\ viewer[v] = "watching"
  /\ viewer' = [viewer EXCEPT ![v] = "leaving"]
  /\ open' = open \ {v} /\ frame' = frame \ {v}
  /\ UNCHANGED <<shortOf, ndiIsInit, ready, outputVars, queryVars, watches,
                clients, dvrVars>>

Unsubscribe(v) ==
  /\ viewer[v] = "watching"
  /\ viewer' = [viewer EXCEPT ![v] = "leaving"]
  /\ clients' = clients \ {v}
  /\ UNCHANGED <<shortOf, ndiIsInit, ready, outputVars, queryVars, watches,
                open, frame, dvrVars>>

CloseChannel(v) ==
  /\ viewer[v] = "leaving"
  /\ viewer' = [viewer EXCEPT ![v] = "away"]
  /\ watches' = [watches EXCEPT ![v] = 0]
  /\ open' = open \ {v} /\ frame' = frame \ {v}
  /\ UNCHANGED <<shortOf, ndiIsInit, ready, activeNDI, broadcasters,
                queryVars, clients, dvrVars>>
  /\ output' = [b \in Outputs |-> IF b \in Referred' THEN output[b]
                                  ELSE NoOutput]

-----------------------------------------------------------------------------
(* The recordings.                                                         *)

\* Faulty variant: a stream may be recorded twice.
StartRecording_Again(n, p) ==
  /\ ffmpeg[p] = "off"
  /\ ffmpeg' = [ffmpeg EXCEPT ![p] = "running"]
  /\ processes' = [processes EXCEPT ![n] = p]
  /\ UNCHANGED <<shortOf, ndiIsInit, ready, outputVars, queryVars,
                viewerVars>>

StartRecording(n, p) ==
  /\ processes[n] = 0 /\ ffmpeg[p] = "off"
  /\ ffmpeg' = [ffmpeg EXCEPT ![p] = "running"]
  /\ processes' = [processes EXCEPT ![n] = p]
  /\ UNCHANGED <<shortOf, ndiIsInit, ready, outputVars, queryVars,
                viewerVars>>

(* The process is interrupted and forgotten at once; a goroutine waits for *)
(* it.                                                                     *)
StopRecording(n) ==
  /\ processes[n] # 0
  /\ ffmpeg' = [ffmpeg EXCEPT ![processes[n]] = "interrupted"]
  /\ processes' = [processes EXCEPT ![n] = 0]
  /\ UNCHANGED <<shortOf, ndiIsInit, ready, outputVars, queryVars,
                viewerVars>>

(* ffmpeg ends by itself, and nobody waits for it, or as it was asked to. *)
ProcessExits(p) ==
  /\ ffmpeg[p] \in {"running", "interrupted"}
  /\ ffmpeg' = [ffmpeg EXCEPT ![p] = IF @ = "running" THEN "exited" ELSE "off"]
  /\ UNCHANGED <<shortOf, ndiIsInit, ready, outputVars, queryVars, viewerVars,
                processes>>

-----------------------------------------------------------------------------
Init ==
  /\ shortOf \in ShortOfs /\ ndiIsInit \in BOOLEAN /\ ready = {}
  /\ query = [q \in Queries |-> "asking"]
  /\ currentStreams = [q \in Queries |-> {}]
  /\ todo = [q \in Queries |-> {}]
  /\ activeNDI = [n \in Names |-> 0] /\ broadcasters = [s \in Shorts |-> 0]
  /\ output = [b \in Outputs |-> NoOutput]
  /\ viewer = [v \in Viewers |-> "away"]
  /\ watches = [v \in Viewers |-> 0]
  /\ clients = {} /\ open = {} /\ frame = {}
  /\ processes = [n \in Recorded |-> 0]
  /\ ffmpeg = [p \in Processes |-> "off"]

Lists(q) ==
  \E n \in Names :
    \/ Known(q, n)
    \/ /\ Outputs # Referred \ {0}
       /\ \E ok \in BOOLEAN : MakeOutput(q, n, Unused, ok)

QueryStep(q) == Answered(q) \/ QueryFails(q) \/ Lists(q) \/ Cleanup(q)

OutputStep(b) ==
  \/ PushFrame(b)
  \/ \E ok \in BOOLEAN : PipelineStarts(b, ok)

ViewerStep(v) ==
  \/ Subscribe(v) \/ TakeFrame(v) \/ Unsubscribe(v) \/ CloseChannel(v)
  \/ \E s \in Shorts : FindPreview(v, s)

DvrStep ==
  \/ \E n \in Recorded :
       StopRecording(n) \/ \E p \in Processes : StartRecording(n, p)
  \/ \E p \in Processes : ProcessExits(p)

Next ==
  \/ \E n \in Names : Publish(n) \/ Unpublish(n)
  \/ \E q \in Queries : QueryStep(q)
  \/ \E b \in Outputs : OutputStep(b)
  \/ \E v \in Viewers : ViewerStep(v)
  \/ DvrStep

Spec == Init /\ [][Next]_vars

(* The window asks every two seconds (setInterval of the frontend), and a  *)
(* query comes to its end: the request has a timeout.                      *)
QueryIsFair(q) ==
  WF_vars(Answered(q) \/ QueryFails(q)) /\ WF_vars(Lists(q)) /\ WF_vars(Cleanup(q))

FairSpec == Spec /\ \A q \in Queries : QueryIsFair(q)

-----------------------------------------------------------------------------
(* Safety.                                                                 *)

(* A stream that shares its short name with no other has a preview as long *)
(* as it has an NDI output, and the one that its pipeline feeds, whatever  *)
(* failures and overlapping queries came before; what a web client finds   *)
(* has not been stopped.                                                   *)
PreviewsAgree ==
  /\ \A n \in Names :
       activeNDI[n] # 0 /\ (\A m \in Names : shortOf[m] = shortOf[n] => m = n)
         => broadcasters[shortOf[n]] = activeNDI[n]
  /\ \A b \in Range(broadcasters) \ {0} : output[b] # Stopped

(* The broadcaster sends on no closed channel: whoever it still knows has  *)
(* not closed his, and a frame is never left to one who is not there.      *)
ClientsAreOpen == clients \subseteq open /\ frame \subseteq open

(* An ffmpeg process that nobody has stopped, even one that has ended by   *)
(* itself, is the one listed for its stream, so that it can be stopped and *)
(* waited for.                                                             *)
RecordingsAreListed ==
  \A p \in Processes :
    ffmpeg[p] \in {"running", "exited"} <=> p \in Range(processes)

(* What the window shows and records is what is there.                     *)
WindowAgrees == PreviewsAgree /\ ClientsAreOpen /\ RecordingsAreListed

-----------------------------------------------------------------------------
(* Liveness.                                                               *)

Fails ==
  \/ \E q \in Queries : QueryFails(q)
  \/ \E q \in Queries, n \in Names, b \in Outputs : MakeOutput(q, n, b, FALSE)

(* Whatever stale answers were about, a stream that stays has its output   *)
(* in the end and keeps it, if there is NDI and no query and no encoder    *)
(* fails any more; and one that stays away has none.                       *)
EncodersFollowStreams ==
  \A n \in Names :
    /\ ndiIsInit /\ <>[](n \in ready) /\ <>[][~Fails]_vars => <>[](activeNDI[n] # 0)
    /\ <>[](n \notin ready) => <>[](activeNDI[n] = 0)
=============================================================================
