------------------------------- MODULE Tally -------------------------------
(***************************************************************************)
(* The tally lights of the cameras: the poller of vMix                     *)
(* (backend/tally/vmix.go) and the connections of the phones               *)
(* (backend/control/manager.go) that it sends its commands through.        *)
(*                                                                         *)
(* Start and Stop come from the HTTP server; each Start begins a goroutine *)
(* that polls until it finds the channel p.stopChan closed.  The channel   *)
(* is read from the poller at every round, so a goroutine that was asking  *)
(* vMix while it was replaced goes on with the channel of its successor.   *)
(* An answer is worked on under the mutex of the poller; the connections   *)
(* have a mutex of their own.  What vMix answers is free: the inputs in    *)
(* program and in preview at that moment.                                  *)
(***************************************************************************)
EXTENDS Naturals, Sequences, FiniteSetsExt

CONSTANTS
  Cams,
  Inputs,      \* the camera that each input of vMix shows
  Conns,       \* connections of phones
  CamOf,       \* the camera of each
  MaxStarts,   \* bound: calls of Start
  Nobody

ASSUME TallyAssumption ==
  /\ Inputs \in Seq(Cams) /\ CamOf \in [Conns -> Cams]
  /\ MaxStarts \in Nat /\ Nobody \notin Conns

VARIABLES
  isRunning,
  stopChan,     \* the channel in use; channels are numbered
  closedChans,
  poller,       \* each goroutine; it is numbered as the channel made with it
  sees,         \* the channel that it waits on
  answer,       \* what vMix answered to it
  lastStates,
  sending,      \* the command under way: camera, connection and status
  connections,
  conn,         \* each connection and its read loop
  light         \* the last command that each phone has received

pollerVars == <<isRunning, stopChan, closedChans, poller, sees, answer>>
connVars   == <<connections, conn>>
tallyVars == <<pollerVars, lastStates, sending, connVars, light>>

Pollers == 1..MaxStarts
Statuses == {"program", "preview", "off"}
NoCommand == <<>>
NoAnswer == [cam \in Cams |-> "off"]
InputNumbers == 0..Len(Inputs)

TallyTypeOK ==
  /\ isRunning \in BOOLEAN
  /\ stopChan \in 0..MaxStarts /\ closedChans \subseteq Pollers
  /\ poller \in [Pollers -> {"off", "polling", "waiting", "fetching",
                             "answered", "processing"}]
  /\ sees \in [Pollers -> 0..MaxStarts]
  /\ answer \in [Pollers -> [Cams -> Statuses]]
  /\ lastStates \in [Cams -> Statuses \cup {"none"}]
  /\ sending \in {NoCommand} \cup (Cams \X (Conns \cup {Nobody}) \X Statuses)
  /\ connections \in [Cams -> Conns \cup {Nobody}]
  /\ conn \in [Conns -> {"gone", "open", "closed"}]
  /\ light \in [Conns -> Statuses \cup {"none"}]

Locked == \E g \in Pollers : poller[g] = "processing"
Addressees == IF sending = NoCommand THEN {} ELSE {sending[2]}
Enters(g, state) == poller' = [poller EXCEPT ![g] = state]

-----------------------------------------------------------------------------
(* Start and Stop.                                                         *)

Start ==
  /\ ~Locked /\ stopChan < MaxStarts
  /\ closedChans' = IF isRunning THEN closedChans \cup {stopChan}
                    ELSE closedChans
  /\ stopChan' = stopChan + 1
  /\ isRunning' = TRUE
  /\ Enters(stopChan', "polling")
  /\ UNCHANGED <<sees, answer, lastStates, sending, connVars, light>>

\* Faulty variant: the channel is left open.
Stop_Open ==
  /\ ~Locked /\ isRunning
  /\ isRunning' = FALSE
  /\ UNCHANGED <<stopChan, closedChans, poller, sees, answer, lastStates,
                 sending, connVars, light>>

Stop ==
  /\ ~Locked /\ isRunning
  /\ closedChans' = closedChans \cup {stopChan}
  /\ isRunning' = FALSE
  /\ UNCHANGED <<stopChan, poller, sees, answer, lastStates, sending, connVars,
                 light>>

-----------------------------------------------------------------------------
(* pollLoop.                                                               *)

(* The select evaluates p.stopChan, and waits. *)
Poll(g) ==
  /\ poller[g] = "polling"
  /\ Enters(g, "waiting")
  /\ sees' = [sees EXCEPT ![g] = stopChan]
  /\ UNCHANGED <<isRunning, stopChan, closedChans, answer, lastStates, sending,
                 connVars, light>>

Ends(g) ==
  /\ poller[g] = "waiting" /\ sees[g] \in closedChans
  /\ Enters(g, "off")
  /\ sees' = [sees EXCEPT ![g] = 0]
  /\ UNCHANGED <<isRunning, stopChan, closedChans, answer, lastStates,
                 sending, connVars, light>>

Tick(g) ==
  /\ poller[g] = "waiting"
  /\ Enters(g, "fetching")
  /\ sees' = [sees EXCEPT ![g] = 0]
  /\ UNCHANGED <<isRunning, stopChan, closedChans, answer, lastStates,
                 sending, connVars, light>>

FetchFails(g) ==
  /\ poller[g] = "fetching"
  /\ Enters(g, "polling")
  /\ UNCHANGED <<isRunning, stopChan, closedChans, sees, answer, lastStates,
                 sending, connVars, light>>

(* A camera in several inputs: program prevails, otherwise the last input  *)
(* decides.                                                                *)
\* Faulty variant: an input in preview has no number.
StatusOf_NoPreview(cam, program, preview) ==
  LET own == {i \in DOMAIN Inputs : Inputs[i] = cam}
  IN  IF program \in own THEN "program"
      ELSE IF own # {} /\ Max(own) = preview THEN "Preview"
      ELSE "off"

StatusOf(cam, program, preview) ==
  LET own == {i \in DOMAIN Inputs : Inputs[i] = cam}
  IN  IF program \in own THEN "program"
      ELSE IF own # {} /\ Max(own) = preview THEN "preview"
      ELSE "off"

Fetched(g) ==
  /\ poller[g] = "fetching"
  /\ Enters(g, "answered")
  /\ \E program, preview \in InputNumbers :
       answer' = [answer EXCEPT ![g] =
                    [cam \in Cams |-> StatusOf(cam, program, preview)]]
  /\ UNCHANGED <<isRunning, stopChan, closedChans, sees, lastStates, sending,
                 connVars, light>>

(* p.mutex.Lock() *)
Lock(g) ==
  /\ poller[g] = "answered" /\ ~Locked
  /\ Enters(g, "processing")
  /\ UNCHANGED <<isRunning, stopChan, closedChans, sees, answer, lastStates,
                 sending, connVars, light>>

TurnsOn(g, cam) == answer[g][cam] # "off" /\ lastStates[cam] # answer[g][cam]
TurnsOff(g, cam) ==
  answer[g][cam] = "off" /\ lastStates[cam] \in {"program", "preview"}

Due(g, cam) ==
  \/ TurnsOn(g, cam)
  \/ TurnsOff(g, cam) /\ \A other \in Cams : ~TurnsOn(g, other)

(* A change is noted, then SendCommand looks the connection up ... *)
\* Faulty variant: "off" is sent, but not noted.
Change_OffUnnoted(g, cam) ==
  /\ poller[g] = "processing" /\ sending = NoCommand
  /\ Due(g, cam)
  /\ lastStates' = IF answer[g][cam] = "off" THEN lastStates
                   ELSE [lastStates EXCEPT ![cam] = answer[g][cam]]
  /\ sending' = <<cam, connections[cam], answer[g][cam]>>
  /\ UNCHANGED <<pollerVars, connVars, light>>

Change(g, cam) ==
  /\ poller[g] = "processing" /\ sending = NoCommand
  /\ Due(g, cam)
  /\ lastStates' = [lastStates EXCEPT ![cam] = answer[g][cam]]
  /\ sending' = <<cam, connections[cam], answer[g][cam]>>
  /\ UNCHANGED <<pollerVars, connVars, light>>

(* ... and writes to it, whatever has become of it since.  The error of a  *)
(* missing or closed connection is ignored.                                *)
Send ==
  /\ sending # NoCommand
  /\ sending' = NoCommand
  /\ IF sending[2] # Nobody /\ conn[sending[2]] = "open"
     THEN light' = [light EXCEPT ![sending[2]] = sending[3]]
     ELSE UNCHANGED light
  /\ UNCHANGED <<pollerVars, lastStates, connVars>>

Processed(g) ==
  /\ poller[g] = "processing" /\ sending = NoCommand
  /\ \A cam \in Cams : ~Due(g, cam)
  /\ Enters(g, "polling")
  /\ answer' = [answer EXCEPT ![g] = NoAnswer]
  /\ UNCHANGED <<isRunning, stopChan, closedChans, sees, lastStates, sending,
                 connVars, light>>

-----------------------------------------------------------------------------
(* Connections.                                                            *)

(* HandleWebSocket: the previous connection of the camera is closed. *)
Register(c) ==
  /\ conn[c] = "gone" /\ c \notin Addressees
  /\ conn' = [d \in Conns |-> IF d = c THEN "open"
                              ELSE IF d = connections[CamOf[c]] THEN "closed"
                              ELSE conn[d]]
  /\ connections' = [connections EXCEPT ![CamOf[c]] = c]
  /\ UNCHANGED <<pollerVars, lastStates, sending, light>>

PhoneLeaves(c) ==
  /\ conn[c] = "open"
  /\ conn' = [conn EXCEPT ![c] = "closed"]
  /\ UNCHANGED <<pollerVars, lastStates, sending, connections, light>>

(* The read loop ends: the connection is forgotten, unless the map holds a *)
(* newer one by now.                                                       *)
\* Faulty variant: whatever the map holds.
ReadFails_Any(c) ==
  /\ conn[c] = "closed"
  /\ conn' = [conn EXCEPT ![c] = "gone"]
  /\ light' = [light EXCEPT ![c] = "none"]
  /\ connections' = [connections EXCEPT ![CamOf[c]] = Nobody]
  /\ UNCHANGED <<pollerVars, lastStates, sending>>

ReadFails(c) ==
  /\ conn[c] = "closed"
  /\ conn' = [conn EXCEPT ![c] = "gone"]
  /\ light' = [light EXCEPT ![c] = "none"]
  /\ connections' = IF connections[CamOf[c]] = c
                    THEN [connections EXCEPT ![CamOf[c]] = Nobody]
                    ELSE connections
  /\ UNCHANGED <<pollerVars, lastStates, sending>>

-----------------------------------------------------------------------------
TallyInit ==
  /\ isRunning = FALSE /\ stopChan = 0 /\ closedChans = {}
  /\ poller = [g \in Pollers |-> "off"]
  /\ sees = [g \in Pollers |-> 0]
  /\ answer = [g \in Pollers |-> NoAnswer]
  /\ lastStates = [cam \in Cams |-> "none"]
  /\ sending = NoCommand
  /\ connections = [cam \in Cams |-> Nobody]
  /\ conn = [c \in Conns |-> "gone"]
  /\ light = [c \in Conns |-> "none"]

Works(g) ==
  \/ Poll(g) \/ Tick(g) \/ FetchFails(g) \/ Fetched(g) \/ Processed(g)
  \/ \E cam \in Cams : Change(g, cam)

PollerStep(g) == Ends(g) \/ Lock(g) \/ Works(g)

ConnStep(c) == Register(c) \/ PhoneLeaves(c) \/ ReadFails(c)

TallyNext ==
  \/ Start \/ Stop \/ Send
  \/ \E g \in Pollers : PollerStep(g)
  \/ \E c \in Conns : ConnStep(c)

TallySpec == TallyInit /\ [][TallyNext]_tallyVars

(* The goroutines go on, requests to vMix end (they have a timeout) and a  *)
(* write to a phone returns; the select and the mutex are fair.            *)
Fairness ==
  /\ WF_tallyVars(Send)
  /\ \A g \in Pollers :
       /\ SF_tallyVars(Ends(g)) /\ SF_tallyVars(Lock(g))
       /\ WF_tallyVars(Works(g))

FairTallySpec == TallySpec /\ Fairness

-----------------------------------------------------------------------------
(* Safety.                                                                 *)

(* A phone that is connected is the one that gets the commands of its      *)
(* camera, and the connections that are listed are not forgotten ones, in  *)
(* every order of reconnections and of the ends of the read loops.         *)
ConnectionsAgree ==
  /\ \A c \in Conns : conn[c] = "open" => connections[CamOf[c]] = c
  /\ \A cam \in Cams : connections[cam] # Nobody =>
       conn[connections[cam]] # "gone" /\ CamOf[connections[cam]] = cam

(* A phone that has been told anything since it connected shows what the   *)
(* poller believes that it shows: no command is lost on a connection that  *)
(* lasts, and two pollers do not mix their commands up.  (A phone that     *)
(* connects while its camera is on air is told nothing until the next      *)
(* change: the poller only sends changes.)                                 *)
LightIsCurrent ==
  \A c \in Conns :
    conn[c] = "open" /\ light[c] # "none"
      /\ (sending = NoCommand \/ sending[1] # CamOf[c]) =>
      light[c] = lastStates[CamOf[c]]

-----------------------------------------------------------------------------
(* Liveness.                                                               *)

(* After Stop, every goroutine that polls comes to its end, those that     *)
(* Start has replaced and that have survived it included.                  *)
StopEndsPolling ==
  ~isRunning ~> isRunning \/ \A g \in Pollers : poller[g] = "off"
=============================================================================
