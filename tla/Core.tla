-------------------------------- MODULE Core --------------------------------
(***************************************************************************)
(* The core of the media server (core/core.go): the components that it     *)
(* makes from a configuration, and what a new configuration does to them.  *)
(*                                                                         *)
(* A configuration comes from the file, which the watcher                  *)
(* (confwatcher/confwatcher.go) looks after, or from the API               *)
(* (api/api_config_*.go), whose handlers keep a copy of their own.  The    *)
(* loop of the core compares it with the one in use, closes the components *)
(* whose parameters have changed and those that depend on them, tells the  *)
(* others, and makes what is missing.                                      *)
(*                                                                         *)
(* Parameters that the code always treats alike are one parameter here.    *)
(***************************************************************************)
EXTENDS Naturals, FiniteSets

CONSTANTS
  Patched,     \* the parameters that are changed
  Handlers,    \* requests of the API at a time
  MaxChanges   \* bound: changes of the file and by the API

Switches == {"metrics", "pprof", "playback", "api", "rtsp", "rtmp"}
Encryptions == {"rtspEncryption", "rtmpEncryption"}
Parameters == Switches \cup Encryptions \cup
  {"log", "auth", "users", "readTimeout", "writeTimeout", "dumpPackets",
   "paths", "rtspAddress", "writeQueueSize", "udpReadBufferSize",
   "udpMaxPayloadSize", "rtspUDPReadBufferSize", "rtpAddress",
   "multicastIPRange", "rtspsAddress", "srtpAddress", "rtmpAddress",
   "rtmpsAddress", "runOnConnect"}

ASSUME CoreAssumption == Patched \subseteq Parameters /\ MaxChanges \in Nat

\* A switch: 0 is off.  An encryption: 0 no, 1 optional, 2 strict.  The paths:
\* 0 if no record is deleted.  rtspUDPReadBufferSize: 0 is nil.
Values(p) == IF p \in Encryptions \cup {"paths"} THEN 0..2 ELSE 0..1
IsConf(c) == DOMAIN c = Parameters /\ \A p \in Parameters : c[p] \in Values(p)
Invalid == [error |-> "invalid"]

Servers == {"rtspServer", "rtspsServer", "rtmpServer", "rtmpsServer"}
Components == Servers \cup {"logger", "authManager", "metrics", "pprof",
  "recordCleaner", "playbackServer", "pathManager", "api"}

(* What createResources gives to each component. *)
Network == {"readTimeout", "writeTimeout", "dumpPackets"}
RTSPShared ==
  Network \cup {"rtsp", "rtspEncryption", "rtspUDPReadBufferSize", "rtspAddress",
                "udpReadBufferSize", "writeQueueSize", "runOnConnect"}
RTMPShared == Network \cup {"rtmp", "rtmpEncryption", "rtspAddress", "runOnConnect"}

Uses ==
  [logger         |-> {"log"},
   authManager    |-> {"auth", "users", "readTimeout"},
   metrics        |-> Network \cup {"metrics"},
   pprof          |-> Network \cup {"pprof"},
   recordCleaner  |-> {"paths"},
   playbackServer |-> Network \cup {"playback", "paths"},
   pathManager    |-> Network \cup {"log", "rtspAddress", "writeQueueSize", "paths",
                        "udpReadBufferSize", "udpMaxPayloadSize", "rtspEncryption"},
   rtspServer     |-> RTSPShared \cup {"rtpAddress", "multicastIPRange"},
   rtspsServer    |-> RTSPShared \cup {"rtspsAddress", "srtpAddress",
                                       "multicastIPRange"},
   rtmpServer     |-> RTMPShared \cup {"rtmpAddress"},
   rtmpsServer    |-> RTMPShared \cup {"rtmpsAddress"},
   api            |-> Network \cup {"api"}]

Refers ==
  [c \in Components |->
     CASE c \in {"pprof", "playbackServer", "metrics"} -> {"authManager"}
       [] c = "pathManager" -> {"authManager", "metrics"}
       [] c \in Servers -> {"metrics", "pathManager"}
       [] c = "api" -> {"authManager", "pathManager"} \cup Servers
       [] OTHER -> {}]

(* Whether it makes the component at all. *)
Wanted(c, conf) ==
  CASE c \in {"metrics", "pprof", "api"} -> conf[c] = 1
    [] c = "playbackServer" -> conf.playback = 1
    [] c = "recordCleaner" -> conf.paths # 0
    [] c = "rtspServer" -> conf.rtsp = 1 /\ conf.rtspEncryption # 2
    [] c = "rtspsServer" -> conf.rtsp = 1 /\ conf.rtspEncryption # 0
    [] c = "rtmpServer" -> conf.rtmp = 1 /\ conf.rtmpEncryption # 2
    [] c = "rtmpsServer" -> conf.rtmp = 1 /\ conf.rtmpEncryption # 0
    [] OTHER -> TRUE

(* What closeResources compares: not the parameters that it reloads, nor   *)
(* some of those of the RTSPS server.                                      *)
Reloaded ==
  {<<"authManager", "users">>, <<"recordCleaner", "paths">>,
   <<"playbackServer", "paths">>, <<"pathManager", "paths">>}
NotCompared ==
  {<<"rtspsServer", "srtpAddress">>, <<"rtspsServer", "multicastIPRange">>}

(* rtspUDPReadBufferSize is a pointer, and compared as one. *)
Differs(p, old, new) ==
  old[p] # new[p] \/ (p = "rtspUDPReadBufferSize" /\ new[p] # 0)

ComparedBy ==
  [c \in Components |-> {p \in Uses[c] : <<c, p>> \notin Reloaded \cup NotCompared}]

Altered(old, new) == {p \in Parameters : Differs(p, old, new)}
Toggled(old, new) ==
  IF (old.paths = 0) # (new.paths = 0) THEN {"recordCleaner"} ELSE {}

\* Faulty variant: the path manager is not compared with the size of packets.
Changed_NoPayload(old, new) ==
  Toggled(old, new) \cup
    {c \in Components :
       ComparedBy[c] \cap (Altered(old, new) \ {"udpMaxPayloadSize"}) # {}}

\* Faulty variant: a change of the paths restarts what uses them.
Changed_Paths(old, new) ==
  {c \in Components : Uses[c] \cap Altered(old, new) # {}}

Changed(old, new) ==
  Toggled(old, new) \cup
    {c \in Components : ComparedBy[c] \cap Altered(old, new) # {}}

(* The close flags that imply the one of a component. *)
\* Faulty variant: a server outlives the path manager that it uses.
After_ServersStay ==
  [c \in Components |->
     (IF c \in Servers THEN {"metrics"} ELSE Refers[c] \ {"rtmpsServer"})
       \cup (IF c \in {"logger", "authManager"} THEN {} ELSE {"logger"})]

After ==
  [c \in Components |->
     (Refers[c] \ {"rtmpsServer"})
       \cup (IF c \in {"logger", "authManager"} THEN {} ELSE {"logger"})]

Stable == {s \in SUBSET Components : \A c \in Components : After[c] \cap s # {} => c \in s}
ClosedWith == [c \in Components |-> {d \in Components : \A s \in Stable : c \in s => d \in s}]
Closing(old, new) == UNION {ClosedWith[c] : c \in Changed(old, new)}

-----------------------------------------------------------------------------
VARIABLES
  changes,    \* counts the changes, and the failure of the watcher
  file,       \* the configuration file
  event,      \* the watcher has an event to look at
  recent,     \* it has called less than a second ago
  signal,     \* it is calling the core
  broken,     \* it has failed, and its channel is closed
  core,       \* the loop of the core
  cancelled,  \* p.ctx is cancelled
  interrupt,  \* a signal of the system waits for the loop
  conf,       \* p.conf
  newConf,    \* the configuration that is being loaded
  byAPI,      \* it came from the API
  given,      \* the parameters of each component that runs
  dangling,   \* pairs of a running component and a closed one it refers to
  apiConf,    \* a.Conf
  handler,    \* each request of the API, and what it sends to the core
  posted      \* what goroutines send to the core

fileVars == <<file, event, recent, signal, broken>>
stopVars == <<cancelled, interrupt>>
compVars == <<given, dangling>>
apiVars  == <<apiConf, handler, posted>>
coreVars == <<changes, fileVars, core, stopVars, conf, newConf, byAPI, compVars,
          apiVars>>

Off == [off |-> 0]
Running == {c \in Components : given[c] # Off}
Given(c, cf) == [p \in Uses[c] |-> cf[p]]
ApiLocked == \E h \in Handlers : handler[h] # Off

CoreTypeOK ==
  /\ changes \in 0..MaxChanges
  /\ file = Invalid \/ IsConf(file)
  /\ event \in BOOLEAN /\ recent \in BOOLEAN /\ signal \in BOOLEAN
  /\ broken \in BOOLEAN /\ interrupt \in BOOLEAN
  /\ core \in {"select", "closing", "creating", "done"}
  /\ cancelled \in BOOLEAN /\ byAPI \in BOOLEAN
  /\ IsConf(conf) /\ (newConf = Off \/ IsConf(newConf)) /\ IsConf(apiConf)
  /\ \A c \in Running : /\ DOMAIN given[c] = Uses[c]
                        /\ \A p \in Uses[c] : given[c][p] \in Values(p)
  /\ dangling \subseteq Components \X Components
  /\ \A h \in Handlers : handler[h] = Off \/ IsConf(handler[h])
  /\ \A c \in posted : IsConf(c)

-----------------------------------------------------------------------------
(* The file and its watcher.                                               *)

Patches(c) == UNION {{[c EXCEPT ![p] = v] : v \in Values(p)} : p \in Patched}

(* Somebody writes the file; while he does, it may be no configuration. *)
WriteFile ==
  /\ changes < MaxChanges /\ file # Invalid
  /\ file' \in Patches(file) \cup {Invalid}
  /\ file' # file
  /\ changes' = changes + 1
  /\ event' = ~broken
  /\ UNCHANGED <<recent, signal, broken, core, stopVars, conf, newConf, byAPI,
                 compVars, apiVars>>

(* An event less than a second after the last call is dropped. *)
Watch ==
  /\ event /\ ~signal /\ core # "done"
  /\ event' = FALSE
  /\ signal' = ~recent
  /\ recent' = TRUE
  /\ UNCHANGED <<changes, file, broken, core, stopVars, conf, newConf, byAPI,
                 compVars, apiVars>>

SecondPasses ==
  /\ recent /\ ~signal
  /\ recent' = FALSE
  /\ UNCHANGED <<changes, file, event, signal, broken, core, stopVars, conf,
                 newConf, byAPI, compVars, apiVars>>

(* The watch is lost (events that overflow): the watcher ends, and closes  *)
(* its channel, which the core can then always read.                       *)
WatcherFails ==
  /\ ~broken /\ ~signal /\ core # "done" /\ changes < MaxChanges
  /\ broken' = TRUE
  /\ event' = FALSE /\ recent' = FALSE
  /\ changes' = changes + 1
  /\ UNCHANGED <<file, signal, core, stopVars, conf, newConf, byAPI,
                 compVars, apiVars>>

-----------------------------------------------------------------------------
(* The API.                                                                *)

(* A request that edits paths sends the result to the core, and holds      *)
(* a.mutex until the core has taken it or is over.                         *)
EditPaths(h) ==
  /\ "api" \in Running /\ ~ApiLocked /\ changes < MaxChanges
  /\ \E v \in Values("paths") : apiConf' = [apiConf EXCEPT !["paths"] = v]
  /\ handler' = [handler EXCEPT ![h] = apiConf']
  /\ changes' = changes + 1
  /\ UNCHANGED <<fileVars, core, stopVars, conf, newConf, byAPI, compVars,
                 posted>>

(* A request that changes global parameters leaves it to a goroutine. *)
PatchGlobal ==
  /\ "api" \in Running /\ ~ApiLocked /\ changes < MaxChanges
  /\ apiConf' \in Patches(apiConf)
  /\ posted' = posted \cup {apiConf'}
  /\ changes' = changes + 1
  /\ UNCHANGED <<fileVars, core, stopVars, conf, newConf, byAPI, compVars,
                 handler>>

(* APIConfigSet gives up when the core is over. *)
\* Faulty variant: it does not.
GiveUp_Never(h) == FALSE /\ UNCHANGED <<coreVars, handler[h]>>

GiveUp(h) ==
  /\ cancelled /\ handler[h] # Off
  /\ handler' = [handler EXCEPT ![h] = Off]
  /\ UNCHANGED <<changes, fileVars, core, stopVars, conf, newConf, byAPI,
                 compVars, apiConf, posted>>

-----------------------------------------------------------------------------
(* The loop of the core.                                                   *)

Loads(c, api) == core' = "closing" /\ newConf' = c /\ byAPI' = api

(* A file that cannot be loaded ends the server. *)
\* Faulty variant: whatever is in the file is loaded.
FileChanged_Unchecked ==
  /\ core = "select" /\ (signal \/ broken)
  /\ signal' = FALSE
  /\ Loads(file, FALSE)
  /\ UNCHANGED <<changes, file, event, recent, broken, stopVars, conf, compVars,
                 apiVars>>

FileChanged ==
  /\ core = "select" /\ (signal \/ broken)
  /\ signal' = FALSE
  /\ IF file = Invalid THEN Loads(Off, FALSE) /\ cancelled' = TRUE
     ELSE Loads(file, FALSE) /\ UNCHANGED cancelled
  /\ UNCHANGED <<changes, file, event, recent, broken, interrupt, conf,
                 compVars, apiVars>>

TakeEdit(h) ==
  /\ core = "select" /\ handler[h] # Off
  /\ Loads(handler[h], TRUE)
  /\ handler' = [handler EXCEPT ![h] = Off]
  /\ UNCHANGED <<changes, fileVars, stopVars, conf, compVars, apiConf, posted>>

TakePosted(c) ==
  /\ core = "select" /\ c \in posted
  /\ Loads(c, TRUE)
  /\ posted' = posted \ {c}
  /\ UNCHANGED <<changes, fileVars, stopVars, conf, compVars, apiConf, handler>>

(* Core.Close cancels the context, whatever the loop is doing. *)
Cancel ==
  /\ ~cancelled /\ core # "done"
  /\ cancelled' = TRUE
  /\ UNCHANGED <<changes, fileVars, core, interrupt, conf, newConf, byAPI,
                 compVars, apiVars>>

Leave ==
  /\ core = "select" /\ cancelled
  /\ Loads(Off, FALSE)
  /\ UNCHANGED <<changes, fileVars, stopVars, conf, compVars, apiVars>>

(* A signal of the system waits in its channel, which holds one, until the *)
(* loop reads it; the context is cancelled then.  (One that comes after    *)
(* that, or after Close, has no effect and is left out.)                   *)
Interrupt ==
  /\ ~interrupt /\ ~cancelled
  /\ interrupt' = TRUE
  /\ UNCHANGED <<changes, fileVars, core, cancelled, conf, newConf, byAPI,
                 compVars, apiVars>>

TakeInterrupt ==
  /\ core = "select" /\ interrupt
  /\ interrupt' = FALSE
  /\ Loads(Off, FALSE)
  /\ cancelled' = TRUE
  /\ UNCHANGED <<changes, fileVars, conf, compVars, apiVars>>

(* closeResources begins with the API: it waits for its requests in order  *)
(* to close it, and for its mutex in order to give it the configuration.   *)
Kept == IF newConf = Off THEN {} ELSE Running \ Closing(conf, newConf)
HeldUp == "api" \in Running /\ ApiLocked /\ ~("api" \in Kept /\ byAPI)

CloseResources ==
  /\ core = "closing" /\ ~HeldUp
  /\ \E kept \in {Kept} :
     /\ apiConf' = IF "api" \in kept /\ ~byAPI THEN newConf ELSE apiConf
     /\ given' = [c \in Components |->
          IF c \notin kept THEN Off
          ELSE [p \in Uses[c] |-> IF <<c, p>> \in Reloaded THEN newConf[p]
                                  ELSE given[c][p]]]
     /\ dangling' = {d \in dangling \cup (kept \X (Running \ kept)) :
                       d[1] \in kept /\ d[2] \in Refers[d[1]]}
  /\ IF newConf = Off THEN core' = "done" /\ UNCHANGED conf
     ELSE core' = "creating" /\ conf' = newConf
  /\ newConf' = Off
  /\ signal' = (signal /\ core' # "done")
  /\ UNCHANGED <<changes, file, event, recent, broken, stopVars, byAPI,
                 handler, posted>>

Order == <<"logger", "authManager", "metrics", "pprof", "recordCleaner",
           "playbackServer", "pathManager", "rtspServer", "rtspsServer",
           "rtmpServer", "rtmpsServer", "api">>

(* createResources; the API, if it is made, gets the configuration. *)
CreateResources ==
  /\ core = "creating"
  /\ core' = "select"
  /\ given' = [c \in Components |->
       IF given[c] = Off /\ Wanted(c, conf) THEN Given(c, conf) ELSE given[c]]
  /\ apiConf' = IF "api" \in Running THEN apiConf ELSE conf
  /\ UNCHANGED <<changes, fileVars, stopVars, conf, newConf, byAPI, dangling,
                 handler, posted>>

(* A component cannot be made: the server ends, with those made before it. *)
CreateFails ==
  LET missing == {i \in DOMAIN Order :
                    given[Order[i]] = Off /\ Wanted(Order[i], conf)}
  IN /\ core = "creating"
     /\ \E i \in missing :
          /\ Order[i] \notin {"authManager", "recordCleaner", "pathManager"}
          /\ given' = [c \in Components |->
               IF \E j \in missing : j < i /\ Order[j] = c THEN Given(c, conf)
               ELSE given[c]]
     /\ Loads(Off, FALSE)
     /\ cancelled' = TRUE
     /\ UNCHANGED <<changes, fileVars, interrupt, conf, dangling, apiVars>>

-----------------------------------------------------------------------------
Initial == [p \in Parameters |->
  IF p \in Switches \cup Encryptions \cup {"paths"} THEN 1 ELSE 0]

CoreInit ==
  /\ changes = 0 /\ conf = Initial
  /\ file = Initial /\ event = FALSE /\ recent = FALSE /\ signal = FALSE
  /\ broken = FALSE /\ interrupt = FALSE
  /\ core = "select" /\ cancelled = FALSE /\ newConf = Off /\ byAPI = FALSE
  /\ given = [c \in Components |-> Given(c, Initial)] /\ dangling = {}
  /\ apiConf = Initial /\ handler = [h \in Handlers |-> Off] /\ posted = {}

CoreStep ==
  \/ FileChanged \/ Leave \/ TakeInterrupt
  \/ CloseResources \/ CreateResources \/ CreateFails
  \/ \E h \in Handlers : TakeEdit(h)
  \/ \E c \in posted : TakePosted(c)

CoreNext ==
  \/ WriteFile \/ Watch \/ SecondPasses \/ WatcherFails \/ PatchGlobal
  \/ Cancel \/ Interrupt \/ CoreStep
  \/ \E h \in Handlers : EditPaths(h) \/ GiveUp(h)

CoreSpec == CoreInit /\ [][CoreNext]_coreVars

(* The loop goes on, and its select is fair. *)
CoreFairness ==
  /\ WF_coreVars(CloseResources) /\ WF_coreVars(CreateResources \/ CreateFails)
  /\ SF_coreVars(FileChanged) /\ SF_coreVars(Leave) /\ SF_coreVars(TakeInterrupt)
  /\ WF_coreVars(Watch)
  /\ \A h \in Handlers : SF_coreVars(TakeEdit(h)) /\ WF_coreVars(GiveUp(h))

FairCoreSpec == CoreSpec /\ CoreFairness

-----------------------------------------------------------------------------
(* Safety.                                                                 *)

(* Between two reloads every component that the configuration asks for     *)
(* runs, none else, with the parameters of the configuration, and refers   *)
(* to components that run.  What closeResources does not compare, and the  *)
(* RTMPS server of the API, are the exceptions.                            *)
ComponentsAreCurrent ==
  core = "select" =>
    /\ Running = {c \in Components : Wanted(c, conf)}
    /\ \A c \in Running, p \in Parameters :
         p \in Uses[c] /\ <<c, p>> \notin NotCompared => given[c][p] = conf[p]
    /\ dangling \subseteq {<<"api", "rtmpsServer">>}

(* "Changes are detected and applied without disconnecting existing        *)
(* clients, whenever it's possible": a component is closed only if one of  *)
(* its parameters has changed or one that it refers to is closed, or the   *)
(* logger, unless rtspUDPReadBufferSize is in use.  A component that does  *)
(* not run counts, if a parameter of it has changed.                       *)
OnlyAffectedAreClosed ==
  [][core = "closing" /\ newConf # Off /\ newConf.rtspUDPReadBufferSize = 0 =>
       \A c \in Running :
         given'[c] = Off =>
           \/ \E p \in Uses[c] : newConf[p] # conf[p] /\ <<c, p>> \notin Reloaded
           \/ \E r \in Refers[c] \cup {"logger"} :
                /\ given'[r] = Off
                /\ \/ r \in Running \/ Wanted(r, newConf)
                   \/ \E p \in Uses[r] : newConf[p] # conf[p]
           \/ ~Wanted(c, newConf)]_coreVars

(* A reload brings about what the configuration asks for, and no more.     *)
ReloadsAgree ==
  ComponentsAreCurrent /\ [][ComponentsAreCurrent']_coreVars /\ OnlyAffectedAreClosed

-----------------------------------------------------------------------------
(* Liveness.                                                               *)

(* A server whose context is cancelled ends, even in the middle of a       *)
(* reload that a request of the API was holding up.  A signal of the       *)
(* system ends it too, unless the loop never reads it: a reload and a      *)
(* request wait for each other (core_deadlock), which no signal changes.   *)
ShutdownEnds ==
  /\ cancelled ~> core = "done"
  /\ interrupt ~> core = "done" \/ [](core = "closing" /\ HeldUp)

(* A request that edits the configuration ends ("avoid a loop"). *)
EditsReturn == \A h \in Handlers : handler[h] # Off ~> handler[h] = Off
=============================================================================
