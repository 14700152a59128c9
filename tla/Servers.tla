------------------------------- MODULE Servers -------------------------------
(***************************************************************************)
(* The RTSP and RTMP servers (internal/servers/rtsp, internal/servers/rtmp)*)
(* and the commands they run for readers (internal/hooks,                  *)
(* internal/externalcmd), on one path.                                     *)
(*                                                                         *)
(* A client is a session of the RTSP server, whose goroutine belongs to    *)
(* gortsplib and runs one handler at a time; an RTSP session that          *)
(* publishes MPEG-TS, whose publishing is done by a demuxer with a         *)
(* goroutine of its own; or a connection of the RTMP server, that is a     *)
(* goroutine.  It becomes a reader or the publisher of the path with a     *)
(* request that the path may hold for long, and has to leave it whatever   *)
(* ends it: the client, the path, which closes those it lets go, a request *)
(* of the control API to kick it, or the server when it is closed.         *)
(*                                                                         *)
(* gortsplib is external.  Of it the model has what the handlers use: the  *)
(* state of a session changes when a handler returns; OnSessionClose is    *)
(* called when none runs; after Close no other handler is called.  The     *)
(* path, that is modelled in Path, answers as it likes.                    *)
(***************************************************************************)
EXTENDS Naturals, FiniteSets

CONSTANTS
    None, Clients,
    Kinds,          \* the kinds clients may have: functions on Clients
    MaxVersion      \* bound: times the configuration of the path changes

ASSUME ServersAssumption ==
    /\ None \notin Clients /\ MaxVersion \in Nat
    /\ \A k \in Kinds : k \in [Clients -> {"rtsp", "mpegts", "rtmp"}]

VARIABLES
    kind,       \* what each client is
    state,      \* of the session (gortsplib) or of the connection
    handler,    \* RTSP: the handler that is running
    request,    \* the request to the path, or its answer nobody has seen yet
    hasPath,    \* session.path is not nil
    pipe,       \* of the demuxer: none, open, closed
    checked,    \* session.pathConf: the configuration ANNOUNCE was allowed by
    ending,     \* Close has been called
    listed,     \* in Server.sessions or Server.conns
    hook,       \* the command of runOnRead: none, running, closed
    server,     \* of each protocol: open, closing, closed
    readers, publisher, version,    \* of the path
    raced,      \* those that the API kicked while a handler of theirs ran
    crashed     \* a goroutine has panicked

clients == <<kind, state, handler, request, hasPath, pipe, checked, ending, listed, hook>>
path == <<readers, publisher, version>>
vars == <<clients, path, server, raced, crashed>>

IsRTSP(c) == kind[c] \in {"rtsp", "mpegts"}
ServerOf(c) == IF IsRTSP(c) THEN "rtsp" ELSE "rtmp"
IsAlive(c) == state[c] \notin {"absent", "over"}

Init ==
    /\ kind \in Kinds
    /\ state = [c \in Clients |-> "absent"] /\ handler = [c \in Clients |-> "none"]
    /\ request = [c \in Clients |-> "none"] /\ hasPath = [c \in Clients |-> FALSE]
    /\ pipe = [c \in Clients |-> "none"] /\ checked = [c \in Clients |-> 0]
    /\ ending = [c \in Clients |-> FALSE] /\ listed = [c \in Clients |-> FALSE]
    /\ hook = [c \in Clients |-> "none"]
    /\ server = [s \in {"rtsp", "rtmp"} |-> "open"]
    /\ readers = {} /\ publisher = None /\ version = 0
    /\ raced = {} /\ crashed = FALSE

-----------------------------------------------------------------------------
(***************************************************************************)
(* The path, seen from here.                                               *)
(***************************************************************************)

\* The path lets these go: it removes them and closes them.
Dismiss(gone) ==
    /\ readers' = readers \ gone
    /\ ending' = [c \in Clients |-> ending[c] \/ c \in gone]

\* c leaves, and some are closed for another reason.  Without its publisher
\* the path may keep its readers (it is always available) or let them go; the
\* leave of one that is not its publisher it ignores.
Leave(c, asReader, asPublisher, closed) ==
    \E gone \in {{}, readers \ {c}} :
        /\ gone # {} => asPublisher /\ publisher = c
        /\ readers' = readers \ (gone \cup IF asReader THEN {c} ELSE {})
        /\ publisher' = IF asPublisher /\ publisher = c THEN None ELSE publisher
        /\ ending' = [d \in Clients |-> ending[d] \/ d \in gone \cup closed]

\* The path answers a request.  A publisher that was allowed by a
\* configuration that has changed since is refused (ConfToCompare).
AnswerRead(c) ==
    /\ request[c] = "read"
    /\ \/ request' = [request EXCEPT ![c] = "okRead"] /\ readers' = readers \cup {c}
       \/ request' = [request EXCEPT ![c] = "refused"] /\ UNCHANGED readers
    /\ UNCHANGED <<kind, state, handler, hasPath, pipe, checked, ending, listed, hook,
                   publisher, version, server, raced, crashed>>

\* Faulty variant: the publisher that is replaced is not told.
AnswerPublish_Fault(c) ==
    /\ request[c] = "publish"
    /\ \/ /\ IsRTSP(c) => checked[c] = version
          /\ request' = [request EXCEPT ![c] = "okPublish"]
          /\ publisher' = c /\ UNCHANGED <<readers, ending>>
       \/ /\ request' = [request EXCEPT ![c] = "refused"]
          /\ UNCHANGED <<readers, publisher, ending>>
    /\ UNCHANGED <<kind, state, handler, hasPath, pipe, checked, listed, hook,
                   version, server, raced, crashed>>

AnswerPublish(c) ==
    /\ request[c] = "publish"
    /\ \/ /\ IsRTSP(c) => checked[c] = version
          /\ request' = [request EXCEPT ![c] = "okPublish"]
          /\ publisher' = c
          /\ \E gone \in {{publisher}, {publisher} \cup readers} :
                 Dismiss(IF publisher = None THEN {} ELSE gone \cap Clients)
       \/ /\ request' = [request EXCEPT ![c] = "refused"]
          /\ UNCHANGED <<readers, publisher, ending>>
    /\ UNCHANGED <<kind, state, handler, hasPath, pipe, checked, listed, hook,
                   version, server, raced, crashed>>

\* The path is closed, or its stream ends: it lets everybody go.
PathEnds ==
    /\ readers # {} \/ publisher # None
    /\ Dismiss(readers \cup ({publisher} \ {None}))
    /\ publisher' = None
    /\ UNCHANGED <<kind, state, handler, request, hasPath, pipe, checked, listed, hook,
                   version, server, raced, crashed>>

\* A reload changes the configuration of the path, which goes on.
ConfChanges ==
    /\ version < MaxVersion /\ version' = version + 1
    /\ UNCHANGED <<clients, readers, publisher, server, raced, crashed>>

-----------------------------------------------------------------------------
(***************************************************************************)
(* Hooks.  The function OnRead returns closes the command; closing the     *)
(* channel of a command twice is a panic.                                  *)
(***************************************************************************)

OnRead(c) == hook' = [hook EXCEPT ![c] = "running"] /\ UNCHANGED crashed

OnUnread(c) ==
    /\ hook' = [hook EXCEPT ![c] = "closed"]
    /\ crashed' = (crashed \/ hook[c] = "closed")

NoHook == UNCHANGED <<hook, crashed>>

-----------------------------------------------------------------------------
(***************************************************************************)
(* Sessions of the RTSP server.                                            *)
(***************************************************************************)

\* OnSessionOpen; newConn and the loop of the RTMP server.
\* Faulty variant: a connection starts like a session.
Open_Fault(c) ==
    /\ state[c] = "absent" /\ server[ServerOf(c)] = "open"
    /\ state' = [state EXCEPT ![c] = "initial"]
    /\ listed' = [listed EXCEPT ![c] = TRUE]
    /\ UNCHANGED <<kind, handler, request, hasPath, pipe, checked, ending, hook,
                   path, server, raced, crashed>>

Open(c) ==
    /\ state[c] = "absent" /\ server[ServerOf(c)] = "open"
    /\ state' = [state EXCEPT ![c] = IF IsRTSP(c) THEN "initial" ELSE "idle"]
    /\ listed' = [listed EXCEPT ![c] = TRUE]
    /\ UNCHANGED <<kind, handler, request, hasPath, pipe, checked, ending, hook,
                   path, server, raced, crashed>>

\* A request of the client in a state gortsplib accepts it in.
MayHandle(c, s) ==
    /\ IsRTSP(c) /\ state[c] = s /\ handler[c] = "none" /\ ~ending[c]

\* onAnnounce: the configuration, and that the client may publish.  A client
\* that may not stays as it is.
Announce(c) ==
    /\ MayHandle(c, "initial")
    /\ state' = [state EXCEPT ![c] = "preRecord"]
    /\ checked' = [checked EXCEPT ![c] = version]
    /\ UNCHANGED <<kind, handler, request, hasPath, pipe, ending, listed, hook,
                   path, server, raced, crashed>>

\* onSetup, the first one of a reader, up to AddReader.  Later ones, and those
\* of a publisher, change nothing.
Setup(c) ==
    /\ MayHandle(c, "initial")
    /\ handler' = [handler EXCEPT ![c] = "setup"]
    /\ request' = [request EXCEPT ![c] = "read"]
    /\ UNCHANGED <<kind, state, hasPath, pipe, checked, ending, listed, hook,
                   path, server, raced, crashed>>

\* onPlay, which may run after a pause too.
Play(c) ==
    /\ MayHandle(c, "prePlay")
    /\ handler' = [handler EXCEPT ![c] = "play"]
    /\ OnRead(c)
    /\ UNCHANGED <<kind, state, request, hasPath, pipe, checked, ending, listed,
                   path, server, raced>>

\* onRecord, up to AddPublisher; the demuxer publishes by itself.
Record(c) ==
    /\ MayHandle(c, "preRecord")
    /\ handler' = [handler EXCEPT ![c] = "record"]
    /\ request' = [request EXCEPT ![c] = "publish"]
    /\ pipe' = [pipe EXCEPT ![c] = IF kind[c] = "mpegts" THEN "open" ELSE "none"]
    /\ UNCHANGED <<kind, state, hasPath, checked, ending, listed, hook,
                   path, server, raced, crashed>>

\* onPause, that a session with a demuxer refuses.
PausePlay(c) ==
    /\ MayHandle(c, "play")
    /\ handler' = [handler EXCEPT ![c] = "pause"]
    /\ OnUnread(c)
    /\ UNCHANGED <<kind, state, request, hasPath, pipe, checked, ending, listed,
                   path, server, raced>>

PauseRecord(c) ==
    /\ MayHandle(c, "record") /\ pipe[c] = "none"
    /\ handler' = [handler EXCEPT ![c] = "pause"]
    /\ Leave(c, FALSE, TRUE, {})
    /\ UNCHANGED <<kind, state, request, hasPath, pipe, checked, listed, hook,
                   version, server, raced, crashed>>

\* The handler returns: the rest of onSetup and onRecord, with the answer of
\* the path, and the state gortsplib gives the session.
HandlerEnds(c) ==
    /\ handler[c] # "none"
    /\ pipe[c] = "none" => request[c] \in {"none", "okRead", "okPublish", "refused"}
    /\ handler' = [handler EXCEPT ![c] = "none"]
    /\ state' = [state EXCEPT ![c] =
           CASE handler[c] = "setup" /\ request[c] = "okRead" -> "prePlay"
             [] handler[c] = "play" -> "play"
             [] handler[c] = "record" /\ (pipe[c] # "none" \/ request[c] = "okPublish") ->
                    "record"
             [] handler[c] = "pause" -> IF @ = "play" THEN "prePlay" ELSE "preRecord"
             [] OTHER -> @]
    /\ hasPath' = [hasPath EXCEPT ![c] =
           @ \/ (pipe[c] = "none" /\ request[c] \in {"okRead", "okPublish"})]
    /\ request' = [request EXCEPT ![c] = IF pipe[c] = "none" THEN "none" ELSE @]
    /\ UNCHANGED <<kind, pipe, checked, ending, listed, hook, path, server, raced, crashed>>

\* session.onClose, by whoever calls it.
\* Faulty variant: a session that has been paused stays a reader.
onClose_Fault(c, closed) ==
    /\ IF state[c] = "play" THEN OnUnread(c) ELSE NoHook
    /\ pipe' = [pipe EXCEPT ![c] = IF @ = "open" THEN "closed" ELSE @]
    /\ Leave(c, state[c] = "play", state[c] = "record" /\ hasPath[c], closed)
    /\ hasPath' = [hasPath EXCEPT ![c] = FALSE]

onClose(c, closed) ==
    /\ IF state[c] = "play" THEN OnUnread(c) ELSE NoHook
    /\ pipe' = [pipe EXCEPT ![c] = IF @ = "open" THEN "closed" ELSE @]
    /\ Leave(c, state[c] \in {"prePlay", "play"},
                state[c] = "record" /\ hasPath[c], closed)
    /\ hasPath' = [hasPath EXCEPT ![c] = FALSE]

\* OnSessionClose: the client has gone, or Close was called.
SessionClose(c) ==
    /\ IsRTSP(c) /\ IsAlive(c) /\ handler[c] = "none"
    /\ state' = [state EXCEPT ![c] = "over"]
    /\ listed' = [listed EXCEPT ![c] = FALSE]
    /\ IF listed[c] THEN onClose(c, {})
       ELSE NoHook /\ UNCHANGED <<pipe, readers, publisher, ending, hasPath>>
    /\ UNCHANGED <<kind, handler, request, checked, version, server, raced>>

\* The demuxer ends: refused, with an error, or because the pipe is closed.
\* Of an error it closes the session.
DemuxerEnds(c) ==
    /\ pipe[c] # "none" /\ request[c] \in {"okPublish", "refused"}
    /\ request' = [request EXCEPT ![c] = "none"]
    /\ Leave(c, FALSE, TRUE, IF pipe[c] = "open" THEN {c} ELSE {})
    /\ UNCHANGED <<kind, state, handler, hasPath, pipe, checked, listed, hook,
                   version, server, raced, crashed>>

\* APISessionsKick: the goroutine of the API closes the session and runs
\* onClose itself, whatever the session is doing.
KickSession(c) ==
    /\ IsRTSP(c) /\ listed[c] /\ server["rtsp"] = "open"
    /\ listed' = [listed EXCEPT ![c] = FALSE]
    /\ raced' = IF handler[c] = "none" THEN raced ELSE raced \cup {c}
    /\ onClose(c, {c})
    /\ UNCHANGED <<kind, state, handler, request, checked, version, server>>

-----------------------------------------------------------------------------
(***************************************************************************)
(* Connections of the RTMP server: conn.run.                               *)
(***************************************************************************)

\* The client has said what it wants: runRead, runPublish up to the request.
Ask(c) ==
    /\ kind[c] = "rtmp" /\ state[c] = "idle" /\ request[c] = "none"
    /\ \E what \in {"read", "publish"} : request' = [request EXCEPT ![c] = what]
    /\ UNCHANGED <<kind, state, handler, hasPath, pipe, checked, ending, listed, hook,
                   path, server, raced, crashed>>

\* runRead: the reader starts, or it cannot read any track of the stream.
StartReading(c) ==
    /\ kind[c] = "rtmp" /\ request[c] = "okRead"
    /\ request' = [request EXCEPT ![c] = "none"]
    /\ \/ /\ state' = [state EXCEPT ![c] = "read"]
          /\ OnRead(c) /\ UNCHANGED <<readers, publisher, ending>>
       \/ /\ state' = [state EXCEPT ![c] = "leaving"]
          /\ Leave(c, TRUE, FALSE, {c}) /\ NoHook
    /\ UNCHANGED <<kind, handler, hasPath, pipe, checked, listed, version, server, raced>>

StartPublishing(c) ==
    /\ kind[c] = "rtmp" /\ request[c] = "okPublish"
    /\ request' = [request EXCEPT ![c] = "none"]
    /\ state' = [state EXCEPT ![c] = "publish"]
    /\ UNCHANGED <<kind, handler, hasPath, pipe, checked, ending, listed, hook,
                   path, server, raced, crashed>>

\* The deferred calls of runRead and runPublish, when the client has gone,
\* nothing can be written to it, or the connection was closed.
Return(c) ==
    /\ kind[c] = "rtmp"
    /\ \/ state[c] = "idle" /\ request[c] \in {"none", "refused"}
       \/ state[c] \in {"read", "publish"}
    /\ state' = [state EXCEPT ![c] = "leaving"]
    /\ request' = [request EXCEPT ![c] = "none"]
    /\ IF state[c] = "read" THEN OnUnread(c) ELSE NoHook
    /\ Leave(c, state[c] = "read", state[c] = "publish", {c})
    /\ UNCHANGED <<kind, handler, hasPath, pipe, checked, listed, version, server, raced>>

\* closeConn, that the loop of the server receives unless it is over.
\* Faulty variant: nobody looks whether the loop is over.
CloseConn_Fault(c) ==
    /\ kind[c] = "rtmp" /\ state[c] = "leaving" /\ server["rtmp"] = "open"
    /\ state' = [state EXCEPT ![c] = "over"]
    /\ listed' = [listed EXCEPT ![c] = FALSE]
    /\ UNCHANGED <<kind, handler, request, hasPath, pipe, checked, ending, hook,
                   path, server, raced, crashed>>

CloseConn(c) ==
    /\ kind[c] = "rtmp" /\ state[c] = "leaving"
    /\ state' = [state EXCEPT ![c] = "over"]
    /\ listed' = [listed EXCEPT ![c] = FALSE]
    /\ UNCHANGED <<kind, handler, request, hasPath, pipe, checked, ending, hook,
                   path, server, raced, crashed>>

\* APIConnsKick, in the loop of the server.
KickConn(c) ==
    /\ kind[c] = "rtmp" /\ listed[c] /\ server["rtmp"] = "open"
    /\ listed' = [listed EXCEPT ![c] = FALSE]
    /\ ending' = [ending EXCEPT ![c] = TRUE]
    /\ UNCHANGED <<kind, state, handler, request, hasPath, pipe, checked, hook,
                   path, server, raced, crashed>>

-----------------------------------------------------------------------------
(***************************************************************************)
(* The servers.                                                            *)
(***************************************************************************)

\* Close, or a listener that fails: every client is closed.
Stop(s) ==
    /\ server[s] = "open"
    /\ server' = [server EXCEPT ![s] = "closing"]
    /\ ending' = [c \in Clients |-> ending[c] \/ (ServerOf(c) = s /\ IsAlive(c))]
    /\ UNCHANGED <<kind, state, handler, request, hasPath, pipe, checked, listed, hook,
                   path, raced, crashed>>

\* The wait in Close returns.
Stopped(s) ==
    /\ server[s] = "closing"
    /\ \A c \in Clients : ServerOf(c) = s => ~IsAlive(c)
    /\ server' = [server EXCEPT ![s] = "closed"]
    /\ UNCHANGED <<clients, path, raced, crashed>>

\* What goes on by itself.
Goes(c) ==
    \/ AnswerRead(c) \/ AnswerPublish(c) \/ HandlerEnds(c) \/ DemuxerEnds(c)
    \/ StartReading(c) \/ StartPublishing(c) \/ CloseConn(c)

\* What ends a client that is closed.
Ends(c) == ending[c] /\ (SessionClose(c) \/ Return(c))

Asked(c) ==
    \/ Open(c) \/ Announce(c) \/ Setup(c) \/ Play(c) \/ Record(c)
    \/ PausePlay(c) \/ PauseRecord(c) \/ Ask(c)
    \/ SessionClose(c) \/ Return(c)
    \/ KickSession(c) \/ KickConn(c)

Next ==
    /\ ~crashed
    /\ \/ \E c \in Clients : Goes(c) \/ Asked(c)
       \/ PathEnds \/ ConfChanges
       \/ \E s \in {"rtsp", "rtmp"} : Stop(s) \/ Stopped(s)

Spec == Init /\ [][Next]_vars

\* Handlers and goroutines run on; the path answers every request (a stream
\* that is made on demand has a start timeout); closed ones end.
Fairness ==
    /\ \A c \in Clients : WF_vars(~crashed /\ Goes(c)) /\ WF_vars(~crashed /\ Ends(c))
    /\ \A s \in {"rtsp", "rtmp"} : WF_vars(~crashed /\ Stopped(s))

FairSpec == Spec /\ Fairness

-----------------------------------------------------------------------------
(***************************************************************************)
(* Properties.                                                             *)
(***************************************************************************)

\* Types.
TypeOK ==
    /\ \A c \in Clients : state[c] \in {"absent", "over"} \cup
           IF IsRTSP(c) THEN {"initial", "prePlay", "play", "preRecord", "record"}
           ELSE {"idle", "read", "publish", "leaving"}
    /\ handler \in [Clients -> {"none", "setup", "play", "record", "pause"}]
    /\ request \in [Clients -> {"none", "read", "publish", "okRead", "okPublish",
                                "refused"}]
    /\ hasPath \in [Clients -> BOOLEAN] /\ pipe \in [Clients -> {"none", "open", "closed"}]
    /\ checked \in [Clients -> 0..MaxVersion]
    /\ ending \in [Clients -> BOOLEAN] /\ listed \in [Clients -> BOOLEAN]
    /\ hook \in [Clients -> {"none", "running", "closed"}]
    /\ server \in [{"rtsp", "rtmp"} -> {"open", "closing", "closed"}]
    /\ readers \subseteq Clients /\ publisher \in Clients \cup {None}
    /\ raced \subseteq Clients /\ crashed \in BOOLEAN

\* The demuxer of c has yet to leave by itself.
DemuxerRuns(c) == pipe[c] # "none" /\ request[c] # "none"

Released(c) ==
    state[c] = "over" =>
        /\ c \notin readers
        /\ publisher = c => DemuxerRuns(c)
        /\ hook[c] # "running" /\ ~listed[c]

\* A client that is over, however it ended and whatever the path was doing, is
\* neither a reader nor the publisher of the path, nobody lists it, and the
\* command that ran for it has been closed, once: Core waits for all commands
\* when it ends.  The exception is a session that the API kicks while a
\* handler of it runs.
EverythingIsReleased ==
    /\ \A c \in Clients \ raced : Released(c)
    /\ crashed => raced # {}

\* The path and its clients agree on who reads and who publishes, the command
\* of a reader runs while it reads, and one that is no longer listed is about
\* to end.
RolesAgree ==
    \A c \in Clients \ raced :
        /\ state[c] \in {"prePlay", "play", "read"} /\ ~ending[c] => c \in readers
        /\ c \in readers =>
              \/ state[c] \in {"prePlay", "play", "read"}
              \/ request[c] = "okRead"
        /\ state[c] = "publish" \/ (state[c] = "record" /\ hasPath[c] /\ handler[c] = "none") =>
              publisher = c \/ ending[c]
        /\ publisher = c => state[c] \in {"record", "publish"} \/ request[c] = "okPublish"
        /\ hook[c] = "running" <=>
              \/ state[c] = "read"
              \/ state[c] = "play" /\ handler[c] # "pause" /\ listed[c]
              \/ handler[c] = "play"
        /\ IsAlive(c) /\ ~listed[c] => ending[c]

\* A server that is closed, or whose listener fails, ends, and a client that
\* the path or the API has closed is over some time later, even when the
\* request it had made is answered only then.
ClosingEnds ==
    /\ \A s \in {"rtsp", "rtmp"} : server[s] = "closing" ~> (server[s] = "closed" \/ crashed)
    /\ \A c \in Clients : ending[c] ~> (~IsAlive(c) \/ crashed)

\* The servers and the path hold of each client what it is, and nothing once
\* it is gone.
ClientsAgree == EverythingIsReleased /\ RolesAgree
=============================================================================
