--------------------------- MODULE StaticSources ---------------------------
(***************************************************************************)
(* One call of Run of a static source                                      *)
(* (backend/core/internal/staticsources/*/source.go), from the moment the  *)
(* handler makes it to its return: the protocols that are pulled by a      *)
(* reader goroutine (RTP and MPEG-TS, over UDP and over a Unix socket,     *)
(* RTMP, SRT, RTSP), HLS, and the two camera sources.  WHEP has a module   *)
(* of its own (WhepSource).                                                *)
(*                                                                         *)
(* Run opens a connection and starts a goroutine that reads from it; then  *)
(* it waits for the goroutine to fail, or for its context to be cancelled. *)
(* The goroutine reads until it knows the tracks, asks the parent for a    *)
(* stream, and writes to it; a deadline guards every read.  The other end  *)
(* is slow, silent, gone or wrong as it likes.                             *)
(***************************************************************************)
EXTENDS Naturals

CONSTANTS
    SourceKindsOfRun,   \* the protocols considered
    Patience,           \* ticks of the clock in a read timeout
    MaxRequests         \* bound: requests before an RTSP source knows its tracks

UnixSockets == {"unix+rtp", "unix+mpegts"}
Pulled == {"rtp", "mpegts", "rtmp", "srt", "rtsp"} \cup UnixSockets
Protocols == Pulled \cup {"hls", "primary", "secondary"}

VARIABLES
    protocol,
    ctx,        \* the context of the call is not cancelled
    main,       \* Run
    reader,     \* the goroutine that reads
    conn,       \* the socket, the client or the pipes
    inner,      \* what hangs from it: the accepted connection, the process of
                \* the camera, the place among the readers of the primary path
    clock,      \* how much of the read timeout has passed
    parts,      \* what has been read of the description of the tracks
    peer,       \* the other end
    call,       \* the call to the parent in progress
    said,       \* what the parent knows
    waiter      \* the goroutine that waits for the camera

localVars == <<main, reader, conn, inner, clock, parts, call, said, waiter>>
vars == <<protocol, ctx, peer, localVars>>

TypeOK ==
    /\ protocol \in SourceKindsOfRun /\ ctx \in BOOLEAN
    /\ main \in {"off", "dialling", "joining", "pausing", "asking", "select", "waiting",
                 "telling", "returned", "crashed"}
    /\ reader \in {"none", "reading", "asking", "streaming", "telling", "done"}
    /\ conn \in {"none", "open", "closed"}
    /\ inner \in {"none", "floating", "held", "closed", "leaked"}
    /\ clock \in 0..Patience /\ parts \in 0..MaxRequests
    /\ peer \in {"up", "silent", "gone"}
    /\ call \in {"none", "readyCall", "readyWait", "notReadyCall", "notReadyWait"}
    /\ said \in {"nothing", "ready", "refused", "over"}
    /\ waiter \in {"none", "waiting", "sending", "done"}

Init ==
    /\ protocol \in SourceKindsOfRun
    /\ ctx = TRUE
    /\ main = "off" /\ reader = "none" /\ conn = "none" /\ inner = "none"
    /\ clock = 0 /\ parts = 0 /\ peer = "up"
    /\ call = "none" /\ said = "nothing" /\ waiter = "none"

Expired == clock = Patience
Heard == peer = "up" /\ conn = "open" /\ ~Expired

-----------------------------------------------------------------------------
(* The goroutine of Run begins; it dials.                                  *)

Run ==
    /\ main = "off"
    /\ main' = IF protocol = "secondary" THEN "joining" ELSE "dialling"
    /\ UNCHANGED <<reader, conn, inner, clock, parts, call, said, waiter>>

Opened ==
    /\ conn' = "open" /\ main' = "select" /\ reader' = "reading" /\ clock' = 0
    /\ UNCHANGED <<inner, parts, call, said, waiter>>

Returned == main' = "returned" /\ UNCHANGED <<reader, conn, inner, clock, parts, call, said, waiter>>

(* The socket is bound at once, or cannot be: the other end plays no part. *)
ListenUDP == Opened \/ Returned
ListenUnix == Opened \/ Returned

RunRTP ==
    /\ main = "dialling"
    /\ (protocol = "unix+rtp" /\ ListenUnix) \/ (protocol = "rtp" /\ ListenUDP)
RunMPEGTS ==
    /\ main = "dialling"
    /\ (protocol = "unix+mpegts" /\ ListenUnix) \/ (protocol = "mpegts" /\ ListenUDP)

(* RTMP is dialled under the context and a timeout; SRT under a timeout of *)
(* its own, and the context is not looked at; the RTSP and HLS clients     *)
(* dial later, in their goroutines.                                        *)
RunRTMP ==
    /\ protocol = "rtmp" /\ main = "dialling"
    /\ (ctx /\ peer = "up" /\ Opened) \/ Returned
RunSRT == protocol = "srt" /\ main = "dialling" /\ ((peer = "up" /\ Opened) \/ Returned)
RunRTSP == protocol = "rtsp" /\ main = "dialling" /\ (Opened \/ Returned)
RunHLS == protocol = "hls" /\ main = "dialling" /\ (Opened \/ Returned)

(* The camera is a process, and two pipes; a build without support for it  *)
(* has none.  A goroutine waits for its end and sends it to Run, over a    *)
(* channel that holds nothing.                                             *)
StartCamera ==
    \/ Returned
    \/ /\ conn' = "open" /\ inner' = "held" /\ main' = "select" /\ reader' = "reading"
       /\ waiter' = "waiting"
       /\ UNCHANGED <<clock, parts, call, said>>
RunPrimary == protocol = "primary" /\ main = "dialling" /\ StartCamera

-----------------------------------------------------------------------------
(* The goroutine that reads.                                               *)

Ask ==
    /\ reader' = "asking" /\ call' = "readyCall"
    /\ UNCHANGED <<main, conn, inner, clock, parts, said, waiter>>

(* It returns.  A stream that is ready is taken back by the goroutine      *)
(* itself (a deferred call); HLS and the camera leave it to Run.           *)
\* Faulty variant: the stream is not taken back.
Fail_Quietly ==
    /\ reader' = "done"
    /\ UNCHANGED <<main, conn, inner, clock, parts, call, said, waiter>>

Fail ==
    /\ IF said = "ready" /\ protocol \in Pulled
       THEN reader' = "telling" /\ call' = "notReadyCall"
       ELSE reader' = "done" /\ UNCHANGED call
    /\ UNCHANGED <<main, conn, inner, clock, parts, said, waiter>>

(* What comes next is read under the same deadline, or under a new one. *)
MorePart(renewed) ==
    /\ parts' = 1 - parts
    /\ clock' = IF renewed THEN 0 ELSE clock
    /\ UNCHANGED <<main, reader, conn, inner, call, said, waiter>>
Frame ==
    /\ clock' = 0
    /\ UNCHANGED <<main, reader, conn, inner, parts, call, said, waiter>>

(* The first packet that parses makes the stream; before it, one that does *)
(* not ends the source, after it, it is counted.                           *)
ReadRTP ==
    /\ protocol = "rtp" \/ (protocol = "unix+rtp" /\ inner = "held")
    /\ Heard
    /\ \/ reader = "reading" /\ (Ask \/ Fail)
       \/ reader = "streaming" /\ Frame

(* A packet of another host is skipped, under the same deadline. *)
SkipForeign ==
    /\ protocol \in {"rtp", "mpegts"} /\ reader = "reading" /\ Heard
    /\ MorePart(FALSE)

(* The tables, and the configuration of LATM tracks, arrive over several   *)
(* reads, all of them under one deadline.                                  *)
\* Faulty variant: every read has its deadline.
Tables_Renewed == Ask \/ Fail \/ MorePart(TRUE)
Tables == Ask \/ Fail \/ MorePart(FALSE)

ReadMPEGTS ==
    /\ protocol = "mpegts" \/ (protocol = "unix+mpegts" /\ inner = "held")
    /\ Heard
    /\ \/ reader = "reading" /\ Tables
       \/ reader = "streaming" /\ (Frame \/ Fail)

ReadSRT ==
    /\ protocol = "srt" /\ Heard
    /\ \/ reader = "reading" /\ Tables
       \/ reader = "streaming" /\ (Frame \/ Fail)

(* RTMP: the same; a source without a track that is understood fails. *)
ReadRTMP ==
    /\ protocol = "rtmp" /\ Heard
    /\ \/ reader = "reading" /\ (Ask \/ Fail \/ MorePart(FALSE))
       \/ reader = "streaming" /\ (Frame \/ Fail)

(* RTSP: DESCRIBE, then one SETUP for each track, each with a timeout;     *)
(* PLAY comes once the stream is there.                                    *)
ReadRTSP ==
    /\ protocol = "rtsp" /\ Heard
    /\ \/ /\ reader = "reading"
          /\ \/ Fail
             \/ parts > 0 /\ Ask
             \/ /\ parts < MaxRequests /\ parts' = parts + 1 /\ clock' = 0
                /\ UNCHANGED <<main, reader, conn, inner, call, said, waiter>>
       \/ reader = "streaming" /\ (Frame \/ Fail)

(* HLS: playlists and segments, each with a timeout, then OnTracks. *)
OnTracks ==
    /\ protocol = "hls" /\ Heard
    /\ \/ reader = "reading" /\ (Ask \/ Fail \/ MorePart(TRUE))
       \/ reader = "streaming" /\ (Frame \/ Fail)

(* The camera says that it is ready; its first frame makes the stream. *)
ReadCamera ==
    /\ protocol = "primary" /\ Heard /\ inner = "held"
    /\ \/ /\ reader = "reading"
          /\ (parts = 1 /\ Ask) \/ Fail \/ (parts = 0 /\ MorePart(FALSE))
       \/ reader = "streaming" /\ (Frame \/ Fail)

(* A read fails: nothing in time, the other end has left, or Run has       *)
(* closed the connection.                                                  *)
Accepts == protocol \in UnixSockets /\ inner = "none"
ReadFails ==
    /\ reader \in {"reading", "streaming"}
    /\ inner # "floating"
    /\ \/ Expired \/ conn = "closed"
       \/ peer = "gone" /\ protocol \notin {"rtp", "mpegts"} /\ ~Accepts
    /\ Fail

-----------------------------------------------------------------------------
(* The Unix socket: the first read accepts a connection, under its         *)
(* deadline.                                                               *)

Accept ==
    /\ Accepts /\ reader = "reading" /\ Heard
    /\ inner' = "floating"
    /\ UNCHANGED <<main, reader, conn, clock, parts, call, said, waiter>>

(* setConn: the listener may have been closed in between, and then nobody  *)
(* closes the connection.                                                  *)
SetConn ==
    /\ inner = "floating"
    /\ IF conn = "open" THEN inner' = "held" /\ UNCHANGED reader
       ELSE inner' = "leaked" /\ reader' = "done"
    /\ UNCHANGED <<main, conn, clock, parts, call, said, waiter>>

-----------------------------------------------------------------------------
(* The process of the camera.                                              *)

(* It ends by itself, or because it is told to ('e'): its reader has       *)
(* failed, or Run is closing it.                                           *)
CameraToldToEnd == reader = "done" \/ main = "waiting"
CameraEnds ==
    /\ protocol = "primary" /\ inner = "held"
    /\ CameraToldToEnd \/ peer = "gone"
    /\ inner' = "closed" /\ conn' = "closed"
    /\ UNCHANGED <<main, reader, clock, parts, call, said, waiter>>

CameraDone == protocol # "primary" \/ (inner = "closed" /\ reader = "done")

WaiterSends ==
    /\ waiter = "waiting" /\ CameraDone
    /\ waiter' = "sending"
    /\ UNCHANGED <<main, reader, conn, inner, clock, parts, call, said>>

-----------------------------------------------------------------------------
(* Run.                                                                    *)

Close ==
    IF protocol = "primary" THEN UNCHANGED <<conn, inner>>
    ELSE /\ conn' = "closed"
         /\ inner' = IF inner = "held" THEN "closed" ELSE inner

(* What remains to be done once the goroutine is over.                     *)
TakeBack ==
    IF said = "ready" /\ protocol \notin Pulled
    THEN main' = "telling" /\ call' = "notReadyCall"
    ELSE main' = "returned" /\ UNCHANGED call

(* The error of the goroutine, or of the one that waits for the camera.    *)
ReaderOver ==
    /\ main = "select" /\ reader = "done" /\ waiter \in {"none", "sending"}
    /\ waiter' = IF waiter = "sending" THEN "done" ELSE waiter
    /\ Close /\ TakeBack
    /\ UNCHANGED <<reader, clock, parts, said>>

(* ctx.Done: the connection is closed, so that the goroutine fails, and    *)
(* Run waits for it.  What the goroutine that waits for the camera sends   *)
(* is not received any more.                                               *)
\* Faulty variant: Run does not wait.
Cancelled_NoWait ==
    /\ main = "select" /\ protocol # "secondary" /\ ~ctx
    /\ Close /\ main' = "returned"
    /\ UNCHANGED <<reader, clock, parts, call, said, waiter>>

Cancelled ==
    /\ main = "select" /\ protocol # "secondary" /\ ~ctx
    /\ Close /\ main' = "waiting"
    /\ UNCHANGED <<reader, clock, parts, call, said, waiter>>

Waited ==
    /\ main = "waiting" /\ reader = "done" /\ CameraDone
    /\ TakeBack
    /\ UNCHANGED <<reader, conn, inner, clock, parts, said, waiter>>

-----------------------------------------------------------------------------
(* The secondary camera source is a reader of the path of the primary one. *)

(* waitForPrimary: the path answers, however long it holds the request. *)
Join ==
    /\ main = "joining"
    /\ \/ Returned
       \/ /\ main' = "pausing"
          /\ UNCHANGED <<reader, conn, inner, clock, parts, call, said, waiter>>
       \/ /\ inner' = "held" /\ main' = "asking" /\ call' = "readyCall"
          /\ UNCHANGED <<reader, conn, clock, parts, said, waiter>>

Pause ==
    /\ main = "pausing"
    /\ \/ /\ main' = "joining"
          /\ UNCHANGED <<reader, conn, inner, clock, parts, call, said, waiter>>
       \/ ~ctx /\ Returned

(* The stream of the primary source fails or closes, or ctx.Done. *)
LeavePrimary ==
    /\ main = "select" /\ protocol = "secondary"
    /\ ~ctx \/ peer = "gone"
    /\ inner' = "closed" /\ main' = "returned"
    /\ UNCHANGED <<reader, conn, clock, parts, call, said, waiter>>

-----------------------------------------------------------------------------
(* The calls to the parent, which answers them all, and gives up on them   *)
(* once it stops the source.                                               *)

Forwarded ==
    /\ call \in {"readyCall", "notReadyCall"}
    /\ call' = IF call = "readyCall" THEN "readyWait" ELSE "notReadyWait"
    /\ UNCHANGED <<main, reader, conn, inner, clock, parts, said, waiter>>

SetReady ==
    /\ call = "readyWait"
    /\ call' = "none" /\ said' = "ready"
    /\ IF protocol = "secondary" THEN main' = "select" /\ UNCHANGED <<reader, clock>>
       ELSE reader' = "streaming" /\ clock' = 0 /\ UNCHANGED main
    /\ UNCHANGED <<conn, inner, parts, waiter>>

(* The reader of the camera panics: "should not happen". *)
SetReadyFails ==
    /\ call \in {"readyCall", "readyWait"}
    /\ call' = "none" /\ said' = "refused"
    /\ CASE protocol = "secondary" ->
              main' = "returned" /\ inner' = "closed" /\ UNCHANGED reader
         [] protocol = "primary" ->
              main' = "crashed" /\ UNCHANGED <<reader, inner>>
         [] OTHER -> reader' = "done" /\ UNCHANGED <<main, inner>>
    /\ UNCHANGED <<conn, clock, parts, waiter>>

SetNotReady ==
    /\ call \in {"notReadyCall", "notReadyWait"}
    /\ call' = "none" /\ said' = "over"
    /\ IF main = "telling" THEN main' = "returned" /\ UNCHANGED reader
       ELSE reader' = "done" /\ UNCHANGED main
    /\ UNCHANGED <<conn, inner, clock, parts, waiter>>

-----------------------------------------------------------------------------
(* What is around it.                                                      *)

Guarded == protocol \notin {"primary", "secondary"}

Tick ==
    /\ Guarded /\ reader \in {"reading", "streaming"} /\ ~Expired
    /\ clock' = clock + 1
    /\ UNCHANGED <<protocol, ctx, peer, main, reader, conn, inner, parts, call, said, waiter>>

PeerFails ==
    /\ peer = "up" /\ peer' \in {"silent", "gone"}
    /\ UNCHANGED <<protocol, ctx, localVars>>

CancelRun ==
    /\ ctx /\ main \notin {"returned", "crashed"}
    /\ ctx' = FALSE
    /\ UNCHANGED <<protocol, peer, localVars>>

Dial == RunRTP \/ RunMPEGTS \/ RunRTMP \/ RunSRT \/ RunRTSP \/ RunHLS \/ RunPrimary
Read ==
    \/ ReadRTP \/ SkipForeign \/ ReadMPEGTS \/ ReadSRT \/ ReadRTMP \/ ReadRTSP
    \/ OnTracks \/ ReadCamera
Proceed ==
    \/ ReaderOver \/ Cancelled \/ Waited \/ Join \/ Pause \/ LeavePrimary
Parent == Forwarded \/ SetReady \/ SetReadyFails \/ SetNotReady

Local ==
    /\ main # "crashed"
    /\ Run \/ Dial \/ Read \/ ReadFails \/ Accept \/ SetConn \/ CameraEnds \/ WaiterSends
       \/ Proceed \/ Parent
    /\ UNCHANGED <<protocol, ctx, peer>>

Over == main \in {"returned", "crashed"} /\ UNCHANGED vars

Next == Local \/ Tick \/ PeerFails \/ CancelRun \/ Over

Spec == Init /\ [][Next]_vars

(* Every goroutine goes on; time passes; the parent answers; the process   *)
(* of the camera obeys; the selects choose fairly (the pause of the        *)
(* secondary source).  Nothing makes the other end send.                   *)
Still == UNCHANGED <<protocol, ctx, peer>>
Fairness ==
    /\ WF_vars(Dial /\ Still) /\ WF_vars(ReadFails /\ Still)
    /\ WF_vars(SetConn /\ Still) /\ WF_vars(CameraToldToEnd /\ CameraEnds /\ Still)
    /\ WF_vars(WaiterSends /\ Still)
    /\ WF_vars(ReaderOver /\ Still) /\ WF_vars(Cancelled /\ Still)
    /\ WF_vars(Waited /\ Still) /\ WF_vars(Join /\ Still)
    /\ WF_vars(Pause /\ Still) /\ SF_vars(~ctx /\ main = "pausing" /\ Returned /\ Still)
    /\ WF_vars(LeavePrimary /\ Still)
    /\ WF_vars(Forwarded /\ Still)
    /\ WF_vars((SetReady \/ SetReadyFails \/ SetNotReady) /\ Still)
    /\ WF_vars(Tick)

-----------------------------------------------------------------------------
(* Once Run has returned, what it opened is closed and its goroutines are  *)
(* over, but for two: a connection that the Unix listener accepts while it *)
(* is being closed belongs to nobody, and the goroutine that waits for the *)
(* camera sends to nobody, for ever, if it was the context that ended Run. *)
(* Neither is left by a Run that ended by itself.                          *)
OnlyTwoAreLeft ==
    /\ main = "returned" =>
         /\ reader \in {"none", "done"} /\ call = "none"
         /\ conn # "open" /\ inner \notin {"held", "floating"}
    /\ inner = "leaked" => protocol \in UnixSockets /\ ~ctx
    /\ main = "returned" /\ waiter \in {"waiting", "sending"} =>
         protocol = "primary" /\ ~ctx

(* The tracks are known in bounded time, however slowly the other end      *)
(* describes them (HLS, that polls, and the cameras excepted), and a       *)
(* source whose other end has become silent ends.                          *)
ConnectingEnds ==
    Guarded /\ protocol # "hls" /\ reader = "reading" ~> reader # "reading"
SilenceEnds == Guarded /\ main # "off" /\ peer # "up" ~> main = "returned"

(* The contract of SourceRun. *)
Contract ==
    INSTANCE SourceRun WITH
        state <- IF call # "none" THEN call
                 ELSE IF main = "off" THEN "spawned"
                 ELSE IF main \in {"returned", "crashed"} \/ said \in {"refused", "over"}
                 THEN "returning"
                 ELSE IF said = "ready" THEN "streaming" ELSE "connecting",
        open <- ctx,
        quiet <- protocol = "secondary"
ImplementsContract == Contract!Spec
=============================================================================
