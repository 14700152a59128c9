----------------------------- MODULE WhepSource -----------------------------
(***************************************************************************)
(* One call of Run of the WebRTC source                                    *)
(* (backend/core/internal/staticsources/webrtc/source.go), with the client *)
(* of the WHEP protocol (protocols/whip/client.go) and its peer connection *)
(* (protocols/webrtc/peer_connection.go).                                  *)
(*                                                                         *)
(* The client asks the server for its options, makes an offer, posts it,   *)
(* takes the answer, and waits for the connection and for the tracks, in a *)
(* goroutine; the library of the peer connection calls back with the local *)
(* candidates, with the tracks and with the changes of state, and its      *)
(* goroutines wait on channels that the client reads in some phases only.  *)
(* A session exists at the server from the moment it answers the POST.     *)
(***************************************************************************)
EXTENDS Naturals

CONSTANTS
    MaxTracks,      \* tracks that the answer announces, at most
    Patience        \* ticks of the clock in a timeout of the client

VARIABLES
    ctx,            \* the context of the call is not cancelled
    main,           \* Run, down to the client's Initialize and Close
    inner,          \* the goroutine initializeInner
    trickle,        \* useTrickleICE
    pc,             \* the peer connection, and its goroutine run()
    ice,            \* co.state
    candidates,     \* the callback OnICECandidate
    track,          \* the callback OnTrack waits to hand over a track
    announced,      \* maxTrackCount of the answer
    tracks,         \* co.incomingTracks
    started,        \* the tracks are being read
    clock,          \* how much of the current timeout has passed
    session,        \* the session at the server
    lost,           \* the session that the client did not know, forgot, or could
                    \* not delete
    call, said      \* the calls to the parent (see StaticSources)

clientVars == <<main, inner, trickle, announced, clock, session, lost>>
pcVars == <<pc, ice, candidates, track, tracks, started>>
parentVars == <<call, said>>
vars == <<ctx, clientVars, pcVars, parentVars>>

TypeOK ==
    /\ ctx \in BOOLEAN /\ trickle \in BOOLEAN /\ started \in BOOLEAN
    /\ main \in {"off", "options", "initializing", "closing", "dropping", "tracks", "asking",
                 "starting", "select", "leaving", "telling", "returned"}
    /\ inner \in {"off", "offering", "posting", "answered", "connecting", "patching",
                  "gathering", "deleting", "failed", "succeeded"}
    /\ pc \in {"none", "open", "closing", "closed"}
    /\ ice \in {"new", "connected", "failed", "closed"}
    /\ candidates \in {"none", "gathering", "blocked", "complete"}
    /\ track \in BOOLEAN
    /\ announced \in 0..MaxTracks /\ tracks \in 0..MaxTracks
    /\ clock \in 0..Patience
    /\ session \in {"none", "held", "released"} /\ lost \in BOOLEAN
    /\ call \in {"none", "readyCall", "readyWait", "notReadyCall", "notReadyWait"}
    /\ said \in {"nothing", "ready", "refused", "over"}

Init ==
    /\ ctx = TRUE /\ main = "off" /\ inner = "off" /\ trickle = FALSE
    /\ pc = "none" /\ ice = "new" /\ candidates = "none" /\ track = FALSE
    /\ announced = 0 /\ tracks = 0 /\ started = FALSE /\ clock = 0
    /\ session = "none" /\ lost = FALSE
    /\ call = "none" /\ said = "nothing"

Expired == clock = Patience
Open == pc = "open"                 \* co.ctx is not cancelled
Connected == ice = "connected"
Failed == ice \in {"failed", "closed"} \/ ~Open

Goes(to) == main' = to /\ UNCHANGED <<inner, trickle, announced, clock, session, lost>>

-----------------------------------------------------------------------------
(* The peer connection.                                                    *)

(* Start, at the end of the options: everything is prepared, or nothing    *)
(* is left of it.                                                          *)
Start == pc' = "open" /\ UNCHANGED <<ice, candidates, track, tracks, started>>

(* Close, up to <-co.done. *)
CloseBegins == pc' = "closing" /\ UNCHANGED <<ice, candidates, track, tracks, started>>

(* run(): the tracks are closed, then the connection of the library, which *)
(* waits for its callbacks; then the last change of state is awaited.      *)
CloseEnds ==
    /\ pc = "closing" /\ candidates # "blocked" /\ ~track
    /\ pc' = "closed" /\ ice' = (IF ice = "failed" THEN ice ELSE "closed")
    /\ started' = FALSE
    /\ UNCHANGED <<ctx, clientVars, candidates, track, tracks, parentVars>>

(* OnConnectionStateChange: what has failed or closed stays so.  The other *)
(* end may close the connection first.                                     *)
StateChanges ==
    /\ Open /\ session = "held"
    /\ \/ ice = "new" /\ inner \in {"connecting", "patching"} /\ ice' = "connected"
       \/ ice \in {"new", "connected"} /\ ice' \in {"failed", "closed"}
    /\ UNCHANGED <<ctx, clientVars, pc, candidates, track, tracks, started, parentVars>>

(* OnICECandidate: a candidate waits to be read, until the connection is   *)
(* up or is closed; at the end, the gathering is done.                     *)
NewCandidate ==
    /\ Open /\ candidates = "gathering"
    /\ candidates' \in {"blocked", "complete"}
    /\ UNCHANGED <<ctx, clientVars, pc, ice, track, tracks, started, parentVars>>

\* Faulty variant: the callback does not watch the context.
CandidateDropped_NoContext ==
    /\ candidates = "blocked" /\ Connected
    /\ candidates' = "gathering"
    /\ UNCHANGED <<ctx, clientVars, pc, ice, track, tracks, started, parentVars>>

CandidateDropped ==
    /\ candidates = "blocked" /\ (Connected \/ ~Open)
    /\ candidates' = "gathering"
    /\ UNCHANGED <<ctx, clientVars, pc, ice, track, tracks, started, parentVars>>

(* OnTrack: nobody takes a track that comes after the others were gathered *)
(* without it; it waits until the connection is closed.                    *)
NewTrack ==
    /\ Open /\ Connected /\ ~track
    /\ track' = TRUE
    /\ UNCHANGED <<ctx, clientVars, pc, ice, candidates, tracks, started, parentVars>>

TrackDropped ==
    /\ track /\ ~Open
    /\ track' = FALSE
    /\ UNCHANGED <<ctx, clientVars, pc, ice, candidates, tracks, started, parentVars>>

-----------------------------------------------------------------------------
(* initializeInner.                                                        *)

At(state) == inner = state /\ UNCHANGED <<ctx, main, trickle, parentVars>>
Step(to) == inner' = to /\ UNCHANGED <<announced, session, lost>>

(* The offer: with trickle ICE it leaves at once, and the candidates       *)
(* follow; otherwise the end of the gathering is awaited, and the          *)
(* candidates are thrown away.                                             *)
CreateOffer ==
    /\ At("offering") /\ candidates = "none"
    /\ \/ Step("failed") /\ UNCHANGED pcVars
       \/ /\ candidates' = "gathering"
          /\ Step(IF trickle THEN "posting" ELSE "offering")
          /\ UNCHANGED <<pc, ice, track, tracks, started>>
    /\ clock' = 0

WaitGatheringDone ==
    /\ At("offering") /\ candidates # "none"
    /\ \/ /\ candidates = "blocked" /\ candidates' = "gathering" /\ Step("offering")
          /\ UNCHANGED <<pc, ice, track, tracks, started>>
       \/ /\ candidates = "complete" /\ Step("posting") /\ UNCHANGED pcVars
       \/ /\ ~Open /\ Step("failed") /\ UNCHANGED pcVars
    /\ clock' = 0

(* The POST, under the context.  The server may have made a session even   *)
(* though the answer does not come, or cannot be used: no ETag, another    *)
(* type, a body that cannot be read, a location that cannot be parsed.     *)
PostOffer ==
    /\ At("posting")
    /\ \/ inner' = "failed" /\ UNCHANGED <<session, lost, announced>>
       \/ inner' = "failed" /\ session' = "held" /\ lost' = TRUE /\ UNCHANGED announced
       \/ /\ ctx /\ inner' = "answered" /\ session' = "held"
          /\ announced' \in 1..MaxTracks /\ UNCHANGED lost
    /\ clock' = 0 /\ UNCHANGED pcVars

(* The answer has tracks that are not supported, or is refused. *)
SetAnswer ==
    /\ At("answered")
    /\ Step("deleting") \/ Step("connecting")
    /\ clock' = 0 /\ UNCHANGED pcVars

(* waitConnected looks at the connection, the candidates and the clock,    *)
(* not at the context.                                                     *)
WaitConnected ==
    /\ At("connecting") /\ Connected
    /\ Step("gathering") /\ clock' = 0 /\ UNCHANGED pcVars

TakeCandidate ==
    /\ At("connecting") /\ trickle /\ candidates = "blocked"
    /\ candidates' = "gathering" /\ Step("patching") /\ UNCHANGED clock
    /\ UNCHANGED <<pc, ice, track, tracks, started>>

PatchCandidate ==
    /\ At("patching")
    /\ Step("deleting") \/ (ctx /\ Step("connecting"))
    /\ UNCHANGED <<clock, pcVars>>

HandshakeExpires ==
    /\ At("connecting") /\ Expired
    /\ Step("deleting") /\ UNCHANGED <<clock, pcVars>>

(* GatherIncomingTracks: all of those announced, or those that have come   *)
(* in time.                                                                *)
GatherTrack ==
    /\ At("gathering") /\ track
    /\ track' = FALSE /\ tracks' = tracks + 1
    /\ Step(IF tracks' >= announced THEN "succeeded" ELSE "gathering")
    /\ UNCHANGED <<pc, ice, candidates, started, clock>>

GatherEnds ==
    /\ At("gathering")
    /\ \/ Expired /\ Step(IF tracks > 0 THEN "succeeded" ELSE "deleting")
       \/ Failed /\ Step("deleting")
    /\ UNCHANGED <<clock, pcVars>>

(* The DELETE is sent whatever happened to the context; its failure is     *)
(* ignored.                                                                *)
DeleteAnswered ==
    \/ session' = "released" /\ UNCHANGED lost
    \/ lost' = TRUE /\ UNCHANGED session

\* Faulty variant: an initialization that fails leaves the session.
DeleteSession_Skipped ==
    /\ At("deleting")
    /\ inner' = "failed" /\ UNCHANGED <<session, lost, announced, clock, pcVars>>

DeleteSession ==
    /\ At("deleting")
    /\ inner' = "failed" /\ DeleteAnswered /\ UNCHANGED <<announced, clock, pcVars>>

InnerStep ==
    \/ CreateOffer \/ WaitGatheringDone \/ PostOffer \/ SetAnswer \/ WaitConnected
    \/ TakeCandidate \/ PatchCandidate \/ HandshakeExpires \/ GatherTrack
    \/ GatherEnds \/ DeleteSession

-----------------------------------------------------------------------------
(* Run.                                                                    *)

Run ==
    /\ main = "off" /\ Goes("options")
    /\ UNCHANGED <<ctx, pcVars, parentVars>>

(* The OPTIONS, and the peer connection. *)
Options ==
    /\ main = "options"
    /\ \/ Goes("returned") /\ UNCHANGED <<pcVars, trickle>>
       \/ /\ ctx /\ Start
          /\ main' = "initializing" /\ inner' = "offering" /\ trickle' \in BOOLEAN
          /\ UNCHANGED <<announced, clock, session, lost>>
    /\ UNCHANGED <<ctx, parentVars>>

(* Initialize: the context, or the end of the goroutine. *)
Initialized ==
    /\ main = "initializing"
    /\ \/ ~ctx /\ Goes("closing") /\ CloseBegins
       \/ inner = "failed" /\ Goes("closing") /\ CloseBegins
       \/ inner = "succeeded" /\ Goes("tracks") /\ UNCHANGED pcVars
    /\ UNCHANGED <<ctx, parentVars>>

(* <-initializeRes, after the connection has been closed.  An              *)
(* initialization that has succeeded just before the context was cancelled *)
(* is not deleted.                                                         *)
InitializeFails ==
    /\ main = "closing" /\ pc = "closed" /\ inner \in {"failed", "succeeded"}
    /\ main' = "returned" /\ lost' = (lost \/ inner = "succeeded")
    /\ UNCHANGED <<inner, trickle, announced, clock, session>>
    /\ UNCHANGED <<ctx, pcVars, parentVars>>

(* ToStream, and SetReady: no track that is understood, or a refusal, and  *)
(* the client is closed.                                                   *)
ToStream ==
    /\ main = "tracks"
    /\ \/ main' = "dropping" /\ UNCHANGED call
       \/ main' = "asking" /\ call' = "readyCall"
    /\ UNCHANGED <<ctx, inner, trickle, announced, clock, session, lost, pcVars, said>>

(* Close of the client: the DELETE, then the connection. *)
CloseClient(from, to) ==
    /\ main = from
    /\ IF pc = "open"
       THEN /\ DeleteAnswered /\ CloseBegins
            /\ UNCHANGED <<main, call>>
       ELSE /\ pc = "closed" /\ main' = to
            /\ call' = IF to = "telling" THEN "notReadyCall" ELSE call
            /\ UNCHANGED <<session, lost, pcVars>>
    /\ UNCHANGED <<ctx, inner, trickle, announced, clock, said>>

Dropped == CloseClient("dropping", "returned")

(* StartReading: run() starts the tracks.  Then a goroutine waits for the  *)
(* connection to fail.                                                     *)
StartReading ==
    /\ main = "starting" /\ Open
    /\ started' = TRUE /\ Goes("select")
    /\ UNCHANGED <<ctx, pc, ice, candidates, track, tracks, parentVars>>

Ends ==
    /\ main = "select" /\ (Failed \/ ~ctx)
    /\ Goes("leaving")
    /\ UNCHANGED <<ctx, pcVars, parentVars>>

\* Faulty variant: SetNotReady is forgotten.
Left_Quietly == CloseClient("leaving", "returned")
Left == CloseClient("leaving", "telling")

-----------------------------------------------------------------------------
(* The calls to the parent.                                                *)

Forwarded ==
    /\ call \in {"readyCall", "notReadyCall"}
    /\ call' = IF call = "readyCall" THEN "readyWait" ELSE "notReadyWait"
    /\ UNCHANGED <<ctx, clientVars, pcVars, said>>

SetReady ==
    /\ call \in {"readyCall", "readyWait"}
    /\ call' = "none"
    /\ \/ call = "readyWait" /\ said' = "ready" /\ Goes("starting")
       \/ said' = "refused" /\ Goes("dropping")
    /\ UNCHANGED <<ctx, pcVars>>

SetNotReady ==
    /\ call \in {"notReadyCall", "notReadyWait"}
    /\ call' = "none" /\ said' = "over" /\ Goes("returned")
    /\ UNCHANGED <<ctx, pcVars>>

-----------------------------------------------------------------------------
Timed == inner \in {"connecting", "patching", "gathering"} /\ ~Expired
Tick ==
    /\ Timed /\ clock' = clock + 1
    /\ UNCHANGED <<ctx, main, inner, trickle, announced, session, lost, pcVars, parentVars>>

CancelRun ==
    /\ ctx /\ main # "returned" /\ ctx' = FALSE
    /\ UNCHANGED <<clientVars, pcVars, parentVars>>

Callbacks ==
    StateChanges \/ NewCandidate \/ CandidateDropped \/ NewTrack \/ TrackDropped
Proceed ==
    \/ Options \/ Initialized \/ InitializeFails \/ ToStream \/ Dropped \/ StartReading
    \/ Ends \/ Left \/ CloseEnds
Parent == Forwarded \/ SetReady \/ SetNotReady
Over == main = "returned" /\ UNCHANGED vars

Next == Run \/ Callbacks \/ InnerStep \/ Proceed \/ Parent \/ Tick \/ CancelRun \/ Over

Spec == Init /\ [][Next]_vars

(* The goroutines go on; every HTTP request has a timeout; candidates end  *)
(* (the gathering has a timeout), though new ones may come for as long as  *)
(* the connection is awaited; a select with several ready cases chooses    *)
(* fairly among them.                                                      *)
Fairness ==
    /\ WF_vars(Proceed) /\ WF_vars(Parent) /\ WF_vars(Tick)
    /\ WF_vars(CandidateDropped) /\ WF_vars(TrackDropped)
    /\ WF_vars(CreateOffer \/ PostOffer \/ SetAnswer \/ PatchCandidate \/ DeleteSession)
    /\ SF_vars(WaitGatheringDone /\ inner' # "offering") /\ WF_vars(WaitGatheringDone)
    /\ SF_vars(NewCandidate /\ candidates' = "complete")
    /\ SF_vars(HandshakeExpires) /\ WF_vars(GatherEnds)

-----------------------------------------------------------------------------
(* Once Run has returned, its goroutine is over, the peer connection is    *)
(* closed with its callbacks and its tracks, and the session at the server *)
(* has been deleted: unless the client never knew its session, or was      *)
(* cancelled when it had just been set up, or the DELETE itself failed.    *)
NothingIsLeft ==
    main = "returned" =>
        /\ inner \in {"off", "failed", "succeeded"} /\ call = "none"
        /\ pc \in {"none", "closed"} /\ candidates # "blocked" /\ ~track /\ ~started
        /\ session = "held" => lost

(* The wait for the connection ends, however many candidates there are. *)
ConnectingEnds == inner \in {"connecting", "patching"} ~>
                  inner \notin {"connecting", "patching"}

Contract ==
    INSTANCE SourceRun WITH
        state <- IF call # "none" THEN call
                 ELSE IF main = "off" THEN "spawned"
                 ELSE IF main = "returned" \/ said \in {"refused", "over"} THEN "returning"
                 ELSE IF said = "ready" THEN "streaming" ELSE "connecting",
        open <- ctx,
        quiet <- FALSE
ImplementsContract == Contract!Spec
=============================================================================
