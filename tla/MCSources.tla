----------------------------- MODULE MCSources -----------------------------
(***************************************************************************)
(* Instances of the static sources for TLC: the handler with abstract      *)
(* calls of Run (SourceHandler), or one call of Run of a protocol          *)
(* (StaticSources, WhepSource).  The three meet in SourceRun, which each   *)
(* of them implements from its side.                                       *)
(***************************************************************************)
EXTENDS SourceHandler

CONSTANTS Tried, Patience, MaxRequests, MaxTracks

\* A RTSP source makes at least one request before it knows its tracks.
ASSUME SourcesAssumption ==
  Patience \in Nat /\ MaxRequests \in Nat \ {0} /\ MaxTracks \in Nat

VARIABLES
  subject,                                              \* which of the three
  protocol, callCtx, main, reader, conn, inner, clock, parts, peer, call, said, waiter,
  whepCtx, whepMain, whepInner, trickle, pc, ice, candidates, track, announced,
  tracks, started, whepClock, session, lost, whepCall, whepSaid

sourceVars ==
  <<protocol, callCtx, main, reader, conn, inner, clock, parts, peer, call, said,
    waiter>>
whepVars ==
  <<whepCtx, whepMain, whepInner, trickle, pc, ice, candidates, track, announced,
    tracks, started, whepClock, session, lost, whepCall, whepSaid>>
allVars == <<vars, subject, sourceVars, whepVars>>

S == INSTANCE StaticSources WITH SourceKindsOfRun <- Tried, ctx <- callCtx
W == INSTANCE WhepSource WITH
       ctx <- whepCtx, main <- whepMain, inner <- whepInner, clock <- whepClock,
       call <- whepCall, said <- whepSaid

\* The other two stay where they begin.
HandlerIdle == Init /\ kind = "ordinary" /\ onDemand
SourceIdle == S!Init /\ protocol = "rtp"
WhepIdle == W!Init

MCInit ==
  \/ subject = "handler" /\ Init /\ SourceIdle /\ WhepIdle
  \/ subject = "source" /\ S!Init /\ HandlerIdle /\ WhepIdle
  \/ subject = "whep" /\ W!Init /\ HandlerIdle /\ SourceIdle

MCNext ==
  /\ UNCHANGED subject
  /\ \/ subject = "handler" /\ Next /\ UNCHANGED <<sourceVars, whepVars>>
     \/ subject = "source" /\ S!Next /\ UNCHANGED <<vars, whepVars>>
     \/ subject = "whep" /\ W!Next /\ UNCHANGED <<vars, sourceVars>>

MCSpec == MCInit /\ [][MCNext]_allVars /\ Fairness /\ S!Fairness /\ W!Fairness

TypesOK == TypeOK /\ S!TypeOK /\ W!TypeOK

\* A stream only while a run feeds it, reloads reach a lasting source, and a
\* call leaves nothing behind when it returns (StaticSources, that names the
\* two things that some calls do leave; WhepSource).
SourcesAgree ==
  StreamIsFed /\ LastingSourceIsReloaded /\ S!OnlyTwoAreLeft /\ W!NothingIsLeft

\* The calls implement the contract that the handler keeps.
ContractIsKept == KeepsContract /\ S!ImplementsContract /\ W!ImplementsContract

\* Nothing waits for ever: Stop, the next attempt, a slow or a silent peer.
NothingHangs ==
  /\ StopReturns /\ SourceIsRetried
  /\ S!ConnectingEnds /\ S!SilenceEnds /\ W!ConnectingEnds
=============================================================================
