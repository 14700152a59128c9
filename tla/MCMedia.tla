------------------------------ MODULE MCMedia ------------------------------
(***************************************************************************)
(* Instances of what becomes of a stream: its recordings, that the         *)
(* playback server reads (Recordings), and its viewers (Relay).  A         *)
(* behaviour is one of the two.                                            *)
(***************************************************************************)
EXTENDS Recordings

CONSTANTS RelayCases, MaxFrames, MaxVersion, MaxLost, Width

VARIABLES
  subject,
  relayed, frame, inFlight, nextSeq, lost, ntpStat, arrived, complete, format,
  buffer, encoder, packets, viewer, frames, held

relayVars ==
  <<relayed, frame, inFlight, nextSeq, lost, ntpStat, arrived, complete, format,
    buffer, encoder, packets, viewer, frames, held>>
allVars == <<vars, subject, relayVars>>

offsets == {-1, 0}
Recording(f, duration, after, samples, faulty) ==
  [format |-> f, segmentDuration |-> duration, deleteAfter |-> after,
   samples |-> samples, faults |-> faulty]
recordingCases ==
  {Recording("fmp4", 3, 0, 4, 1), Recording("fmp4", 3, 3, 5, 0),
   Recording("mpegts", 3, 0, 3, 1), Recording("fmp4", 1, 0, 4, 0)}

all == {"AV1", "VP9", "H265", "Opus", "AC3", "FLAC"}
fit(codec) == [codec |-> codec, fits |-> TRUE]
unfit(codec) == [codec |-> codec, fits |-> FALSE]
Case(source, tracks, fourCC, absolute) ==
  [source |-> source, tracks |-> tracks, fourCC |-> fourCC, absolute |-> absolute]
relayCases ==
  {Case("rtsp", <<fit("H264"), unfit("G711"), fit("G711")>>, {}, FALSE),
   Case("webrtc", <<fit("Opus"), fit("H265")>>, all, FALSE),
   Case("webrtc", <<fit("H265"), fit("MJPEG")>>, all, FALSE),
   Case("rtsp", <<fit("Opus"), fit("MPEG4Audio"), unfit("LATM"), fit("LPCM")>>, {"Opus"}, TRUE),
   Case("rtsp", <<fit("FLAC")>>, all, FALSE),
   Case("rtsp", <<fit("Other")>>, all, FALSE),
   Case("rtmp", <<fit("H264"), fit("H264"), fit("MPEG4Audio"), fit("G711")>>, {}, FALSE),
   Case("rtmp", <<fit("FLAC"), fit("AV1")>>, all, FALSE),
   Case("mpegts", <<fit("KLV"), fit("H264"), fit("Other")>>, {}, FALSE),
   Case("hls", <<fit("Opus"), fit("H265"), fit("KLV")>>, {}, FALSE)}

R == INSTANCE Relay WITH Cases <- RelayCases, case <- relayed, clock <- ntpStat

\* What the code fixes about the constants (a publisher of RTMP has tracks whose
\* parameters RTMP can carry), and that None is nothing else.
ASSUME MediaAssumption ==
  /\ \A c \in RelayCases :
       /\ c.source \in {"rtsp", "webrtc", "rtmp", "mpegts", "hls"}
       /\ c.tracks \in Seq([codec : R!Codecs, fits : BOOLEAN])
       /\ c.source = "rtmp" => \A i \in DOMAIN c.tracks : c.tracks[i].fits
  /\ Width \in Nat \ {0} /\ MaxFrames \in Nat /\ MaxVersion \in Nat \ {0}
  /\ MaxLost \in Nat
  /\ None \notin R!Units /\ None \notin R!Entries /\ None \notin R!Encoders

\* The other one stays where it begins.
RecordingsIdle ==
  Init /\ case = (CHOOSE c \in Cases : TRUE) /\ offset = [t \in Tracks |-> 0]
RelayIdle ==
  /\ R!Init /\ format = R!Absent
  /\ relayed = CHOOSE c \in RelayCases : DOMAIN R!ToStream(c.source, c.tracks) # {}

MCInit ==
  \/ subject = "recordings" /\ Init /\ RelayIdle
  \/ subject = "relay" /\ R!Init /\ RecordingsIdle

MCNext ==
  /\ UNCHANGED subject
  /\ \/ subject = "recordings" /\ Next /\ UNCHANGED relayVars
     \/ subject = "relay" /\ R!Next /\ UNCHANGED vars

MCSpec == MCInit /\ [][MCNext]_allVars

TypesOK == TypeOK /\ R!TypeOK

\* What has been written, while it is written and afterwards (Recordings), or
\* what the viewers are sent (Relay).
MediaAgrees ==
  /\ subject = "recordings" => SamplesAreKept /\ HooksAgree /\ DurationsAreTrue
  /\ subject = "relay" => R!PacketsGoOn /\ R!FramesAreDecodable /\ R!TracksAreOffered

\* What the playback server makes of the recordings (Playback).
PlaybackAgrees == subject = "recordings" => ListAgrees /\ GetAgrees
=============================================================================
