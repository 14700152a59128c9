------------------------------- MODULE Relay -------------------------------
(***************************************************************************)
(* What a stream carries (backend/core/internal/protocols and stream): the *)
(* tracks that each protocol can bring (ToStream) and that a RTMP viewer   *)
(* is given (FromStream), and the way of the first track of a publisher,   *)
(* frame by frame, to a RTSP viewer, that gets RTP packets, and to a RTMP  *)
(* viewer, that gets frames.                                               *)
(*                                                                         *)
(* A publisher sends RTP packets (RTSP, WebRTC) or whole frames (the       *)
(* others).  A frame is its number, that is also its timestamp, its slice, *)
(* and the parameter sets that it carries.  Packets may be lost before     *)
(* they arrive; what they are made of is left to the RTP library.          *)
(***************************************************************************)
EXTENDS Naturals, Sequences, FiniteSets, SequencesExt

CONSTANTS
  Cases,       \* [source, tracks, fourCC, absolute] considered
  MaxFrames,   \* bound: frames sent
  MaxVersion,  \* bound: versions of the parameter sets
  MaxLost,     \* bound: packets that are lost
  Width,       \* of sequence numbers and RTP timestamps: they wrap
  None

VARIABLES
  case,
  frame,       \* frames begun by the publisher
  inFlight,    \* a frame whose last packet is still to be sent
  nextSeq,     \* its sequence number
  lost,
  clock,       \* ntpStat of the track
  arrived,     \* the newest parameter sets that have reached the server
  complete,    \* the frames with a picture that have reached it as a whole
  format,      \* the parameter sets of format.Format
  buffer,      \* the frame that the RTP decoder is putting together
  encoder,     \* streamFormat.rtpEncoder: next sequence number, time offset
  packets,     \* the last two entries of what the RTSP viewer has been sent
  viewer,      \* the RTMP viewer
  frames,      \* the last two frames that it has been sent
  held         \* the parameter sets of its decoder

vars == <<case, frame, inFlight, nextSeq, lost, clock, arrived, complete,
          format, buffer, encoder, packets, viewer, frames, held>>

-----------------------------------------------------------------------------
(* Tracks: a track is its codec and whether its parameters "fit" RTMP (rate *)
(* and channels of G711 and LPCM, out-of-band configuration of LATM).       *)

RTMPCodecs == {"AV1", "VP9", "H265", "H264", "Opus", "FLAC", "MPEG4Audio",
               "MPEG1Audio", "AC3", "G711", "LPCM"}
HLSCodecs == {"AV1", "VP9", "H265", "H264", "Opus", "FLAC", "MPEG4Audio", "KLV"}
MPEGTSCodecs == {"H265", "H264", "MPEG4Video", "MPEG1Video", "Opus", "KLV",
                 "MPEG4Audio", "LATM", "MPEG1Audio", "AC3"}
WebRTCCodecs == {"AV1", "VP9", "VP8", "H265", "H264", "Opus", "G722", "G711", "LPCM"}

Codecs == RTMPCodecs \cup MPEGTSCodecs \cup WebRTCCodecs \cup {"MJPEG", "Other"}

(* newRTPDecoder, newRTPEncoder: FLAC has an encoder that makes no packet. *)
Decodable == Codecs \ {"FLAC", "G722", "Other"}
Encodable == Decodable \cup {"FLAC"}

(* ToStream: the tracks of a peer that are kept, by their places; none is   *)
(* an error, and with WebRTC so is one that is not supported.              *)
ToStream(source, tracks) ==
  LET known == CASE source = "rtmp" -> RTMPCodecs
                 [] source = "hls" -> HLSCodecs
                 [] source = "mpegts" -> MPEGTSCodecs
                 [] source = "webrtc" -> WebRTCCodecs
                 [] source = "rtsp" -> Codecs
      kept  == {i \in DOMAIN tracks : tracks[i].codec \in known}
  IN  [i \in IF source = "webrtc" /\ kept # DOMAIN tracks THEN {} ELSE kept |-> tracks[i]]

(* FromStream of RTMP.  Some codecs need the client to list their FourCC;  *)
(* of the others a client that lists none is given the first of a kind.    *)
FourCCCodecs == {"AV1", "VP9", "H265", "Opus", "AC3", "FLAC"}
LegacyVideo == {"H264"}
LegacyAudio == {"MPEG4Audio", "LATM", "MPEG1Audio", "G711", "LPCM"}

\* Faulty variant: the legacy tracks are not counted.
FromStream_All(medias, fourCC) ==
  {i \in DOMAIN medias :
     \/ medias[i].codec \in FourCCCodecs \cap fourCC
     \/ medias[i].codec \in LegacyVideo \cup LegacyAudio /\ medias[i].fits}

FromStream(medias, fourCC) ==
  {i \in DOMAIN medias :
     \/ medias[i].codec \in FourCCCodecs \cap fourCC
     \/ \E kind \in {LegacyVideo, LegacyAudio} :
          /\ medias[i].codec \in kind /\ medias[i].fits
          /\ fourCC # {} \/ ~\E j \in DOMAIN medias :
                              j < i /\ medias[j].codec \in kind /\ medias[j].fits}

Medias == ToStream(case.source, case.tracks)
Offered == FromStream(Medias, case.fourCC)

-----------------------------------------------------------------------------
(* Units.                                                                  *)

Sets == {"sps", "pps"}
First == CHOOSE i \in DOMAIN Medias : \A j \in DOMAIN Medias : i <= j
Codec == Medias[First].codec
SendsPackets == case.source \in {"rtsp", "webrtc"}
WithSets == Codec \in {"H264", "H265"}
Absent == [k \in Sets |-> 0]
Wrap(n) == n % Width

(* newFormatUpdater: the sets of the frame, over those known before.       *)
\* Faulty variant: the first sets are kept.
UpdateFormat_First(known, unit) ==
  [k \in Sets |-> IF known[k] = 0 THEN unit.sets[k] ELSE known[k]]

UpdateFormat(known, unit) ==
  [k \in Sets |-> IF unit.sets[k] # 0 THEN unit.sets[k] ELSE known[k]]

(* newUnitRemuxer: the sets leave the frame; key frames are given those of *)
(* the format, if they are all known; nothing may be left.                 *)
\* Faulty variant: the sets are put before the key frame they came with only.
Remux_Stripped(known, unit) ==
  IF ~WithSets THEN unit
  ELSE IF unit.slice = "none" THEN None
  ELSE [unit EXCEPT !.sets = IF unit.slice = "idr" THEN unit.sets ELSE Absent]

Remux(known, unit) ==
  IF ~WithSets THEN unit
  ELSE IF unit.slice = "none" THEN None
  ELSE [unit EXCEPT !.sets = IF unit.slice = "idr" /\ \A k \in Sets : known[k] # 0
                             THEN known ELSE Absent]

(* rtpDecoder.decode: of a frame in two packets, the last completes it. *)
Decode(p) ==
  IF Codec \notin Decodable \/ p.part = "first" \/ (p.part = "last" /\ buffer = None)
  THEN [error |-> FALSE, payload |-> None]
  ELSE IF p.part = "last" /\ buffer # p.unit
  THEN [error |-> TRUE, payload |-> None]  \* a packet in between is missing
  ELSE [error |-> FALSE, payload |-> p.unit]

(* What a decoder holds after some sets: versions only go up. *)
Newest(known, sets) == [k \in Sets |-> IF known[k] > sets[k] THEN known[k] ELSE sets[k]]

(* The last two entries are enough for the properties. *)
Log(log, entry) == IF Len(log) < 2 THEN Append(log, entry) ELSE <<log[2], entry>>

Packets(first, count, unit, offset) ==
  [first |-> first, last |-> Wrap(first + count - 1), n |-> unit.n,
   ts |-> Wrap(offset + unit.n), count |-> count]

Gap == [first |-> 0, last |-> 0, n |-> 0, ts |-> 0, count |-> 0]

(* writeRTSP: the packets, if any, to the viewer that has joined. *)
SendRTSP(entry) ==
  packets' = IF packets = None \/ entry = None THEN packets
             ELSE Log(packets, entry)

(* The viewer is not sent anything where the publisher's packet is lost. *)
SkipRTSP == packets' = IF packets \in {None, <<>>} \/ Last(packets) = Gap
                       THEN packets ELSE Log(packets, Gap)

(* The callback of FromStream: a H264 or H265 track begins with a key      *)
(* frame, and ends with an error if that comes without its parameters.     *)
Waits == Codec \in {"H264", "H265"}

\* Faulty variant: the viewer begins with any frame.
SendRTMP_AtOnce(unit) ==
  IF viewer # "in" \/ First \notin Offered \/ unit = None
  THEN UNCHANGED <<viewer, frames, held>>
  ELSE /\ held' = Newest(held, unit.sets)
       /\ frames' = Log(frames, [n |-> unit.n, slice |-> unit.slice,
                                 held |-> held', current |-> arrived'])
       /\ UNCHANGED viewer

SendRTMP(unit) ==
  IF \/ viewer # "in" \/ First \notin Offered \/ unit = None
     \/ Waits /\ frames = <<>> /\ unit.slice # "idr"
  THEN UNCHANGED <<viewer, frames, held>>
  ELSE IF Waits /\ frames = <<>> /\ unit.sets["sps"] = 0
  THEN viewer' = "failed" /\ UNCHANGED <<frames, held>>
  ELSE /\ held' = Newest(held, unit.sets)
       /\ frames' = Log(frames, [n |-> unit.n, slice |-> unit.slice,
                                 held |-> held', current |-> arrived'])
       /\ UNCHANGED viewer

(* What the frame that has arrived means for the properties. *)
Arrives(unit) ==
  /\ arrived' = Newest(arrived, unit.sets)
  /\ complete' = IF unit.slice = "none" THEN complete ELSE complete \cup {unit.n}

-----------------------------------------------------------------------------
(* writeUnitInner.                                                         *)

(* A frame from a publisher that does not send packets, in one or two. *)
WriteFrame(unit) ==
  LET known == IF WithSets THEN UpdateFormat(format, unit) ELSE format
  IN  \E payload \in {Remux(known, unit)}, count \in {1, 2} :
        /\ format' = known
        /\ Arrives(unit)
        /\ SendRTMP(payload)
        /\ IF payload = None \/ Codec = "FLAC"
           THEN SendRTSP(None) /\ UNCHANGED encoder
           ELSE /\ SendRTSP(Packets(encoder.seq, count, unit, encoder.offset))
                /\ encoder' = [encoder EXCEPT !.seq = Wrap(@ + count)]
        /\ UNCHANGED buffer

(* The encoder is made when a packet is too big, and goes on from it. *)
\* Faulty variant: its sequence numbers begin anywhere.
EncoderFor_Anew(p) ==
  IF encoder = None /\ p.big THEN [seq |-> 0, offset |-> Wrap(p.ts + Width - Wrap(p.unit.n))]
  ELSE encoder

EncoderFor(p) ==
  IF encoder = None /\ p.big THEN [seq |-> p.seq, offset |-> Wrap(p.ts + Width - Wrap(p.unit.n))]
  ELSE encoder

WritePacket(p) ==
  \E decoded \in {Decode(p)}, enc \in {EncoderFor(p)},
     count \in {IF p.big \/ p.part # "whole" THEN 2 ELSE 1} :
    /\ buffer' = IF p.part = "first" /\ Codec \in Decodable THEN p.unit ELSE None
    /\ IF decoded.error \/ (p.big /\ Codec \notin Encodable)
       THEN SkipRTSP /\ UNCHANGED <<format, arrived, complete, encoder, viewer, frames, held>>
       ELSE IF decoded.payload = None
       THEN /\ encoder' = enc
            /\ SendRTSP(IF enc = None THEN Packets(p.seq, 1, p.unit, p.ts + Width - Wrap(p.unit.n))
                        ELSE None)
            /\ UNCHANGED <<format, arrived, complete, viewer, frames, held>>
       ELSE \E known \in {IF WithSets THEN UpdateFormat(format, p.unit) ELSE format} :
            \E payload \in {Remux(known, p.unit)} :
              /\ format' = known
              /\ Arrives(p.unit)
              /\ SendRTMP(payload)
              /\ IF enc = None
                 THEN /\ SendRTSP(Packets(p.seq, 1, p.unit, p.ts + Width - Wrap(p.unit.n)))
                      /\ UNCHANGED encoder
                 ELSE IF payload = None
                 THEN SendRTSP(None) /\ encoder' = enc
                 ELSE /\ SendRTSP(Packets(enc.seq, count, p.unit, enc.offset))
                      /\ encoder' = [enc EXCEPT !.seq = Wrap(@ + count)]

-----------------------------------------------------------------------------
(* The publisher.                                                          *)

(* What it may send next: some of the parameter sets, renewed, come before *)
(* a key frame or alone (bound: both, or the second).                      *)
Renewals == {{"pps"}, Sets}
Renewed(some) ==
  [k \in Sets |-> IF k \notin some THEN 0
                  ELSE IF arrived[k] < MaxVersion THEN arrived[k] + 1 ELSE MaxVersion]

NextUnits ==
  IF WithSets
  THEN {[n |-> frame + 1, slice |-> kind[1], sets |-> Renewed(kind[2])] :
          kind \in ({"idr", "none"} \X Renewals) \cup ({"idr", "nonidr"} \X {{}})}
  ELSE {[n |-> frame + 1, slice |-> "idr", sets |-> Absent]}

SendFrame ==
  /\ ~SendsPackets /\ frame < MaxFrames
  /\ frame' = frame + 1
  /\ \E unit \in NextUnits : WriteFrame(unit)
  /\ UNCHANGED <<case, inFlight, nextSeq, lost, clock>>

(* handleNTP: with useAbsoluteTimestamp, packets are skipped until the     *)
(* time of the sender is known; from then on it stays known.               *)
Stamped(p) == clock \in {"replace", "available"} \/ p.dated

OnPacketRTP(p) ==
  IF Stamped(p)
  THEN /\ clock' = IF clock = "initial" THEN "available" ELSE clock
       /\ WritePacket(p)
  ELSE /\ SkipRTSP
       /\ UNCHANGED <<clock, arrived, complete, format, buffer, encoder, viewer, frames, held>>

SendPacket ==
  /\ SendsPackets
  /\ inFlight = None => frame < MaxFrames
  /\ \E unit \in IF inFlight = None THEN NextUnits ELSE {inFlight},
        part \in IF inFlight = None THEN {"whole", "first"} ELSE {"last"},
        big, dated, arrives \in BOOLEAN :
       LET p == [seq |-> nextSeq, ts |-> Wrap(Width - 1 + unit.n), unit |-> unit,
                 part |-> part, big |-> big, dated |-> dated]
       IN  /\ dated \/ clock = "initial"
           /\ frame' = unit.n
           /\ inFlight' = IF part = "first" THEN unit ELSE None
           /\ nextSeq' = Wrap(nextSeq + 1)
           /\ IF arrives THEN OnPacketRTP(p) /\ UNCHANGED lost
              ELSE /\ lost < MaxLost /\ ~big /\ dated
                   /\ lost' = lost + 1
                   /\ SkipRTSP
                   /\ UNCHANGED <<clock, arrived, complete, format, buffer, encoder,
                                  viewer, frames, held>>
  /\ UNCHANGED case

-----------------------------------------------------------------------------
(* The viewers.                                                            *)

JoinRTSP ==
  /\ packets = None
  /\ packets' = <<>>
  /\ UNCHANGED <<case, frame, inFlight, nextSeq, lost, clock, arrived, complete,
                 format, buffer, encoder, viewer, frames, held>>

(* FromStream: the viewer is refused, or is told the parameters known ... *)
PrepareRTMP ==
  /\ viewer = "out"
  /\ IF Offered = {} THEN viewer' = "refused" /\ UNCHANGED held
     ELSE viewer' = "ready" /\ held' = format
  /\ UNCHANGED <<case, frame, inFlight, nextSeq, lost, clock, arrived, complete,
                 format, buffer, encoder, packets, frames>>

(* ... before it is added to the stream. *)
AddReader ==
  /\ viewer = "ready"
  /\ viewer' = "in"
  /\ UNCHANGED <<case, frame, inFlight, nextSeq, lost, clock, arrived, complete,
                 format, buffer, encoder, packets, frames, held>>

-----------------------------------------------------------------------------
(* The parameter sets of the SDP, or of the first message of RTMP, are in  *)
(* the format from the beginning, if there are any.                        *)
Init ==
  /\ case \in {c \in Cases : DOMAIN ToStream(c.source, c.tracks) # {}}
  /\ frame = 0 /\ inFlight = None /\ nextSeq = Width - 1 /\ lost = 0
  /\ clock = IF case.absolute THEN "initial" ELSE "replace"
  /\ format \in IF WithSets THEN {Absent, [k \in Sets |-> 1]} ELSE {Absent}
  /\ arrived = format
  /\ complete = {}
  /\ buffer = None
  /\ encoder = IF SendsPackets THEN None ELSE [seq |-> Width - 1, offset |-> Width - 1]
  /\ packets = None
  /\ viewer = "out" /\ frames = <<>> /\ held = Absent

Next == SendFrame \/ SendPacket \/ JoinRTSP \/ PrepareRTMP \/ AddReader

Spec == Init /\ [][Next]_vars

-----------------------------------------------------------------------------
Versions == [Sets -> 0..MaxVersion]

(* What the publisher sends, and what the viewers are sent. *)
Units == [n : Nat, slice : {"idr", "nonidr", "none"}, sets : [Sets -> Nat]]
Entries == [first : Nat, last : Nat, n : Nat, ts : Nat, count : Nat]
Shown == [n : Nat, slice : {"idr", "nonidr", "none"},
          held : [Sets -> Nat], current : [Sets -> Nat]]
Encoders == [seq : Nat, offset : Nat]

TypeOK ==
  /\ case \in Cases
  /\ frame \in 0..MaxFrames /\ nextSeq \in 0..(Width - 1) /\ lost \in 0..MaxLost
  /\ inFlight \in Units \cup {None} /\ encoder \in Encoders \cup {None}
  /\ clock \in {"initial", "available", "replace"}
  /\ {arrived, format, held} \subseteq Versions
  /\ complete \subseteq 1..frame
  /\ viewer \in {"out", "refused", "ready", "in", "failed"}
  /\ frames \in Seq(Shown) /\ Len(frames) <= 2
  /\ packets # None => packets \in Seq(Entries) /\ Len(packets) <= 2

(* A RTSP viewer sees one RTP stream: whether the packets are passed on or *)
(* made anew, and also where the server begins to make them, sequence      *)
(* numbers go on by one and timestamps are those of the frames, except     *)
(* after a packet of the publisher that was lost or refused.               *)
PacketsGoOn ==
  packets # None =>
    /\ \A i \in DOMAIN packets :
         packets[i] # Gap => packets[i].ts = Wrap(Width - 1 + packets[i].n)
    /\ Len(packets) = 2 /\ Gap \notin Range(packets) =>
         /\ packets[2].first = Wrap(packets[1].last + 1)
         /\ packets[2].n >= packets[1].n

(* A RTMP viewer whose tracks are served begins with a key frame, misses   *)
(* no picture from there on, and meets every key frame with the newest     *)
(* parameter sets that the publisher has sent, wherever it sent them and   *)
(* whenever the viewer came.                                               *)
FramesAreDecodable ==
  /\ \A i \in DOMAIN frames :
       frames[i].slice = "idr" /\ (\A k \in Sets : frames[i].current[k] # 0) =>
         frames[i].held = frames[i].current
  /\ Waits /\ Len(frames) = 1 => frames[1].slice = "idr"
  /\ frames # <<>> => ~\E m \in complete : frames[1].n < m /\ m \notin {f.n : f \in Range(frames)}

(* Every track that RTMP can bring is passed on to a client that lists all *)
(* the codecs; a client that lists none is given one track of a kind.      *)
TracksAreOffered ==
  /\ case.source = "rtmp" /\ FourCCCodecs \subseteq case.fourCC => Offered = DOMAIN Medias
  /\ case.fourCC = {} => \A kind \in {LegacyVideo, LegacyAudio} :
       \A i, j \in Offered : {Medias[i].codec, Medias[j].codec} \subseteq kind => i = j
  /\ viewer = "in" => Offered # {}
=============================================================================
