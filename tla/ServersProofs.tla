---------------------------- MODULE ServersProofs ----------------------------
(***************************************************************************)
(* Proofs about Servers, for any clients of any kinds and any number of    *)
(* changes of the configuration: types, and that the servers and the path  *)
(* agree on every client that the API has not kicked in mid-handler.       *)
(***************************************************************************)
EXTENDS Servers, TLAPS

(***************************************************************************)
(* What holds of every client, those kicked in mid-handler too: which      *)
(* request goes with which handler, state and demuxer.                     *)
(***************************************************************************)
HandlersFit(c) ==
    /\ handler[c] # "none" => IsRTSP(c)
    /\ handler[c] = "setup" =>
           state[c] = "initial" /\ request[c] \in {"read", "okRead", "refused"}
    /\ handler[c] = "play" => state[c] = "prePlay"
    /\ handler[c] = "record" =>
           state[c] = "preRecord" /\ (kind[c] = "mpegts" => pipe[c] # "none")
    /\ handler[c] = "pause" => state[c] \in {"play", "record"} /\ pipe[c] = "none"

RequestsFit(c) ==
    /\ request[c] \in {"read", "okRead"} => state[c] = "idle" \/ handler[c] = "setup"
    /\ request[c] \in {"publish", "okPublish"} =>
           state[c] = "idle" \/ handler[c] = "record" \/ pipe[c] # "none"
    /\ request[c] = "refused" =>
           state[c] = "idle" \/ handler[c] \in {"setup", "record"} \/ pipe[c] # "none"

DemuxersFit(c) ==
    /\ pipe[c] # "none" =>
           /\ kind[c] = "mpegts" /\ ~hasPath[c]
           /\ state[c] \in {"record", "over"} \/ handler[c] = "record"
    /\ kind[c] = "mpegts" /\ hasPath[c] => state[c] \in {"prePlay", "play", "over"}

Fits(c) == HandlersFit(c) /\ RequestsFit(c) /\ DemuxersFit(c)

(***************************************************************************)
(* What holds of the others: the path has c as long as c counts on it,     *)
(* unless c is being closed, and only as long.                             *)
(***************************************************************************)
Reads(c) == request[c] = "okRead" \/ state[c] \in {"prePlay", "play", "read"}

Publishes(c) ==
    \/ request[c] = "okPublish" \/ state[c] = "publish"
    \/ state[c] = "record" /\ hasPath[c] /\ handler[c] = "none"

ReadersFit(c) ==
    /\ Reads(c) => c \in readers \/ ending[c]
    /\ c \in readers => Reads(c) /\ (state[c] \in {"prePlay", "play"} => listed[c])

PublisherFits(c) ==
    /\ Publishes(c) => publisher = c \/ ending[c]
    /\ publisher = c =>
           /\ Publishes(c)
           /\ state[c] = "record" /\ request[c] # "okPublish" => listed[c] /\ pipe[c] = "none"

HookFits(c) ==
    hook[c] = "running" <=>
        \/ state[c] = "read"
        \/ state[c] = "play" /\ handler[c] # "pause" /\ listed[c]
        \/ handler[c] = "play"

ListFits(c) ==
    /\ ~listed[c] => handler[c] = "none" /\ (ending[c] \/ ~IsAlive(c))
    /\ state[c] = "over" => ~listed[c]

Agrees(c) == ReadersFit(c) /\ PublisherFits(c) /\ HookFits(c) /\ ListFits(c)

States == {"absent", "over", "initial", "prePlay", "play", "preRecord", "record",
           "idle", "read", "publish", "leaving"}

Inv ==
    /\ TypeOK /\ state \in [Clients -> States]
    /\ kind \in Kinds /\ version \in 0..MaxVersion
    /\ \A c \in Clients : Fits(c)
    /\ \A c \in Clients \ raced : Agrees(c)
    /\ crashed => raced # {}

(***************************************************************************)
(* A step of somebody else leaves d where it is, except that the path may  *)
(* let d go, which closes d.                                               *)
(***************************************************************************)
Untouched(d) ==
    /\ kind'[d] = kind[d] /\ state'[d] = state[d] /\ handler'[d] = handler[d]
    /\ request'[d] = request[d] /\ hasPath'[d] = hasPath[d] /\ pipe'[d] = pipe[d]
    /\ listed'[d] = listed[d] /\ hook'[d] = hook[d]
    /\ ending[d] => ending'[d]
    /\ d \in readers' => d \in readers
    /\ d \in readers => d \in readers' \/ ending'[d]
    /\ publisher' = d => publisher = d
    /\ publisher = d => publisher' = d \/ ending'[d]

\* What holds of one client is kept by the steps that leave it untouched.
LEMMA UntouchedFits ==
    ASSUME NEW d \in Clients, Untouched(d)
    PROVE  /\ Fits(d) => Fits(d)'
           /\ Agrees(d) => Agrees(d)'
<1>1. Fits(d) => Fits(d)'
  BY DEF Untouched, Fits, HandlersFit, RequestsFit, DemuxersFit, IsRTSP
<1>2. ReadersFit(d) => ReadersFit(d)'
  BY DEF Untouched, ReadersFit, Reads
<1>3. PublisherFits(d) => PublisherFits(d)'
  BY DEF Untouched, PublisherFits, Publishes
<1>4. HookFits(d) => HookFits(d)'
  BY DEF Untouched, HookFits
<1>5. ListFits(d) => ListFits(d)'
  BY DEF Untouched, ListFits, IsAlive
<1> QED
  BY <1>1, <1>2, <1>3, <1>4, <1>5 DEF Agrees

\* The properties follow.
LEMMA InvImplies == Inv => ClientsAgree
<1> SUFFICES ASSUME Inv PROVE ClientsAgree
  OBVIOUS
<1>1. ASSUME NEW c \in Clients \ raced PROVE Released(c)
  <2>1. Fits(c) /\ Agrees(c)
    BY DEF Inv
  <2> QED
    BY <2>1 DEF Released, DemuxerRuns, Fits, HandlersFit, RequestsFit, DemuxersFit, Agrees,
                ReadersFit, PublisherFits, HookFits, ListFits, Reads, Publishes
<1>2. RolesAgree
  <2> SUFFICES ASSUME NEW c \in Clients \ raced
               PROVE
        /\ state[c] \in {"prePlay", "play", "read"} /\ ~ending[c] => c \in readers
        /\ c \in readers =>
              \/ state[c] \in {"prePlay", "play", "read"}
              \/ request[c] = "okRead"
        /\ state[c] = "publish" \/ (state[c] = "record" /\ hasPath[c] /\ handler[c] = "none") =>
              publisher = c \/ ending[c]
        /\ publisher = c => state[c] \in {"record", "publish"} \/ request[c] = "okPublish"
        /\ hook[c] = "running" <=>
              \/ state[c] = "read"
              \/ state[c] = "play" /\ handler[c] # "pause" /\ listed[c]
              \/ handler[c] = "play"
        /\ IsAlive(c) /\ ~listed[c] => ending[c]
    BY DEF RolesAgree
  <2>1. Agrees(c)
    BY DEF Inv
  <2> QED
    BY <2>1 DEF Agrees, ReadersFit, PublisherFits, HookFits, ListFits, Reads, Publishes
<1> QED
  BY <1>1, <1>2 DEF ClientsAgree, EverythingIsReleased, Inv

\* The first state has it.
LEMMA InitInv == Init => Inv
<1> SUFFICES ASSUME Init PROVE Inv
  OBVIOUS
<1>1. TypeOK /\ state \in [Clients -> States]
  <2>1. \A c \in Clients : state[c] = "absent"
    BY DEF Init
  <2>2. state \in [Clients -> States]
    BY DEF Init, States
  <2>3. checked \in [Clients -> 0..MaxVersion]
    BY ServersAssumption DEF Init
  <2> QED
    BY <2>1, <2>2, <2>3 DEF Init, TypeOK
<1>2. ASSUME NEW c \in Clients PROVE Fits(c) /\ Agrees(c)
  BY ServersAssumption DEF Init, Fits, HandlersFit, RequestsFit, DemuxersFit, Agrees,
    ReadersFit, PublisherFits, HookFits, ListFits, Reads, Publishes, IsAlive, IsRTSP
<1> QED
  BY <1>1, <1>2, ServersAssumption DEF Init, Inv

\* What a step by or for one client does to everybody.
Keeps(c) ==
    /\ TypeOK' /\ state' \in [Clients -> States] /\ kind' \in Kinds /\ version' \in 0..MaxVersion
    /\ \A d \in Clients \ {c} : Untouched(d)
    /\ Fits(c)' /\ (c \notin raced' => Agrees(c)')
    /\ raced \subseteq raced'
    /\ crashed' => raced' # {}

\* Every client is that one or is left untouched.
LEMMA KeepsInv == ASSUME Inv, NEW c \in Clients, Keeps(c) PROVE Inv'
<1>1. ASSUME NEW d \in Clients PROVE Fits(d)'
  <2>1. CASE d = c
    BY <2>1 DEF Keeps
  <2>2. CASE d # c
    BY <2>2, UntouchedFits DEF Keeps, Inv
  <2> QED
    BY <2>1, <2>2
<1>2. ASSUME NEW d \in Clients, d \notin raced' PROVE Agrees(d)'
  <2>1. CASE d = c
    BY <1>2, <2>1 DEF Keeps
  <2>2. CASE d # c
    <3>1. d \notin raced
      BY <1>2 DEF Keeps
    <3> QED
      BY <2>2, <3>1, UntouchedFits DEF Keeps, Inv
  <2> QED
    BY <2>1, <2>2
<1> QED
  BY <1>1, <1>2 DEF Keeps, Inv

\* Who leaves: everybody else but those that the path lets go, and closes,
\* stays where it is.
Left(c, asReader, asPublisher, closed) ==
    /\ ending' \in [Clients -> BOOLEAN] /\ readers' \subseteq readers
    /\ publisher' \in {publisher, None}
    /\ \A d \in Clients : ending[d] => ending'[d]
    /\ c \in closed => ending'[c]
    /\ \A d \in Clients \ {c} : d \in readers => d \in readers' \/ ending'[d]
    /\ publisher # c => publisher' = publisher
    /\ c \in readers' <=> c \in readers /\ ~asReader
    /\ publisher' = c <=> publisher = c /\ ~asPublisher

LEMMA LeaveLeft ==
    ASSUME NEW c \in Clients, NEW asReader \in BOOLEAN, NEW asPublisher \in BOOLEAN,
           NEW closed, ending \in [Clients -> BOOLEAN], readers \subseteq Clients,
           Leave(c, asReader, asPublisher, closed)
    PROVE  Left(c, asReader, asPublisher, closed)
<1>1. PICK gone \in {{}, readers \ {c}} :
        /\ readers' = readers \ (gone \cup IF asReader THEN {c} ELSE {})
        /\ publisher' = IF asPublisher /\ publisher = c THEN None ELSE publisher
        /\ ending' = [d \in Clients |-> ending[d] \/ d \in gone \cup closed]
  BY DEF Leave
<1>2. c \notin gone /\ None # c
  BY ServersAssumption
<1>3. c \in readers' <=> c \in readers /\ ~asReader
  BY <1>1, <1>2
<1>4. \A d \in Clients \ {c} : d \in readers => d \in readers' \/ ending'[d]
  BY <1>1
<1>5. ending' \in [Clients -> BOOLEAN] /\ \A d \in Clients : ending[d] => ending'[d]
  BY <1>1
<1>6. c \in closed => ending'[c]
  BY <1>1
<1> QED
  BY <1>1, <1>2, <1>3, <1>4, <1>5, <1>6 DEF Left

(***************************************************************************)
(* What each operation does to the client it is for, and to the others.    *)
(***************************************************************************)
\* The path answers one who wants to read.
LEMMA AnswerReadKeeps ==
    ASSUME Inv, NEW c \in Clients, AnswerRead(c), ~crashed
    PROVE  Keeps(c)
<1>0. TypeOK /\ state \in [Clients -> States] /\ kind \in [Clients -> {"rtsp", "mpegts", "rtmp"}]
      /\ Fits(c) /\ (c \notin raced => Agrees(c)) /\ version \in 0..MaxVersion /\ MaxVersion \in Nat
  BY ServersAssumption DEF Inv
<1>1. state' \in [Clients -> States]
  BY <1>0 DEF TypeOK, States, AnswerRead, IsRTSP, clients, path
<1>2. TypeOK'
  BY <1>0 DEF TypeOK, Fits, HandlersFit, RequestsFit, DemuxersFit, AnswerRead, IsRTSP,
     clients, path
<1>3. \A d \in Clients \ {c} : Untouched(d)
  BY <1>0, ServersAssumption DEF TypeOK, Untouched, AnswerRead, IsRTSP, clients, path
<1>4. Fits(c)'
  BY <1>0 DEF TypeOK, Fits, HandlersFit, RequestsFit, DemuxersFit, AnswerRead, IsRTSP,
     clients, path
<1>5. c \notin raced' => Agrees(c)'
  BY <1>0 DEF TypeOK, Fits, HandlersFit, RequestsFit, DemuxersFit, Agrees, ReadersFit,
     PublisherFits, HookFits, ListFits, Reads, Publishes, IsAlive, AnswerRead, IsRTSP,
     clients, path
<1>6. /\ raced \subseteq raced' /\ (crashed' => raced' # {})
      /\ kind' = kind /\ version' = version
  BY <1>0 DEF Inv, Agrees, ReadersFit, PublisherFits, HookFits, ListFits, Reads,
     Publishes, IsAlive, AnswerRead, IsRTSP, clients, path
<1> QED
  BY <1>1, <1>2, <1>3, <1>4, <1>5, <1>6 DEF Inv, Keeps, clients, path, AnswerRead

\* The path answers one who wants to publish, and lets go who is replaced.
LEMMA AnswerPublishKeeps ==
    ASSUME Inv, NEW c \in Clients, AnswerPublish(c), ~crashed
    PROVE  Keeps(c)
<1>0. TypeOK /\ state \in [Clients -> States] /\ kind \in [Clients -> {"rtsp", "mpegts", "rtmp"}]
      /\ Fits(c) /\ (c \notin raced => Agrees(c)) /\ version \in 0..MaxVersion /\ MaxVersion \in Nat
  BY ServersAssumption DEF Inv
<1>1. state' \in [Clients -> States]
  BY <1>0 DEF TypeOK, States, AnswerPublish, IsRTSP, clients, path
<1>a. /\ ending' \in [Clients -> BOOLEAN] /\ readers' \subseteq readers
      /\ publisher' \in {publisher, c}
      /\ \A d \in Clients : ending[d] => ending'[d]
      /\ \A d \in Clients : d \in readers => d \in readers' \/ ending'[d]
      /\ \A d \in Clients : publisher = d => publisher' = d \/ ending'[d]
  <2>1. CASE /\ publisher' = c
             /\ \E gone \in {{publisher}, {publisher} \cup readers} :
                   Dismiss(IF publisher = None THEN {} ELSE gone \cap Clients)
    <3>1. PICK gone \in {{publisher}, {publisher} \cup readers} :
            Dismiss(IF publisher = None THEN {} ELSE gone \cap Clients)
      BY <2>1
    <3>2. PICK all : /\ all = (IF publisher = None THEN {} ELSE gone \cap Clients)
                     /\ Dismiss(all)
      BY <3>1
    <3>3. readers' = readers \ all /\ ending' = [d \in Clients |-> ending[d] \/ d \in all]
      BY <3>2 DEF Dismiss
    <3>4. \A d \in Clients : publisher = d => d \in all
      BY <3>1, <3>2, ServersAssumption
    <3> QED
      BY <1>0, <2>1, <3>3, <3>4 DEF TypeOK
  <2>2. CASE UNCHANGED <<readers, publisher, ending>>
    BY <1>0, <2>2 DEF TypeOK
  <2> QED
    BY <2>1, <2>2 DEF AnswerPublish
<1>2. TypeOK'
  BY <1>0, <1>a DEF TypeOK, Fits, HandlersFit, RequestsFit, DemuxersFit, AnswerPublish,
     IsRTSP, clients, path
<1>3. \A d \in Clients \ {c} : Untouched(d)
  BY <1>0, <1>a, ServersAssumption DEF TypeOK, Untouched, AnswerPublish, IsRTSP, clients,
     path
<1>4. Fits(c)'
  BY <1>0 DEF TypeOK, Fits, HandlersFit, RequestsFit, DemuxersFit, AnswerPublish, IsRTSP,
     clients, path
<1>5. c \notin raced' => Agrees(c)'
  BY <1>0, <1>a DEF TypeOK, Fits, HandlersFit, RequestsFit, DemuxersFit, Agrees,
     ReadersFit, PublisherFits, HookFits, ListFits, Reads, Publishes, IsAlive,
     AnswerPublish, IsRTSP, clients, path
<1>6. /\ raced \subseteq raced' /\ (crashed' => raced' # {})
      /\ kind' = kind /\ version' = version
  BY <1>0 DEF Inv, Agrees, ReadersFit, PublisherFits, HookFits, ListFits, Reads,
     Publishes, IsAlive, AnswerPublish, IsRTSP, clients, path
<1> QED
  BY <1>1, <1>2, <1>3, <1>4, <1>5, <1>6 DEF Inv, Keeps, clients, path, AnswerPublish

\* A handler of a session returns.
LEMMA HandlerEndsKeeps ==
    ASSUME Inv, NEW c \in Clients, HandlerEnds(c), ~crashed
    PROVE  Keeps(c)
<1>0. TypeOK /\ state \in [Clients -> States] /\ kind \in [Clients -> {"rtsp", "mpegts", "rtmp"}]
      /\ Fits(c) /\ (c \notin raced => Agrees(c)) /\ version \in 0..MaxVersion /\ MaxVersion \in Nat
  BY ServersAssumption DEF Inv
<1>1. state' \in [Clients -> States]
  BY <1>0 DEF TypeOK, States, HandlerEnds, IsRTSP, clients, path
<1>2. TypeOK'
  BY <1>0 DEF TypeOK, Fits, HandlersFit, RequestsFit, DemuxersFit, HandlerEnds, IsRTSP,
     clients, path
<1>3. \A d \in Clients \ {c} : Untouched(d)
  BY <1>0, ServersAssumption DEF TypeOK, Untouched, HandlerEnds, IsRTSP, clients, path
<1>4. Fits(c)'
  BY <1>0 DEF TypeOK, Fits, HandlersFit, RequestsFit, DemuxersFit, HandlerEnds, IsRTSP,
     clients, path
<1>5. c \notin raced' => Agrees(c)'
  BY <1>0 DEF TypeOK, Fits, HandlersFit, RequestsFit, DemuxersFit, Agrees, ReadersFit,
     PublisherFits, HookFits, ListFits, Reads, Publishes, IsAlive, HandlerEnds, IsRTSP,
     clients, path
<1>6. /\ raced \subseteq raced' /\ (crashed' => raced' # {})
      /\ kind' = kind /\ version' = version
  BY <1>0 DEF Inv, Agrees, ReadersFit, PublisherFits, HookFits, ListFits, Reads,
     Publishes, IsAlive, HandlerEnds, IsRTSP, clients, path
<1> QED
  BY <1>1, <1>2, <1>3, <1>4, <1>5, <1>6 DEF Inv, Keeps, clients, path, HandlerEnds

\* A demuxer leaves.
LEMMA DemuxerEndsKeeps ==
    ASSUME Inv, NEW c \in Clients, DemuxerEnds(c), ~crashed
    PROVE  Keeps(c)
<1>0. TypeOK /\ state \in [Clients -> States] /\ kind \in [Clients -> {"rtsp", "mpegts", "rtmp"}]
      /\ Fits(c) /\ (c \notin raced => Agrees(c)) /\ version \in 0..MaxVersion /\ MaxVersion \in Nat
  BY ServersAssumption DEF Inv
<1>a. Leave(c, FALSE, TRUE, IF pipe[c] = "open" THEN {c} ELSE {})
  BY <1>0 DEF TypeOK, DemuxerEnds
<1>b. Left(c, FALSE, TRUE, IF pipe[c] = "open" THEN {c} ELSE {})
  BY <1>0, <1>a, LeaveLeft DEF TypeOK
<1>1. state' \in [Clients -> States]
  BY <1>0 DEF TypeOK, States, DemuxerEnds, Left, IsRTSP, clients, path
<1>2. TypeOK'
  BY <1>0, <1>b DEF TypeOK, Fits, HandlersFit, RequestsFit, DemuxersFit, DemuxerEnds,
     Left, IsRTSP, clients, path
<1>3. \A d \in Clients \ {c} : Untouched(d)
  BY <1>0, <1>b, ServersAssumption DEF TypeOK, Untouched, DemuxerEnds, Left, IsRTSP,
     clients, path
<1>4. Fits(c)'
  BY <1>0 DEF TypeOK, Fits, HandlersFit, RequestsFit, DemuxersFit, DemuxerEnds, Left,
     IsRTSP, clients, path
<1>5. c \notin raced' => Agrees(c)'
  BY <1>0, <1>b DEF TypeOK, Fits, HandlersFit, RequestsFit, DemuxersFit, Agrees,
     ReadersFit, PublisherFits, HookFits, ListFits, Reads, Publishes, IsAlive,
     DemuxerEnds, Left, IsRTSP, clients, path
<1>6. /\ raced \subseteq raced' /\ (crashed' => raced' # {})
      /\ kind' = kind /\ version' = version
  BY <1>0 DEF Inv, Agrees, ReadersFit, PublisherFits, HookFits, ListFits, Reads,
     Publishes, IsAlive, DemuxerEnds, Left, IsRTSP, clients, path
<1> QED
  BY <1>1, <1>2, <1>3, <1>4, <1>5, <1>6 DEF Inv, Keeps, clients, path, DemuxerEnds

\* conn.runRead, with the answer.
LEMMA StartReadingKeeps ==
    ASSUME Inv, NEW c \in Clients, StartReading(c), ~crashed
    PROVE  Keeps(c)
<1>0. TypeOK /\ state \in [Clients -> States] /\ kind \in [Clients -> {"rtsp", "mpegts", "rtmp"}]
      /\ Fits(c) /\ (c \notin raced => Agrees(c)) /\ version \in 0..MaxVersion /\ MaxVersion \in Nat
  BY ServersAssumption DEF Inv
<1>a. /\ request[c] = "okRead" /\ kind[c] = "rtmp" /\ request' = [request EXCEPT ![c] = "none"]
      /\ UNCHANGED <<kind, handler, hasPath, pipe, checked, listed, version, server, raced, crashed>>
  BY DEF StartReading, OnRead, NoHook
<1>b. \/ /\ state' = [state EXCEPT ![c] = "read"] /\ hook' = [hook EXCEPT ![c] = "running"]
         /\ UNCHANGED <<readers, publisher, ending>>
      \/ /\ state' = [state EXCEPT ![c] = "leaving"] /\ UNCHANGED hook
         /\ Left(c, TRUE, FALSE, {c})
  <2>1. \/ state' = [state EXCEPT ![c] = "read"] /\ OnRead(c) /\ UNCHANGED <<readers, publisher, ending>>
        \/ state' = [state EXCEPT ![c] = "leaving"] /\ Leave(c, TRUE, FALSE, {c}) /\ NoHook
    BY DEF StartReading
  <2>2. CASE state' = [state EXCEPT ![c] = "leaving"] /\ Leave(c, TRUE, FALSE, {c}) /\ NoHook
    BY <1>0, <2>2, LeaveLeft DEF TypeOK, NoHook
  <2> QED
    BY <2>1, <2>2 DEF OnRead
<1>1. state' \in [Clients -> States]
  BY <1>0, <1>a, <1>b DEF TypeOK, States, Left, IsRTSP, clients, path
<1>2. TypeOK'
  BY <1>0, <1>a, <1>b DEF TypeOK, Fits, HandlersFit, RequestsFit, DemuxersFit, Left,
     IsRTSP, clients, path
<1>3. \A d \in Clients \ {c} : Untouched(d)
  BY <1>0, <1>a, <1>b, ServersAssumption DEF TypeOK, Untouched, Left, IsRTSP, clients, path
<1>4. Fits(c)'
  BY <1>0, <1>a, <1>b DEF TypeOK, Fits, HandlersFit, RequestsFit, DemuxersFit, Left,
     IsRTSP, clients, path
<1>5. c \notin raced' => Agrees(c)'
  BY <1>0, <1>a, <1>b DEF TypeOK, Fits, HandlersFit, RequestsFit, DemuxersFit, Agrees,
     ReadersFit, PublisherFits, HookFits, ListFits, Reads, Publishes, IsAlive, Left,
     IsRTSP, clients, path
<1>6. /\ raced \subseteq raced' /\ (crashed' => raced' # {})
      /\ kind' = kind /\ version' = version
  BY <1>0, <1>a, <1>b DEF Inv, Agrees, ReadersFit, PublisherFits, HookFits, ListFits,
     Reads, Publishes, IsAlive, Left, IsRTSP, clients, path
<1> QED
  BY <1>1, <1>2, <1>3, <1>4, <1>5, <1>6 DEF Inv, Keeps, clients, path, StartReading,
     OnRead, NoHook

\* conn.runPublish, with the answer.
LEMMA StartPublishingKeeps ==
    ASSUME Inv, NEW c \in Clients, StartPublishing(c), ~crashed
    PROVE  Keeps(c)
<1>0. TypeOK /\ state \in [Clients -> States] /\ kind \in [Clients -> {"rtsp", "mpegts", "rtmp"}]
      /\ Fits(c) /\ (c \notin raced => Agrees(c)) /\ version \in 0..MaxVersion /\ MaxVersion \in Nat
  BY ServersAssumption DEF Inv
<1>1. state' \in [Clients -> States]
  BY <1>0 DEF TypeOK, States, StartPublishing, IsRTSP, clients, path
<1>2. TypeOK'
  BY <1>0 DEF TypeOK, Fits, HandlersFit, RequestsFit, DemuxersFit, StartPublishing,
     IsRTSP, clients, path
<1>3. \A d \in Clients \ {c} : Untouched(d)
  BY <1>0, ServersAssumption DEF TypeOK, Untouched, StartPublishing, IsRTSP, clients, path
<1>4. Fits(c)'
  BY <1>0 DEF TypeOK, Fits, HandlersFit, RequestsFit, DemuxersFit, StartPublishing,
     IsRTSP, clients, path
<1>5. c \notin raced' => Agrees(c)'
  BY <1>0 DEF TypeOK, Fits, HandlersFit, RequestsFit, DemuxersFit, Agrees, ReadersFit,
     PublisherFits, HookFits, ListFits, Reads, Publishes, IsAlive, StartPublishing,
     IsRTSP, clients, path
<1>6. /\ raced \subseteq raced' /\ (crashed' => raced' # {})
      /\ kind' = kind /\ version' = version
  BY <1>0 DEF Inv, Agrees, ReadersFit, PublisherFits, HookFits, ListFits, Reads,
     Publishes, IsAlive, StartPublishing, IsRTSP, clients, path
<1> QED
  BY <1>1, <1>2, <1>3, <1>4, <1>5, <1>6 DEF Inv, Keeps, clients, path, StartPublishing

\* A connection ends.
LEMMA CloseConnKeeps == ASSUME Inv, NEW c \in Clients, CloseConn(c), ~crashed PROVE Keeps(c)
<1>0. TypeOK /\ state \in [Clients -> States] /\ kind \in [Clients -> {"rtsp", "mpegts", "rtmp"}]
      /\ Fits(c) /\ (c \notin raced => Agrees(c)) /\ version \in 0..MaxVersion /\ MaxVersion \in Nat
  BY ServersAssumption DEF Inv
<1>1. state' \in [Clients -> States]
  BY <1>0 DEF TypeOK, States, CloseConn, IsRTSP, clients, path
<1>2. TypeOK'
  BY <1>0 DEF TypeOK, Fits, HandlersFit, RequestsFit, DemuxersFit, CloseConn, IsRTSP,
     clients, path
<1>3. \A d \in Clients \ {c} : Untouched(d)
  BY <1>0, ServersAssumption DEF TypeOK, Untouched, CloseConn, IsRTSP, clients, path
<1>4. Fits(c)'
  BY <1>0 DEF TypeOK, Fits, HandlersFit, RequestsFit, DemuxersFit, CloseConn, IsRTSP,
     clients, path
<1>5. c \notin raced' => Agrees(c)'
  BY <1>0 DEF TypeOK, Fits, HandlersFit, RequestsFit, DemuxersFit, Agrees, ReadersFit,
     PublisherFits, HookFits, ListFits, Reads, Publishes, IsAlive, CloseConn, IsRTSP,
     clients, path
<1>6. /\ raced \subseteq raced' /\ (crashed' => raced' # {})
      /\ kind' = kind /\ version' = version
  BY <1>0 DEF Inv, Agrees, ReadersFit, PublisherFits, HookFits, ListFits, Reads,
     Publishes, IsAlive, CloseConn, IsRTSP, clients, path
<1> QED
  BY <1>1, <1>2, <1>3, <1>4, <1>5, <1>6 DEF Inv, Keeps, clients, path, CloseConn

\* A session or connection is opened.
LEMMA OpenKeeps == ASSUME Inv, NEW c \in Clients, Open(c), ~crashed PROVE Keeps(c)
<1>0. TypeOK /\ state \in [Clients -> States] /\ kind \in [Clients -> {"rtsp", "mpegts", "rtmp"}]
      /\ Fits(c) /\ (c \notin raced => Agrees(c)) /\ version \in 0..MaxVersion /\ MaxVersion \in Nat
  BY ServersAssumption DEF Inv
<1>1. state' \in [Clients -> States]
  BY <1>0 DEF TypeOK, States, Open, ServerOf, IsRTSP, clients, path
<1>2. TypeOK'
  BY <1>0 DEF TypeOK, Fits, HandlersFit, RequestsFit, DemuxersFit, Open, ServerOf, IsRTSP,
     clients, path
<1>3. \A d \in Clients \ {c} : Untouched(d)
  BY <1>0, ServersAssumption DEF TypeOK, Untouched, Open, ServerOf, IsRTSP, clients, path
<1>4. Fits(c)'
  BY <1>0 DEF TypeOK, Fits, HandlersFit, RequestsFit, DemuxersFit, Open, ServerOf, IsRTSP,
     clients, path
<1>5. c \notin raced' => Agrees(c)'
  BY <1>0 DEF TypeOK, Fits, HandlersFit, RequestsFit, DemuxersFit, Agrees, ReadersFit,
     PublisherFits, HookFits, ListFits, Reads, Publishes, IsAlive, Open, ServerOf, IsRTSP,
     clients, path
<1>6. /\ raced \subseteq raced' /\ (crashed' => raced' # {})
      /\ kind' = kind /\ version' = version
  BY <1>0 DEF Inv, Agrees, ReadersFit, PublisherFits, HookFits, ListFits, Reads,
     Publishes, IsAlive, Open, ServerOf, IsRTSP, clients, path
<1> QED
  BY <1>1, <1>2, <1>3, <1>4, <1>5, <1>6 DEF Inv, Keeps, clients, path, Open

\* onAnnounce.
LEMMA AnnounceKeeps == ASSUME Inv, NEW c \in Clients, Announce(c), ~crashed PROVE Keeps(c)
<1>0. TypeOK /\ state \in [Clients -> States] /\ kind \in [Clients -> {"rtsp", "mpegts", "rtmp"}]
      /\ Fits(c) /\ (c \notin raced => Agrees(c)) /\ version \in 0..MaxVersion /\ MaxVersion \in Nat
  BY ServersAssumption DEF Inv
<1>1. state' \in [Clients -> States]
  BY <1>0 DEF TypeOK, States, Announce, MayHandle, IsRTSP, clients, path
<1>2. TypeOK'
  BY <1>0 DEF TypeOK, Fits, HandlersFit, RequestsFit, DemuxersFit, Announce, MayHandle,
     IsRTSP, clients, path
<1>3. \A d \in Clients \ {c} : Untouched(d)
  BY <1>0, ServersAssumption DEF TypeOK, Untouched, Announce, MayHandle, IsRTSP, clients,
     path
<1>4. Fits(c)'
  BY <1>0 DEF TypeOK, Fits, HandlersFit, RequestsFit, DemuxersFit, Announce, MayHandle,
     IsRTSP, clients, path
<1>5. c \notin raced' => Agrees(c)'
  BY <1>0 DEF TypeOK, Fits, HandlersFit, RequestsFit, DemuxersFit, Agrees, ReadersFit,
     PublisherFits, HookFits, ListFits, Reads, Publishes, IsAlive, Announce, MayHandle,
     IsRTSP, clients, path
<1>6. /\ raced \subseteq raced' /\ (crashed' => raced' # {})
      /\ kind' = kind /\ version' = version
  BY <1>0 DEF Inv, Agrees, ReadersFit, PublisherFits, HookFits, ListFits, Reads,
     Publishes, IsAlive, Announce, MayHandle, IsRTSP, clients, path
<1> QED
  BY <1>1, <1>2, <1>3, <1>4, <1>5, <1>6 DEF Inv, Keeps, clients, path, Announce

\* onSetup.
LEMMA SetupKeeps == ASSUME Inv, NEW c \in Clients, Setup(c), ~crashed PROVE Keeps(c)
<1>0. TypeOK /\ state \in [Clients -> States] /\ kind \in [Clients -> {"rtsp", "mpegts", "rtmp"}]
      /\ Fits(c) /\ (c \notin raced => Agrees(c)) /\ version \in 0..MaxVersion /\ MaxVersion \in Nat
  BY ServersAssumption DEF Inv
<1>1. state' \in [Clients -> States]
  BY <1>0 DEF TypeOK, States, Setup, MayHandle, IsRTSP, clients, path
<1>2. TypeOK'
  BY <1>0 DEF TypeOK, Fits, HandlersFit, RequestsFit, DemuxersFit, Setup, MayHandle,
     IsRTSP, clients, path
<1>3. \A d \in Clients \ {c} : Untouched(d)
  BY <1>0, ServersAssumption DEF TypeOK, Untouched, Setup, MayHandle, IsRTSP, clients, path
<1>4. Fits(c)'
  BY <1>0 DEF TypeOK, Fits, HandlersFit, RequestsFit, DemuxersFit, Setup, MayHandle,
     IsRTSP, clients, path
<1>5. c \notin raced' => Agrees(c)'
  BY <1>0 DEF TypeOK, Fits, HandlersFit, RequestsFit, DemuxersFit, Agrees, ReadersFit,
     PublisherFits, HookFits, ListFits, Reads, Publishes, IsAlive, Setup, MayHandle,
     IsRTSP, clients, path
<1>6. /\ raced \subseteq raced' /\ (crashed' => raced' # {})
      /\ kind' = kind /\ version' = version
  BY <1>0 DEF Inv, Agrees, ReadersFit, PublisherFits, HookFits, ListFits, Reads,
     Publishes, IsAlive, Setup, MayHandle, IsRTSP, clients, path
<1> QED
  BY <1>1, <1>2, <1>3, <1>4, <1>5, <1>6 DEF Inv, Keeps, clients, path, Setup

\* onPlay.
LEMMA PlayKeeps == ASSUME Inv, NEW c \in Clients, Play(c), ~crashed PROVE Keeps(c)
<1>0. TypeOK /\ state \in [Clients -> States] /\ kind \in [Clients -> {"rtsp", "mpegts", "rtmp"}]
      /\ Fits(c) /\ (c \notin raced => Agrees(c)) /\ version \in 0..MaxVersion /\ MaxVersion \in Nat
  BY ServersAssumption DEF Inv
<1>1. state' \in [Clients -> States]
  BY <1>0 DEF TypeOK, States, Play, MayHandle, OnRead, IsRTSP, clients, path
<1>2. TypeOK'
  BY <1>0 DEF TypeOK, Fits, HandlersFit, RequestsFit, DemuxersFit, Play, MayHandle,
     OnRead, IsRTSP, clients, path
<1>3. \A d \in Clients \ {c} : Untouched(d)
  BY <1>0, ServersAssumption DEF TypeOK, Untouched, Play, MayHandle, OnRead, IsRTSP,
     clients, path
<1>4. Fits(c)'
  BY <1>0 DEF TypeOK, Fits, HandlersFit, RequestsFit, DemuxersFit, Play, MayHandle,
     OnRead, IsRTSP, clients, path
<1>5. c \notin raced' => Agrees(c)'
  BY <1>0 DEF TypeOK, Fits, HandlersFit, RequestsFit, DemuxersFit, Agrees, ReadersFit,
     PublisherFits, HookFits, ListFits, Reads, Publishes, IsAlive, Play, MayHandle,
     OnRead, IsRTSP, clients, path
<1>6. /\ raced \subseteq raced' /\ (crashed' => raced' # {})
      /\ kind' = kind /\ version' = version
  BY <1>0 DEF Inv, Agrees, ReadersFit, PublisherFits, HookFits, ListFits, Reads,
     Publishes, IsAlive, Play, MayHandle, OnRead, IsRTSP, clients, path
<1> QED
  BY <1>1, <1>2, <1>3, <1>4, <1>5, <1>6 DEF Inv, Keeps, clients, path, Play, OnRead

\* onRecord.
LEMMA RecordKeeps == ASSUME Inv, NEW c \in Clients, Record(c), ~crashed PROVE Keeps(c)
<1>0. TypeOK /\ state \in [Clients -> States] /\ kind \in [Clients -> {"rtsp", "mpegts", "rtmp"}]
      /\ Fits(c) /\ (c \notin raced => Agrees(c)) /\ version \in 0..MaxVersion /\ MaxVersion \in Nat
  BY ServersAssumption DEF Inv
<1>1. state' \in [Clients -> States]
  BY <1>0 DEF TypeOK, States, Record, MayHandle, IsRTSP, clients, path
<1>2. TypeOK'
  BY <1>0 DEF TypeOK, Fits, HandlersFit, RequestsFit, DemuxersFit, Record, MayHandle,
     IsRTSP, clients, path
<1>3. \A d \in Clients \ {c} : Untouched(d)
  BY <1>0, ServersAssumption DEF TypeOK, Untouched, Record, MayHandle, IsRTSP, clients, path
<1>4. Fits(c)'
  BY <1>0 DEF TypeOK, Fits, HandlersFit, RequestsFit, DemuxersFit, Record, MayHandle,
     IsRTSP, clients, path
<1>5. c \notin raced' => Agrees(c)'
  BY <1>0 DEF TypeOK, Fits, HandlersFit, RequestsFit, DemuxersFit, Agrees, ReadersFit,
     PublisherFits, HookFits, ListFits, Reads, Publishes, IsAlive, Record, MayHandle,
     IsRTSP, clients, path
<1>6. /\ raced \subseteq raced' /\ (crashed' => raced' # {})
      /\ kind' = kind /\ version' = version
  BY <1>0 DEF Inv, Agrees, ReadersFit, PublisherFits, HookFits, ListFits, Reads,
     Publishes, IsAlive, Record, MayHandle, IsRTSP, clients, path
<1> QED
  BY <1>1, <1>2, <1>3, <1>4, <1>5, <1>6 DEF Inv, Keeps, clients, path, Record

\* onPause of a reader.
LEMMA PausePlayKeeps == ASSUME Inv, NEW c \in Clients, PausePlay(c), ~crashed PROVE Keeps(c)
<1>0. TypeOK /\ state \in [Clients -> States] /\ kind \in [Clients -> {"rtsp", "mpegts", "rtmp"}]
      /\ Fits(c) /\ (c \notin raced => Agrees(c)) /\ version \in 0..MaxVersion /\ MaxVersion \in Nat
  BY ServersAssumption DEF Inv
<1>1. state' \in [Clients -> States]
  BY <1>0 DEF TypeOK, States, PausePlay, MayHandle, OnUnread, IsRTSP, clients, path
<1>2. TypeOK'
  BY <1>0 DEF TypeOK, Fits, HandlersFit, RequestsFit, DemuxersFit, PausePlay, MayHandle,
     OnUnread, IsRTSP, clients, path
<1>3. \A d \in Clients \ {c} : Untouched(d)
  BY <1>0, ServersAssumption DEF TypeOK, Untouched, PausePlay, MayHandle, OnUnread,
     IsRTSP, clients, path
<1>4. Fits(c)'
  BY <1>0 DEF TypeOK, Fits, HandlersFit, RequestsFit, DemuxersFit, PausePlay, MayHandle,
     OnUnread, IsRTSP, clients, path
<1>5. c \notin raced' => Agrees(c)'
  BY <1>0 DEF TypeOK, Fits, HandlersFit, RequestsFit, DemuxersFit, Agrees, ReadersFit,
     PublisherFits, HookFits, ListFits, Reads, Publishes, IsAlive, PausePlay, MayHandle,
     OnUnread, IsRTSP, clients, path
<1>6. /\ raced \subseteq raced' /\ (crashed' => raced' # {})
      /\ kind' = kind /\ version' = version
  BY <1>0 DEF Inv, Agrees, ReadersFit, PublisherFits, HookFits, ListFits, Reads,
     Publishes, IsAlive, PausePlay, MayHandle, OnUnread, IsRTSP, clients, path
<1> QED
  BY <1>1, <1>2, <1>3, <1>4, <1>5, <1>6 DEF Inv, Keeps, clients, path, PausePlay

\* onPause of a publisher.
LEMMA PauseRecordKeeps ==
    ASSUME Inv, NEW c \in Clients, PauseRecord(c), ~crashed
    PROVE  Keeps(c)
<1>0. TypeOK /\ state \in [Clients -> States] /\ kind \in [Clients -> {"rtsp", "mpegts", "rtmp"}]
      /\ Fits(c) /\ (c \notin raced => Agrees(c)) /\ version \in 0..MaxVersion /\ MaxVersion \in Nat
  BY ServersAssumption DEF Inv
<1>a. Leave(c, FALSE, TRUE, {})
  BY <1>0 DEF TypeOK, PauseRecord
<1>b. Left(c, FALSE, TRUE, {})
  BY <1>0, <1>a, LeaveLeft DEF TypeOK
<1>1. state' \in [Clients -> States]
  BY <1>0 DEF TypeOK, States, PauseRecord, MayHandle, Left, IsRTSP, clients, path
<1>2. TypeOK'
  BY <1>0, <1>b DEF TypeOK, Fits, HandlersFit, RequestsFit, DemuxersFit, PauseRecord,
     MayHandle, Left, IsRTSP, clients, path
<1>3. \A d \in Clients \ {c} : Untouched(d)
  BY <1>0, <1>b, ServersAssumption DEF TypeOK, Untouched, PauseRecord, MayHandle, Left,
     IsRTSP, clients, path
<1>4. Fits(c)'
  BY <1>0 DEF TypeOK, Fits, HandlersFit, RequestsFit, DemuxersFit, PauseRecord, MayHandle,
     Left, IsRTSP, clients, path
<1>5. c \notin raced' => Agrees(c)'
  BY <1>0, <1>b DEF TypeOK, Fits, HandlersFit, RequestsFit, DemuxersFit, Agrees,
     ReadersFit, PublisherFits, HookFits, ListFits, Reads, Publishes, IsAlive,
     PauseRecord, MayHandle, Left, IsRTSP, clients, path
<1>6. /\ raced \subseteq raced' /\ (crashed' => raced' # {})
      /\ kind' = kind /\ version' = version
  BY <1>0 DEF Inv, Agrees, ReadersFit, PublisherFits, HookFits, ListFits, Reads,
     Publishes, IsAlive, PauseRecord, MayHandle, Left, IsRTSP, clients, path
<1> QED
  BY <1>1, <1>2, <1>3, <1>4, <1>5, <1>6 DEF Inv, Keeps, clients, path, PauseRecord

\* A connection asks the path.
LEMMA AskKeeps == ASSUME Inv, NEW c \in Clients, Ask(c), ~crashed PROVE Keeps(c)
<1>0. TypeOK /\ state \in [Clients -> States] /\ kind \in [Clients -> {"rtsp", "mpegts", "rtmp"}]
      /\ Fits(c) /\ (c \notin raced => Agrees(c)) /\ version \in 0..MaxVersion /\ MaxVersion \in Nat
  BY ServersAssumption DEF Inv
<1>1. state' \in [Clients -> States]
  BY <1>0 DEF TypeOK, States, Ask, IsRTSP, clients, path
<1>2. TypeOK'
  BY <1>0 DEF TypeOK, Fits, HandlersFit, RequestsFit, DemuxersFit, Ask, IsRTSP, clients,
     path
<1>3. \A d \in Clients \ {c} : Untouched(d)
  BY <1>0, ServersAssumption DEF TypeOK, Untouched, Ask, IsRTSP, clients, path
<1>4. Fits(c)'
  BY <1>0 DEF TypeOK, Fits, HandlersFit, RequestsFit, DemuxersFit, Ask, IsRTSP, clients,
     path
<1>5. c \notin raced' => Agrees(c)'
  BY <1>0 DEF TypeOK, Fits, HandlersFit, RequestsFit, DemuxersFit, Agrees, ReadersFit,
     PublisherFits, HookFits, ListFits, Reads, Publishes, IsAlive, Ask, IsRTSP, clients,
     path
<1>6. /\ raced \subseteq raced' /\ (crashed' => raced' # {})
      /\ kind' = kind /\ version' = version
  BY <1>0 DEF Inv, Agrees, ReadersFit, PublisherFits, HookFits, ListFits, Reads,
     Publishes, IsAlive, Ask, IsRTSP, clients, path
<1> QED
  BY <1>1, <1>2, <1>3, <1>4, <1>5, <1>6 DEF Inv, Keeps, clients, path, Ask

\* OnSessionClose.
LEMMA SessionCloseKeeps ==
    ASSUME Inv, NEW c \in Clients, SessionClose(c), ~crashed
    PROVE  Keeps(c)
<1>0. TypeOK /\ state \in [Clients -> States] /\ kind \in [Clients -> {"rtsp", "mpegts", "rtmp"}]
      /\ Fits(c) /\ (c \notin raced => Agrees(c)) /\ version \in 0..MaxVersion /\ MaxVersion \in Nat
  BY ServersAssumption DEF Inv
<1>a. listed[c] => Leave(c, state[c] \in {"prePlay", "play"}, state[c] = "record" /\ hasPath[c], {})
  BY <1>0 DEF TypeOK, SessionClose, onClose
<1>p. PICK r \in BOOLEAN, q \in BOOLEAN :
        (r <=> state[c] \in {"prePlay", "play"}) /\ (q <=> state[c] = "record" /\ hasPath[c])
  <2>1. \E r \in BOOLEAN : r <=> state[c] \in {"prePlay", "play"}
    OBVIOUS
  <2>2. \E q \in BOOLEAN : q <=> state[c] = "record" /\ hasPath[c]
    OBVIOUS
  <2> QED
    BY <2>1, <2>2
<1>q. listed[c] => Leave(c, r, q, {})
  BY <1>a, <1>p
<1>r. listed[c] => Left(c, r, q, {})
  BY <1>0, <1>q, LeaveLeft DEF TypeOK
<1>b. listed[c] => Left(c, state[c] \in {"prePlay", "play"}, state[c] = "record" /\ hasPath[c], {})
  BY <1>p, <1>r
<1>1. state' \in [Clients -> States]
  BY <1>0 DEF TypeOK, States, SessionClose, onClose, OnUnread, NoHook, Left, IsRTSP,
     clients, path
<1>2. TypeOK'
  <2>1. CASE listed[c]
    <3>1. onClose(c, {}) /\ Left(c, state[c] \in {"prePlay", "play"}, state[c] = "record" /\ hasPath[c], {})
      BY <1>b, <2>1 DEF SessionClose
    <3>2. /\ hook' \in [Clients -> {"none", "running", "closed"}] /\ crashed' \in BOOLEAN
          /\ pipe' \in [Clients -> {"none", "open", "closed"}] /\ hasPath' \in [Clients -> BOOLEAN]
      BY <1>0, <3>1 DEF TypeOK, onClose, OnUnread, NoHook
    <3>3. /\ ending' \in [Clients -> BOOLEAN] /\ readers' \subseteq Clients
          /\ publisher' \in Clients \cup {None}
      BY <1>0, <3>1 DEF TypeOK, Left
    <3> QED
      BY <1>0, <3>2, <3>3 DEF TypeOK, SessionClose, IsRTSP
  <2>2. CASE ~listed[c]
    BY <1>0, <2>2 DEF TypeOK, SessionClose, NoHook, IsRTSP
  <2> QED
    BY <2>1, <2>2
<1>3. \A d \in Clients \ {c} : Untouched(d)
  BY <1>0, <1>b, ServersAssumption DEF TypeOK, Untouched, SessionClose, onClose, OnUnread,
     NoHook, Left, IsRTSP, clients, path
<1>4. Fits(c)'
  BY <1>0 DEF TypeOK, Fits, HandlersFit, RequestsFit, DemuxersFit, SessionClose, onClose,
     OnUnread, NoHook, Left, IsRTSP, clients, path
<1>5. c \notin raced' => Agrees(c)'
  BY <1>0, <1>b DEF TypeOK, Fits, HandlersFit, RequestsFit, DemuxersFit, Agrees,
     ReadersFit, PublisherFits, HookFits, ListFits, Reads, Publishes, IsAlive,
     SessionClose, onClose, OnUnread, NoHook, Left, IsRTSP, clients, path
<1>6. /\ raced \subseteq raced' /\ (crashed' => raced' # {})
      /\ kind' = kind /\ version' = version
  BY <1>0 DEF Inv, Agrees, ReadersFit, PublisherFits, HookFits, ListFits, Reads,
     Publishes, IsAlive, SessionClose, onClose, OnUnread, NoHook, Left, IsRTSP, clients,
     path
<1> QED
  BY <1>1, <1>2, <1>3, <1>4, <1>5, <1>6 DEF Inv, Keeps, clients, path, SessionClose, NoHook

\* The deferred calls of a connection.
LEMMA ReturnKeeps == ASSUME Inv, NEW c \in Clients, Return(c), ~crashed PROVE Keeps(c)
<1>0. TypeOK /\ state \in [Clients -> States] /\ kind \in [Clients -> {"rtsp", "mpegts", "rtmp"}]
      /\ Fits(c) /\ (c \notin raced => Agrees(c)) /\ version \in 0..MaxVersion /\ MaxVersion \in Nat
  BY ServersAssumption DEF Inv
<1>a. Leave(c, state[c] = "read", state[c] = "publish", {c})
  BY <1>0 DEF TypeOK, Return
<1>b. Left(c, state[c] = "read", state[c] = "publish", {c})
  BY <1>0, <1>a, LeaveLeft DEF TypeOK
<1>1. state' \in [Clients -> States]
  BY <1>0 DEF TypeOK, States, Return, OnUnread, NoHook, Left, IsRTSP, clients, path
<1>2. TypeOK'
  BY <1>0, <1>b DEF TypeOK, Fits, HandlersFit, RequestsFit, DemuxersFit, Return, OnUnread,
     NoHook, Left, IsRTSP, clients, path
<1>3. \A d \in Clients \ {c} : Untouched(d)
  BY <1>0, <1>b, ServersAssumption DEF TypeOK, Untouched, Return, OnUnread, NoHook, Left,
     IsRTSP, clients, path
<1>4. Fits(c)'
  BY <1>0 DEF TypeOK, Fits, HandlersFit, RequestsFit, DemuxersFit, Return, OnUnread,
     NoHook, Left, IsRTSP, clients, path
<1>5. c \notin raced' => Agrees(c)'
  BY <1>0, <1>b DEF TypeOK, Fits, HandlersFit, RequestsFit, DemuxersFit, Agrees,
     ReadersFit, PublisherFits, HookFits, ListFits, Reads, Publishes, IsAlive, Return,
     OnUnread, NoHook, Left, IsRTSP, clients, path
<1>6. /\ raced \subseteq raced' /\ (crashed' => raced' # {})
      /\ kind' = kind /\ version' = version
  BY <1>0 DEF Inv, Agrees, ReadersFit, PublisherFits, HookFits, ListFits, Reads,
     Publishes, IsAlive, Return, OnUnread, NoHook, Left, IsRTSP, clients, path
<1> QED
  BY <1>1, <1>2, <1>3, <1>4, <1>5, <1>6 DEF Inv, Keeps, clients, path, Return, NoHook

\* APISessionsKick.
LEMMA KickSessionKeeps ==
    ASSUME Inv, NEW c \in Clients, KickSession(c), ~crashed
    PROVE  Keeps(c)
<1>0. TypeOK /\ state \in [Clients -> States] /\ kind \in [Clients -> {"rtsp", "mpegts", "rtmp"}]
      /\ Fits(c) /\ (c \notin raced => Agrees(c)) /\ version \in 0..MaxVersion /\ MaxVersion \in Nat
  BY ServersAssumption DEF Inv
<1>a. Leave(c, state[c] \in {"prePlay", "play"}, state[c] = "record" /\ hasPath[c], {c})
  BY <1>0 DEF TypeOK, KickSession, onClose
<1>p. PICK r \in BOOLEAN, q \in BOOLEAN :
        (r <=> state[c] \in {"prePlay", "play"}) /\ (q <=> state[c] = "record" /\ hasPath[c])
  <2>1. \E r \in BOOLEAN : r <=> state[c] \in {"prePlay", "play"}
    OBVIOUS
  <2>2. \E q \in BOOLEAN : q <=> state[c] = "record" /\ hasPath[c]
    OBVIOUS
  <2> QED
    BY <2>1, <2>2
<1>q. Leave(c, r, q, {c})
  BY <1>a, <1>p
<1>r. Left(c, r, q, {c})
  BY <1>0, <1>q, LeaveLeft DEF TypeOK
<1>b. Left(c, state[c] \in {"prePlay", "play"}, state[c] = "record" /\ hasPath[c], {c})
  BY <1>p, <1>r
<1>1. state' \in [Clients -> States]
  BY <1>0 DEF TypeOK, States, KickSession, onClose, OnUnread, NoHook, Left, IsRTSP,
     clients, path
<1>2. TypeOK'
  BY <1>0, <1>b DEF TypeOK, Fits, HandlersFit, RequestsFit, DemuxersFit, KickSession,
     onClose, OnUnread, NoHook, Left, IsRTSP, clients, path
<1>3. \A d \in Clients \ {c} : Untouched(d)
  BY <1>0, <1>b, ServersAssumption DEF TypeOK, Untouched, KickSession, onClose, OnUnread,
     NoHook, Left, IsRTSP, clients, path
<1>4. Fits(c)'
  BY <1>0 DEF TypeOK, Fits, HandlersFit, RequestsFit, DemuxersFit, KickSession, onClose,
     OnUnread, NoHook, Left, IsRTSP, clients, path
<1>5. c \notin raced' => Agrees(c)'
  BY <1>0, <1>b DEF TypeOK, Fits, HandlersFit, RequestsFit, DemuxersFit, Agrees,
     ReadersFit, PublisherFits, HookFits, ListFits, Reads, Publishes, IsAlive,
     KickSession, onClose, OnUnread, NoHook, Left, IsRTSP, clients, path
<1>6. /\ raced \subseteq raced' /\ (crashed' => raced' # {})
      /\ kind' = kind /\ version' = version
  BY <1>0 DEF Inv, Agrees, ReadersFit, PublisherFits, HookFits, ListFits, Reads,
     Publishes, IsAlive, KickSession, onClose, OnUnread, NoHook, Left, IsRTSP, clients,
     path
<1> QED
  BY <1>1, <1>2, <1>3, <1>4, <1>5, <1>6 DEF Inv, Keeps, clients, path, KickSession, NoHook

\* APIConnsKick.
LEMMA KickConnKeeps == ASSUME Inv, NEW c \in Clients, KickConn(c), ~crashed PROVE Keeps(c)
<1>0. TypeOK /\ state \in [Clients -> States] /\ kind \in [Clients -> {"rtsp", "mpegts", "rtmp"}]
      /\ Fits(c) /\ (c \notin raced => Agrees(c)) /\ version \in 0..MaxVersion /\ MaxVersion \in Nat
  BY ServersAssumption DEF Inv
<1>1. state' \in [Clients -> States]
  BY <1>0 DEF TypeOK, States, KickConn, IsRTSP, clients, path
<1>2. TypeOK'
  BY <1>0 DEF TypeOK, Fits, HandlersFit, RequestsFit, DemuxersFit, KickConn, IsRTSP,
     clients, path
<1>3. \A d \in Clients \ {c} : Untouched(d)
  BY <1>0, ServersAssumption DEF TypeOK, Untouched, KickConn, IsRTSP, clients, path
<1>4. Fits(c)'
  BY <1>0 DEF TypeOK, Fits, HandlersFit, RequestsFit, DemuxersFit, KickConn, IsRTSP,
     clients, path
<1>5. c \notin raced' => Agrees(c)'
  BY <1>0 DEF TypeOK, Fits, HandlersFit, RequestsFit, DemuxersFit, Agrees, ReadersFit,
     PublisherFits, HookFits, ListFits, Reads, Publishes, IsAlive, KickConn, IsRTSP,
     clients, path
<1>6. /\ raced \subseteq raced' /\ (crashed' => raced' # {})
      /\ kind' = kind /\ version' = version
  BY <1>0 DEF Inv, Agrees, ReadersFit, PublisherFits, HookFits, ListFits, Reads,
     Publishes, IsAlive, KickConn, IsRTSP, clients, path
<1> QED
  BY <1>1, <1>2, <1>3, <1>4, <1>5, <1>6 DEF Inv, Keeps, clients, path, KickConn

(***************************************************************************)
(* The steps of the path and of the servers leave every client untouched.  *)
(***************************************************************************)
LEMMA UntouchedInv ==
    ASSUME Inv, TypeOK', state' \in [Clients -> States], kind' \in Kinds,
           version' \in 0..MaxVersion, \A d \in Clients : Untouched(d),
           raced' = raced, crashed' = crashed
    PROVE  Inv'
BY UntouchedFits DEF Inv

\* PathEnds, ConfChanges, Stop and Stopped.
LEMMA OthersInv ==
    ASSUME Inv, PathEnds \/ ConfChanges \/ \E s \in {"rtsp", "rtmp"} : Stop(s) \/ Stopped(s)
    PROVE  Inv'
<1>0. /\ TypeOK /\ state \in [Clients -> States] /\ kind \in Kinds /\ version \in 0..MaxVersion
      /\ MaxVersion \in Nat
  BY ServersAssumption DEF Inv
<1>1. CASE PathEnds
  <2>1. readers' = {} /\ publisher' = None
    BY <1>0, <1>1 DEF PathEnds, Dismiss, TypeOK
  <2>2. ending' = [d \in Clients |-> ending[d] \/ d \in readers \cup ({publisher} \ {None})]
    BY <1>1 DEF PathEnds, Dismiss
  <2>3. /\ UNCHANGED <<kind, state, handler, request, hasPath, pipe, checked, listed, hook,
                       version, server, raced, crashed>>
    BY <1>1 DEF PathEnds
  <2>4. TypeOK'
    BY <1>0, <2>1, <2>2, <2>3 DEF TypeOK, IsRTSP
  <2>5. \A d \in Clients : Untouched(d)
    BY <1>0, <2>1, <2>2, <2>3, ServersAssumption DEF TypeOK, Untouched
  <2> QED
    BY <1>0, <2>3, <2>4, <2>5, UntouchedInv
<1>2. CASE ConfChanges
  <2>1. TypeOK' /\ version' \in 0..MaxVersion
    BY <1>0, <1>2 DEF ConfChanges, TypeOK, clients, IsRTSP
  <2>2. \A d \in Clients : Untouched(d)
    BY <1>2 DEF ConfChanges, Untouched, clients
  <2> QED
    BY <1>0, <1>2, <2>1, <2>2, UntouchedInv DEF ConfChanges, clients
<1>3. ASSUME NEW s \in {"rtsp", "rtmp"}, Stop(s) PROVE Inv'
  <2>1. TypeOK'
    BY <1>0, <1>3 DEF Stop, TypeOK, path, IsRTSP
  <2>2. \A d \in Clients : Untouched(d)
    BY <1>0, <1>3 DEF Stop, Untouched, path
  <2> QED
    BY <1>0, <1>3, <2>1, <2>2, UntouchedInv DEF Stop, path
<1>4. ASSUME NEW s \in {"rtsp", "rtmp"}, Stopped(s) PROVE Inv'
  <2>1. TypeOK'
    BY <1>0, <1>4 DEF Stopped, TypeOK, path, clients, IsRTSP
  <2>2. \A d \in Clients : Untouched(d)
    BY <1>4 DEF Stopped, Untouched, path, clients
  <2> QED
    BY <1>0, <1>4, <2>1, <2>2, UntouchedInv DEF Stopped, path, clients
<1> QED
  BY <1>1, <1>2, <1>3, <1>4

\* Each step keeps the invariant.
LEMMA StepInv == Inv /\ [Next]_vars => Inv'
<1> SUFFICES ASSUME Inv, [Next]_vars PROVE Inv'
  OBVIOUS
<1>1. CASE UNCHANGED vars
  <2>1. TypeOK'
    BY <1>1 DEF Inv, TypeOK, vars, clients, path, IsRTSP
  <2>2. \A d \in Clients : Untouched(d)
    BY <1>1 DEF Untouched, vars, clients, path
  <2> QED
    BY <1>1, <2>1, <2>2, UntouchedInv DEF Inv, vars, clients, path
<1>2. ASSUME NEW c \in Clients, ~crashed, Goes(c) PROVE Inv'
  BY <1>2, KeepsInv, AnswerReadKeeps, AnswerPublishKeeps, HandlerEndsKeeps,
     DemuxerEndsKeeps,
     StartReadingKeeps, StartPublishingKeeps, CloseConnKeeps DEF Goes
<1>3. ASSUME NEW c \in Clients, ~crashed, Asked(c) PROVE Inv'
  <2>1. \/ Open(c) \/ Announce(c) \/ Setup(c) \/ Play(c) \/ Record(c)
        \/ PausePlay(c) \/ PauseRecord(c) \/ Ask(c)
        \/ SessionClose(c) \/ Return(c) \/ KickSession(c) \/ KickConn(c)
    BY <1>3 DEF Asked
  <2>2. Keeps(c)
    BY <1>3, <2>1, OpenKeeps, AnnounceKeeps, SetupKeeps, PlayKeeps, RecordKeeps,
       PausePlayKeeps,
       PauseRecordKeeps, AskKeeps, SessionCloseKeeps, ReturnKeeps, KickSessionKeeps, KickConnKeeps
  <2> QED
    BY <2>2, KeepsInv
<1> QED
  BY <1>1, <1>2, <1>3, OthersInv DEF Next

\* The invariant holds at every moment.
LEMMA InvCorrect == Spec => []Inv
<1> QED
  BY InitInv, StepInv, PTL DEF Spec

-----------------------------------------------------------------------------
\* Every variable of the servers and of the path they see keeps its type: a
\* session is only in states of gortsplib, a connection of the RTMP server in
\* those of conn.run, whatever order handlers, answers, kicks and closes come in.
THEOREM ServersTypeCorrect == Spec => []TypeOK
<1>1. Inv => TypeOK
  BY DEF Inv
<1> QED
  BY <1>1, InvCorrect, PTL

\* The servers and the path hold of each client what it is, and nothing of one
\* that is over: neither reader nor publisher, not listed, its command closed
\* once (session.onClose, conn.run, hooks.OnRead). The exception is a session
\* that the API kicks while a handler of it runs.
THEOREM ServersCorrect == Spec => []ClientsAgree
<1> QED
  BY InvImplies, InvCorrect, PTL
=============================================================================
