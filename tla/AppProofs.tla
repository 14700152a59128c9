----------------------------- MODULE AppProofs -----------------------------
(* What holds of the outputs, the previews, the viewers and the recordings *)
(* for any streams, queries, viewers and bounds, of the tally that the     *)
(* application sends to the phones, and of the media core that it runs:    *)
(* its components and their reloads, for any changes of the configuration. *)
EXTENDS App, Tally, Core, TLAPS

-----------------------------------------------------------------------------
(* Outputs.                                                                *)

OutputValue == OutputType \cup {NoOutput, Stopped}

\* what a pipeline can be in
Pipeline == {"sleeping", "playing", "ended"}

LEMMA OutputFacts ==
  /\ NoOutput.pipeline = "none" /\ Stopped.pipeline = "stopped"
  /\ NoOutput # Stopped
  /\ \A x \in OutputType : x.pipeline \in Pipeline /\ x.stream \in Names
  /\ \A x \in OutputType : x # Stopped /\ x # NoOutput
  /\ \A x \in OutputValue : x.pipeline \in Pipeline => x \in OutputType
<1>1. NoOutput.pipeline = "none" /\ Stopped.pipeline = "stopped"
  BY DEF NoOutput, Stopped
<1>2. NoOutput # Stopped
  BY <1>1
<1>3. \A x \in OutputType : x.pipeline \in Pipeline /\ x.stream \in Names
  BY DEF OutputType, Pipeline
<1>4. \A x \in OutputType : x # Stopped /\ x # NoOutput
  BY <1>1, <1>3 DEF Pipeline
<1>5. \A x \in OutputValue : x.pipeline \in Pipeline => x \in OutputType
  BY <1>1 DEF OutputValue, Pipeline
<1> QED
  BY <1>1, <1>2, <1>3, <1>4, <1>5

(* What PipelineStarts and Unpublish make of an output. *)
LEMMA PipelineChanges ==
  ASSUME NEW x \in OutputType, NEW p \in Pipeline
  PROVE  [x EXCEPT !.pipeline = p] \in OutputType
BY DEF OutputType, Pipeline

LEMMA OutputMade ==
  ASSUME NEW n \in Names, NEW ok \in BOOLEAN
  PROVE  [stream |-> n, pipeline |-> IF ok THEN "sleeping" ELSE "ended"]
           \in OutputType
BY DEF OutputType

(* An output that is made is one that nothing refers to. *)
LEMMA FreshOutput ==
  ASSUME TypeOK, Outputs # Referred \ {0}
  PROVE  Unused \in Outputs \ Referred
<1>1. Referred \subseteq Ref
  <2>1. /\ activeNDI \in [Names -> Ref] /\ broadcasters \in [Shorts -> Ref]
        /\ watches \in [Viewers -> Ref]
    BY DEF TypeOK
  <2>2. /\ Range(activeNDI) \subseteq Ref /\ Range(broadcasters) \subseteq Ref
        /\ Range(watches) \subseteq Ref
    BY <2>1 DEF Range
  <2> QED
    BY <2>2 DEF Referred
<1>2. 0 \notin Outputs
  BY AppAssumption DEF Outputs
<1>3. ASSUME Outputs \subseteq Referred PROVE Outputs = Referred \ {0}
  BY <1>1, <1>2, <1>3 DEF Ref
<1>4. \E b \in Outputs : b \notin Referred
  BY <1>3
<1> QED
  BY <1>4 DEF Unused

-----------------------------------------------------------------------------
(* Types.                                                                  *)

QueryTypes ==
  /\ query \in [Queries -> {"asking", "listing", "cleaning"}]
  /\ currentStreams \in [Queries -> SUBSET Names]
  /\ todo \in [Queries -> SUBSET Names]

OutputTypes ==
  /\ output \in [Outputs -> OutputValue]
  /\ activeNDI \in [Names -> Ref] /\ broadcasters \in [Shorts -> Ref]

ViewerTypes ==
  /\ viewer \in [Viewers -> {"away", "found", "watching", "leaving"}]
  /\ watches \in [Viewers -> Ref]
  /\ \A v \in Viewers : viewer[v] # "away" => watches[v] # 0
  /\ clients \subseteq Viewers /\ open \subseteq Viewers /\ frame \subseteq Viewers

DvrTypes ==
  /\ processes \in [Recorded -> Processes \cup {0}]
  /\ ffmpeg \in [Processes -> {"off", "running", "exited", "interrupted"}]

LEMMA TypesAreParts ==
  TypeOK <=> /\ shortOf \in ShortOfs /\ ndiIsInit \in BOOLEAN /\ ready \subseteq Names
             /\ QueryTypes /\ OutputTypes /\ ViewerTypes /\ DvrTypes
BY DEF TypeOK, QueryTypes, OutputTypes, ViewerTypes, DvrTypes, OutputValue

LEMMA AppTypeInit == Init => TypeOK
<1> SUFFICES ASSUME Init PROVE TypeOK
  OBVIOUS
<1>1. shortOf \in ShortOfs /\ ndiIsInit \in BOOLEAN /\ ready \subseteq Names
  BY DEF Init
<1>2. QueryTypes
  BY DEF Init, QueryTypes
<1>3. OutputTypes
  BY DEF Init, OutputTypes, OutputValue, Ref
<1>4. ViewerTypes
  BY DEF Init, ViewerTypes, Ref
<1>5. DvrTypes
  BY DEF Init, DvrTypes
<1> QED
  BY <1>1, <1>2, <1>3, <1>4, <1>5, TypesAreParts

LEMMA QueryTypesRest ==
  ASSUME QueryTypes, UNCHANGED queryVars PROVE QueryTypes'
BY DEF QueryTypes, queryVars

LEMMA OutputTypesRest ==
  ASSUME OutputTypes, UNCHANGED outputVars PROVE OutputTypes'
BY DEF OutputTypes, outputVars

LEMMA ViewerTypesRest ==
  ASSUME ViewerTypes, UNCHANGED viewerVars PROVE ViewerTypes'
BY DEF ViewerTypes, viewerVars

LEMMA DvrTypesRest ==
  ASSUME DvrTypes, UNCHANGED dvrVars PROVE DvrTypes'
BY DEF DvrTypes, dvrVars

(* The parts that each step changes, and the others. *)
AllTypes ==
  /\ shortOf \in ShortOfs /\ ndiIsInit \in BOOLEAN /\ ready \subseteq Names
  /\ QueryTypes /\ OutputTypes /\ ViewerTypes /\ DvrTypes

LEMMA ServerStepType ==
  ASSUME AllTypes, NEW n \in Names, Publish(n) \/ Unpublish(n) PROVE AllTypes'
<1> USE DEF AllTypes
<1>1. CASE Publish(n)
  BY <1>1, QueryTypesRest, OutputTypesRest, ViewerTypesRest, DvrTypesRest
     DEF Publish
<1>2. CASE Unpublish(n)
  <2>1. UNCHANGED <<shortOf, ndiIsInit, activeNDI, broadcasters, queryVars, viewerVars,
                    dvrVars>>
        /\ ready' \subseteq Names
    BY <1>2 DEF Unpublish
  <2>2. output' = [b \in Outputs |->
          IF output[b].pipeline = "playing" /\ output[b].stream = n
          THEN [output[b] EXCEPT !.pipeline = "ended"] ELSE output[b]]
    BY <1>2 DEF Unpublish
  <2>3. ASSUME NEW b \in Outputs PROVE output'[b] \in OutputValue
    <3>1. output[b] \in OutputValue
      BY DEF OutputTypes
    <3>2. CASE output[b].pipeline = "playing" /\ output[b].stream = n
      <4>1. output[b] \in OutputType
        BY <3>1, <3>2, OutputFacts DEF Pipeline
      <4>2. [output[b] EXCEPT !.pipeline = "ended"] \in OutputType
        BY <4>1, PipelineChanges DEF Pipeline
      <4> QED
        BY <2>2, <3>2, <4>2 DEF OutputValue
    <3>3. CASE ~(output[b].pipeline = "playing" /\ output[b].stream = n)
      BY <2>2, <3>1, <3>3
    <3> QED
      BY <3>2, <3>3
  <2>4. output' \in [Outputs -> OutputValue]
    BY <2>2, <2>3
  <2>5. OutputTypes'
    BY <2>1, <2>4 DEF OutputTypes
  <2> QED
    BY <2>1, <2>5, QueryTypesRest, ViewerTypesRest, DvrTypesRest
<1> QED
  BY <1>1, <1>2

LEMMA HearsType ==
  ASSUME AllTypes, NEW q \in Queries, NEW streams \in SUBSET Names,
         Hears(q, streams)
  PROVE  AllTypes'
<1>1. QueryTypes'
  BY DEF Hears, AllTypes, QueryTypes
<1> QED
  BY <1>1, OutputTypesRest, ViewerTypesRest, DvrTypesRest DEF Hears, AllTypes

LEMMA GoesType ==
  ASSUME QueryTypes, NEW q \in Queries, NEW n \in Names, Goes(q, n),
         currentStreams' = currentStreams
  PROVE  QueryTypes'
BY DEF Goes, QueryTypes

LEMMA MakeOutputType ==
  ASSUME AllTypes, NEW q \in Queries, NEW n \in Names, NEW b \in Outputs,
         NEW ok \in BOOLEAN, MakeOutput(q, n, b, ok)
  PROVE  AllTypes'
<1> USE DEF AllTypes
<1>1. UNCHANGED <<shortOf, ndiIsInit, ready, currentStreams, viewerVars, dvrVars>>
  BY DEF MakeOutput
<1>2. QueryTypes'
  BY <1>1, GoesType DEF MakeOutput
<1>3. broadcasters' \in [Shorts -> Ref] /\ activeNDI' \in [Names -> Ref]
  <2>1. b \in Ref
    BY DEF Ref
  <2> QED
    BY <2>1 DEF MakeOutput, OutputTypes
<1>4. output' = [b1 \in Outputs |->
        CASE b1 = b -> [stream |-> n,
                        pipeline |-> IF ok THEN "sleeping" ELSE "ended"]
          [] b1 \in Referred' \ {b} -> output[b1]
          [] OTHER -> NoOutput]
  BY DEF MakeOutput
<1>5. output' \in [Outputs -> OutputValue]
  <2>1. \A b1 \in Outputs : output[b1] \in OutputValue
    BY DEF OutputTypes
  <2>2. [stream |-> n, pipeline |-> IF ok THEN "sleeping" ELSE "ended"]
          \in OutputValue
    BY OutputMade DEF OutputValue
  <2>3. NoOutput \in OutputValue
    BY DEF OutputValue
  <2> DEFINE made == [stream |-> n,
                      pipeline |-> IF ok THEN "sleeping" ELSE "ended"]
  <2> HIDE DEF made
  <2>4. output' = [b1 \in Outputs |->
          CASE b1 = b -> made
            [] b1 \in Referred' \ {b} -> output[b1]
            [] OTHER -> NoOutput]
    BY <1>4 DEF made
  <2>5. made \in OutputValue
    BY <2>2 DEF made
  <2> QED
    BY <2>1, <2>3, <2>4, <2>5
<1>6. OutputTypes'
  BY <1>3, <1>5 DEF OutputTypes
<1> QED
  BY <1>1, <1>2, <1>6, ViewerTypesRest, DvrTypesRest

LEMMA CleanupType ==
  ASSUME AllTypes, NEW q \in Queries, Cleanup(q) PROVE AllTypes'
<1> USE DEF AllTypes
<1> DEFINE gone  == {n \in Names : activeNDI[n] # 0 /\ n \notin currentStreams[q]}
           ended == {shortOf[n] : n \in gone}
<1>1. /\ query' = [query EXCEPT ![q] = "asking"]
      /\ currentStreams' = [currentStreams EXCEPT ![q] = {}]
      /\ activeNDI' = [n \in Names |-> IF n \in gone THEN 0 ELSE activeNDI[n]]
      /\ broadcasters' = [s \in Shorts |-> IF s \in ended THEN 0
                                           ELSE broadcasters[s]]
      /\ UNCHANGED <<shortOf, ndiIsInit, ready, todo, viewerVars, dvrVars>>
  BY DEF Cleanup
<1>2. output' = [b \in Outputs |->
        CASE b \notin Referred' -> NoOutput
          [] \E s \in ended : b = broadcasters[s] -> Stopped
          [] OTHER -> output[b]]
  BY DEF Cleanup
<1> HIDE DEF gone, ended
<1>3. QueryTypes'
  BY <1>1 DEF QueryTypes
<1>4. broadcasters' \in [Shorts -> Ref] /\ activeNDI' \in [Names -> Ref]
  BY <1>1 DEF OutputTypes, Ref
<1>5. output' \in [Outputs -> OutputValue]
  BY <1>2 DEF OutputTypes, OutputValue
<1>6. OutputTypes'
  BY <1>4, <1>5 DEF OutputTypes
<1> QED
  BY <1>1, <1>3, <1>6, ViewerTypesRest, DvrTypesRest

LEMMA QueryStepType ==
  ASSUME TypeOK, AllTypes, NEW q \in Queries, QueryStep(q) PROVE AllTypes'
<1>1. CASE Answered(q) \/ QueryFails(q)
  BY <1>1, HearsType DEF Answered, QueryFails, AllTypes
<1>2. ASSUME NEW n \in Names, Known(q, n) PROVE AllTypes'
  <2>1. QueryTypes'
    BY <1>2, GoesType DEF Known, AllTypes
  <2> QED
    BY <1>2, <2>1, OutputTypesRest, ViewerTypesRest, DvrTypesRest
       DEF Known, AllTypes
<1>3. ASSUME NEW n \in Names, NEW ok \in BOOLEAN, Outputs # Referred \ {0},
             MakeOutput(q, n, Unused, ok)
      PROVE  AllTypes'
  BY <1>3, FreshOutput, MakeOutputType
<1>4. CASE Cleanup(q)
  BY <1>4, CleanupType
<1> QED
  BY <1>1, <1>2, <1>3, <1>4 DEF QueryStep, Lists

LEMMA OutputStepType ==
  ASSUME AllTypes, NEW b \in Outputs, OutputStep(b) PROVE AllTypes'
<1> USE DEF AllTypes
<1>1. CASE PushFrame(b)
  <2>1. ViewerTypes'
    BY <1>1 DEF PushFrame, ViewerTypes, ClientsOf
  <2> QED
    BY <1>1, <2>1, QueryTypesRest, OutputTypesRest, DvrTypesRest DEF PushFrame
<1>2. ASSUME NEW ok \in BOOLEAN, PipelineStarts(b, ok) PROVE AllTypes'
  <2>1. output[b] \in OutputType
    BY <1>2, OutputFacts DEF PipelineStarts, OutputTypes, Pipeline
  <2>2. [output[b] EXCEPT !.pipeline = IF ok THEN "playing" ELSE "ended"]
          \in OutputType
    BY <2>1, PipelineChanges DEF Pipeline
  <2>3. output' = [output EXCEPT ![b] =
          [output[b] EXCEPT !.pipeline = IF ok THEN "playing" ELSE "ended"]]
    BY <1>2 DEF PipelineStarts
  <2>4. output' \in [Outputs -> OutputValue]
    BY <2>2, <2>3 DEF OutputTypes, OutputValue
  <2>5. UNCHANGED <<shortOf, ndiIsInit, ready, activeNDI, broadcasters, queryVars,
                    viewerVars, dvrVars>>
    BY <1>2 DEF PipelineStarts
  <2>6. OutputTypes'
    BY <2>4, <2>5 DEF OutputTypes
  <2> QED
    BY <2>5, <2>6, QueryTypesRest, ViewerTypesRest, DvrTypesRest
<1> QED
  BY <1>1, <1>2 DEF OutputStep

LEMMA ViewerStepType ==
  ASSUME AllTypes, NEW v \in Viewers, ViewerStep(v) PROVE AllTypes'
<1> USE DEF AllTypes
<1>1. CASE Subscribe(v) \/ TakeFrame(v) \/ Unsubscribe(v)
  <2>1. ViewerTypes'
    BY <1>1 DEF Subscribe, TakeFrame, Unsubscribe, ViewerTypes
  <2> QED
    BY <1>1, <2>1, QueryTypesRest, OutputTypesRest, DvrTypesRest
       DEF Subscribe, TakeFrame, Unsubscribe
<1>2. CASE CloseChannel(v)
  <2>1. UNCHANGED <<shortOf, ndiIsInit, ready, activeNDI, broadcasters, queryVars, clients,
                    dvrVars>>
    BY <1>2 DEF CloseChannel
  <2>2. ViewerTypes'
    BY <1>2, <2>1 DEF CloseChannel, ViewerTypes, Ref
  <2>3. output' = [b \in Outputs |-> IF b \in Referred' THEN output[b]
                                     ELSE NoOutput]
    BY <1>2 DEF CloseChannel
  <2>4. output' \in [Outputs -> OutputValue]
    BY <2>3 DEF OutputTypes, OutputValue
  <2>5. OutputTypes'
    BY <2>1, <2>4 DEF OutputTypes
  <2> QED
    BY <2>1, <2>2, <2>5, QueryTypesRest, DvrTypesRest
<1>3. ASSUME NEW s \in Shorts, FindPreview(v, s) PROVE AllTypes'
  <2>1. broadcasters[s] \in Ref /\ broadcasters[s] # 0
    BY <1>3 DEF FindPreview, OutputTypes
  <2>2. ViewerTypes'
    BY <1>3, <2>1 DEF FindPreview, ViewerTypes
  <2> QED
    BY <1>3, <2>2, QueryTypesRest, OutputTypesRest, DvrTypesRest
       DEF FindPreview
<1> QED
  BY <1>1, <1>2, <1>3 DEF ViewerStep

LEMMA DvrStepType ==
  ASSUME AllTypes, DvrStep PROVE AllTypes'
<1> USE DEF AllTypes
<1>1. ASSUME UNCHANGED <<shortOf, ndiIsInit, ready, outputVars, queryVars, viewerVars>>,
             DvrTypes'
      PROVE  AllTypes'
  BY <1>1, QueryTypesRest, OutputTypesRest, ViewerTypesRest
<1>2. ASSUME NEW n \in Recorded, StopRecording(n) PROVE AllTypes'
  <2>1. processes[n] \in Processes
    BY <1>2 DEF StopRecording, DvrTypes
  <2>2. DvrTypes'
    BY <1>2, <2>1 DEF StopRecording, DvrTypes
  <2> QED
    BY <1>1, <1>2, <2>2 DEF StopRecording
<1>3. ASSUME NEW n \in Recorded, NEW p \in Processes, StartRecording(n, p)
      PROVE  AllTypes'
  <2>1. DvrTypes'
    BY <1>3 DEF StartRecording, DvrTypes
  <2> QED
    BY <1>1, <1>3, <2>1 DEF StartRecording
<1>4. ASSUME NEW p \in Processes, ProcessExits(p) PROVE AllTypes'
  <2>1. DvrTypes'
    BY <1>4 DEF ProcessExits, DvrTypes
  <2> QED
    BY <1>1, <1>4, <2>1 DEF ProcessExits
<1> QED
  BY <1>2, <1>3, <1>4 DEF DvrStep

LEMMA AppTypeStep == TypeOK /\ [Next]_vars => TypeOK'
<1>1. TypeOK <=> AllTypes
  BY TypesAreParts DEF AllTypes
<1>2. AllTypes' => TypeOK'
  BY DEF AllTypes, TypeOK, QueryTypes, OutputTypes, ViewerTypes, DvrTypes,
         OutputValue
<1> SUFFICES ASSUME TypeOK, AllTypes, [Next]_vars PROVE AllTypes'
  BY <1>1, <1>2
<1>3. CASE UNCHANGED vars
  BY <1>3, QueryTypesRest, OutputTypesRest, ViewerTypesRest, DvrTypesRest
     DEF vars, AllTypes
<1> QED
  BY <1>3, ServerStepType, QueryStepType, OutputStepType, ViewerStepType,
     DvrStepType DEF Next

(* Every variable keeps its type, for any streams, names, queries, viewers *)
(* and bounds; an output that is made is one that nothing refers to.       *)
THEOREM AppTypeCorrect == Spec => []TypeOK
BY AppTypeInit, AppTypeStep, PTL DEF Spec

-----------------------------------------------------------------------------
(* Previews.                                                               *)

(* Two names are previewed by two outputs: an output is made for one name, *)
(* and while a name has it, nothing else gets it.                          *)
PreviewsDiffer ==
  \A s, t \in Shorts :
    broadcasters[s] = broadcasters[t] /\ broadcasters[s] # 0 => s = t

(* PreviewsAgree, name by name. *)
HasPreview ==
  \A n \in Names :
    activeNDI[n] # 0 /\ (\A m \in Names : shortOf[m] = shortOf[n] => m = n)
      => broadcasters[shortOf[n]] = activeNDI[n]

NoneStopped ==
  \A s \in Shorts : broadcasters[s] # 0 => output[broadcasters[s]] # Stopped

LEMMA PreviewsByName ==
  OutputTypes => (PreviewsAgree <=> HasPreview /\ NoneStopped)
BY DEF OutputTypes, PreviewsAgree, HasPreview, NoneStopped, Range

(* While the maps and the names stay, it is enough that no output that     *)
(* previews a name is stopped.                                             *)
LEMMA PreviewsRest ==
  ASSUME HasPreview, PreviewsDiffer,
         UNCHANGED <<shortOf, ndiIsInit, activeNDI, broadcasters>>
  PROVE  HasPreview' /\ PreviewsDiffer'
BY DEF HasPreview, PreviewsDiffer

LEMMA NamesOf ==
  ASSUME TypeOK PROVE shortOf \in [Names -> Shorts]
BY AppAssumption DEF TypeOK

LEMMA MakeOutputPreviews ==
  ASSUME TypeOK, HasPreview, NoneStopped, PreviewsDiffer,
         NEW q \in Queries, NEW n \in Names, NEW b \in Outputs \ Referred,
         NEW ok \in BOOLEAN, MakeOutput(q, n, b, ok)
  PROVE  HasPreview' /\ NoneStopped' /\ PreviewsDiffer'
<1>0. /\ activeNDI \in [Names -> Ref] /\ broadcasters \in [Shorts -> Ref]
      /\ output \in [Outputs -> OutputValue]
      /\ shortOf \in [Names -> Shorts]
  BY NamesOf, TypesAreParts DEF OutputTypes
<1>1. /\ broadcasters' = [broadcasters EXCEPT ![shortOf[n]] = b]
      /\ activeNDI' = activeNDI \/ activeNDI' = [activeNDI EXCEPT ![n] = b]
      /\ activeNDI[n] = 0 /\ shortOf' = shortOf
  BY DEF MakeOutput, Goes
<1>2. \A s \in Shorts : broadcasters[s] # b
  BY <1>0 DEF Referred, Range
<1>3. PreviewsDiffer'
  BY <1>0, <1>1, <1>2 DEF PreviewsDiffer
<1>4. HasPreview'
  <2> SUFFICES ASSUME NEW m \in Names, activeNDI'[m] # 0,
                      \A k \in Names : shortOf[k] = shortOf[m] => k = m
               PROVE  broadcasters'[shortOf[m]] = activeNDI'[m]
    BY <1>1 DEF HasPreview
  <2>1. CASE m = n
    BY <1>0, <1>1, <2>1
  <2>2. CASE m # n
    <3>1. shortOf[m] # shortOf[n]
      BY <2>2
    <3>2. activeNDI'[m] = activeNDI[m]
      BY <1>0, <1>1, <2>2
    <3>3. broadcasters'[shortOf[m]] = broadcasters[shortOf[m]]
      BY <1>0, <1>1, <3>1
    <3> QED
      BY <3>2, <3>3 DEF HasPreview
  <2> QED
    BY <2>1, <2>2
<1>5. NoneStopped'
  <2> DEFINE made == [stream |-> n,
                      pipeline |-> IF ok THEN "sleeping" ELSE "ended"]
  <2>1. made \in OutputType
    BY OutputMade
  <2> HIDE DEF made
  <2>2. \A c \in Outputs : output'[c] = IF c = b THEN made
                                        ELSE IF c \in Referred' \ {b} THEN output[c]
                                        ELSE NoOutput
    BY DEF MakeOutput, made
  <2>3. made # Stopped /\ NoOutput # Stopped
    BY <2>1, OutputFacts
  <2> SUFFICES ASSUME NEW s \in Shorts, broadcasters'[s] # 0
               PROVE  output'[broadcasters'[s]] # Stopped
    BY DEF NoneStopped
  <2>4. CASE broadcasters'[s] = b
    BY <2>2, <2>3, <2>4
  <2>5. CASE broadcasters'[s] # b
    <3>1. broadcasters'[s] = broadcasters[s] /\ broadcasters[s] \in Outputs
      BY <1>0, <1>1, <2>5 DEF Ref
    <3>2. output[broadcasters[s]] # Stopped
      BY <3>1 DEF NoneStopped
    <3> QED
      BY <2>2, <2>3, <3>1, <3>2
  <2> QED
    BY <2>4, <2>5
<1> QED
  BY <1>3, <1>4, <1>5

(* The previews that are stopped are those that leave the map, and no      *)
(* other name has them.                                                    *)
LEMMA CleanupPreviews ==
  ASSUME TypeOK, HasPreview, NoneStopped, PreviewsDiffer,
         NEW q \in Queries, Cleanup(q)
  PROVE  HasPreview' /\ NoneStopped' /\ PreviewsDiffer'
<1> DEFINE gone  == {n \in Names : activeNDI[n] # 0 /\ n \notin currentStreams[q]}
           ended == {shortOf[n] : n \in gone}
<1>0. /\ activeNDI \in [Names -> Ref] /\ broadcasters \in [Shorts -> Ref]
      /\ output \in [Outputs -> OutputValue]
      /\ shortOf \in [Names -> Shorts]
  BY NamesOf, TypesAreParts DEF OutputTypes
<1>1. /\ activeNDI' = [n \in Names |-> IF n \in gone THEN 0 ELSE activeNDI[n]]
      /\ broadcasters' = [s \in Shorts |-> IF s \in ended THEN 0
                                           ELSE broadcasters[s]]
      /\ shortOf' = shortOf
  BY DEF Cleanup
<1>2. output' = [b \in Outputs |->
        CASE b \notin Referred' -> NoOutput
          [] \E s \in ended : b = broadcasters[s] -> Stopped
          [] OTHER -> output[b]]
  BY DEF Cleanup
<1>3. ended \subseteq Shorts
  BY <1>0
<1>4. \A m, n \in Names : n \in gone /\ shortOf[m] = shortOf[n] => shortOf[m] \in ended
  OBVIOUS
<1>5. HasPreview'
  <2> SUFFICES ASSUME NEW m \in Names, activeNDI'[m] # 0,
                      \A k \in Names : shortOf[k] = shortOf[m] => k = m
               PROVE  broadcasters'[shortOf[m]] = activeNDI'[m]
    BY <1>1 DEF HasPreview
  <2>1. m \notin gone /\ activeNDI'[m] = activeNDI[m]
    BY <1>1
  <2>2. shortOf[m] \notin ended
    BY <2>1
  <2> QED
    BY <1>0, <1>1, <2>1, <2>2 DEF HasPreview
<1> HIDE DEF gone, ended
<1>6. PreviewsDiffer'
  BY <1>0, <1>1 DEF PreviewsDiffer
<1>7. NoneStopped'
  <2> SUFFICES ASSUME NEW s \in Shorts, broadcasters'[s] # 0
               PROVE  output'[broadcasters'[s]] # Stopped
    BY DEF NoneStopped
  <2>1. s \notin ended /\ broadcasters'[s] = broadcasters[s]
        /\ broadcasters[s] \in Outputs
    BY <1>0, <1>1 DEF Ref
  <2>2. \A t \in ended : broadcasters[s] # broadcasters[t]
    BY <1>3, <2>1 DEF PreviewsDiffer
  <2>3. broadcasters[s] \in Referred'
    BY <1>1, <2>1 DEF Referred, Range
  <2>4. output'[broadcasters[s]] = output[broadcasters[s]]
    BY <1>2, <2>1, <2>2, <2>3
  <2> QED
    BY <2>1, <2>4 DEF NoneStopped
<1> QED
  BY <1>5, <1>6, <1>7

LEMMA PreviewStep ==
  ASSUME TypeOK, HasPreview, NoneStopped, PreviewsDiffer, Next
  PROVE  HasPreview' /\ NoneStopped' /\ PreviewsDiffer'
<1>0. /\ activeNDI \in [Names -> Ref] /\ broadcasters \in [Shorts -> Ref]
      /\ output \in [Outputs -> OutputValue]
  BY TypesAreParts DEF OutputTypes
<1>1. ASSUME UNCHANGED <<shortOf, ndiIsInit, activeNDI, broadcasters>>,
             \A b \in Outputs :
               b \in Range(broadcasters) /\ output[b] # Stopped
                 => output'[b] # Stopped
      PROVE  HasPreview' /\ NoneStopped' /\ PreviewsDiffer'
  <2>1. NoneStopped'
    <3> SUFFICES ASSUME NEW s \in Shorts, broadcasters[s] # 0
                 PROVE  output'[broadcasters[s]] # Stopped
      BY <1>1 DEF NoneStopped
    <3>1. broadcasters[s] \in Outputs /\ broadcasters[s] \in Range(broadcasters)
      BY <1>0 DEF Ref, Range
    <3> QED
      BY <1>1, <3>1 DEF NoneStopped
  <2> QED
    BY <1>1, <2>1, PreviewsRest
<1>2. ASSUME UNCHANGED <<shortOf, ndiIsInit, outputVars>>
      PROVE  HasPreview' /\ NoneStopped' /\ PreviewsDiffer'
  BY <1>1, <1>2 DEF outputVars
<1>3. ASSUME NEW n \in Names, Publish(n)
      PROVE  HasPreview' /\ NoneStopped' /\ PreviewsDiffer'
  BY <1>2, <1>3 DEF Publish
<1>4. ASSUME NEW n \in Names, Unpublish(n)
      PROVE  HasPreview' /\ NoneStopped' /\ PreviewsDiffer'
  <2>1. \A b \in Outputs :
          output'[b] = IF output[b].pipeline = "playing" /\ output[b].stream = n
                       THEN [output[b] EXCEPT !.pipeline = "ended"]
                       ELSE output[b]
    BY <1>4 DEF Unpublish
  <2>2. ASSUME NEW b \in Outputs, output[b] # Stopped PROVE output'[b] # Stopped
    <3>1. CASE output[b].pipeline = "playing" /\ output[b].stream = n
      <4>1. output[b] \in OutputType
        BY <1>0, <3>1, OutputFacts DEF Pipeline
      <4>2. [output[b] EXCEPT !.pipeline = "ended"] \in OutputType
        BY <4>1, PipelineChanges DEF Pipeline
      <4> QED
        BY <2>1, <3>1, <4>2, OutputFacts
    <3>2. CASE ~(output[b].pipeline = "playing" /\ output[b].stream = n)
      BY <2>1, <2>2, <3>2
    <3> QED
      BY <3>1, <3>2
  <2>3. UNCHANGED <<shortOf, ndiIsInit, activeNDI, broadcasters>>
    BY <1>4 DEF Unpublish
  <2> QED
    BY <1>1, <2>2, <2>3
<1>5. ASSUME NEW q \in Queries, QueryStep(q)
      PROVE  HasPreview' /\ NoneStopped' /\ PreviewsDiffer'
  <2>1. CASE Answered(q) \/ QueryFails(q)
    BY <1>2, <2>1 DEF Answered, QueryFails, Hears
  <2>2. ASSUME NEW n \in Names, Known(q, n)
        PROVE  HasPreview' /\ NoneStopped' /\ PreviewsDiffer'
    BY <1>2, <2>2 DEF Known
  <2>3. ASSUME NEW n \in Names, NEW ok \in BOOLEAN, Outputs # Referred \ {0},
               MakeOutput(q, n, Unused, ok)
        PROVE  HasPreview' /\ NoneStopped' /\ PreviewsDiffer'
    BY <2>3, FreshOutput, MakeOutputPreviews
  <2>4. CASE Cleanup(q)
    BY <2>4, CleanupPreviews
  <2> QED
    BY <1>5, <2>1, <2>2, <2>3, <2>4 DEF QueryStep, Lists
<1>6. ASSUME NEW b \in Outputs, OutputStep(b)
      PROVE  HasPreview' /\ NoneStopped' /\ PreviewsDiffer'
  <2>1. CASE PushFrame(b)
    BY <1>2, <2>1 DEF PushFrame
  <2>2. ASSUME NEW ok \in BOOLEAN, PipelineStarts(b, ok)
        PROVE  HasPreview' /\ NoneStopped' /\ PreviewsDiffer'
    <3>1. output[b] \in OutputType
      BY <1>0, <2>2, OutputFacts DEF PipelineStarts, Pipeline
    <3>2. [output[b] EXCEPT !.pipeline = IF ok THEN "playing" ELSE "ended"]
            \in OutputType
      BY <3>1, PipelineChanges DEF Pipeline
    <3>3. output' = [output EXCEPT ![b] =
            [output[b] EXCEPT !.pipeline = IF ok THEN "playing" ELSE "ended"]]
      BY <2>2 DEF PipelineStarts
    <3>4. output'[b] # Stopped /\ \A c \in Outputs \ {b} : output'[c] = output[c]
      BY <1>0, <3>2, <3>3, OutputFacts
    <3>5. UNCHANGED <<shortOf, ndiIsInit, activeNDI, broadcasters>>
      BY <2>2 DEF PipelineStarts
    <3> QED
      BY <1>1, <3>4, <3>5
  <2> QED
    BY <1>6, <2>1, <2>2 DEF OutputStep
<1>7. ASSUME NEW v \in Viewers, ViewerStep(v)
      PROVE  HasPreview' /\ NoneStopped' /\ PreviewsDiffer'
  <2>1. CASE Subscribe(v) \/ TakeFrame(v) \/ Unsubscribe(v)
    BY <1>2, <2>1 DEF Subscribe, TakeFrame, Unsubscribe
  <2>2. CASE CloseChannel(v)
    <3>1. UNCHANGED <<shortOf, ndiIsInit, activeNDI, broadcasters>>
      BY <2>2 DEF CloseChannel
    <3>2. \A b \in Outputs : output'[b] = IF b \in Referred' THEN output[b]
                                          ELSE NoOutput
      BY <2>2 DEF CloseChannel
    <3> QED
      BY <1>1, <3>1, <3>2, OutputFacts
  <2>3. ASSUME NEW s \in Shorts, FindPreview(v, s)
        PROVE  HasPreview' /\ NoneStopped' /\ PreviewsDiffer'
    BY <1>2, <2>3 DEF FindPreview
  <2> QED
    BY <1>7, <2>1, <2>2, <2>3 DEF ViewerStep
<1>8. CASE DvrStep
  BY <1>2, <1>8 DEF DvrStep, StopRecording, StartRecording, ProcessExits
<1> QED
  BY <1>3, <1>4, <1>5, <1>6, <1>7, <1>8 DEF Next

-----------------------------------------------------------------------------
(* Viewers.                                                                *)

(* Who is registered with a broadcaster watches, and a channel is open     *)
(* until its viewer is away.                                               *)
ViewerInv ==
  /\ \A v \in clients : viewer[v] = "watching"
  /\ \A v \in Viewers : v \in open <=> viewer[v] \in {"watching", "leaving"}
  /\ frame \subseteq open

LEMMA ViewerInvStep ==
  ASSUME TypeOK, ViewerInv, Next PROVE ViewerInv'
<1>0. ViewerTypes
  BY TypesAreParts
<1>1. ASSUME UNCHANGED viewerVars PROVE ViewerInv'
  BY <1>1 DEF viewerVars, ViewerInv
<1>2. ASSUME NEW n \in Names, Publish(n) \/ Unpublish(n) PROVE ViewerInv'
  BY <1>1, <1>2 DEF Publish, Unpublish
<1>3. ASSUME NEW q \in Queries, QueryStep(q) PROVE ViewerInv'
  BY <1>1, <1>3 DEF QueryStep, Answered, QueryFails, Hears, Lists, Known,
                    MakeOutput, Cleanup
<1>4. ASSUME NEW b \in Outputs, OutputStep(b) PROVE ViewerInv'
  <2>1. CASE PushFrame(b)
    BY <1>0, <2>1 DEF PushFrame, ClientsOf, ViewerInv, ViewerTypes
  <2>2. ASSUME NEW ok \in BOOLEAN, PipelineStarts(b, ok) PROVE ViewerInv'
    BY <1>1, <2>2 DEF PipelineStarts
  <2> QED
    BY <1>4, <2>1, <2>2 DEF OutputStep
<1>5. ASSUME NEW v \in Viewers, ViewerStep(v) PROVE ViewerInv'
  <2>1. CASE Subscribe(v)
    BY <1>0, <2>1 DEF Subscribe, ViewerInv, ViewerTypes
  <2>2. CASE TakeFrame(v)
    BY <1>0, <2>2 DEF TakeFrame, ViewerInv, ViewerTypes
  <2>3. CASE Unsubscribe(v)
    BY <1>0, <2>3 DEF Unsubscribe, ViewerInv, ViewerTypes
  <2>4. CASE CloseChannel(v)
    BY <1>0, <2>4 DEF CloseChannel, ViewerInv, ViewerTypes
  <2>5. ASSUME NEW s \in Shorts, FindPreview(v, s) PROVE ViewerInv'
    BY <1>0, <2>5 DEF FindPreview, ViewerInv, ViewerTypes
  <2> QED
    BY <1>5, <2>1, <2>2, <2>3, <2>4, <2>5 DEF ViewerStep
<1>6. CASE DvrStep
  BY <1>1, <1>6 DEF DvrStep, StopRecording, StartRecording, ProcessExits
<1> QED
  BY <1>2, <1>3, <1>4, <1>5, <1>6 DEF Next

-----------------------------------------------------------------------------
(* Recordings.                                                             *)

\* RecordingsAreListed, and no process is listed for two streams
DvrInv ==
  /\ \A p \in Processes :
       ffmpeg[p] \in {"running", "exited"} <=> \E n \in Recorded : processes[n] = p
  /\ \A m, n \in Recorded : processes[m] = processes[n] /\ processes[m] # 0 => m = n

LEMMA DvrInvStep ==
  ASSUME TypeOK, DvrInv, Next PROVE DvrInv'
<1>0. DvrTypes /\ 0 \notin Processes
  BY TypesAreParts, AppAssumption DEF Processes
<1>1. ASSUME UNCHANGED dvrVars PROVE DvrInv'
  BY <1>1 DEF dvrVars, DvrInv
<1>2. ASSUME NEW n \in Names, Publish(n) \/ Unpublish(n) PROVE DvrInv'
  BY <1>1, <1>2 DEF Publish, Unpublish
<1>3. ASSUME NEW q \in Queries, QueryStep(q) PROVE DvrInv'
  BY <1>1, <1>3 DEF QueryStep, Answered, QueryFails, Hears, Lists, Known,
                    MakeOutput, Cleanup
<1>4. ASSUME NEW b \in Outputs, OutputStep(b) PROVE DvrInv'
  BY <1>1, <1>4 DEF OutputStep, PushFrame, PipelineStarts
<1>5. ASSUME NEW v \in Viewers, ViewerStep(v) PROVE DvrInv'
  BY <1>1, <1>5 DEF ViewerStep, Subscribe, TakeFrame, Unsubscribe, CloseChannel,
                    FindPreview
<1>6. ASSUME NEW n \in Recorded, StopRecording(n) PROVE DvrInv'
  <2>1. /\ processes[n] # 0
        /\ ffmpeg' = [ffmpeg EXCEPT ![processes[n]] = "interrupted"]
        /\ processes' = [processes EXCEPT ![n] = 0]
    BY <1>6 DEF StopRecording
  <2>2. processes[n] \in Processes
    BY <1>0, <2>1 DEF DvrTypes
  <2>3. ASSUME NEW p \in Processes, p # processes[n]
        PROVE  ffmpeg'[p] \in {"running", "exited"}
                 <=> \E m \in Recorded : processes'[m] = p
    <3>1. ffmpeg'[p] = ffmpeg[p]
      BY <1>0, <2>1, <2>3 DEF DvrTypes
    <3>2. (\E m \in Recorded : processes'[m] = p)
            <=> \E m \in Recorded : processes[m] = p
      BY <1>0, <2>1, <2>3 DEF DvrTypes
    <3> QED
      BY <3>1, <3>2 DEF DvrInv
  <2>4. ffmpeg'[processes[n]] = "interrupted"
    BY <1>0, <2>1, <2>2 DEF DvrTypes
  <2>5. \A m \in Recorded : processes'[m] # processes[n]
    BY <1>0, <2>1, <2>2 DEF DvrTypes, DvrInv
  <2>6. \A m, k \in Recorded :
          processes'[m] = processes'[k] /\ processes'[m] # 0 => m = k
    BY <1>0, <2>1 DEF DvrTypes, DvrInv
  <2>7. ASSUME NEW p \in Processes
        PROVE  ffmpeg'[p] \in {"running", "exited"}
                 <=> \E m \in Recorded : processes'[m] = p
    <3>1. CASE p = processes[n]
      BY <2>4, <2>5, <3>1
    <3> QED
      BY <2>3, <3>1
  <2> QED
    BY <2>6, <2>7 DEF DvrInv
<1>7. ASSUME NEW n \in Recorded, NEW p \in Processes, StartRecording(n, p)
      PROVE  DvrInv'
  <2>1. /\ processes[n] = 0 /\ ffmpeg[p] = "off"
        /\ ffmpeg' = [ffmpeg EXCEPT ![p] = "running"]
        /\ processes' = [processes EXCEPT ![n] = p]
    BY <1>7 DEF StartRecording
  <2>2. \A m \in Recorded : processes[m] # p
    BY <2>1 DEF DvrInv
  <2>3. \A m, k \in Recorded :
          processes'[m] = processes'[k] /\ processes'[m] # 0 => m = k
    BY <1>0, <2>1, <2>2 DEF DvrTypes, DvrInv
  <2>4. ASSUME NEW o \in Processes
        PROVE  ffmpeg'[o] \in {"running", "exited"}
                 <=> \E m \in Recorded : processes'[m] = o
    <3>1. CASE o = p
      BY <1>0, <2>1, <3>1 DEF DvrTypes
    <3>2. CASE o # p
      <4>1. ffmpeg'[o] = ffmpeg[o]
        BY <1>0, <2>1, <3>2 DEF DvrTypes
      <4>2. (\E m \in Recorded : processes'[m] = o)
              <=> \E m \in Recorded : processes[m] = o
        BY <1>0, <2>1, <3>2 DEF DvrTypes
      <4> QED
        BY <4>1, <4>2 DEF DvrInv
    <3> QED
      BY <3>1, <3>2
  <2> QED
    BY <2>3, <2>4 DEF DvrInv
<1>8. ASSUME NEW p \in Processes, ProcessExits(p) PROVE DvrInv'
  <2>1. /\ ffmpeg' = [ffmpeg EXCEPT ![p] = IF ffmpeg[p] = "running" THEN "exited"
                                           ELSE "off"]
        /\ ffmpeg[p] \in {"running", "interrupted"} /\ processes' = processes
    BY <1>8 DEF ProcessExits
  <2>2. \A o \in Processes :
          ffmpeg'[o] \in {"running", "exited"} <=> ffmpeg[o] \in {"running", "exited"}
    BY <1>0, <2>1 DEF DvrTypes
  <2> QED
    BY <2>1, <2>2 DEF DvrInv
<1> QED
  BY <1>2, <1>3, <1>4, <1>5, <1>6, <1>7, <1>8 DEF Next, DvrStep

-----------------------------------------------------------------------------

WindowInv == HasPreview /\ NoneStopped /\ PreviewsDiffer /\ ViewerInv /\ DvrInv

(* WindowAgrees holds of every behaviour: previews and NDI outputs stay    *)
(* together through any number of overlapping queries and failures, no     *)
(* frame is sent on a closed channel, and every ffmpeg process that nobody *)
(* has stopped is listed.                                                  *)
THEOREM WindowCorrect == Spec => []WindowAgrees
<1>1. Init => WindowInv
  <2> SUFFICES ASSUME Init PROVE WindowInv
    OBVIOUS
  <2>1. shortOf \in [Names -> Shorts]
    BY AppAssumption DEF Init
  <2>2. HasPreview /\ NoneStopped /\ PreviewsDiffer
    BY DEF Init, HasPreview, NoneStopped, PreviewsDiffer
  <2>3. ViewerInv
    BY DEF Init, ViewerInv
  <2>4. DvrInv
    BY AppAssumption DEF Init, DvrInv, Processes
  <2> QED
    BY <2>2, <2>3, <2>4 DEF WindowInv
<1>2. TypeOK /\ WindowInv /\ [Next]_vars => WindowInv'
  <2> SUFFICES ASSUME TypeOK, WindowInv, [Next]_vars PROVE WindowInv'
    OBVIOUS
  <2>1. CASE Next
    BY <2>1, PreviewStep, ViewerInvStep, DvrInvStep DEF WindowInv
  <2>2. CASE UNCHANGED vars
    BY <2>2 DEF vars, outputVars, viewerVars, dvrVars, WindowInv, HasPreview,
                NoneStopped, PreviewsDiffer, ViewerInv, DvrInv
  <2> QED
    BY <2>1, <2>2
<1>3. TypeOK /\ WindowInv => WindowAgrees
  <2> SUFFICES ASSUME TypeOK, WindowInv PROVE WindowAgrees
    OBVIOUS
  <2>1. OutputTypes /\ DvrTypes /\ ViewerTypes
    BY TypesAreParts
  <2>2. PreviewsAgree
    BY <2>1, PreviewsByName DEF WindowInv
  <2>3. ClientsAreOpen
    BY <2>1 DEF WindowInv, ViewerInv, ClientsAreOpen, ViewerTypes
  <2>4. RecordingsAreListed
    BY <2>1 DEF WindowInv, DvrInv, RecordingsAreListed, DvrTypes, Range
  <2> QED
    BY <2>2, <2>3, <2>4 DEF WindowAgrees
<1> QED
  BY <1>1, <1>2, <1>3, AppTypeCorrect, PTL DEF Spec

-----------------------------------------------------------------------------
(***************************************************************************)
(* The tally: the connections of the phones and their lights (Tally), for  *)
(* any cameras, inputs of vMix, phones and numbers of starts.              *)
(***************************************************************************)

(* The part of TallyTypeOK that ConnectionsAgree rests on. *)
ConnTypes ==
  /\ connections \in [Cams -> Conns \cup {Nobody}]
  /\ conn \in [Conns -> {"gone", "open", "closed"}]

ConnInv == ConnTypes /\ ConnectionsAgree

LEMMA ConnInit == TallyInit => ConnInv
<1> SUFFICES ASSUME TallyInit PROVE ConnInv
  OBVIOUS
<1>1. ConnTypes
  BY DEF TallyInit, ConnTypes
<1>2. ConnectionsAgree
  BY TallyAssumption DEF TallyInit, ConnectionsAgree
<1> QED
  BY <1>1, <1>2 DEF ConnInv

(* The connection that is replaced is the only one of its camera that was  *)
(* open; the end of a read loop removes its own connection only.           *)
LEMMA ConnStepKeeps ==
  ASSUME ConnInv, NEW c \in Conns, ConnStep(c) PROVE ConnInv'
<1> USE TallyAssumption
<1> DEFINE cam == CamOf[c]
<1>0. cam \in Cams
  OBVIOUS
<1>1. CASE Register(c)
  <2>1. conn' \in [Conns -> {"gone", "open", "closed"}]
    BY <1>1 DEF Register, ConnInv, ConnTypes
  <2>2. connections' = [connections EXCEPT ![cam] = c]
    BY <1>1 DEF Register
  <2>3. connections' \in [Cams -> Conns \cup {Nobody}]
    BY <2>2 DEF ConnInv, ConnTypes
  <2>4. conn'[c] = "open" /\ connections'[cam] = c
    BY <1>0, <1>1, <2>2 DEF Register, ConnInv, ConnTypes
  <2>5. ASSUME NEW d \in Conns, conn'[d] = "open"
        PROVE connections'[CamOf[d]] = d
    <3>1. CASE d = c
      BY <3>1, <2>4
    <3>2. CASE d # c
      <4>1. conn[d] = "open" /\ d # connections[cam]
        BY <1>1, <2>5, <3>2 DEF Register
      <4>2. connections[CamOf[d]] = d
        BY <4>1 DEF ConnInv, ConnectionsAgree
      <4>3. CamOf[d] # cam
        BY <4>1, <4>2
      <4> QED
        BY <2>2, <4>2, <4>3 DEF ConnInv, ConnTypes
    <3> QED
      BY <3>1, <3>2
  <2>6. ASSUME NEW other \in Cams, connections'[other] # Nobody
        PROVE conn'[connections'[other]] # "gone"
              /\ CamOf[connections'[other]] = other
    <3>1. CASE other = cam
      BY <3>1, <2>4
    <3>2. CASE other # cam
      <4>1. connections'[other] = connections[other]
        BY <2>2, <3>2 DEF ConnInv, ConnTypes
      <4>2. /\ conn[connections[other]] # "gone"
            /\ CamOf[connections[other]] = other
            /\ connections[other] \in Conns
        BY <2>6, <4>1 DEF ConnInv, ConnTypes, ConnectionsAgree
      <4>3. conn'[connections[other]] # "gone"
        BY <1>1, <4>2 DEF Register
      <4> QED
        BY <4>1, <4>2, <4>3
    <3> QED
      BY <3>1, <3>2
  <2> QED
    BY <2>1, <2>3, <2>5, <2>6 DEF ConnInv, ConnTypes, ConnectionsAgree
<1>2. CASE PhoneLeaves(c)
  BY <1>2 DEF PhoneLeaves, ConnInv, ConnTypes, ConnectionsAgree
<1>3. CASE ReadFails(c)
  <2>1. conn' = [conn EXCEPT ![c] = "gone"] /\ conn[c] = "closed"
    BY <1>3 DEF ReadFails
  <2>2. CASE connections[cam] = c
    <3>1. connections' = [connections EXCEPT ![cam] = Nobody]
      BY <1>3, <2>2 DEF ReadFails
    <3>2. ConnTypes'
      BY <2>1, <3>1 DEF ConnInv, ConnTypes
    <3>3. ASSUME NEW d \in Conns, conn'[d] = "open"
          PROVE connections'[CamOf[d]] = d
      <4>1. conn[d] = "open" /\ d # c
        BY <2>1, <3>3 DEF ConnInv, ConnTypes
      <4>2. connections[CamOf[d]] = d
        BY <4>1 DEF ConnInv, ConnectionsAgree
      <4> QED
        BY <2>2, <3>1, <4>1, <4>2 DEF ConnInv, ConnTypes
    <3>4. ASSUME NEW other \in Cams, connections'[other] # Nobody
          PROVE conn'[connections'[other]] # "gone"
                /\ CamOf[connections'[other]] = other
      <4>1. other # cam /\ connections'[other] = connections[other]
        BY <1>0, <3>1, <3>4 DEF ConnInv, ConnTypes
      <4>2. /\ conn[connections[other]] # "gone"
            /\ CamOf[connections[other]] = other
            /\ connections[other] \in Conns
        BY <3>4, <4>1 DEF ConnInv, ConnTypes, ConnectionsAgree
      <4>3. connections[other] # c
        BY <4>1, <4>2
      <4> QED
        BY <2>1, <4>1, <4>2, <4>3 DEF ConnInv, ConnTypes
    <3> QED
      BY <3>2, <3>3, <3>4 DEF ConnInv, ConnectionsAgree
  <2>3. CASE connections[cam] # c
    <3>1. connections' = connections
      BY <1>3, <2>3 DEF ReadFails
    <3>2. \A other \in Cams : connections[other] # c
      BY <2>3 DEF ConnInv, ConnTypes, ConnectionsAgree
    <3> QED
      BY <2>1, <3>1, <3>2 DEF ConnInv, ConnTypes, ConnectionsAgree
  <2> QED
    BY <2>2, <2>3
<1> QED
  BY <1>1, <1>2, <1>3 DEF ConnStep

(* The inductive invariant of the connections is ConnectionsAgree with the *)
(* types of the two variables.  The pollers never touch them.              *)
LEMMA ConnInvStep == ConnInv /\ [TallyNext]_tallyVars => ConnInv'
<1> SUFFICES ASSUME ConnInv, [TallyNext]_tallyVars PROVE ConnInv'
  OBVIOUS
<1>1. ASSUME UNCHANGED connVars PROVE ConnInv'
  BY <1>1 DEF connVars, ConnInv, ConnTypes, ConnectionsAgree
<1>2. CASE \E c \in Conns : ConnStep(c)
  BY <1>2, ConnStepKeeps
<1>3. CASE Start \/ Stop \/ Send
  BY <1>1, <1>3 DEF Start, Stop, Send
<1>4. ASSUME NEW g \in Pollers, PollerStep(g) PROVE ConnInv'
  <2>1. CASE Ends(g) \/ Lock(g)
    BY <1>1, <2>1 DEF Ends, Lock
  <2>2. CASE Poll(g) \/ Tick(g) \/ FetchFails(g) \/ Processed(g)
    BY <1>1, <2>2 DEF Poll, Tick, FetchFails, Processed
  <2>3. CASE Fetched(g)
    BY <1>1, <2>3 DEF Fetched
  <2>4. ASSUME NEW cam \in Cams, Change(g, cam) PROVE ConnInv'
    BY <1>1, <2>4 DEF Change
  <2> QED
    BY <1>4, <2>1, <2>2, <2>3, <2>4 DEF PollerStep, Works
<1>5. CASE UNCHANGED tallyVars
  BY <1>1, <1>5 DEF tallyVars
<1> QED
  BY <1>2, <1>3, <1>4, <1>5 DEF TallyNext

(* ConnectionsAgree holds of every behaviour, for any cameras, phones and  *)
(* order of their reconnections.                                           *)
THEOREM ConnectionsCorrect == TallySpec => []ConnectionsAgree
<1>1. ConnInv => ConnectionsAgree
  BY DEF ConnInv
<1> QED
  BY <1>1, ConnInvStep, ConnInit, PTL DEF TallySpec

-----------------------------------------------------------------------------
(* Types.                                                                  *)

(* A poller that runs has a channel: the one that Stop and Start close.    *)
RunningHasChan == isRunning => stopChan # 0

TypeInv == TallyTypeOK /\ RunningHasChan

LEMMA TypeInit == TallyInit => TypeInv
<1> SUFFICES ASSUME TallyInit PROVE TypeInv
  OBVIOUS
<1> USE TallyAssumption DEF TallyInit
<1>1. /\ answer \in [Pollers -> [Cams -> Statuses]]
      /\ lastStates \in [Cams -> Statuses \cup {"none"}]
  BY DEF NoAnswer, Statuses
<1>2. /\ poller \in [Pollers -> {"off", "polling", "waiting", "fetching",
                                 "answered", "processing"}]
      /\ sees \in [Pollers -> 0..MaxStarts]
      /\ light \in [Conns -> Statuses \cup {"none"}]
  OBVIOUS
<1>3. /\ isRunning \in BOOLEAN
      /\ stopChan \in 0..MaxStarts
      /\ closedChans \subseteq Pollers
  <2>1. 0 \in 0..MaxStarts
    OBVIOUS
  <2> QED
    BY <2>1 DEF Pollers
<1>4. /\ connections \in [Cams -> Conns \cup {Nobody}]
      /\ conn \in [Conns -> {"gone", "open", "closed"}]
  OBVIOUS
<1>5. /\ sending \in {NoCommand} \cup (Cams \X (Conns \cup {Nobody}) \X Statuses)
      /\ RunningHasChan
  BY DEF RunningHasChan
<1> QED
  BY <1>1, <1>2, <1>3, <1>4, <1>5 DEF TypeInv, TallyTypeOK

(* Whatever vMix answers, a camera has one of the three states. *)
LEMMA StatusOfType ==
  ASSUME NEW cam, NEW program, NEW preview
  PROVE  StatusOf(cam, program, preview) \in Statuses
BY DEF StatusOf, Statuses

LEMMA PollerStepType ==
  ASSUME TypeInv, NEW g \in Pollers, PollerStep(g) PROVE TypeInv'
<1> USE TallyAssumption DEF TypeInv, TallyTypeOK, RunningHasChan, Enters
<1>1. CASE Poll(g)
  BY <1>1 DEF Poll, connVars
<1>2. CASE Ends(g)
  BY <1>2 DEF Ends, connVars
<1>3. CASE Tick(g)
  BY <1>3 DEF Tick, connVars
<1>4. CASE FetchFails(g)
  BY <1>4 DEF FetchFails, connVars
<1>5. CASE Lock(g)
  BY <1>5 DEF Lock, connVars
<1>6. CASE Fetched(g)
  <2>1. PICK program, preview \in InputNumbers :
          answer' = [answer EXCEPT ![g] =
                       [cam \in Cams |-> StatusOf(cam, program, preview)]]
    BY <1>6 DEF Fetched
  <2>2. [cam \in Cams |-> StatusOf(cam, program, preview)]
          \in [Cams -> Statuses]
    BY StatusOfType
  <2> HIDE DEF StatusOf
  <2>3. answer' \in [Pollers -> [Cams -> Statuses]]
    BY <2>1, <2>2
  <2> QED
    BY <1>6, <2>3 DEF Fetched, connVars
<1>7. CASE Processed(g)
  <2>1. NoAnswer \in [Cams -> Statuses]
    BY DEF NoAnswer, Statuses
  <2>2. answer' \in [Pollers -> [Cams -> Statuses]]
    BY <1>7, <2>1 DEF Processed
  <2> QED
    BY <1>7, <2>2 DEF Processed, connVars
<1>8. ASSUME NEW cam \in Cams, Change(g, cam) PROVE TypeInv'
  <2>1. answer[g][cam] \in Statuses /\ connections[cam] \in Conns \cup {Nobody}
    OBVIOUS
  <2>2. lastStates' \in [Cams -> Statuses \cup {"none"}]
    BY <1>8, <2>1 DEF Change
  <2>3. sending' \in Cams \X (Conns \cup {Nobody}) \X Statuses
    BY <1>8, <2>1 DEF Change
  <2> QED
    BY <1>8, <2>2, <2>3 DEF Change, connVars, pollerVars
<1> QED
  BY <1>1, <1>2, <1>3, <1>4, <1>5, <1>6, <1>7, <1>8 DEF PollerStep, Works

LEMMA TypeInvStep == TypeInv /\ [TallyNext]_tallyVars => TypeInv'
<1> SUFFICES ASSUME TypeInv, [TallyNext]_tallyVars PROVE TypeInv'
  OBVIOUS
<1> USE TallyAssumption DEF TypeInv, TallyTypeOK, RunningHasChan
<1>1. CASE Start
  <2>1. stopChan' \in Pollers /\ stopChan' # 0
    BY <1>1 DEF Start, Pollers
  <2>2. closedChans' \subseteq Pollers
    BY <1>1 DEF Start, Pollers
  <2>3. stopChan' \in 0..MaxStarts
    BY <2>1 DEF Pollers
  <2>4. poller' \in [Pollers -> {"off", "polling", "waiting", "fetching",
                                "answered", "processing"}]
    BY <1>1, <2>1 DEF Start, Enters
  <2>5. isRunning' = TRUE
        /\ UNCHANGED <<sees, answer, lastStates, sending, connVars, light>>
    BY <1>1 DEF Start
  <2> QED
    BY <2>1, <2>2, <2>3, <2>4, <2>5 DEF connVars
<1>2. CASE Stop
  <2>1. closedChans' \subseteq Pollers
    BY <1>2 DEF Stop, Pollers
  <2>2. isRunning' = FALSE
        /\ UNCHANGED <<stopChan, poller, sees, answer, lastStates, sending,
                       connVars, light>>
    BY <1>2 DEF Stop
  <2> QED
    BY <2>1, <2>2 DEF connVars
<1>3. CASE Send
  <2>1. CASE sending[2] # Nobody /\ conn[sending[2]] = "open"
    <3>1. sending \in Cams \X (Conns \cup {Nobody}) \X Statuses
      BY <1>3 DEF Send
    <3>2. light' = [light EXCEPT ![sending[2]] = sending[3]]
      BY <1>3, <2>1 DEF Send
    <3>3. light' \in [Conns -> Statuses \cup {"none"}]
      BY <3>1, <3>2
    <3> QED
      BY <1>3, <3>3 DEF Send, connVars, pollerVars
  <2>2. CASE ~(sending[2] # Nobody /\ conn[sending[2]] = "open")
    BY <1>3, <2>2 DEF Send, connVars, pollerVars
  <2> QED
    BY <2>1, <2>2
<1>4. CASE \E g \in Pollers : PollerStep(g)
  BY <1>4, PollerStepType
<1>5. ASSUME NEW c \in Conns, ConnStep(c) PROVE TypeInv'
  <2>1. CASE Register(c)
    <3>1. conn' \in [Conns -> {"gone", "open", "closed"}]
      BY <2>1 DEF Register
    <3> QED
      BY <2>1, <3>1 DEF Register, pollerVars
  <2>2. CASE PhoneLeaves(c)
    BY <2>2 DEF PhoneLeaves, pollerVars
  <2>3. CASE ReadFails(c)
    BY <2>3 DEF ReadFails, pollerVars
  <2> QED
    BY <1>5, <2>1, <2>2, <2>3 DEF ConnStep
<1>6. CASE UNCHANGED tallyVars
  BY <1>6 DEF tallyVars, pollerVars, connVars
<1> QED
  BY <1>1, <1>2, <1>3, <1>4, <1>5, <1>6 DEF TallyNext

(* Every variable keeps its type, for any cameras, inputs, phones and      *)
(* number of starts.                                                       *)
THEOREM TallyTypeCorrect == TallySpec => []TallyTypeOK
<1>1. TypeInv => TallyTypeOK
  BY DEF TypeInv
<1> QED
  BY <1>1, TypeInit, TypeInvStep, PTL DEF TallySpec

-----------------------------------------------------------------------------
(* The lights.                                                             *)

(* A connection that is forgotten takes what it was told with it. *)
GoneIsDark == \A c \in Conns : conn[c] = "gone" => light[c] = "none"

(* The command under way is the state that has been noted, and the only    *)
(* connection of its camera that may have been told something else is the  *)
(* one that it goes to: one that has registered since has been told        *)
(* nothing.                                                                *)
SendingIsCurrent ==
  sending # NoCommand =>
    /\ sending[3] = lastStates[sending[1]]
    /\ sending[2] # Nobody => CamOf[sending[2]] = sending[1]
    /\ \A c \in Conns :
         conn[c] = "open" /\ CamOf[c] = sending[1] /\ light[c] # "none"
           => c = sending[2]

LightInv == GoneIsDark /\ SendingIsCurrent /\ LightIsCurrent

LEMMA LightInit == TallyInit => LightInv
BY DEF TallyInit, LightInv, GoneIsDark, SendingIsCurrent, LightIsCurrent

(* The steps that leave the lights and the commands alone. *)
LEMMA LightRests ==
  ASSUME LightInv, UNCHANGED <<lastStates, sending, conn, light>>
  PROVE  LightInv'
BY DEF LightInv, GoneIsDark, SendingIsCurrent, LightIsCurrent

(* A change is noted as it is sent.  Who has been told anything by now is  *)
(* the connection in the map, since the others of its camera are closed.   *)
LEMMA ChangeLight ==
  ASSUME TallyTypeOK, ConnInv, LightInv,
         NEW g \in Pollers, NEW cam \in Cams, Change(g, cam)
  PROVE  LightInv'
<1>1. /\ sending = NoCommand
      /\ lastStates' = [lastStates EXCEPT ![cam] = answer[g][cam]]
      /\ sending' = <<cam, connections[cam], answer[g][cam]>>
      /\ conn' = conn /\ light' = light
  BY DEF Change, connVars
<1>2. /\ sending'[1] = cam /\ sending'[2] = connections[cam]
      /\ sending'[3] = answer[g][cam]
  BY <1>1
<1>3. lastStates'[cam] = answer[g][cam]
  BY <1>1 DEF TallyTypeOK
<1>4. GoneIsDark'
  BY <1>1 DEF LightInv, GoneIsDark
<1>5. connections[cam] # Nobody => CamOf[connections[cam]] = cam
  BY DEF ConnInv, ConnectionsAgree
<1>6. \A c \in Conns : conn[c] = "open" /\ CamOf[c] = cam => c = connections[cam]
  BY DEF ConnInv, ConnectionsAgree
<1>7. SendingIsCurrent'
  BY <1>1, <1>2, <1>3, <1>5, <1>6 DEF SendingIsCurrent
<1>8. ASSUME NEW c \in Conns, conn'[c] = "open", light'[c] # "none",
             sending'[1] # CamOf[c]
      PROVE  light'[c] = lastStates'[CamOf[c]]
  <2>1. light[c] = lastStates[CamOf[c]]
    BY <1>1, <1>8 DEF LightInv, LightIsCurrent
  <2>2. CamOf[c] # cam
    BY <1>2, <1>8
  <2> QED
    BY <1>1, <2>1, <2>2, TallyAssumption DEF TallyTypeOK
<1>9. sending' # NoCommand
  BY <1>1 DEF NoCommand
<1> QED
  BY <1>4, <1>7, <1>8, <1>9 DEF LightInv, LightIsCurrent

(* The command arrives, or nobody who has been told anything is there. *)
LEMMA SendLight ==
  ASSUME TallyTypeOK, LightInv, Send PROVE LightInv'
<1> DEFINE to == sending[2]
<1>1. /\ sending # NoCommand /\ sending' = NoCommand
      /\ conn' = conn /\ lastStates' = lastStates
      /\ light' = IF to # Nobody /\ conn[to] = "open"
                  THEN [light EXCEPT ![to] = sending[3]] ELSE light
  BY DEF Send, connVars
<1>2. sending \in Cams \X (Conns \cup {Nobody}) \X Statuses
  BY <1>1 DEF TallyTypeOK
<1>3. to \in Conns \cup {Nobody} /\ sending[3] = lastStates[sending[1]]
  BY <1>1, <1>2 DEF LightInv, SendingIsCurrent
<1>4. to # Nobody => CamOf[to] = sending[1]
  BY <1>1 DEF LightInv, SendingIsCurrent
<1>5. \A c \in Conns : c # to => light'[c] = light[c]
  BY <1>1 DEF TallyTypeOK
<1>6. to # Nobody /\ conn[to] = "open" => light'[to] = sending[3]
  BY <1>1, <1>3 DEF TallyTypeOK
<1>7. GoneIsDark'
  <2> SUFFICES ASSUME NEW c \in Conns, conn'[c] = "gone"
               PROVE  light'[c] = "none"
    BY DEF GoneIsDark
  <2>1. light[c] = "none"
    BY <1>1 DEF LightInv, GoneIsDark
  <2>2. light'[c] = light[c]
    BY <1>1, <1>5
  <2> QED
    BY <2>1, <2>2
<1>8. SendingIsCurrent'
  BY <1>1 DEF SendingIsCurrent
<1>9. ASSUME NEW c \in Conns, conn'[c] = "open", light'[c] # "none"
      PROVE  light'[c] = lastStates'[CamOf[c]]
  <2>1. CASE c = to
    <3>1. c # Nobody
      BY TallyAssumption
    <3> QED
      BY <1>1, <1>3, <1>4, <1>6, <1>9, <2>1, <3>1
  <2>2. CASE c # to
    <3>1. light[c] # "none" /\ conn[c] = "open"
      BY <1>1, <1>5, <1>9, <2>2
    <3>2. CamOf[c] # sending[1]
      BY <1>1, <2>2, <3>1 DEF LightInv, SendingIsCurrent
    <3> QED
      BY <1>1, <1>5, <2>2, <3>1, <3>2 DEF LightInv, LightIsCurrent
  <2> QED
    BY <2>1, <2>2
<1> QED
  BY <1>7, <1>8, <1>9 DEF LightInv, LightIsCurrent

(* A phone that connects has been told nothing yet. *)
LEMMA ConnLight ==
  ASSUME TallyTypeOK, LightInv, NEW c \in Conns, ConnStep(c) PROVE LightInv'
<1>0. lastStates' = lastStates /\ sending' = sending
  BY DEF ConnStep, Register, PhoneLeaves, ReadFails
<1>1. \A d \in Conns : light'[d] = light[d] \/ light'[d] = "none"
  BY DEF ConnStep, Register, PhoneLeaves, ReadFails, TallyTypeOK
<1>2. \A d \in Conns : conn'[d] = "open" => conn[d] = "open" \/ light'[d] = "none"
  <2>1. CASE Register(c)
    BY <2>1 DEF Register, LightInv, GoneIsDark
  <2>2. CASE PhoneLeaves(c)
    BY <2>2 DEF PhoneLeaves, TallyTypeOK
  <2>3. CASE ReadFails(c)
    BY <2>3 DEF ReadFails, TallyTypeOK
  <2> QED
    BY <2>1, <2>2, <2>3 DEF ConnStep
<1>3. \A d \in Conns : conn'[d] = "gone" => light'[d] = "none"
  <2>1. CASE Register(c)
    BY <2>1 DEF Register, LightInv, GoneIsDark
  <2>2. CASE PhoneLeaves(c)
    BY <2>2 DEF PhoneLeaves, TallyTypeOK, LightInv, GoneIsDark
  <2>3. CASE ReadFails(c)
    <3>1. light' = [light EXCEPT ![c] = "none"] /\ conn' = [conn EXCEPT ![c] = "gone"]
      BY <2>3 DEF ReadFails
    <3> QED
      BY <3>1 DEF TallyTypeOK, LightInv, GoneIsDark
  <2> QED
    BY <2>1, <2>2, <2>3 DEF ConnStep
<1> QED
  BY <1>0, <1>1, <1>2, <1>3 DEF LightInv, GoneIsDark, SendingIsCurrent,
     LightIsCurrent

(* LightIsCurrent holds of every behaviour, for any number of pollers that *)
(* survive their Stop: they work one after the other under the mutex, and  *)
(* each notes what it sends before the next sees it.                       *)
THEOREM LightCorrect == TallySpec => []LightIsCurrent
<1>1. TypeInv /\ ConnInv /\ LightInv /\ [TallyNext]_tallyVars => LightInv'
  <2> SUFFICES ASSUME TypeInv, ConnInv, LightInv, [TallyNext]_tallyVars PROVE LightInv'
    OBVIOUS
  <2>0. TallyTypeOK
    BY DEF TypeInv
  <2>1. ASSUME Start \/ Stop PROVE LightInv'
    BY <2>1, LightRests DEF Start, Stop, connVars
  <2>2. CASE Send
    BY <2>0, <2>2, SendLight
  <2>3. ASSUME NEW g \in Pollers, PollerStep(g) PROVE LightInv'
    <3>1. CASE Ends(g) \/ Lock(g) \/ Fetched(g)
      BY <3>1, LightRests DEF Ends, Lock, Fetched, connVars
    <3>2. CASE Poll(g) \/ Tick(g) \/ FetchFails(g) \/ Processed(g)
      BY <3>2, LightRests DEF Poll, Tick, FetchFails, Processed, connVars
    <3>3. CASE \E cam \in Cams : Change(g, cam)
      BY <2>0, <3>3, ChangeLight
    <3> QED
      BY <2>3, <3>1, <3>2, <3>3 DEF PollerStep, Works
  <2>4. CASE \E c \in Conns : ConnStep(c)
    BY <2>0, <2>4, ConnLight
  <2>5. CASE UNCHANGED tallyVars
    BY <2>5, LightRests DEF tallyVars, connVars
  <2> QED
    BY <2>1, <2>2, <2>3, <2>4, <2>5 DEF TallyNext
<1>2. LightInv => LightIsCurrent
  BY DEF LightInv
<1> QED
  BY <1>1, <1>2, TypeInit, TypeInvStep, ConnInit, ConnInvStep, LightInit,
     PTL DEF TallySpec

-----------------------------------------------------------------------------
(***************************************************************************)
(* The components and their reloads.                                       *)
(***************************************************************************)

\* What the tables say, component by component.
LEMMA UsesKnown == \A c \in Components : Uses[c] \subseteq Parameters
<1> SUFFICES ASSUME NEW c \in Components PROVE Uses[c] \subseteq Parameters
  OBVIOUS
<1>1. c \in Servers \cup {"logger", "authManager", "metrics", "pprof",
                         "recordCleaner", "playbackServer", "pathManager", "api"}
  BY DEF Components
<1>2. CASE c \in Servers
  BY <1>2 DEF Servers, Uses, Parameters, Network, RTSPShared, RTMPShared,
     Switches, Encryptions
<1>3. CASE c \notin Servers
  BY <1>1, <1>3 DEF Uses, Parameters, Network, Switches, Encryptions
<1> QED
  BY <1>2, <1>3

LEMMA OffIsNoParameter == "off" \notin Parameters
BY DEF Parameters, Switches, Encryptions

LEMMA RefersBelow ==
  ASSUME NEW c \in Components, NEW r \in Refers[c]
  PROVE  /\ r = "rtmpsServer" => c = "api"
         /\ c \notin {"logger", "authManager"}
         /\ r \in Servers \cup {"authManager", "metrics", "pathManager"}
         /\ r \in Servers => c = "api"
         /\ r = "metrics" => c = "pathManager" \/ c \in Servers
BY DEF Refers, Components, Servers

LEMMA RefersOf ==
  /\ Refers["metrics"] = {"authManager"}
  /\ Refers["pathManager"] = {"authManager", "metrics"}
  /\ \A s \in Servers : Refers[s] = {"metrics", "pathManager"}
  /\ {"authManager", "pathManager"} \subseteq Refers["api"]
BY DEF Refers, Components, Servers

LEMMA AfterIs ==
  ASSUME NEW c \in Components
  PROVE  /\ c \notin {"logger", "authManager"} =>
              After[c] = (Refers[c] \ {"rtmpsServer"}) \cup {"logger"}
         /\ c \in {"logger", "authManager"} => After[c] = {}
         /\ After[c] \subseteq Components
<1>1. c \notin {"logger", "authManager"} =>
        After[c] = (Refers[c] \ {"rtmpsServer"}) \cup {"logger"}
  BY DEF After
<1>2. c \in {"logger", "authManager"} => After[c] = {}
  BY RefersBelow DEF After
<1>3. Refers[c] \cup {"logger"} \subseteq Components
  BY RefersBelow DEF Components
<1> QED
  BY <1>1, <1>2, <1>3

-----------------------------------------------------------------------------
(* The closure of the components that have changed.                        *)

LEMMA ClosingHolds ==
  ASSUME NEW old, NEW new
  PROVE  /\ Closing(old, new) \subseteq Components
         /\ Changed(old, new) \subseteq Closing(old, new)
<1>1. Changed(old, new) \subseteq Components
  BY DEF Changed, Toggled, Components
<1>2. \A c \in Components : ClosedWith[c] \subseteq Components /\ c \in ClosedWith[c]
  BY DEF ClosedWith
<1> QED
  BY <1>1, <1>2 DEF Closing

\* What comes after a component that is closed is closed.
LEMMA ClosingSpreads ==
  ASSUME NEW old, NEW new, NEW c \in Components, After[c] \cap Closing(old, new) # {}
  PROVE  c \in Closing(old, new)
<1>1. PICK r, d : r \in After[c] /\ d \in Changed(old, new) /\ r \in ClosedWith[d]
  BY DEF Closing
<1>2. d \in Components
  BY <1>1 DEF Changed, Toggled, Components
<1>3. ASSUME NEW s \in Stable, d \in s PROVE c \in s
  <2>1. r \in s
    BY <1>1, <1>2, <1>3 DEF ClosedWith
  <2> QED
    BY <1>1, <2>1, <1>3 DEF Stable
<1>4. c \in ClosedWith[d]
  BY <1>2, <1>3 DEF ClosedWith
<1> QED
  BY <1>1, <1>4 DEF Closing

\* Nothing else is closed.
LEMMA ClosingHasCause ==
  ASSUME NEW old, NEW new, NEW c \in Closing(old, new)
  PROVE  c \in Changed(old, new) \/ After[c] \cap Closing(old, new) # {}
<1> DEFINE rest == Closing(old, new) \ {c}
<1> SUFFICES ASSUME c \notin Changed(old, new), After[c] \cap Closing(old, new) = {}
             PROVE  FALSE
  OBVIOUS
<1>1. rest \in Stable
  <2>1. rest \subseteq Components
    BY ClosingHolds
  <2>2. ASSUME NEW d \in Components, After[d] \cap rest # {} PROVE d \in rest
    <3>1. d \in Closing(old, new)
      BY <2>2, ClosingSpreads
    <3> QED
      BY <2>2, <3>1
  <2> QED
    BY <2>1, <2>2 DEF Stable
<1>2. PICK d \in Changed(old, new) : c \in ClosedWith[d]
  BY DEF Closing
<1>3. d \in rest
  BY <1>2, ClosingHolds
<1>4. d \in Components
  BY <1>3, ClosingHolds
<1> QED
  BY <1>1, <1>2, <1>3, <1>4 DEF ClosedWith

-----------------------------------------------------------------------------
(* What the comparison sees.                                               *)

\* A component that is not closed is given the parameters of the new
\* configuration, but those that are not compared.
LEMMA KeptIsCurrent ==
  ASSUME NEW old, NEW new, NEW c \in Components, c \notin Changed(old, new),
         NEW p \in Uses[c], <<c, p>> \notin Reloaded \cup NotCompared
  PROVE  old[p] = new[p]
<1>1. p \in Parameters /\ p \in ComparedBy[c]
  BY UsesKnown DEF ComparedBy
<1>2. p \notin Altered(old, new)
  BY <1>1 DEF Changed
<1> QED
  BY <1>1, <1>2 DEF Altered, Differs

\* It is wanted as much as before.
LEMMA KeptIsWanted ==
  ASSUME NEW old, NEW new, NEW c \in Components, c \notin Changed(old, new)
  PROVE  Wanted(c, old) <=> Wanted(c, new)
<1>1. CASE c = "recordCleaner"
  BY <1>1 DEF Wanted, Changed, Toggled
<1>2. CASE c \in {"metrics", "pprof", "api"}
  <2>1. c \in Uses[c] /\ <<c, c>> \notin Reloaded \cup NotCompared
    BY <1>2 DEF Uses, Reloaded, NotCompared
  <2> QED
    BY <1>2, <2>1, KeptIsCurrent DEF Wanted
<1>3. CASE c = "playbackServer"
  <2>1. "playback" \in Uses[c] /\ <<c, "playback">> \notin Reloaded \cup NotCompared
    BY <1>3 DEF Uses, Reloaded, NotCompared
  <2> QED
    BY <1>3, <2>1, KeptIsCurrent DEF Wanted
<1>4. CASE c \in {"rtspServer", "rtspsServer"}
  <2>1. \A p \in {"rtsp", "rtspEncryption"} :
          p \in Uses[c] /\ <<c, p>> \notin Reloaded \cup NotCompared
    BY <1>4 DEF Uses, RTSPShared, Reloaded, NotCompared
  <2>2. old["rtsp"] = new["rtsp"] /\ old["rtspEncryption"] = new["rtspEncryption"]
    BY <2>1, KeptIsCurrent
  <2> QED
    BY <1>4, <2>2 DEF Wanted
<1>5. CASE c \in {"rtmpServer", "rtmpsServer"}
  <2>1. \A p \in {"rtmp", "rtmpEncryption"} :
          p \in Uses[c] /\ <<c, p>> \notin Reloaded \cup NotCompared
    BY <1>5 DEF Uses, RTMPShared, Reloaded, NotCompared
  <2>2. old["rtmp"] = new["rtmp"] /\ old["rtmpEncryption"] = new["rtmpEncryption"]
    BY <2>1, KeptIsCurrent
  <2> QED
    BY <1>5, <2>2 DEF Wanted
<1>6. CASE c \in {"logger", "authManager", "pathManager"}
  BY <1>6 DEF Wanted
<1> QED
  BY <1>1, <1>2, <1>3, <1>4, <1>5, <1>6 DEF Components, Servers

\* These always run.
LEMMA BasicsAreWanted ==
  ASSUME NEW cf PROVE \A c \in {"logger", "authManager", "pathManager"} : Wanted(c, cf)
BY DEF Wanted

\* What a component is given is never mistaken for none.
LEMMA GivenIsNotOff ==
  ASSUME NEW c \in Components, NEW g, DOMAIN g = Uses[c] PROVE g # Off
<1>1. DOMAIN Off = {"off"}
  BY DEF Off
<1> QED
  BY <1>1, UsesKnown, OffIsNoParameter

-----------------------------------------------------------------------------
(* The invariant.                                                          *)

ControlTypes ==
  /\ changes \in 0..MaxChanges
  /\ event \in BOOLEAN /\ recent \in BOOLEAN /\ signal \in BOOLEAN
  /\ core \in {"select", "closing", "creating", "done"}
  /\ cancelled \in BOOLEAN /\ byAPI \in BOOLEAN
  /\ broken \in BOOLEAN /\ interrupt \in BOOLEAN

ConfTypes ==
  /\ file = Invalid \/ IsConf(file)
  /\ IsConf(conf) /\ (newConf = Off \/ IsConf(newConf)) /\ IsConf(apiConf)
  /\ DOMAIN handler = Handlers
  /\ \A h \in Handlers : handler[h] = Off \/ IsConf(handler[h])
  /\ \A c \in posted : IsConf(c)

GivenTypes ==
  /\ \A c \in Running : /\ DOMAIN given[c] = Uses[c]
                        /\ \A p \in Uses[c] : given[c][p] \in Values(p)
  /\ dangling \subseteq Components \X Components

\* Until the core ends, what runs is what the configuration in use asks for, and
\* before it closes something and after it has made something all of that runs.
Loaded == core = "closing" /\ newConf # Off
ComponentsFit ==
  /\ core \in {"select", "creating"} \/ Loaded =>
       /\ \A c \in Running :
            /\ Wanted(c, conf)
            /\ \A p \in Uses[c] : <<c, p>> \notin NotCompared => given[c][p] = conf[p]
       /\ dangling \subseteq {<<"api", "rtmpsServer">>}
  /\ core = "select" \/ Loaded => \A c \in Components : Wanted(c, conf) => c \in Running

CoreInv == ControlTypes /\ ConfTypes /\ GivenTypes /\ ComponentsFit

LEMMA CoreInvImplies == CoreInv => CoreTypeOK /\ ComponentsAreCurrent
<1> SUFFICES ASSUME CoreInv PROVE CoreTypeOK /\ ComponentsAreCurrent
  OBVIOUS
<1>1. CoreTypeOK
  BY DEF CoreInv, ControlTypes, ConfTypes, GivenTypes, CoreTypeOK
<1>2. ComponentsAreCurrent
  BY DEF CoreInv, ComponentsFit, ComponentsAreCurrent, Running
<1> QED
  BY <1>1, <1>2

LEMMA PatchesAreConfs ==
  ASSUME NEW c, IsConf(c), NEW d \in Patches(c) PROVE IsConf(d)
<1>0. PICK p \in Patched : d \in {[c EXCEPT ![p] = v] : v \in Values(p)}
  BY DEF Patches
<1>1. PICK v \in Values(p) : d = [c EXCEPT ![p] = v]
  BY <1>0
<1>2. DOMAIN d = Parameters
  BY <1>1 DEF IsConf
<1>3. \A q \in Parameters : d[q] \in Values(q)
  BY <1>1 DEF IsConf
<1> QED
  BY <1>2, <1>3 DEF IsConf

LEMMA CoreStarts == CoreInit => CoreInv
<1> SUFFICES ASSUME CoreInit PROVE CoreInv
  OBVIOUS
<1>1. IsConf(Initial)
  BY DEF IsConf, Initial, Values, Encryptions, Switches, Parameters
<1>2. \A c \in Components : given[c] = Given(c, Initial) /\ given[c] # Off
  BY GivenIsNotOff DEF CoreInit, Given
<1>3. Running = Components
  BY <1>2 DEF Running
<1>4. \A c \in Components : Wanted(c, Initial)
  BY DEF Wanted, Initial, Components, Servers, Parameters, Switches, Encryptions
<1>5. ControlTypes
  <2>1. changes \in 0..MaxChanges
    BY CoreAssumption DEF CoreInit
  <2> QED
    BY <2>1 DEF CoreInit, ControlTypes
<1>6. ConfTypes
  BY <1>1 DEF CoreInit, ConfTypes
<1>7. \A c \in Components : /\ DOMAIN given[c] = Uses[c]
                            /\ \A p \in Uses[c] : given[c][p] = Initial[p]
  BY <1>2 DEF Given
<1>8. GivenTypes
  BY <1>1, <1>3, <1>7, UsesKnown DEF CoreInit, GivenTypes, IsConf
<1>9. ComponentsFit
  BY <1>3, <1>4, <1>7 DEF CoreInit, ComponentsFit
<1> QED
  BY <1>5, <1>6, <1>8, <1>9 DEF CoreInv

-----------------------------------------------------------------------------
(* The steps.                                                              *)

\* A step that leaves alone what runs and where the core is.
LEMMA OutsideKeeps ==
  ASSUME CoreInv, ControlTypes', ConfTypes', UNCHANGED <<core, conf, newConf, compVars>>
  PROVE  CoreInv'
<1>1. GivenTypes'
  BY DEF CoreInv, GivenTypes, Running, compVars
<1>2. ComponentsFit'
  BY DEF CoreInv, ComponentsFit, Running, compVars, Loaded
<1> QED
  BY <1>1, <1>2 DEF CoreInv

\* The core begins to load a configuration, or ends.
LEMMA LoadsKeeps ==
  ASSUME CoreInv, ControlTypes', ConfTypes', UNCHANGED <<conf, compVars>>,
         core = "select", core' = "closing"
  PROVE  CoreInv'
<1>1. GivenTypes'
  BY DEF CoreInv, GivenTypes, Running, compVars
<1>2. ComponentsFit'
  BY DEF CoreInv, ComponentsFit, Running, compVars, Loaded
<1> QED
  BY <1>1, <1>2 DEF CoreInv

LEMMA FileKeeps ==
  ASSUME CoreInv, WriteFile \/ Watch \/ SecondPasses \/ WatcherFails
  PROVE  CoreInv'
<1>1. CASE WriteFile
  <2>1. ControlTypes'
    BY <1>1, CoreAssumption DEF CoreInv, ControlTypes, WriteFile, stopVars
  <2>2. file' = Invalid \/ IsConf(file')
    BY <1>1, PatchesAreConfs DEF CoreInv, ConfTypes, WriteFile
  <2>3. ConfTypes'
    BY <1>1, <2>2 DEF CoreInv, ConfTypes, WriteFile, stopVars, apiVars
  <2> QED
    BY <1>1, <2>1, <2>3, OutsideKeeps DEF WriteFile
<1>2. CASE Watch \/ SecondPasses
  <2>1. ControlTypes'
    BY <1>2 DEF CoreInv, ControlTypes, Watch, SecondPasses, stopVars
  <2>2. ConfTypes'
    BY <1>2 DEF CoreInv, ConfTypes, Watch, SecondPasses, apiVars
  <2> QED
    BY <1>2, <2>1, <2>2, OutsideKeeps DEF Watch, SecondPasses
<1>3. CASE WatcherFails
  <2>1. ControlTypes'
    <3>1. changes' \in 0..MaxChanges
      BY <1>3, CoreAssumption DEF CoreInv, ControlTypes, WatcherFails
    <3>2. UNCHANGED <<signal, core, cancelled, interrupt, byAPI>>
      BY <1>3 DEF WatcherFails, stopVars, apiVars
    <3>3. broken' = TRUE /\ event' = FALSE /\ recent' = FALSE
      BY <1>3 DEF WatcherFails
    <3> QED
      BY <3>1, <3>2, <3>3 DEF CoreInv, ControlTypes
  <2>2. ConfTypes'
    BY <1>3 DEF CoreInv, ConfTypes, WatcherFails, apiVars
  <2> QED
    BY <1>3, <2>1, <2>2, OutsideKeeps DEF WatcherFails
<1> QED
  BY <1>1, <1>2, <1>3

LEMMA EditKeeps ==
  ASSUME CoreInv, PatchGlobal \/ \E h \in Handlers : EditPaths(h) \/ GiveUp(h)
  PROVE  CoreInv'
<1>1. CASE PatchGlobal
  <2>1. ControlTypes'
    BY <1>1, CoreAssumption DEF CoreInv, ControlTypes, PatchGlobal, fileVars,
       stopVars
  <2>2. IsConf(apiConf')
    BY <1>1, PatchesAreConfs DEF CoreInv, ConfTypes, PatchGlobal
  <2>3. ConfTypes'
    BY <1>1, <2>2 DEF CoreInv, ConfTypes, PatchGlobal, fileVars, stopVars
  <2> QED
    BY <1>1, <2>1, <2>3, OutsideKeeps DEF PatchGlobal
<1>2. ASSUME NEW h \in Handlers, EditPaths(h) PROVE CoreInv'
  <2>1. ControlTypes'
    BY <1>2, CoreAssumption DEF CoreInv, ControlTypes, EditPaths, fileVars,
       stopVars
  <2>2. IsConf(apiConf')
    <3>1. PICK v \in Values("paths") : apiConf' = [apiConf EXCEPT !["paths"] = v]
      BY <1>2 DEF EditPaths
    <3>2. IsConf(apiConf)
      BY DEF CoreInv, ConfTypes
    <3> QED
      BY <3>1, <3>2 DEF IsConf
  <2>3. DOMAIN handler' = Handlers
    BY <1>2 DEF CoreInv, ConfTypes, EditPaths
  <2>4. \A g \in Handlers : handler'[g] = Off \/ IsConf(handler'[g])
    BY <1>2, <2>2 DEF CoreInv, ConfTypes, EditPaths
  <2>5. ConfTypes'
    BY <1>2, <2>2, <2>3, <2>4 DEF CoreInv, ConfTypes, EditPaths, fileVars,
       stopVars
  <2> QED
    BY <1>2, <2>1, <2>5, OutsideKeeps DEF EditPaths
<1>3. ASSUME NEW h \in Handlers, GiveUp(h) PROVE CoreInv'
  <2>1. ControlTypes'
    BY <1>3 DEF CoreInv, ControlTypes, GiveUp, fileVars, stopVars
  <2>2. ConfTypes'
    BY <1>3 DEF CoreInv, ConfTypes, GiveUp, fileVars, stopVars
  <2> QED
    BY <1>3, <2>1, <2>2, OutsideKeeps DEF GiveUp
<1> QED
  BY <1>1, <1>2, <1>3

LEMMA CancelKeeps == ASSUME CoreInv, Cancel \/ Interrupt PROVE CoreInv'
<1>1. ControlTypes'
  BY DEF CoreInv, ControlTypes, Cancel, Interrupt, fileVars
<1>2. ConfTypes'
  BY DEF CoreInv, ConfTypes, Cancel, Interrupt, fileVars, apiVars
<1> QED
  BY <1>1, <1>2, OutsideKeeps DEF Cancel, Interrupt

LEMMA SelectKeeps ==
  ASSUME CoreInv, \/ FileChanged \/ Leave \/ TakeInterrupt
                  \/ \E h \in Handlers : TakeEdit(h)
                  \/ \E c \in posted : TakePosted(c)
  PROVE  CoreInv'
<1>1. CASE FileChanged
  <2>1. ControlTypes' /\ core = "select" /\ core' = "closing"
    BY <1>1 DEF CoreInv, ControlTypes, FileChanged, Loads
  <2>2. newConf' = Off \/ IsConf(newConf')
    BY <1>1 DEF CoreInv, ConfTypes, FileChanged, Loads
  <2>3. ConfTypes'
    BY <1>1, <2>2 DEF CoreInv, ConfTypes, FileChanged, apiVars
  <2> QED
    BY <1>1, <2>1, <2>3, LoadsKeeps DEF FileChanged
<1>2. CASE Leave
  <2>1. ControlTypes' /\ core = "select" /\ core' = "closing"
    BY <1>2 DEF CoreInv, ControlTypes, Leave, Loads, fileVars, stopVars
  <2>2. ConfTypes'
    BY <1>2 DEF CoreInv, ConfTypes, Leave, Loads, apiVars, fileVars, stopVars
  <2> QED
    BY <1>2, <2>1, <2>2, LoadsKeeps DEF Leave
<1>3. ASSUME NEW h \in Handlers, TakeEdit(h) PROVE CoreInv'
  <2>1. ControlTypes' /\ core = "select" /\ core' = "closing"
    BY <1>3 DEF CoreInv, ControlTypes, TakeEdit, Loads, fileVars, stopVars
  <2>2. ConfTypes'
    BY <1>3 DEF CoreInv, ConfTypes, TakeEdit, Loads, fileVars, stopVars
  <2> QED
    BY <1>3, <2>1, <2>2, LoadsKeeps DEF TakeEdit
<1>4. ASSUME NEW c \in posted, TakePosted(c) PROVE CoreInv'
  <2>1. ControlTypes' /\ core = "select" /\ core' = "closing"
    BY <1>4 DEF CoreInv, ControlTypes, TakePosted, Loads, fileVars, stopVars
  <2>2. ConfTypes'
    BY <1>4 DEF CoreInv, ConfTypes, TakePosted, Loads, fileVars, stopVars
  <2> QED
    BY <1>4, <2>1, <2>2, LoadsKeeps DEF TakePosted
<1>5. CASE TakeInterrupt
  <2>1. ControlTypes' /\ core = "select" /\ core' = "closing"
    BY <1>5 DEF CoreInv, ControlTypes, TakeInterrupt, Loads, fileVars
  <2>2. ConfTypes'
    BY <1>5 DEF CoreInv, ConfTypes, TakeInterrupt, Loads, apiVars, fileVars
  <2> QED
    BY <1>5, <2>1, <2>2, LoadsKeeps DEF TakeInterrupt
<1> QED
  BY <1>1, <1>2, <1>3, <1>4, <1>5

LEMMA CreateKeeps == ASSUME CoreInv, CreateResources PROVE CoreInv'
<1>1. /\ core = "creating" /\ core' = "select"
      /\ given' = [c \in Components |->
           IF given[c] = Off /\ Wanted(c, conf) THEN Given(c, conf) ELSE given[c]]
      /\ conf' = conf /\ newConf' = newConf /\ dangling' = dangling
  BY DEF CreateResources
<1>2. ControlTypes'
  BY DEF CoreInv, ControlTypes, CreateResources, fileVars, stopVars
<1>3. ConfTypes'
  BY DEF CoreInv, ConfTypes, CreateResources, fileVars, stopVars
<1>4. \A c \in Components : DOMAIN Given(c, conf) = Uses[c] /\ Given(c, conf) # Off
  BY GivenIsNotOff DEF Given
<1>5. \A c \in Components : c \in Running => given'[c] = given[c] /\ c \in Running'
  BY <1>1 DEF Running
<1>6. \A c \in Components \ Running : Wanted(c, conf) =>
        given'[c] = Given(c, conf) /\ c \in Running'
  BY <1>1, <1>4 DEF Running
<1>7. \A c \in Components \ Running : ~Wanted(c, conf) => c \notin Running'
  BY <1>1 DEF Running
<1>8. Running \subseteq Components /\ Running' \subseteq Components
  BY DEF Running
<1>9. GivenTypes'
  <2>1. ASSUME NEW c \in Running'
        PROVE  DOMAIN given'[c] = Uses[c] /\ \A p \in Uses[c] : given'[c][p] \in Values(p)
    <3>1. CASE c \in Running
      BY <1>5, <1>8, <3>1 DEF CoreInv, GivenTypes
    <3>2. CASE c \notin Running
      <4>1. given'[c] = Given(c, conf)
        BY <1>6, <1>7, <1>8, <3>2
      <4>2. \A p \in Uses[c] : conf[p] \in Values(p)
        BY <1>8, UsesKnown DEF CoreInv, ConfTypes, IsConf
      <4> QED
        BY <4>1, <4>2 DEF Given
    <3> QED
      BY <3>1, <3>2
  <2> QED
    BY <1>1, <2>1 DEF CoreInv, GivenTypes
<1>10. ComponentsFit'
  <2>1. ASSUME NEW c \in Running'
        PROVE  /\ Wanted(c, conf)
               /\ \A p \in Uses[c] : <<c, p>> \notin NotCompared => given'[c][p] = conf[p]
    <3>1. CASE c \in Running
      BY <1>1, <1>5, <1>8, <3>1 DEF CoreInv, ComponentsFit
    <3>2. CASE c \notin Running
      <4>1. given'[c] = Given(c, conf) /\ Wanted(c, conf)
        BY <1>6, <1>7, <1>8, <3>2
      <4>2. \A p \in Uses[c] : Given(c, conf)[p] = conf[p]
        BY DEF Given
      <4> QED
        BY <4>1, <4>2
    <3> QED
      BY <3>1, <3>2
  <2>2. \A c \in Components : Wanted(c, conf) => c \in Running'
    BY <1>5, <1>6
  <2> QED
    BY <1>1, <2>1, <2>2 DEF CoreInv, ComponentsFit, Loaded
<1> QED
  BY <1>2, <1>3, <1>9, <1>10 DEF CoreInv

LEMMA CreateFailsKeeps == ASSUME CoreInv, CreateFails PROVE CoreInv'
<1> DEFINE missing == {i \in DOMAIN Order : given[Order[i]] = Off /\ Wanted(Order[i], conf)}
<1>1. PICK i \in missing :
        given' = [c \in Components |->
          IF \E j \in missing : j < i /\ Order[j] = c THEN Given(c, conf) ELSE given[c]]
  BY DEF CreateFails
<1>2. core' = "closing" /\ newConf' = Off /\ byAPI' = FALSE /\ cancelled' = TRUE
  BY DEF CreateFails, Loads
<1>3. ControlTypes'
  BY <1>2 DEF CoreInv, ControlTypes, CreateFails, fileVars, stopVars
<1>4. ConfTypes'
  BY <1>2 DEF CoreInv, ConfTypes, CreateFails, fileVars, stopVars, apiVars
<1>5. GivenTypes'
  <2>1. ASSUME NEW c \in Running'
        PROVE  DOMAIN given'[c] = Uses[c] /\ \A p \in Uses[c] : given'[c][p] \in Values(p)
    <3>1. c \in Components /\ given'[c] # Off
      BY <2>1 DEF Running
    <3>2. given'[c] = Given(c, conf) \/ given'[c] = given[c]
      BY <1>1, <3>1
    <3>3. \A p \in Uses[c] : conf[p] \in Values(p)
      BY <3>1, UsesKnown DEF CoreInv, ConfTypes, IsConf
    <3>4. given'[c] = given[c] => c \in Running
      BY <3>1 DEF Running
    <3> QED
      BY <3>2, <3>3, <3>4 DEF Given, CoreInv, GivenTypes
  <2>2. dangling' = dangling
    BY DEF CreateFails
  <2> QED
    BY <2>1, <2>2 DEF CoreInv, GivenTypes
<1>6. ComponentsFit'
  BY <1>2 DEF ComponentsFit, Loaded
<1> QED
  BY <1>3, <1>4, <1>5, <1>6 DEF CoreInv

-----------------------------------------------------------------------------
(* closeResources.                                                         *)

\* What is kept runs on, with the parameters that are reloaded; the others stop.
LEMMA KeptRuns ==
  ASSUME NEW kept, kept \subseteq Running,
         given' = [c \in Components |->
           IF c \notin kept THEN Off
           ELSE [p \in Uses[c] |-> IF <<c, p>> \in Reloaded THEN newConf[p] ELSE given[c][p]]]
  PROVE  /\ Running' = kept
         /\ \A c \in kept : DOMAIN given'[c] = Uses[c]
         /\ \A c \in kept : \A p \in Uses[c] :
              given'[c][p] = IF <<c, p>> \in Reloaded THEN newConf[p] ELSE given[c][p]
         /\ \A c \in Components : given'[c] = Off <=> c \notin kept
<1>1. kept \subseteq Components
  BY DEF Running
<1>2. \A c \in kept : DOMAIN given'[c] = Uses[c] /\ given'[c] # Off
  BY <1>1, GivenIsNotOff
<1>3. \A c \in kept : \A p \in Uses[c] :
        given'[c][p] = IF <<c, p>> \in Reloaded THEN newConf[p] ELSE given[c][p]
  BY <1>1
<1>4. \A c \in Components : given'[c] = Off <=> c \notin kept
  BY <1>2
<1>5. Running' = kept
  BY <1>1, <1>4 DEF Running
<1> QED
  BY <1>2, <1>3, <1>4, <1>5

LEMMA CloseKeeps == ASSUME CoreInv, CloseResources PROVE CoreInv'
<1>1. PICK kept :
        /\ kept = IF newConf = Off THEN {} ELSE Running \ Closing(conf, newConf)
        /\ apiConf' = IF "api" \in kept /\ ~byAPI THEN newConf ELSE apiConf
        /\ given' = [c \in Components |->
             IF c \notin kept THEN Off
             ELSE [p \in Uses[c] |-> IF <<c, p>> \in Reloaded THEN newConf[p]
                                     ELSE given[c][p]]]
        /\ dangling' = {d \in dangling \cup (kept \X (Running \ kept)) :
                          d[1] \in kept /\ d[2] \in Refers[d[1]]}
  BY DEF CloseResources, Kept
<1>2. /\ core = "closing" /\ newConf' = Off
      /\ newConf = Off => core' = "done" /\ conf' = conf
      /\ newConf # Off => core' = "creating" /\ conf' = newConf
  BY DEF CloseResources
<1>3. ControlTypes'
  BY <1>2 DEF CoreInv, ControlTypes, CloseResources, stopVars
<1>4. ConfTypes'
  <2>1. IsConf(conf') /\ IsConf(apiConf')
    BY <1>1, <1>2 DEF CoreInv, ConfTypes
  <2> QED
    BY <1>2, <2>1 DEF CoreInv, ConfTypes, CloseResources
<1>5. kept \subseteq Running /\ kept \subseteq Components
  BY <1>1 DEF Running
<1>6. /\ Running' = kept
      /\ \A c \in kept : DOMAIN given'[c] = Uses[c]
      /\ \A c \in kept : \A p \in Uses[c] :
           given'[c][p] = IF <<c, p>> \in Reloaded THEN newConf[p] ELSE given[c][p]
  <2>1. given' = [c \in Components |->
             IF c \notin kept THEN Off
             ELSE [p \in Uses[c] |-> IF <<c, p>> \in Reloaded THEN newConf[p]
                                     ELSE given[c][p]]]
    BY <1>1
  <2> QED
    BY <1>5, <2>1, KeptRuns, Zenon
<1>7. newConf # Off => IsConf(newConf)
  BY DEF CoreInv, ConfTypes
<1>8. GivenTypes'
  <2>1. ASSUME NEW c \in kept, NEW p \in Uses[c] PROVE given'[c][p] \in Values(p)
    BY <1>1, <1>5, <1>6, <1>7, <2>1, UsesKnown DEF CoreInv, GivenTypes, IsConf
  <2>2. dangling' \subseteq Components \X Components
    BY <1>1, <1>5 DEF CoreInv, GivenTypes, Running
  <2> QED
    BY <1>6, <2>1, <2>2 DEF GivenTypes
<1>9. ASSUME newConf # Off, NEW c \in kept
      PROVE  /\ Wanted(c, newConf)
             /\ \A p \in Uses[c] : <<c, p>> \notin NotCompared => given'[c][p] = newConf[p]
  <2>1. c \in Components /\ c \in Running /\ c \notin Changed(conf, newConf)
    BY <1>1, <1>5, <1>9, ClosingHolds
  <2>2. Wanted(c, conf)
    BY <1>2, <1>9, <2>1 DEF CoreInv, ComponentsFit, Loaded
  <2>3. Wanted(c, newConf)
    BY <2>1, <2>2, KeptIsWanted
  <2>4. ASSUME NEW p \in Uses[c], <<c, p>> \notin NotCompared, <<c, p>> \notin Reloaded
        PROVE  given'[c][p] = newConf[p]
    <3>1. given[c][p] = conf[p]
      BY <1>2, <1>9, <2>1, <2>4 DEF CoreInv, ComponentsFit, Loaded
    <3>2. conf[p] = newConf[p]
      BY <2>1, <2>4, KeptIsCurrent
    <3> QED
      BY <1>6, <2>4, <3>1, <3>2
  <2> QED
    BY <1>6, <2>3, <2>4
<1>10. newConf # Off => dangling' \subseteq {<<"api", "rtmpsServer">>}
  <2> SUFFICES ASSUME newConf # Off, NEW d \in dangling'
               PROVE  d = <<"api", "rtmpsServer">>
    OBVIOUS
  <2>1. d \in dangling \cup (kept \X (Running \ kept)) /\ d[1] \in kept /\ d[2] \in Refers[d[1]]
    BY <1>1
  <2>2. CASE d \in dangling
    BY <1>2, <2>2 DEF CoreInv, ComponentsFit, Loaded
  <2>3. CASE d \in kept \X (Running \ kept)
    <3>1. PICK c \in kept, r \in Running \ kept : d = <<c, r>>
      BY <2>3
    <3>2. r \in Refers[c] /\ c \in Components
      BY <1>5, <2>1, <3>1
    <3>3. r \in Closing(conf, newConf) /\ c \notin Closing(conf, newConf)
      BY <1>1, <3>1
    <3>4. r \notin After[c]
      BY <3>2, <3>3, ClosingSpreads
    <3>5. r = "rtmpsServer" /\ c = "api"
      BY <3>2, <3>4, AfterIs, RefersBelow
    <3> QED
      BY <3>1, <3>5
  <2> QED
    BY <2>1, <2>2, <2>3
<1>11. ComponentsFit'
  BY <1>2, <1>6, <1>9, <1>10 DEF ComponentsFit, Loaded
<1> QED
  BY <1>3, <1>4, <1>8, <1>11 DEF CoreInv

LEMMA CoreInvStep == ASSUME CoreInv, [CoreNext]_coreVars PROVE CoreInv'
<1>1. CASE UNCHANGED coreVars
  <2>1. ControlTypes' /\ ConfTypes'
    BY <1>1 DEF CoreInv, ControlTypes, ConfTypes, coreVars, fileVars,
       stopVars, apiVars
  <2> QED
    BY <1>1, <2>1, OutsideKeeps DEF coreVars
<1>2. CASE CoreNext
  BY <1>2, FileKeeps, EditKeeps, CancelKeeps, SelectKeeps, CreateKeeps,
     CreateFailsKeeps, CloseKeeps DEF CoreNext, CoreStep
<1> QED
  BY <1>1, <1>2

\* A component that is not even compared is the record cleaner.
LEMMA ChangedHasCause ==
  ASSUME CoreInv, IsConf(newConf), newConf.rtspUDPReadBufferSize = 0,
         NEW c \in Changed(conf, newConf)
  PROVE  \/ \E p \in Uses[c] : newConf[p] # conf[p] /\ <<c, p>> \notin Reloaded
         \/ c = "recordCleaner" /\ (conf.paths = 0) # (newConf.paths = 0)
<1>1. CASE c \in Toggled(conf, newConf)
  BY <1>1 DEF Toggled
<1>2. CASE c \notin Toggled(conf, newConf)
  <2>1. c \in Components /\ ComparedBy[c] \cap Altered(conf, newConf) # {}
    BY <1>2 DEF Changed
  <2>2. PICK p \in ComparedBy[c] : p \in Altered(conf, newConf)
    BY <2>1
  <2>3. p \in Uses[c] /\ <<c, p>> \notin Reloaded
    BY <2>1, <2>2 DEF ComparedBy
  <2>4. newConf[p] # conf[p]
    BY <2>2 DEF Altered, Differs
  <2> QED
    BY <2>3, <2>4
<1> QED
  BY <1>1, <1>2

\* What closes a component in use, other than a parameter of its own.
LEMMA ClosedHasCause ==
  ASSUME CoreInv, CloseResources, newConf # Off, newConf.rtspUDPReadBufferSize = 0,
         NEW c \in Running, given'[c] = Off
  PROVE  \/ \E p \in Uses[c] : newConf[p] # conf[p] /\ <<c, p>> \notin Reloaded
         \/ \E r \in Refers[c] \cup {"logger"} :
              /\ given'[r] = Off
              /\ \/ r \in Running \/ Wanted(r, newConf)
                 \/ \E p \in Uses[r] : newConf[p] # conf[p]
         \/ ~Wanted(c, newConf)
<1> DEFINE kept == Running \ Closing(conf, newConf)
<1>1. /\ core = "closing" /\ IsConf(newConf) /\ Loaded
      /\ given' = [d \in Components |->
           IF d \notin kept THEN Off
           ELSE [p \in Uses[d] |-> IF <<d, p>> \in Reloaded THEN newConf[p]
                                   ELSE given[d][p]]]
  BY DEF CloseResources, Kept, CoreInv, ConfTypes, Loaded
<1>2. kept \subseteq Running
  OBVIOUS
<1>3. \A d \in Components : given'[d] = Off <=> d \notin kept
  <2> HIDE DEF kept
  <2> QED
    BY <1>1, <1>2, KeptRuns, Zenon
<1>4. c \in Components /\ c \in Closing(conf, newConf)
  BY <1>3 DEF Running
<1>5. Running \subseteq Components /\ \A d \in Components : Wanted(d, conf) => d \in Running
  BY <1>1 DEF CoreInv, ComponentsFit, Running
<1>6. {"logger", "authManager", "pathManager"} \subseteq Running
  BY <1>5, BasicsAreWanted DEF Components
<1>7. \A d \in Closing(conf, newConf) : d \in Components /\ given'[d] = Off
  BY <1>3, ClosingHolds
<1>8. CASE c \in Changed(conf, newConf)
  <2>1. CASE c = "recordCleaner" /\ (conf.paths = 0) # (newConf.paths = 0)
    <3>1. conf.paths # 0
      BY <1>1, <2>1 DEF CoreInv, ComponentsFit, Wanted
    <3> QED
      BY <2>1, <3>1 DEF Wanted
  <2> QED
    BY <1>1, <1>8, <2>1, ChangedHasCause
<1>9. CASE c \notin Changed(conf, newConf)
  <2>1. PICK r \in After[c] : r \in Closing(conf, newConf)
    BY <1>4, <1>9, ClosingHasCause
  <2>2. r \in (Refers[c] \ {"rtmpsServer"}) \cup {"logger"} /\ r \in Components
        /\ given'[r] = Off
    BY <1>4, <1>7, <2>1, AfterIs
  <2>3. CASE r \in Running
    BY <2>2, <2>3
  <2>4. CASE r \notin Running /\ r \in Changed(conf, newConf)
    <3>1. r # "recordCleaner"
      BY <1>4, <2>2, RefersBelow DEF Servers
    <3>2. \E p \in Uses[r] : newConf[p] # conf[p] /\ <<r, p>> \notin Reloaded
      BY <1>1, <2>4, <3>1, ChangedHasCause
    <3> QED
      BY <2>2, <3>2
  <2>5. CASE r \notin Running /\ r \notin Changed(conf, newConf)
    <3>1. PICK s \in After[r] : s \in Closing(conf, newConf)
      BY <2>1, <2>5, ClosingHasCause
    <3>2. r \in Refers[c] /\ r # "rtmpsServer" /\ r \in Servers \cup {"metrics"}
      BY <1>4, <1>6, <2>2, <2>5, RefersBelow
    <3>3. s \in Refers[r] \cup {"logger"} /\ given'[s] = Off
      BY <1>7, <2>2, <3>1, AfterIs
    <3>4. CASE s = "logger"
      BY <1>6, <3>3, <3>4
    <3>5. CASE r = "metrics" /\ s # "logger"
      <4>1. s = "authManager"
        BY <3>3, <3>5, RefersOf
      <4>2. CASE c = "pathManager"
        BY <1>6, <3>3, <4>1, <4>2, RefersOf
      <4>3. CASE c \in Servers
        <5>1. After["pathManager"] \cap Closing(conf, newConf) # {}
          BY <3>1, <4>1, AfterIs, RefersOf DEF Components
        <5>2. "pathManager" \in Closing(conf, newConf)
          BY <5>1, ClosingSpreads DEF Components
        <5> QED
          BY <1>6, <1>7, <4>3, <5>2, RefersOf
      <4> QED
        BY <1>4, <3>2, <3>5, <4>2, <4>3, RefersBelow
    <3>6. CASE r \in Servers /\ s # "logger"
      <4>1. c = "api" /\ s \in {"metrics", "pathManager"}
        BY <1>4, <3>2, <3>3, <3>6, RefersBelow, RefersOf
      <4>2. "pathManager" \in Closing(conf, newConf)
        <5>1. CASE s = "metrics"
          <6>1. After["pathManager"] \cap Closing(conf, newConf) # {}
            BY <3>1, <5>1, AfterIs, RefersOf DEF Components
          <6> QED
            BY <6>1, ClosingSpreads DEF Components
        <5> QED
          BY <3>1, <4>1, <5>1
      <4> QED
        BY <1>6, <1>7, <4>1, <4>2, RefersOf
    <3> QED
      BY <3>2, <3>4, <3>5, <3>6
  <2> QED
    BY <2>3, <2>4, <2>5
<1> QED
  BY <1>8, <1>9

LEMMA OnlyAffectedStep ==
  ASSUME CoreInv, [CoreNext]_coreVars, core = "closing", newConf # Off,
         newConf.rtspUDPReadBufferSize = 0, NEW c \in Running, given'[c] = Off
  PROVE  \/ \E p \in Uses[c] : newConf[p] # conf[p] /\ <<c, p>> \notin Reloaded
         \/ \E r \in Refers[c] \cup {"logger"} :
              /\ given'[r] = Off
              /\ \/ r \in Running \/ Wanted(r, newConf)
                 \/ \E p \in Uses[r] : newConf[p] # conf[p]
         \/ ~Wanted(c, newConf)
<1>1. given[c] # Off
  BY DEF Running
<1>2. CloseResources
  BY <1>1 DEF CoreNext, CoreStep, coreVars, compVars, WriteFile, Watch,
     SecondPasses, WatcherFails, PatchGlobal, Cancel, Interrupt,
     TakeInterrupt, FileChanged, Leave, CreateResources, CreateFails,
     TakeEdit, TakePosted, EditPaths, GiveUp
<1> QED
  BY <1>2, ClosedHasCause

\* What core.go keeps about every configuration and its changes is of its kind.
THEOREM CoreTypeCorrect == CoreSpec => []CoreTypeOK
<1>1. CoreInv => CoreTypeOK
  BY CoreInvImplies
<1> QED
  BY <1>1, CoreStarts, CoreInvStep, PTL DEF CoreSpec

\* A reload brings about what the configuration asks for and restarts nothing
\* without cause, whichever parameters are changed, how often and by how many
\* requests, and whatever fails in between.
THEOREM ReloadsCorrect == CoreSpec => ReloadsAgree
<1>1. CoreInv => ComponentsAreCurrent
  BY CoreInvImplies
<1>2. CoreInv /\ [CoreNext]_coreVars => CoreInv'
  BY CoreInvStep
<1>3. CoreInv' => ComponentsAreCurrent'
  BY <1>1, PTL
<1>4. CoreInv /\ [CoreNext]_coreVars =>
        (core = "closing" /\ newConf # Off /\ newConf.rtspUDPReadBufferSize = 0 =>
         \A c \in Running :
           given'[c] = Off =>
             \/ \E p \in Uses[c] : newConf[p] # conf[p] /\ <<c, p>> \notin Reloaded
             \/ \E r \in Refers[c] \cup {"logger"} :
                  /\ given'[r] = Off
                  /\ \/ r \in Running \/ Wanted(r, newConf)
                     \/ \E p \in Uses[r] : newConf[p] # conf[p]
             \/ ~Wanted(c, newConf))
  BY OnlyAffectedStep
<1>5. CoreSpec => []CoreInv
  BY CoreStarts, <1>2, PTL DEF CoreSpec
<1>6. CoreSpec => ComponentsAreCurrent
  BY CoreStarts, <1>1 DEF CoreSpec
<1>7. CoreSpec => [][ComponentsAreCurrent']_coreVars
  BY <1>1, <1>2, <1>5, PTL DEF CoreSpec
<1>8. CoreSpec => OnlyAffectedAreClosed
  BY <1>4, <1>5, PTL DEF CoreSpec, OnlyAffectedAreClosed
<1> QED
  BY <1>6, <1>7, <1>8 DEF ReloadsAgree

=============================================================================
